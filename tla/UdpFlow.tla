------------------------------- MODULE UdpFlow -------------------------------
(***************************************************************************)
(* The demultiplexer of one shared UDP socket (internal/udpflow): a Source *)
(* whose Run goroutine reads the socket, routes each datagram by its flow  *)
(* ID into a flow's bounded inbox, and creates a flow for a valid first    *)
(* datagram (H1) when the quotas allow it; the flows' readers; and the     *)
(* end: Stop, Abort, a permanent read error, an abandoned read.            *)
(*                                                                         *)
(* Source.mu and Flow.mu are two locks: a step holds one of them.  The     *)
(* arriving datagrams are the plan's, in its order.  A buffer costs one    *)
(* unit of the Budget.  The hand-over of a parked read's buffers to the    *)
(* idle release is one step here; its protocol is module DepthReader's.    *)
(* Writes through the socket change nothing here and are left out.         *)
(***************************************************************************)
EXTENDS Integers, Sequences, SequencesExt, FiniteSets, FiniteSetsExt

CONSTANTS FlowMax,     \* flow objects of a behaviour
          MaxFlows,    \* Limits.MaxFlows
          Quota,       \* Limits.PerSource and PerSourceJoin
          Inbox,       \* Limits.Inbox
          Reserve,     \* reserveBufs
          Tombs,       \* Limits.Tombstones
          FlowPlans    \* [owned, depth, budget, pkts, may]: see splan

VARIABLES splan,  \* owned: rendr's own socket, read up to depth datagrams at a
                  \* time; the Budget's limit; the datagrams that arrive, each
                  \* [id, kind, ip]; the troubles; never changes
          arr,    \* datagrams that arrived
          src,    \* Source: table, counts, tombstones, lifecycle
          demux,  \* the Run goroutine
          flow,   \* the flow objects, with their carriers' readers
          bud     \* what the Budget has given out

flowVars == <<splan, arr, src, demux, flow, bud>>

Obj == 1..FlowMax
May(x) == x \in splan.may
Ids == {splan.pkts[i].id : i \in DOMAIN splan.pkts}
Ips == {splan.pkts[i].ip : i \in DOMAIN splan.pkts}
Class == {"open", "join"}

\* newFlow; st: "none", "made" (not handed over), "live", "closed" (Close
\* began), "gone" (removed); rd: the carrier's reader
NewFlow == [st |-> "none", id |-> 0, ip |-> 0, cls |-> "open", adm |-> FALSE, inbox |-> <<>>, held |-> <<>>,
            peer |-> 0, cand |-> 0, waiting |-> FALSE, tok |-> FALSE, expired |-> FALSE, rd |-> "idle"]

FInit ==
    /\ splan \in FlowPlans
    /\ arr = 0
    /\ src = [flows |-> [i \in Ids |-> 0], perIP |-> [p \in Ips |-> [c \in Class |-> 0]], tq |-> <<>>,
              stopped |-> FALSE, killed |-> FALSE, closing |-> FALSE, sockDone |-> FALSE,
              run |-> "idle", done |-> FALSE, made |-> 0]
    /\ demux = [pc |-> "start", got |-> <<>>, ext |-> 0, shed |-> FALSE, f |-> 0, touched |-> {}]
    /\ flow = [f \in Obj |-> NewFlow]
    /\ bud = 0

-----------------------------------------------------------------------------
(* Source: steps under Source.mu                                           *)

Table(s) == {s.flows[i] : i \in Ids} \ {0}

\* checkDoneLocked
CheckDone(s) == [s EXCEPT !.done = @ \/ (s.sockDone /\ Table(s) = {} /\ s.run \in {"exited", "abandoned"})]

\* closeSocketLocked
CloseSocket(s) == [s EXCEPT !.closing = TRUE]

\* wakeLocked
Woken(x) == IF x.waiting THEN [x EXCEPT !.waiting = FALSE, !.tok = TRUE] ELSE x

\* killLocked
Kill(s) == [s  |-> [s EXCEPT !.stopped = TRUE, !.killed = TRUE],
            fl |-> [f \in Obj |-> IF ~s.killed /\ f \in Table(s) THEN Woken(flow[f]) ELSE flow[f]]]

Run == /\ demux.pc = "start" /\ src.run = "idle"
       /\ src' = [src EXCEPT !.run = "running"]
       /\ demux' = [demux EXCEPT !.pc = "fill"]
       /\ UNCHANGED <<splan, arr, flow, bud>>

Stop == /\ May("stop") /\ ~src.stopped
        /\ LET s == [src EXCEPT !.stopped = TRUE]
           IN  src' = IF Table(s) = {} THEN CloseSocket(s) ELSE s
        /\ UNCHANGED <<splan, arr, demux, flow, bud>>

Abort == /\ May("abort") /\ ~src.closing
         /\ src' = CloseSocket(Kill(src).s)
         /\ flow' = Kill(src).fl
         /\ UNCHANGED <<splan, arr, demux, bud>>

\* closeSocket and sockClosed: the socket's Close returned or was abandoned
SockClosed == /\ src.closing /\ ~src.sockDone
              /\ src' = CheckDone([src EXCEPT !.sockDone = TRUE])
              /\ UNCHANGED <<splan, arr, demux, flow, bud>>

\* runStuck: the read ignored the close for AbandonWait
RunStuck == /\ May("stuck") /\ src.closing /\ src.run = "running" /\ demux.pc # "start"
            /\ src' = CheckDone([src EXCEPT !.run = "abandoned"])
            /\ UNCHANGED <<splan, arr, demux, flow, bud>>

\* The oldest tombstone's TombstoneTTL passes (forgetTombLocked)
TombExpires == /\ May("expire") /\ src.tq # <<>>
               /\ src' = [src EXCEPT !.tq = Tail(@)]
               /\ UNCHANGED <<splan, arr, demux, flow, bud>>

\* addTombLocked
AddTomb(s, i) == [s EXCEPT !.tq = Append(IF Len(@) >= Tombs THEN Tail(@) ELSE @, i)]

\* unadmitLocked, if the flow is still counted
Unadmit(s, x) == IF x.adm THEN [s EXCEPT !.perIP[x.ip][x.cls] = @ - 1] ELSE s

\* Mutant: the last flow's removal does not look whether the source is done
Removed_NoCheck(f) ==
    LET x == flow[f]
        d == IF src.flows[x.id] = f THEN AddTomb([src EXCEPT !.flows[x.id] = 0], x.id) ELSE src
        u == Unadmit(d, x)
    IN  IF u.stopped /\ Table(u) = {} THEN CloseSocket(u) ELSE u

\* remove: the source after it
Removed(f) ==
    LET x == flow[f]
        d == IF src.flows[x.id] = f THEN AddTomb([src EXCEPT !.flows[x.id] = 0], x.id) ELSE src
        u == Unadmit(d, x)
    IN  CheckDone(IF u.stopped /\ Table(u) = {} THEN CloseSocket(u) ELSE u)

-----------------------------------------------------------------------------
(* The Run goroutine                                                       *)

\* fill and hold, then the read parks: rendr's own socket is read into slot
\* 0, which is not charged, and as many charged extras as the Budget gives;
\* after an idle release, at depth 1 until a datagram came
Fill ==
    LET want == IF splan.owned /\ ~demux.shed THEN splan.depth - 1 ELSE 0
        ext  == Min({want, demux.ext + splan.budget - bud})
    IN  /\ demux.pc = "fill"
        /\ IF src.closing THEN demux' = [demux EXCEPT !.pc = "exit"] /\ UNCHANGED bud
           ELSE /\ demux' = [demux EXCEPT !.pc = "parked", !.ext = ext]
                /\ bud' = bud + ext - demux.ext
        /\ UNCHANGED <<splan, arr, src, flow>>

\* idleFire: the extras of a read that stayed parked go back
IdleFires ==
    /\ May("idle") /\ demux.pc = "parked" /\ demux.ext > 0
    /\ demux' = [demux EXCEPT !.ext = 0, !.shed = TRUE]
    /\ bud' = bud - demux.ext
    /\ UNCHANGED <<splan, arr, src, flow>>

\* readOwned, and loopForeign's read: k datagrams; noise and truncated ones
\* are datagrams of kind "junk"
ReadBatch ==
    /\ demux.pc = "parked" /\ ~src.sockDone
    /\ \E k \in 1..(demux.ext + 1) :
          /\ arr + k <= Len(splan.pkts)
          /\ arr' = arr + k
          /\ demux' = [demux EXCEPT !.pc = "route", !.shed = FALSE, !.got = [i \in 1..k |-> [p |-> arr + i, slot |-> i - 1]]]
    /\ UNCHANGED <<splan, src, flow, bud>>

\* The socket was closed, or fails for good
ReadFails ==
    /\ demux.pc = "parked" /\ (src.closing \/ May("fails"))
    /\ demux' = [demux EXCEPT !.pc = "exit"]
    /\ UNCHANGED <<splan, arr, src, flow, bud>>

\* reader.exit: its buffers go back, the touched flows are woken, and the
\* source ends
Exit ==
    LET K == Kill(src)
    IN  /\ demux.pc = "exit"
        /\ demux' = [demux EXCEPT !.pc = "over", !.ext = 0]
        /\ bud' = bud - demux.ext
        /\ src' = CheckDone([CloseSocket(K.s) EXCEPT !.run = "exited"])
        /\ flow' = K.fl
        /\ UNCHANGED <<splan, arr>>

Pkt == splan.pkts[demux.got[1].p]

\* This datagram is done; took: its slot went to an inbox.  slot 0 has no
\* charge of its own
Next1(r, took) == [r EXCEPT !.got = Tail(@), !.pc = IF Len(demux.got) = 1 THEN "wake" ELSE "route", !.f = 0,
                            !.ext = IF took /\ demux.got[1].slot > 0 THEN @ - 1 ELSE @]

\* route: the flow is looked up
Route ==
    /\ demux.pc = "route"
    /\ demux' = IF Pkt.kind = "junk" THEN Next1(demux, FALSE)
              ELSE IF src.flows[Pkt.id] # 0 THEN [demux EXCEPT !.pc = "deliver", !.f = src.flows[Pkt.id]]
              ELSE IF Pkt.kind \in Class THEN [demux EXCEPT !.pc = "admit"]
              ELSE Next1(demux, FALSE)
    /\ UNCHANGED <<splan, arr, src, flow, bud>>

\* The buffer a datagram gets: its slot's charge, one taken now (slot 0, or
\* a copy), else a control reserve buffer unless it carries a DGRAM
Buffer(f) ==
    IF demux.got[1].slot > 0 THEN "slot" ELSE IF bud < splan.budget THEN "budget"
    ELSE IF Pkt.kind # "dgram" /\ Cardinality({i \in DOMAIN (flow[f].inbox \o flow[f].held) :
                                   (flow[f].inbox \o flow[f].held)[i].reserve}) < Reserve THEN "reserve" ELSE "none"

\* deliver, push and pushReserve on flow f
Deliver ==
    LET f    == demux.f
        buf  == Buffer(f)
        room == flow[f].st \in {"made", "live"} /\ Len(flow[f].inbox) < Inbox /\ buf # "none"
        e    == [ip |-> Pkt.ip, reserve |-> buf = "reserve"]
    IN  /\ demux.pc = "deliver"
        /\ IF room
           THEN /\ flow' = [flow EXCEPT ![f].inbox = Append(@, e)]
                /\ demux' = Next1([demux EXCEPT !.touched = @ \cup {f}], buf = "slot")
                /\ bud' = IF buf = "budget" THEN bud + 1 ELSE bud
           ELSE demux' = Next1(demux, FALSE) /\ UNCHANGED <<flow, bud>>
        /\ UNCHANGED <<splan, arr, src>>

\* admitH1: stopped, tombstoned, over a quota, or a new flow.  Stateless
\* answers are left out
Admit ==
    LET f  == src.made + 1
        ok == /\ ~src.stopped /\ ~Contains(src.tq, Pkt.id) /\ Cardinality(Table(src)) < MaxFlows
              /\ src.perIP[Pkt.ip][Pkt.kind] < Quota[Pkt.kind]
    IN  /\ demux.pc = "admit" /\ (ok => f \in Obj)
        /\ IF ok
           THEN /\ src' = [src EXCEPT !.flows[Pkt.id] = f, !.perIP[Pkt.ip][Pkt.kind] = @ + 1, !.made = f]
                /\ flow' = [flow EXCEPT ![f] = [NewFlow EXCEPT !.st = "made", !.id = Pkt.id, !.ip = Pkt.ip,
                                                  !.cls = Pkt.kind, !.adm = TRUE, !.peer = Pkt.ip]]
                /\ demux' = [demux EXCEPT !.pc = "hand", !.f = f]
           ELSE demux' = Next1(demux, FALSE) /\ UNCHANGED <<src, flow>>
        /\ UNCHANGED <<splan, arr, bud>>

\* The H1 into the new flow's inbox, and admit: a handshake starts, or the
\* flow is closed
Hand ==
    LET f   == demux.f
        buf == Buffer(f)
        x   == [flow[f] EXCEPT !.inbox = <<[ip |-> Pkt.ip, reserve |-> buf = "reserve"]>>, !.st = "live"]
    IN  /\ demux.pc = "hand"
        /\ bud' = IF buf = "budget" THEN bud + 1 ELSE bud
        /\ demux' = Next1(demux, buf = "slot")
        /\ flow' = [flow EXCEPT ![f] = x]
        /\ UNCHANGED <<splan, arr, src>>

\* wakeTouched, a flow at a time
WakeTouched ==
    /\ demux.pc = "wake"
    /\ IF demux.touched = {} THEN demux' = [demux EXCEPT !.pc = "fill"] /\ UNCHANGED flow
       ELSE \E f \in demux.touched : /\ flow' = [flow EXCEPT ![f] = Woken(@)]
                                   /\ demux' = [demux EXCEPT !.touched = @ \ {f}]
    /\ UNCHANGED <<splan, arr, src, bud>>

-----------------------------------------------------------------------------
(* A flow and its carrier                                                  *)

Charged(es) == Cardinality({i \in DOMAIN es : ~es[i].reserve})

\* Admitted and SourceProven
Admitted(f) ==
    /\ flow[f].st = "live" /\ flow[f].adm
    /\ src' = Unadmit(src, flow[f])
    /\ flow' = [flow EXCEPT ![f].adm = FALSE]
    /\ UNCHANGED <<splan, arr, demux, bud>>

\* The datagrams one ReadDatagrams call takes: up to the first candidate
Taken(x) == LET c == {i \in DOMAIN x.inbox : x.inbox[i].ip # x.peer}
            IN  Min({splan.depth, Len(x.inbox)} \cup c)

\* ReadDatagram(s) with waitLocked: what the reader held goes back; then it
\* fails, takes datagrams, or waits.  The reader of a failed read is gone
FlowRead(f) ==
    LET x == [flow[f] EXCEPT !.held = <<>>, !.tok = FALSE]
        k == Taken(x)
        last == x.inbox[k].ip
        fails == x.st # "live" \/ src.killed \/ x.expired
    IN  /\ x.st \notin {"none", "made"}
        /\ x.rd = "idle" \/ (x.rd = "wait" /\ flow[f].tok)
        /\ bud' = bud - Charged(flow[f].held)
        /\ flow' = [flow EXCEPT ![f] =
              IF fails THEN [x EXCEPT !.rd = "gone"]
              ELSE IF x.inbox # <<>>
                THEN [x EXCEPT !.rd = "idle", !.held = SubSeq(x.inbox, 1, k), !.inbox = SubSeq(@, k + 1, Len(@)),
                               !.cand = IF last # x.peer THEN last ELSE @]
              ELSE [x EXCEPT !.rd = "wait", !.waiting = TRUE]]
        /\ UNCHANGED <<splan, arr, src, demux>>

\* SetPeer: the rebind to the latest candidate commits
SetPeer(f) ==
    /\ flow[f].st = "live" /\ flow[f].cand # 0 /\ flow[f].rd = "idle"
    /\ flow' = [flow EXCEPT ![f].peer = flow[f].cand, ![f].cand = 0]
    /\ UNCHANGED <<splan, arr, src, demux, bud>>

\* SetReadDeadline in the past, or deadlineFired
Deadline(f) ==
    /\ May("deadline") /\ flow[f].st = "live" /\ ~flow[f].expired
    /\ flow' = [flow EXCEPT ![f] = Woken([@ EXCEPT !.expired = TRUE])]
    /\ UNCHANGED <<splan, arr, src, demux, bud>>

\* Close: the inbox goes back under Flow.mu and the reader is woken ...
FlowClose(f) ==
    /\ flow[f].st = "live"
    /\ flow' = [flow EXCEPT ![f] = Woken([@ EXCEPT !.st = "closed", !.inbox = <<>>])]
    /\ bud' = bud - Charged(flow[f].inbox)
    /\ UNCHANGED <<splan, arr, src, demux>>

\* ... then the source removes the flow
FlowRemove(f) ==
    /\ flow[f].st = "closed"
    /\ src' = Removed(f)
    /\ flow' = [flow EXCEPT ![f].st = "gone", ![f].adm = FALSE]
    /\ UNCHANGED <<splan, arr, demux, bud>>

FNext == \/ Run \/ Stop \/ Abort \/ SockClosed \/ RunStuck \/ TombExpires
         \/ Fill \/ IdleFires \/ ReadBatch \/ ReadFails \/ Exit \/ Route \/ Deliver \/ Admit \/ Hand \/ WakeTouched
         \/ \E f \in Obj : \/ Admitted(f) \/ FlowRead(f) \/ SetPeer(f) \/ Deadline(f)
                           \/ FlowClose(f) \/ FlowRemove(f)

FSpec == FInit /\ [][FNext]_flowVars

-----------------------------------------------------------------------------
(* Properties                                                              *)

\* The source's books balance at every moment, whichever of Stop, Abort, a
\* read error and the flows' own ends come first: the per-address counts are
\* those of the flows still admitting, the Budget has given out exactly what
\* the extras, the inboxes and the readers hold, a stopped source without
\* flows closes its socket, Stop alone never closes it under a live flow,
\* and Done is closed exactly when Run, the socket and every flow are over
SourceSettles ==
    /\ \A p \in Ips, c \in Class :
          src.perIP[p][c] = Cardinality({f \in Obj : flow[f].adm /\ flow[f].ip = p /\ flow[f].cls = c})
    /\ bud = demux.ext + FoldFunction(LAMBDA x, a : a + Charged(x.inbox) + Charged(x.held), 0, flow)
    /\ src.stopped /\ Table(src) = {} => src.closing
    /\ src.closing /\ Table(src) # {} => src.killed
    /\ src.done <=> src.sockDone /\ Table(src) = {} /\ src.run \in {"exited", "abandoned"}

\* No flow's reader sleeps through what it waits for: while it waits and a
\* datagram is queued, the flow or the source ended, or its deadline passed,
\* a wake-up is under way - its own, or that of the Run goroutine, which
\* wakes each flow once after routing a whole read
FlowNeverDeaf ==
    \A f \in Obj :
        flow[f].rd = "wait" /\ ~flow[f].tok =>
            /\ flow[f].waiting
            /\ flow[f].st = "live" /\ ~flow[f].expired /\ ~src.killed
            /\ flow[f].inbox # <<>> => f \in demux.touched

=============================================================================
