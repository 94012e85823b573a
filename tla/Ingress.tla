------------------------------ MODULE Ingress ------------------------------
(***************************************************************************)
(* PortForward.ServeUDP (l4/portforward_udp.go, l4/flowtable.go): one      *)
(* reader maps each client address of a UDP socket to a flow, an entry of  *)
(* a bounded table with one goroutine, which opens the flow's packet       *)
(* session, flushes what the client sent meanwhile, pumps replies and      *)
(* accounts the end.  The reader evicts, replaces and holds entries while  *)
(* their goroutines run; the stop closes whatever is left.                 *)
(*                                                                         *)
(* A step is one critical section of the table's mutex, one call of a      *)
(* session, or one return from a wait.  An entry is named by the number of *)
(* the datagram that made it.  Ages (hold, idle, queue) may have passed or *)
(* not at any check.  One ServeUDP call; replies only make a stream.       *)
(***************************************************************************)
EXTENDS Integers, Sequences, SequencesExt, FiniteSets, FiniteSetsExt

CONSTANTS OpenQueue,   \* ingressQueueLen
          IngPlans     \* [pkts, flows, opening, may]: see iplan

VARIABLES iplan,   \* the clients' datagrams in order, each [cl, size]; MaxFlows and
                   \* ingressOpeningMax; the troubles; never changes
          ing,     \* the serve: reader, halt, units and counters
          ent,     \* the entries with their goroutines
          ses      \* their sessions

ingVars == <<iplan, ing, ent, ses>>

Entry == DOMAIN iplan.pkts
MayBe(x) == x \in iplan.may
Dgram(d) == iplan.pkts[d]

\* st: "none", "opening", "open", "held" or "gone" (no entry of the table);
\* g: the goroutine; first: the datagram that rides the OPEN; q: firstQ and
\* the queue; b: what the flush took
NoEntry == [st |-> "none", g |-> "none", first |-> FALSE, firstQ |-> FALSE, q |-> <<>>, b |-> <<>>, has |-> FALSE,
            peerEnd |-> FALSE, stream |-> FALSE, dead |-> FALSE, flag |-> FALSE]

\* The entry of a goroutine that returned
Done == [NoEntry EXCEPT !.st = "gone", !.g = "done"]

IInit ==
    /\ iplan \in IngPlans
    /\ ing = [r |-> "read", d |-> 0, e |-> 0, victim |-> 0, halted |-> FALSE, stopped |-> FALSE, todo |-> {},
              flows |-> 0, opening |-> 0, counted |-> 0, opened |-> 0, ended |-> 0]
    /\ ent = [e \in Entry |-> NoEntry]
    /\ ses = [e \in Entry |-> "none"]

InTable == {e \in Entry : ent[e].st \in {"opening", "open", "held"}}
Of(c) == {e \in InTable : Dgram(e).cl = c}

-----------------------------------------------------------------------------
(* Table operations on I = [s |-> ing, t |-> ent]                          *)

It == [s |-> ing, t |-> ent]
Becomes(I) == ing' = I.s /\ ent' = I.t

\* k datagrams are counted, each in one of the counters of what was sent,
\* too large or dropped
Count(I, k) == [I EXCEPT !.s.counted = @ + k]


\* setState and leaveState
SetState(I, e, st) ==
    [I EXCEPT !.s.opening = IF I.t[e].st = "opening" THEN @ - 1 ELSE @, !.t[e].st = st]

\* remove; the caller keeps or releases the MaxFlows unit
Remove1(I, e) == IF I.t[e].st = "gone" THEN I ELSE SetState(I, e, "gone")
Release(I) == [I EXCEPT !.s.flows = @ - 1]

\* Mutant: an end gives the MaxFlows unit back though an eviction or a
\* replacement handed it on
Leave_Twice(I, e) == Release(Remove1(I, e))

\* The goroutine's own removal: nothing once the reader took the entry out
Leave(I, e) == IF I.t[e].st = "gone" THEN I ELSE Release(Remove1(I, e))

\* newEntry, put and start: datagram d makes an entry
NewEntry(I, d) ==
    [I EXCEPT !.s.opening = @ + 1,
              !.t[d] = [NoEntry EXCEPT !.st = "opening", !.g = "dial", !.first = Dgram(d).size = "rides",
                                       !.firstQ = Dgram(d).size # "rides", !.q = IF Dgram(d).size = "rides" THEN <<>> ELSE <<d>>]]

\* push: the oldest queued copy makes room, never the first datagram's own
Push(I, e, d) ==
    LET x    == I.t[e]
        own  == IF x.firstQ THEN 1 ELSE 0
        full == Len(x.q) - own >= OpenQueue
        q    == IF full THEN RemoveAt(x.q, own + 1) ELSE x.q
    IN  [Count(I, IF full THEN 1 ELSE 0) EXCEPT !.t[e].q = Append(q, d)]

\* takeQueue
TakeQueue(I, e) == [I EXCEPT !.t[e].q = <<>>, !.t[e].firstQ = FALSE]

-----------------------------------------------------------------------------
(* The reader                                                              *)

\* victim: a held entry, else an idle open flow that never became a stream
Victims == LET held == {e \in InTable : ent[e].st = "held"}
           IN  IF held # {} THEN held
               ELSE IF MayBe("idle") THEN {e \in InTable : ent[e].st = "open" /\ ~ent[e].stream} ELSE {}

\* admit, under the mutex; the victim is closed after it
Admit(d) ==
    LET full == ing.flows >= iplan.flows
        room == ing.opening < iplan.opening
        Next0(I, v) == [I EXCEPT !.s.d = d, !.s.victim = v, !.s.r = IF v = 0 THEN "read" ELSE "close"]
    IN  IF full
        THEN IF Victims = {} \/ ~room THEN Becomes(Next0(Count(It, 1), 0))
             ELSE \E v \in Victims :
                    Becomes(Next0(NewEntry(Remove1(It, v), d), v))
        ELSE IF ~room THEN Becomes(Next0(Count(It, 1), 0))
        ELSE Becomes(Next0(NewEntry([It EXCEPT !.s.flows = @ + 1], d), 0))

\* datagram, the switch under the mutex
Handle(d) ==
    LET e == CHOOSE x \in Of(Dgram(d).cl) : TRUE
        At(I, r) == [I EXCEPT !.s.d = d, !.s.r = r, !.s.e = IF r = "read" THEN 0 ELSE e]
    IN  IF Of(Dgram(d).cl) = {} THEN Admit(d)
        ELSE Becomes(CASE ent[e].st = "opening" -> At(Push(It, e, d), "read")
                       [] ent[e].st = "held" -> At(Count(It, 1), "read")
                       [] OTHER -> At(It, "write"))

\* read: a datagram comes; or the serve was halted and the reader returns
Read ==
    /\ ing.r = "read"
    /\ IF ing.halted THEN ing' = [ing EXCEPT !.r = "stop"] /\ UNCHANGED ent
       ELSE ing.d + 1 \in Entry /\ Handle(ing.d + 1)
    /\ UNCHANGED <<iplan, ses>>

\* The victim's done is closed, and its session if it has one
CloseVictim ==
    LET v == ing.victim
    IN  /\ ing.r = "close"
        /\ ing' = [ing EXCEPT !.r = "read", !.victim = 0]
        /\ ses' = [ses EXCEPT ![v] = IF ent[v].has /\ @ = "live" THEN "closed" ELSE @]
        /\ UNCHANGED <<iplan, ent>>

\* The open flow's WriteTo, outside the mutex.  A far end's close and a
\* close on this side are both net.ErrClosed
Write ==
    /\ ing.r = "write"
    /\ ing' = IF ses[ing.e] = "live" THEN [ing EXCEPT !.r = "read", !.e = 0, !.counted = @ + 1]
              ELSE [ing EXCEPT !.r = "replace"]
    /\ UNCHANGED <<iplan, ent, ses>>

\* replace
Replace ==
    LET e == ing.e
        d == ing.d
        At(I) == [I EXCEPT !.s.r = "read", !.s.e = 0]
        closed == ses[e] \in {"far", "closed"}
        New == IF ing.opening >= iplan.opening THEN Count(Release(Remove1(It, e)), 1)
               ELSE NewEntry(Remove1(It, e), d)
        Hold == [Count(SetState(It, e, "held"), 1) EXCEPT !.t[e].peerEnd = TRUE]
    IN  /\ ing.r = "replace"
        /\ IF e \notin InTable THEN Handle(d)
           ELSE IF ent[e].st = "held" THEN Becomes(At(Count(It, 1)))
           ELSE Becomes(At(New)) \/ (closed /\ Becomes(At(Hold)))
        /\ UNCHANGED <<iplan, ses>>

\* halt: ctx done, or a fatal read error
Halt ==
    /\ MayBe("halt") /\ ~ing.halted
    /\ ing' = [ing EXCEPT !.halted = TRUE]
    /\ UNCHANGED <<iplan, ent, ses>>

\* shutdown: no entry becomes open or held any more; every session of the
\* table is closed; then the goroutines are joined
Shutdown ==
    /\ ing.r = "stop"
    /\ ing' = [ing EXCEPT !.r = "closing", !.stopped = TRUE, !.todo = {e \in InTable : ent[e].has}]
    /\ UNCHANGED <<iplan, ent, ses>>
ShutdownCloses ==
    /\ ing.r = "closing"
    /\ IF ing.todo # {}
       THEN \E e \in ing.todo : /\ ing' = [ing EXCEPT !.todo = @ \ {e}]
                                /\ ses' = [ses EXCEPT ![e] = IF @ = "live" THEN "closed" ELSE @]
       ELSE /\ \A e \in Entry : ent[e].g \in {"none", "done"}
            /\ ing' = [ing EXCEPT !.r = "over"]
            /\ UNCHANGED ses
    /\ UNCHANGED <<iplan, ent>>

-----------------------------------------------------------------------------
(* An entry's goroutine (udpServe.flow)                                    *)

\* The session opened; the first datagram rode the OPEN, or heads the flush
\* because the OPEN was too large with it
Opened(e) ==
    /\ ent[e].g = "dial"
    /\ ses' = [ses EXCEPT ![e] = "live"]
    /\ \E rode \in IF ent[e].first THEN BOOLEAN ELSE {FALSE} :
         /\ ing' = [ing EXCEPT !.opened = @ + 1, !.counted = IF rode THEN @ + 1 ELSE @]
         /\ ent' = [ent EXCEPT ![e].g = "flush", ![e].first = FALSE,
                      ![e].firstQ = @ \/ (ent[e].first /\ ~rode),
                      ![e].q = IF ent[e].first /\ ~rode THEN <<e>> \o @ ELSE @]
    /\ UNCHANGED iplan

\* The open failed; with the bare net.ErrClosed the serve is halted.
\* openFailed looks whether the serve stops before it takes the mutex
OpenFails(e) ==
    /\ ent[e].g = "dial" /\ (ing.halted \/ MayBe("fails"))
    /\ \E h \in {ing.halted, ing.halted \/ MayBe("peer closed")} :
         /\ ing' = [ing EXCEPT !.halted = h]
         /\ ent' = [ent EXCEPT ![e].g = "failed", ![e].flag = h]
    /\ UNCHANGED <<iplan, ses>>
OpenFailed(e) ==
    LET n == Len(ent[e].q) + (IF ent[e].first THEN 1 ELSE 0)
        T == [Count(TakeQueue(It, e), n) EXCEPT !.t[e].first = FALSE, !.t[e].g = "hold"]
        R == Release(Remove1(T, e))
    IN  /\ ent[e].g = "failed"
        /\ Becomes(IF ent[e].flag THEN [R EXCEPT !.t[e] = Done] ELSE IF ing.stopped THEN R ELSE SetState(T, e, "held"))
        /\ UNCHANGED <<iplan, ses>>

\* The flush: the queue is taken under the mutex and written outside it
Flush(e) ==
    LET T == TakeQueue(It, e)
        q == ent[e].q
    IN  /\ ent[e].g = "flush"
        /\ Becomes(IF ing.stopped THEN [Count(T, Len(q)) EXCEPT !.t[e].g = "stopped"]
                   ELSE IF q = <<>> THEN [SetState(T, e, "open") EXCEPT !.t[e].has = TRUE, !.t[e].g = "pump"]
                   ELSE [T EXCEPT !.t[e].b = q, !.t[e].g = "write"])
        /\ UNCHANGED <<iplan, ses>>

\* One datagram of the flush: size first, then age, then WriteTo
FlushOne(e) ==
    LET d    == Head(ent[e].b)
        T    == [It EXCEPT !.t[e].b = Tail(@), !.t[e].g = IF Len(ent[e].b) = 1 THEN "flush" ELSE "write"]
        live == ses[e] = "live"
    IN  /\ ent[e].g = "write"
        /\ \/ /\ live \/ ent[e].dead \/ Dgram(d).size = "big" \/ MayBe("aged")
              /\ Becomes(Count(T, 1))
           \/ /\ ~live /\ ~ent[e].dead /\ Dgram(d).size # "big"
              /\ Becomes([Count(T, 1) EXCEPT !.t[e].dead = TRUE])
        /\ UNCHANGED <<iplan, ses>>

\* pump: replies may make the flow a stream, until ReadFrom returns the end
Reply(e) ==
    /\ MayBe("replies") /\ ent[e].g = "pump" /\ ses[e] = "live" /\ ~ent[e].stream
    /\ ent' = [ent EXCEPT ![e].stream = TRUE]
    /\ UNCHANGED <<iplan, ing, ses>>

\* end, under the mutex: err is what ReadFrom returned, or net.ErrClosed
\* when the stop came before the flow was open.  An end by the far end soon
\* after the open holds the source
EndFlow(e) ==
    LET err  == IF ent[e].peerEnd THEN "far" ELSE IF ent[e].g = "stopped" THEN "closed" ELSE ses[e]
        At(I, hold) == [I EXCEPT !.t[e].g = "close", !.t[e].flag = hold, !.s.ended = @ + 1]
    IN  /\ ent[e].g = "stopped" \/ (ent[e].g = "pump" /\ ses[e] # "live")
        /\ IF ent[e].st = "held" THEN Becomes(At(It, TRUE))
           ELSE \/ Becomes(At(Leave(It, e), FALSE))
                \/ /\ err = "far" /\ ~ing.stopped /\ ent[e].st # "gone"
                   /\ Becomes(At(SetState(It, e, "held"), TRUE))
        /\ UNCHANGED <<iplan, ses>>

\* closeSession, the counters, and settle's wait
CloseSession(e) ==
    /\ ent[e].g = "close"
    /\ ses' = [ses EXCEPT ![e] = "over"]
    /\ ent' = [ent EXCEPT ![e] = IF ent[e].flag THEN [@ EXCEPT !.g = "hold"] ELSE Done]
    /\ UNCHANGED <<iplan, ing>>

\* hold: the time passed, an eviction, or the stop
HoldOver(e) ==
    /\ ent[e].g = "hold"
    /\ Becomes([Leave(It, e) EXCEPT !.t[e] = Done])
    /\ UNCHANGED <<iplan, ses>>

\* The session ends by itself: the far end closes it, or an idle limit, a
\* lost path or an abort ends it.  "runtime": this side's Runtime is closed,
\* which ends it with net.ErrClosed
SessionEnds(e) ==
    /\ ses[e] = "live"
    /\ \E s \in {"far", "ended"} \cup (IF MayBe("runtime") THEN {"closed"} ELSE {}) : ses' = [ses EXCEPT ![e] = s]
    /\ UNCHANGED <<iplan, ing, ent>>

INext == \/ Read \/ CloseVictim \/ Write \/ Replace \/ Halt \/ Shutdown \/ ShutdownCloses
         \/ \E e \in Entry : \/ Opened(e) \/ OpenFails(e) \/ OpenFailed(e) \/ Flush(e) \/ FlushOne(e) \/ Reply(e)
                             \/ EndFlow(e) \/ CloseSession(e) \/ HoldOver(e) \/ SessionEnds(e)

ISpec == IInit /\ [][INext]_ingVars

-----------------------------------------------------------------------------
(* Properties                                                              *)

\* The ingress's books are exact in every interleaving of the reader with
\* the flows' ends, holds, evictions, replacements and the stop: the
\* MaxFlows units are the table's entries and the opening units its opening
\* ones, both within their bounds; a client has one entry; every datagram
\* read is counted once, as sent, too large or dropped, unless it still
\* waits; every flow opened is counted as ended once, or it still runs; and
\* after the stop nothing is left
IngressExact ==
    LET wait(x) == Len(x.q) + Len(x.b) + (IF x.first THEN 1 ELSE 0)
        waiting == FoldFunction(LAMBDA x, a : a + wait(x), 0, ent)
        inHand  == IF ing.r \in {"write", "replace"} THEN 1 ELSE 0
    IN  /\ ing.flows = Cardinality(InTable) /\ ing.flows <= iplan.flows
        /\ ing.opening = Cardinality({e \in InTable : ent[e].st = "opening"}) /\ ing.opening <= iplan.opening
        /\ \A e, f \in InTable : Dgram(e).cl = Dgram(f).cl => e = f
        /\ ing.d = ing.counted + waiting + inHand
        /\ ing.opened = ing.ended + Cardinality({e \in Entry : ent[e].g \in {"flush", "write", "pump", "stopped"}})
        /\ ing.r = "over" => InTable = {}

\* A flow recorded as ended by its far end was closed by it (the comment in
\* replace: net.ErrClosed from an entry still in the table is the far end's
\* close, because this side closes a flow's session only after taking the
\* entry out, or while stopping)
PeerEndIsPeers == \A e \in Entry : ent[e].peerEnd => ses[e] \in {"far", "over"}

=============================================================================
