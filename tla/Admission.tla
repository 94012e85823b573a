----------------------------- MODULE Admission -----------------------------
(***************************************************************************)
(* The passive side of a Runtime: handshake slots, the session table with  *)
(* its tombstones and MaxSessions units, a Listener's backlog, the pending *)
(* phase of the sessions it admits, and Runtime.Close against all of it    *)
(* (admission.go, tables.go, listener.go, runtime.go, and passive.go and   *)
(* pending.go of internal/session).                                        *)
(*                                                                         *)
(* A session is named by the carrier whose OPEN created it.  Each step is  *)
(* one critical section of a handshake goroutine, of a session's actor, of *)
(* the application, or of Runtime.Close.  Deadlines may expire at any      *)
(* moment; joins wait for what they join.                                  *)
(***************************************************************************)
EXTENDS Naturals, Sequences, FiniteSets

CONSTANTS
    Carrier,      \* the carriers that arrive; also the names of sessions
    Plans,        \* what a behaviour may bring: [hello: [Carrier -> [t, key, view]], may: set of troubles]
    Key,          \* (dialer instance, session ID) pairs
    HsMax,        \* Handshake.MaxConcurrent
    MaxSessions,
    Backlog,      \* ListenConfig.AcceptBacklog
    MaxCarriers,  \* carriers a session takes
    SlMax,        \* Sessionless.PerInstance (one dialer instance)
    None

Hello == [t : {"OPEN", "JOIN", "PING", "none"}, key : Key, view : BOOLEAN]

ASSUME ConstAssumption ==
    /\ IsFiniteSet(Carrier) /\ None \notin Carrier /\ None \notin [s : Carrier, tomb : BOOLEAN]
    /\ \A p \in Plans : p.hello \in [Carrier -> Hello]
    /\ MaxSessions \in Nat \ {0} /\ Backlog \in Nat

VARIABLES
    hello,        \* what each carrier sends first ("none": it never arrives); it never changes
    may,          \* the troubles of this behaviour; it never changes
    pc,           \* pc[c]: where the handshake goroutine of c is
    ans,          \* ans[c]: how c was answered
    to,           \* to[c]: the session c was handed to
    hs,           \* the occupied handshake slots, oldest first
    drained,      \* Runtime.Close drained the slots: no handshake starts
    table,        \* table[k]: [s, tomb] or None
    tombs,        \* keys of the tombstones, oldest first
    units,        \* MaxSessions units in use
    reserved,     \* backlog slots reserved by admissions in progress
    slots,        \* the sessions holding a backlog slot
    queue,        \* sessions queued for Accept
    held,         \* sessions Accept returned
    lnClosed,
    st,           \* st[s]: the session's state
    verdict,      \* verdict[s]: what it decided
    lanes,        \* lanes[s]: its carriers that are not dead
    adopting,     \* adopting[s]: carriers counted by Join or AttachOpen, not handled yet
    posted,       \* posted[s]: commands in its mailbox
    reg,          \* reg[s]: the Registry call its actor has to make next
    rc,           \* how far Runtime.Close is
    draining,     \* ended sessions recorded for Runtime.Close
    join,         \* what Runtime.Close waits for at last
    probes        \* sessionless carriers counted

hsVars == <<hello, may, pc, ans, to>>
slotVars == <<hs, drained, probes>>
tableVars == <<table, tombs, units>>
lnVars == <<reserved, slots, queue, held, lnClosed>>
sessVars == <<st, verdict, lanes, adopting, posted, reg>>
closeVars == <<rc, draining, join>>
vars == <<hsVars, slotVars, tableVars, lnVars, sessVars, closeVars>>

Closing == rc # "run"
Live(k) == table[k] # None /\ ~table[k].tomb
Unheld(c) == pc[c] = "done" \/ pc[c] = "none"

Init ==
    /\ \E p \in Plans : hello = p.hello /\ may = p.may
    /\ pc = [c \in Carrier |-> "none"]
    /\ ans = [c \in Carrier |-> "none"] /\ to = [c \in Carrier |-> None]
    /\ hs = <<>> /\ drained = FALSE /\ probes = {}
    /\ table = [k \in Key |-> None] /\ tombs = <<>> /\ units = 0
    /\ reserved = 0 /\ slots = {} /\ queue = <<>> /\ held = {} /\ lnClosed = FALSE
    /\ st = [s \in Carrier |-> "none"] /\ verdict = [s \in Carrier |-> "none"]
    /\ lanes = [s \in Carrier |-> {}] /\ adopting = [s \in Carrier |-> {}]
    /\ posted = [s \in Carrier |-> {}] /\ reg = [s \in Carrier |-> "none"]
    /\ rc = "run" /\ draining = {} /\ join = {}

(***************************************************************************)
(* The handshake goroutine of a carrier.                                   *)
(***************************************************************************)

Step(c, next) == pc' = [pc EXCEPT ![c] = next]

\* The goroutine writes an answer of its own and awaits the carrier's end
Answer(c, a) == Step(c, "done") /\ ans' = [ans EXCEPT ![c] = a]

\* Listener.Handle or the accept loop: a handshake is counted unless the Listener closed
BeginHandshake(c) ==
    /\ pc[c] = "none" /\ hello[c].t # "none"
    /\ IF lnClosed THEN Answer(c, "cut") ELSE Step(c, "begun") /\ ans' = ans
    /\ UNCHANGED <<hello, may, to, slotVars, tableVars, lnVars, sessVars, closeVars>>

\* The handshake still has its slot
Slotted(c) == \E i \in DOMAIN hs : hs[i] = c

Without(q, e) == SelectSeq(q, LAMBDA x : x # e)

\* hsTable.admit: a slot, evicting the oldest handshake when all are taken
AdmitSlot(c) == hs' = Append(IF Len(hs) >= HsMax THEN Tail(hs) ELSE hs, c)

\* startHandshake, on a stream or a datagram carrier; none starts once the slots are drained
StartHandshake(c) ==
    /\ pc[c] = "begun"
    /\ IF drained THEN Answer(c, "cut") /\ hs' = hs
                  ELSE Step(c, "hello") /\ ans' = ans /\ AdmitSlot(c)
    /\ UNCHANGED <<hello, may, to, drained, probes, tableVars, lnVars, sessVars, closeVars>>

\* ReadHello: the PREFACE meets the gate, or the conn fails; then the first frame is read
ReadHello(c) ==
    /\ pc[c] = "hello"
    /\ \/ ~Closing /\ Step(c, "release") /\ ans' = ans
       \/ Closing /\ Step(c, "failed") /\ ans' = [ans EXCEPT ![c] = "AWAY"]
       \/ /\ "fails" \in may \/ ~Slotted(c)
          /\ Step(c, "failed") /\ ans' = [ans EXCEPT ![c] = "cut"]
    /\ UNCHANGED <<hello, may, to, slotVars, tableVars, lnVars, sessVars, closeVars>>

\* The slot is released; an evicted handshake gives up
Release(c) ==
    /\ pc[c] \in {"release", "failed"}
    /\ hs' = Without(hs, c)
    /\ IF pc[c] = "failed" THEN Step(c, "done") /\ ans' = ans
       ELSE IF ~Slotted(c) THEN Answer(c, "cut")
       ELSE /\ Step(c, IF hello[c].t = "PING" THEN "ping" ELSE IF hello[c].view THEN "view" ELSE "lookup")
            /\ ans' = ans
    /\ UNCHANGED <<hello, may, to, drained, probes, tableVars, lnVars, sessVars, closeVars>>

\* Listener.refusal; viewRefusal answers the same way with a code of its own
Refusal == IF Closing THEN "AWAY" ELSE IF lnClosed THEN "FULL" ELSE "none"

\* An OPEN on a live trunk meets the closed Listener first; a JOIN does not
AdmitView(c) ==
    /\ pc[c] = "view"
    /\ IF hello[c].t = "OPEN" /\ Refusal # "none"
         THEN Answer(c, Refusal) ELSE Step(c, "lookup") /\ ans' = ans
    /\ UNCHANGED <<hello, may, to, slotVars, tableVars, lnVars, sessVars, closeVars>>

\* Mutant: the verdict is repeated as it was
OpenAck_Verbatim(s) == verdict[s]

\* The verdict a tombstone, or an ended session, repeats (Verdict.OpenAck)
OpenAck(s) == IF verdict[s] = "OK" THEN "UNKNOWN" ELSE verdict[s]

Route(c, s) == to' = [to EXCEPT ![c] = s] /\ Step(c, "route") /\ ans' = ans

RepeatVerdict(c, s) ==
    /\ to' = [to EXCEPT ![c] = s]
    /\ Answer(c, IF hello[c].t = "OPEN" THEN OpenAck(s) ELSE "UNKNOWN")

\* sessionTable.lookup: a live session, a tombstone's verdict, or nothing
Lookup(c) ==
    LET k == hello[c].key IN
    /\ pc[c] = "lookup"
    /\ IF Live(k) THEN Route(c, table[k].s)
       ELSE IF table[k] # None THEN RepeatVerdict(c, table[k].s)
       ELSE IF hello[c].t = "JOIN" THEN Answer(c, "UNKNOWN") /\ to' = to
       ELSE IF Refusal # "none" THEN Answer(c, Refusal) /\ to' = to
       ELSE Step(c, "unit") /\ UNCHANGED <<ans, to>>
    /\ UNCHANGED <<hello, may, slotVars, tableVars, lnVars, sessVars, closeVars>>

\* sessionTable.reserve
ReserveUnit(c) ==
    /\ pc[c] = "unit"
    /\ IF units >= MaxSessions
         THEN Answer(c, "FULL") /\ units' = units
         ELSE Step(c, "backlog") /\ units' = units + 1 /\ ans' = ans
    /\ UNCHANGED <<hello, may, to, slotVars, table, tombs, lnVars, sessVars, closeVars>>

\* Listener.reserve: the unit goes back when the Listener closed or its backlog is full
ReserveSlot(c) ==
    /\ pc[c] = "backlog"
    /\ IF lnClosed \/ Cardinality(slots) + reserved >= Backlog
         THEN /\ Answer(c, IF Closing THEN "AWAY" ELSE "FULL")
              /\ units' = units - 1 /\ reserved' = reserved
         ELSE Step(c, "insert") /\ reserved' = reserved + 1 /\ UNCHANGED <<ans, units>>
    /\ UNCHANGED <<hello, may, to, slotVars, table, tombs, slots, queue, held, lnClosed,
                   sessVars, closeVars>>

\* Mutant: the loser of an insert keeps its unit
Insert_KeepsUnit(c) ==
    LET k == hello[c].key IN
    /\ pc[c] = "insert"
    /\ IF table[k] # None
         THEN /\ IF table[k].tomb THEN RepeatVerdict(c, table[k].s) ELSE Route(c, table[k].s)
              /\ units' = units /\ reserved' = reserved - 1
              /\ UNCHANGED <<table, st, lanes>>
         ELSE /\ table' = [table EXCEPT ![k] = [s |-> c, tomb |-> FALSE]]
              /\ st' = [st EXCEPT ![c] = "new"] /\ lanes' = [lanes EXCEPT ![c] = {c}]
              /\ to' = [to EXCEPT ![c] = c] /\ Step(c, "bind")
              /\ UNCHANGED <<ans, units, reserved>>
    /\ UNCHANGED <<hello, may, slotVars, tombs, slots, queue, held, lnClosed,
                   verdict, adopting, posted, reg, closeVars>>

\* NewPending and insertOrGet: a loser gives both reservations back and routes its carrier
Insert(c) ==
    LET k == hello[c].key IN
    /\ pc[c] = "insert"
    /\ IF table[k] # None
         THEN /\ IF table[k].tomb THEN RepeatVerdict(c, table[k].s) ELSE Route(c, table[k].s)
              /\ units' = units - 1 /\ reserved' = reserved - 1
              /\ UNCHANGED <<table, st, lanes>>
         ELSE /\ table' = [table EXCEPT ![k] = [s |-> c, tomb |-> FALSE]]
              /\ st' = [st EXCEPT ![c] = "new"] /\ lanes' = [lanes EXCEPT ![c] = {c}]
              /\ to' = [to EXCEPT ![c] = c] /\ Step(c, "bind")
              /\ UNCHANGED <<ans, units, reserved>>
    /\ UNCHANGED <<hello, may, slotVars, tombs, slots, queue, held, lnClosed,
                   verdict, adopting, posted, reg, closeVars>>

\* Listener.bind turns the reservation into the session's slot, before Session.Start
Bind(c) ==
    /\ pc[c] = "bind" /\ Step(c, "start")
    /\ reserved' = reserved - 1 /\ slots' = slots \cup {c}
    /\ UNCHANGED <<hello, may, ans, to, slotVars, tableVars, queue, held, lnClosed,
                   sessVars, closeVars>>

Start(c) ==
    /\ pc[c] = "start" /\ Step(c, "late") /\ st' = [st EXCEPT ![c] = "pending"]
    /\ UNCHANGED <<hello, may, ans, to, slotVars, tableVars, lnVars, verdict, lanes, adopting,
                   posted, reg, closeVars>>

Post(s, cmd) == posted' = [posted EXCEPT ![s] = @ \cup {cmd}]

\* A Runtime.Close may have missed the session: it is shut down here
LateShutdown(c) ==
    /\ pc[c] = "late" /\ Step(c, "enqueue")
    /\ IF Closing THEN Post(c, "shutdown") ELSE posted' = posted
    /\ UNCHANGED <<hello, may, ans, to, slotVars, tableVars, lnVars, st, verdict, lanes,
                   adopting, reg, closeVars>>

\* Listener.enqueue: queued for Accept, or refused when Close ran before bind
Enqueue(c) ==
    /\ pc[c] = "enqueue" /\ Step(c, "done")
    /\ IF c \notin slots
         THEN UNCHANGED <<queue, posted>>
         ELSE IF lnClosed THEN Post(c, IF Closing THEN "away" ELSE "refuse") /\ queue' = queue
                          ELSE queue' = Append(queue, c) /\ posted' = posted
    /\ UNCHANGED <<hello, may, ans, to, slotVars, tableVars, reserved, slots, held, lnClosed,
                   st, verdict, lanes, adopting, reg, closeVars>>

\* Session.AttachOpen and Session.Join, under the session lock; the command is posted
Attach(c) ==
    LET s == to[c] IN
    /\ pc[c] = "route"
    /\ IF st[s] \in {"ended", "exited"}
         THEN Answer(c, IF hello[c].t = "OPEN" THEN OpenAck(s) ELSE "UNKNOWN") /\ adopting' = adopting
       ELSE IF st[s] \in {"new", "pending"} /\ hello[c].t = "JOIN"
         THEN Answer(c, "BAD") /\ adopting' = adopting
       ELSE IF Cardinality(lanes[s]) + Cardinality(adopting[s]) >= MaxCarriers
         THEN Answer(c, "FULL") /\ adopting' = adopting
       ELSE Step(c, "done") /\ ans' = ans /\ adopting' = [adopting EXCEPT ![s] = @ \cup {c}]
    /\ UNCHANGED <<hello, may, to, slotVars, tableVars, lnVars, st, verdict, lanes, posted, reg,
                   closeVars>>

\* admitSessionless: GOAWAY from a closing Runtime, CLOSE(capacity) at the cap
AdmitSessionless(c) ==
    /\ pc[c] = "ping"
    /\ IF Closing \/ Cardinality(probes) >= SlMax
         THEN Answer(c, IF Closing THEN "AWAY" ELSE "FULL") /\ probes' = probes
         ELSE Answer(c, "OK") /\ probes' = probes \cup {c}
    /\ UNCHANGED <<hello, may, to, hs, drained, tableVars, lnVars, sessVars, closeVars>>

\* watchSessionless: the place is freed when the carrier is done
ProbeDone(c) ==
    /\ c \in probes /\ probes' = probes \ {c}
    /\ UNCHANGED <<hsVars, hs, drained, tableVars, lnVars, sessVars, closeVars>>

(***************************************************************************)
(* The actor of a session.  It takes its next step only after the Registry *)
(* calls of the last one.                                                  *)
(***************************************************************************)

Runs(s) == st[s] \in {"pending", "open", "ended"} /\ reg[s] = "none"

\* Carriers of s that still wait for their first response hear a
Tell(s, a) == ans' = [c \in Carrier |-> IF c \in lanes[s] /\ ans[c] = "none" THEN a ELSE ans[c]]

End(s) == st' = [st EXCEPT ![s] = "ended"] /\ reg' = [reg EXCEPT ![s] = "note"]

\* refusePendingLocked and withdrawnLocked
RefusePending(s, v, told) ==
    /\ verdict' = [verdict EXCEPT ![s] = v] /\ Tell(s, told) /\ End(s)

\* pendingFactsLocked: the dialer's RST counts before a verdict of the same step
Withdrawn(s) == RefusePending(s, "UNKNOWN", "cut")

Confirm(s) ==
    /\ Runs(s) /\ st[s] = "pending" /\ s \in held
    /\ IF "rst" \in posted[s]
         THEN Withdrawn(s)
         ELSE /\ verdict' = [verdict EXCEPT ![s] = "OK"] /\ Tell(s, "OK")
              /\ st' = [st EXCEPT ![s] = "open"] /\ reg' = [reg EXCEPT ![s] = "opened"]
    /\ UNCHANGED <<hello, may, pc, to, slotVars, tableVars, lnVars, lanes, adopting, posted, closeVars>>

Reject(s) ==
    /\ Runs(s) /\ st[s] = "pending" /\ s \in held
    /\ IF "rst" \in posted[s] THEN Withdrawn(s) ELSE RefusePending(s, "REJECTED", "REJECTED")
    /\ UNCHANGED <<hello, may, pc, to, slotVars, tableVars, lnVars, lanes, adopting, posted, closeVars>>

\* pendingLocked: a withdrawal, else AcceptTimeout
PendingDue(s) ==
    /\ Runs(s) /\ st[s] = "pending"
    /\ IF "rst" \in posted[s] THEN Withdrawn(s) ELSE RefusePending(s, "CAPACITY", "CAPACITY")
    /\ UNCHANGED <<hello, may, pc, to, slotVars, tableVars, lnVars, lanes, adopting, posted, closeVars>>

\* onRefuseLocked and onShutdownLocked; an open session only heeds the second
OnCommand(s, cmd) ==
    /\ Runs(s) /\ cmd \in posted[s] \ {"rst"} /\ posted' = [posted EXCEPT ![s] = @ \ {cmd}]
    /\ IF st[s] = "pending"
         THEN LET v == IF cmd = "refuse" THEN "CAPACITY" ELSE "GOING_AWAY"
              IN  IF cmd # "shutdown" /\ "rst" \in posted[s] THEN Withdrawn(s) ELSE RefusePending(s, v, v)
       ELSE IF st[s] = "open" /\ cmd = "shutdown" THEN End(s) /\ UNCHANGED <<verdict, ans>>
       ELSE UNCHANGED <<st, reg, verdict, ans>>
    /\ UNCHANGED <<hello, may, pc, to, slotVars, tableVars, lnVars, lanes, adopting, closeVars>>

\* An open session comes to any of its ends
Ends(s) ==
    /\ Runs(s) /\ st[s] = "open" /\ End(s)
    /\ UNCHANGED <<hsVars, slotVars, tableVars, lnVars, verdict, lanes, adopting, posted, closeVars>>

\* Mutant: an ended session drops what it was handed
OnAdopt_Drops(s, c) ==
    /\ Runs(s) /\ c \in adopting[s] /\ adopting' = [adopting EXCEPT ![s] = @ \ {c}]
    /\ lanes' = IF st[s] = "ended" THEN lanes ELSE [lanes EXCEPT ![s] = @ \cup {c}]
    /\ ans' = CASE st[s] = "pending" -> ans
                 [] st[s] = "open" -> [ans EXCEPT ![c] = "OK"]
                 [] OTHER -> ans
    /\ UNCHANGED <<hello, may, pc, to, slotVars, tableVars, lnVars, st, verdict, posted, reg, closeVars>>

\* onAdoptLocked: parked until the verdict, confirmed, or refused for an ended session
OnAdopt(s, c) ==
    /\ Runs(s) /\ c \in adopting[s] /\ adopting' = [adopting EXCEPT ![s] = @ \ {c}]
    /\ lanes' = IF st[s] = "ended" THEN lanes ELSE [lanes EXCEPT ![s] = @ \cup {c}]
    /\ ans' = CASE st[s] = "pending" -> ans
                 [] st[s] = "open" -> [ans EXCEPT ![c] = "OK"]
                 [] OTHER -> [ans EXCEPT ![c] = IF hello[c].t = "OPEN" THEN OpenAck(s) ELSE "UNKNOWN"]
    /\ UNCHANGED <<hello, may, pc, to, slotVars, tableVars, lnVars, st, verdict, posted, reg, closeVars>>

\* Mutant: an ended session is not recorded
NoteEnded_Skips(s) ==
    /\ reg[s] = "note" /\ reg' = [reg EXCEPT ![s] = "tomb"] /\ draining' = draining
    /\ UNCHANGED <<hsVars, slotVars, tableVars, lnVars, st, verdict, lanes, adopting, posted, rc, join>>

\* lnRegistry.Ended records the session for Runtime.Close before it leaves the table
NoteEnded(s) ==
    /\ reg[s] = "note" /\ reg' = [reg EXCEPT ![s] = "tomb"] /\ draining' = draining \cup {s}
    /\ UNCHANGED <<hsVars, slotVars, tableVars, lnVars, st, verdict, lanes, adopting, posted, rc, join>>

\* sessionTable.ended: the unit is free, a tombstone answers from now on, the oldest may go
TableEnded(s) ==
    LET k == hello[s].key  all == Append(tombs, k)  over == Len(all) > 2 * MaxSessions IN
    /\ reg[s] = "tomb" /\ reg' = [reg EXCEPT ![s] = "leave"] /\ units' = units - 1
    /\ tombs' = IF over THEN Tail(all) ELSE all
    /\ table' = [i \in Key |-> IF i = k THEN [s |-> s, tomb |-> TRUE]
                               ELSE IF over /\ i = Head(all) THEN None ELSE table[i]]
    /\ UNCHANGED <<hsVars, slotVars, lnVars, st, verdict, lanes, adopting, posted, closeVars>>

\* Listener.leavePending, after Registry.Opened and after Registry.Ended
LeavePending(s) ==
    /\ reg[s] \in {"opened", "leave"} /\ reg' = [reg EXCEPT ![s] = "none"]
    /\ slots' = slots \ {s} /\ queue' = Without(queue, s)
    /\ UNCHANGED <<hsVars, slotVars, tableVars, reserved, held, lnClosed, st, verdict, lanes,
                   adopting, posted, closeVars>>

Exit(s) ==
    /\ Runs(s) /\ st[s] = "ended" /\ adopting[s] = {} /\ st' = [st EXCEPT ![s] = "exited"]
    /\ UNCHANGED <<hsVars, slotVars, tableVars, lnVars, verdict, lanes, adopting, posted, reg, closeVars>>

(***************************************************************************)
(* Time, the dialer, the application and Runtime.Close.                    *)
(***************************************************************************)

\* tombIndex.removeLocked: a key has one tombstone at most
Unlink(q, k) ==
    LET i == CHOOSE j \in DOMAIN q : q[j] = k
    IN  IF \E j \in DOMAIN q : q[j] = k THEN SubSeq(q, 1, i - 1) \o SubSeq(q, i + 1, Len(q)) ELSE q

\* A tombstone's TombstoneTTL passed
Expire(k) ==
    /\ "expires" \in may /\ table[k] # None /\ table[k].tomb
    /\ table' = [table EXCEPT ![k] = None] /\ tombs' = Unlink(tombs, k)
    /\ UNCHANGED <<hsVars, slotVars, units, lnVars, sessVars, closeVars>>

\* The dialer withdraws its OPEN: RST(AbortWithdrawn) on a carrier of s
DialerWithdraws(s) ==
    /\ "withdraws" \in may /\ st[s] = "pending" /\ lanes[s] # {}
    /\ "rst" \notin posted[s] /\ Post(s, "rst")
    /\ UNCHANGED <<hsVars, slotVars, tableVars, lnVars, st, verdict, lanes, adopting, reg, closeVars>>

\* A carrier dies; a pending session survives it
LaneDies(s, c) ==
    /\ "dies" \in may /\ c \in lanes[s] /\ st[s] \in {"pending", "open"}
    /\ lanes' = [lanes EXCEPT ![s] = @ \ {c}]
    /\ ans' = IF ans[c] = "none" THEN [ans EXCEPT ![c] = "cut"] ELSE ans
    /\ UNCHANGED <<hello, may, pc, to, slotVars, tableVars, lnVars, st, verdict, adopting, posted, reg, closeVars>>

\* Listener.Accept skips a session that is no longer pending
Accept ==
    /\ queue # <<>> /\ ~lnClosed /\ queue' = Tail(queue)
    /\ held' = IF st[Head(queue)] = "pending" THEN held \cup {Head(queue)} ELSE held
    /\ UNCHANGED <<hsVars, slotVars, tableVars, reserved, slots, lnClosed, sessVars, closeVars>>

\* Listener.Close refuses every session that holds a slot
ListenerClose ==
    /\ "stops" \in may /\ ~lnClosed /\ rc = "run" /\ lnClosed' = TRUE
    /\ posted' = [s \in Carrier |-> IF s \in slots THEN posted[s] \cup {"refuse"} ELSE posted[s]]
    /\ UNCHANGED <<hsVars, slotVars, tableVars, reserved, slots, queue, held,
                   st, verdict, lanes, adopting, reg, closeVars>>

LiveSessions == {table[k].s : k \in {i \in Key : Live(i)}}

\* Runtime.Close: closing, every Listener shut, every live session told, the slots drained
CloseBegins ==
    /\ "closes" \in may /\ rc = "run" /\ rc' = "closing"
    /\ UNCHANGED <<hsVars, slotVars, tableVars, lnVars, sessVars, draining, join>>

CloseShuts ==
    /\ rc = "closing" /\ rc' = "shut" /\ lnClosed' = TRUE
    /\ UNCHANGED <<hsVars, slotVars, tableVars, reserved, slots, queue, held, sessVars, draining, join>>

CloseTells ==
    /\ rc = "shut" /\ rc' = "told"
    /\ posted' = [s \in Carrier |-> IF s \in LiveSessions THEN posted[s] \cup {"shutdown"} ELSE posted[s]]
    /\ UNCHANGED <<hsVars, slotVars, tableVars, lnVars, st, verdict, lanes, adopting, reg, draining, join>>

CloseDrains ==
    /\ rc = "told" /\ rc' = "drained" /\ drained' = TRUE /\ hs' = <<>>
    /\ UNCHANGED <<hsVars, probes, tableVars, lnVars, sessVars, draining, join>>

\* The handshakes are joined; what is live or ended now is all there will be
CloseJoins ==
    /\ rc = "drained" /\ \A c \in Carrier : Unheld(c)
    /\ rc' = "joined" /\ join' = LiveSessions \cup draining
    /\ UNCHANGED <<hsVars, slotVars, tableVars, lnVars, sessVars, draining>>

CloseReturns ==
    /\ rc = "joined" /\ \A s \in join : st[s] = "exited"
    /\ probes = {} /\ rc' = "closed"
    /\ UNCHANGED <<hsVars, slotVars, tableVars, lnVars, sessVars, draining, join>>

HandshakeStep(c) ==
    \/ StartHandshake(c) \/ ReadHello(c) \/ Release(c) \/ AdmitView(c) \/ Lookup(c)
    \/ ReserveUnit(c) \/ ReserveSlot(c) \/ Insert(c) \/ Bind(c) \/ Start(c)
    \/ LateShutdown(c) \/ Enqueue(c) \/ Attach(c) \/ AdmitSessionless(c)

ActorStep(s) ==
    \/ NoteEnded(s) \/ TableEnded(s) \/ LeavePending(s) \/ Exit(s) \/ PendingDue(s)
    \/ \E cmd \in {"refuse", "away", "shutdown"} : OnCommand(s, cmd)
    \/ \E c \in Carrier : OnAdopt(s, c)

CloseStep == CloseShuts \/ CloseTells \/ CloseDrains \/ CloseJoins \/ CloseReturns

Next ==
    \/ \E c \in Carrier : BeginHandshake(c) \/ HandshakeStep(c) \/ ProbeDone(c)
    \/ \E s \in Carrier : ActorStep(s) \/ Confirm(s) \/ Reject(s) \/ Ends(s) \/ DialerWithdraws(s)
    \/ \E s, c \in Carrier : LaneDies(s, c)
    \/ \E k \in Key : Expire(k)
    \/ Accept \/ ListenerClose \/ CloseBegins \/ CloseStep

Spec == Init /\ [][Next]_vars

\* Goroutines run, AcceptTimeout expires, and a sessionless carrier told GOAWAY ends
FairSpec ==
    /\ Spec /\ WF_vars(CloseStep)
    /\ \A c \in Carrier : WF_vars(HandshakeStep(c)) /\ WF_vars(ActorStep(c)) /\ WF_vars(ProbeDone(c))

(***************************************************************************)
(* Properties.                                                             *)
(***************************************************************************)

At(where) == Cardinality({c \in Carrier : pc[c] \in where})

\* MaxSessions units and backlog slots are exact at every moment, whatever admissions
\* race, lose an insert, or meet a closing Listener: each is owned by an admission in
\* progress or by a session (reserve, insertOrGet, bind, leavePending, ended).
SlotsExact ==
    /\ units = Cardinality(LiveSessions) + At({"backlog", "insert"}) /\ units <= MaxSessions
    /\ reserved = At({"insert", "bind"}) /\ reserved + Cardinality(slots) <= Backlog
    /\ \A s \in Carrier : st[s] \in {"open", "ended", "exited"} /\ reg[s] = "none" => s \notin slots
    /\ \A s \in Carrier : st[s] \in {"new", "pending"} => table[hello[s].key] = [s |-> s, tomb |-> FALSE]

\* Runtime.Close returns only after every session ended, although sessions are admitted
\* and end while it takes its two snapshots (noteEnded, the late Shutdown of admitOpen);
\* and from its joins on no session goes on without having been told.
CloseMissesNone ==
    /\ rc = "closed" => \A s \in Carrier : st[s] \in {"none", "exited"}
    /\ rc \in {"joined", "closed"} =>
         \A s \in Carrier : st[s] \in {"pending", "open"} => posted[s] \cap {"shutdown", "away"} # {}

Promise == INSTANCE OpenOnce WITH
    over <- {s \in Carrier : verdict[s] = "OK" /\ st[s] \in {"ended", "exited"}},
    to <- [c \in Carrier |-> IF hello[c].t = "OPEN" THEN to[c] ELSE None],
    ans <- [c \in Carrier |-> IF hello[c].t = "OPEN" THEN ans[c] ELSE "none"]

\* An OPEN is idempotent (L47): every carrier answered in a session's name hears the one
\* decision of that session, on its lanes, by AttachOpen, and from its tombstone.
OpenIsOnce == Promise!Spec

\* Every carrier a handshake was begun for is answered or closed, and a Runtime.Close returns
Answered ==
    /\ \A c \in Carrier : pc[c] = "begun" ~> ans[c] # "none"
    /\ (rc = "closing") ~> (rc = "closed")

=============================================================================
