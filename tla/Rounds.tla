------------------------------- MODULE Rounds -------------------------------
(***************************************************************************)
(* The writer's rounds over the ready views of a MUX stream trunk          *)
(* (internal/carrier/mux.go: wakeView, reReadyLocked, drrRound, drrTurn,   *)
(* viewCall, returnScratchLocked; writer.go: writeRound, sleep), with the  *)
(* part of a session's Fill that decides them (internal/session/fill.go).  *)
(*                                                                         *)
(* Views are 1 .. N in handle order.  Payload is counted in units; a       *)
(* segment is Seg units and is not cut to fill a partly used batch.        *)
(* A producer wakes a lane only when its last Fill placed nothing (idle),  *)
(* and it holds the session's lock until the wake is done, so a Fill of    *)
(* that view waits for it; the writer's other steps do not.                *)
(***************************************************************************)
EXTENDS Naturals, Sequences, SequencesExt

CONSTANTS N, Seg, Quantum, Budget, MaxFrames, Capacity,
          MaxMade         \* bounds on what the producers of each view make

VARIABLES
    queue, owes, made,    \* the session of a view: payload queued, a control frame owed, payload made
    idle,                 \* lane.idle
    waker,                \* a producer inside wakeView: where it is
    ready, ring,          \* v.ready, and the ready ring
    capList, capPM,       \* the cap-marked views, and the PONG watermark when the latest was marked
    pc, sc, k, prog,      \* the round: the step, its scratch, the loop's index and progress
    call,                 \* the endpoint call: quota, resumed, what it appended and used, capped
    n, data, bCap,        \* the batch: frames, payload, cap-blocked
    rdPM,                 \* the watermark the round read
    deficit, resume, order,   \* order: the views, the least recently served first
    submitted, pongMark, capFlag, wake

sessVars == <<queue, owes, made, idle>>
ringVars == <<ready, ring>>
roundVars == <<sc, k, prog, call, n, data, bCap, rdPM>>
drrVars == <<deficit, resume, order>>
carrierVars == <<submitted, pongMark, capFlag, wake>>
rVars == <<sessVars, waker, ringVars, capList, capPM, pc, roundVars, drrVars, carrierVars>>

V == 1 .. N
Least(a, b) == IF a < b THEN a ELSE b
NoCall == [q |-> 0, resumed |-> FALSE, app |-> 0, used |-> 0, capped |-> FALSE]

Init ==
    /\ queue = [v \in V |-> 0] /\ owes = [v \in V |-> FALSE] /\ made = [v \in V |-> 0]
    /\ idle = [v \in V |-> TRUE] /\ waker = [v \in V |-> "no"]
    /\ ready = [v \in V |-> FALSE] /\ ring = <<>> /\ capList = {} /\ capPM = 0
    /\ pc = "sleep" /\ sc = <<>> /\ k = 1 /\ prog = FALSE /\ call = NoCall
    /\ n = 0 /\ data = 0 /\ bCap = FALSE /\ rdPM = 0
    /\ deficit = [v \in V |-> 0] /\ resume = [v \in V |-> FALSE] /\ order = [v \in V |-> v]
    /\ submitted = 0 /\ pongMark = 0 /\ capFlag = FALSE /\ wake = FALSE

(***************************************************************************)
(* The sessions' producers and the reader.                                 *)
(***************************************************************************)

\* A producer queues payload or owes a control frame; it wakes an idle lane (wakeView's CAS)
Produce(v, x, c) ==
    /\ waker[v] = "no" /\ made[v] + x <= MaxMade[v] /\ (x > 0 \/ (c /\ ~owes[v]))
    /\ queue' = [queue EXCEPT ![v] = @ + x] /\ made' = [made EXCEPT ![v] = @ + x + IF c THEN 1 ELSE 0]
    /\ owes' = [owes EXCEPT ![v] = @ \/ c] /\ idle' = [idle EXCEPT ![v] = FALSE]
    /\ waker' = [waker EXCEPT ![v] = IF ~idle[v] THEN "no" ELSE IF ready[v] THEN "token" ELSE "push"]
    /\ ready' = [ready EXCEPT ![v] = @ \/ idle[v]]
    /\ UNCHANGED <<ring, capList, capPM, pc, roundVars, drrVars, carrierVars>>

\* wakeView: the push under mx, then the writer's wake always
WakePush(v) ==
    /\ waker[v] = "push" /\ waker' = [waker EXCEPT ![v] = "token"] /\ ring' = Append(ring, v)
    /\ UNCHANGED <<sessVars, ready, capList, capPM, pc, roundVars, drrVars, carrierVars>>
WakeToken(v) ==
    /\ waker[v] = "token" /\ waker' = [waker EXCEPT ![v] = "no"] /\ wake' = TRUE
    /\ UNCHANGED <<sessVars, ringVars, capList, capPM, pc, roundVars, drrVars, submitted, pongMark, capFlag>>

\* pong: a matched PONG moves the watermark; it wakes the writer while the last round was cap-blocked
Pong ==
    /\ \E m \in pongMark + 1 .. submitted : pongMark' = m
    /\ wake' = (wake \/ capFlag)
    /\ UNCHANGED <<sessVars, waker, ringVars, capList, capPM, pc, roundVars, drrVars, submitted, capFlag>>

(***************************************************************************)
(* A round.                                                                *)
(***************************************************************************)

\* sleep returns at a wake; a round that wrote goes on by itself
Woken == \/ pc = "go" /\ wake' = wake
         \/ pc = "sleep" /\ wake /\ wake' = FALSE
EmptyBatch == n' = 0 /\ data' = 0 /\ bCap' = FALSE

\* writeRound publishes the cap-blocked flag before any Fill
RoundStart ==
    /\ Woken /\ EmptyBatch /\ pc' = "mx" /\ rdPM' = pongMark /\ capFlag' = TRUE
    /\ UNCHANGED <<sessVars, waker, ringVars, capList, capPM, sc, k, prog, call, drrVars, submitted, pongMark>>

\* reReadyLocked and takeReadyLocked under one mx; drrRound sorts the scratch by service
TakeReady ==
    /\ pc = "mx"
    /\ LET freed == IF rdPM # capPM THEN capList ELSE {}
           push == SelectSeq(order, LAMBDA v : v \in freed /\ ~ready[v])
           taken == ring \o push IN
       /\ capList' = capList \ freed
       /\ ready' = [v \in V |-> ready[v] \/ v \in freed]
       /\ sc' = FlattenSeq([i \in V |-> SelectSeq(taken, LAMBDA v : v = order[i])])
       /\ pc' = (IF taken = <<>> THEN "finish" ELSE "control")
    /\ ring' = <<>> /\ k' = 1 /\ prog' = FALSE
    /\ UNCHANGED <<sessVars, waker, capPM, call, n, data, bCap, rdPM, drrVars, carrierVars>>

BatchFull == n >= MaxFrames
NearFull == n + 2 >= MaxFrames
BatchCut(rest) == BatchFull \/ (data > 0 /\ Budget - data < rest)

\* The control pass: a call under quota 0 places control frames only and decides nothing
ControlPass ==
    /\ pc = "control"
    /\ LET v == sc[k]  places == owes[v] /\ ~BatchFull IN
       /\ waker[v] = "no"
       /\ owes' = [owes EXCEPT ![v] = @ /\ ~places] /\ n' = (IF places THEN n + 1 ELSE n)
    /\ IF k < Len(sc) THEN k' = k + 1 /\ pc' = pc ELSE k' = 1 /\ pc' = "drr"
    /\ UNCHANGED <<queue, made, idle, waker, ringVars, capList, capPM, sc, prog, call, data, bCap, rdPM, drrVars, carrierVars>>

\* The DRR loop's next view: the quota, and ready is cleared before the call
Quota(v) == IF resume[v] THEN deficit[v] ELSE Least(deficit[v] + Quantum, 2 * Quantum)
TurnBegin ==
    /\ pc = "drr" /\ k <= Len(sc) /\ data < Budget /\ ~BatchFull
    /\ IF sc[k] = 0 THEN k' = k + 1 /\ UNCHANGED <<pc, call, ready>>
       ELSE /\ call' = [NoCall EXCEPT !.q = Quota(sc[k]), !.resumed = resume[sc[k]]]
            /\ ready' = [ready EXCEPT ![sc[k]] = FALSE] /\ pc' = "fill" /\ k' = k
    /\ UNCHANGED <<sessVars, waker, ring, capList, capPM, sc, prog, n, data, bCap, rdPM, drrVars, carrierVars>>

\* addDataLocked, while the capacity lasts: the payload and the frames of one call
Placed(v, room, left, frames) ==
    LET Seg1 == IF room < Least(queue[v], Seg) THEN room ELSE Least(queue[v], Seg)
        Go[i \in 0 .. Budget] ==      \* i frames placed so far; the rest of the payload
          IF i = 0 THEN [x |-> 0, f |-> 0]
          ELSE LET p == Go[i - 1]
                   s == Least(queue[v] - p.x, Seg)
                   size == IF p.f = 0 THEN Seg1 ELSE s IN
               IF p.f # i - 1 \/ p.x >= left \/ size = 0 \/ p.f >= frames \/ (p.f > 0 /\ s > room - p.x) THEN p
               ELSE [x |-> p.x + size, f |-> i] IN
    Go[Budget]

\* viewCall and the session's Fill under its lock: the control frame, the payload, idle, the cap mark
Fill ==
    /\ pc = "fill"
    /\ LET v == sc[k]
           ctl == owes[v] /\ ~BatchFull
           n1 == IF ctl THEN n + 1 ELSE n
           inflight == submitted - pongMark
           left == IF inflight + data >= Capacity THEN 0 ELSE Capacity - inflight - data
           p == Placed(v, Least(Budget - data, call.q), left, MaxFrames - n1)
           capped == p.x >= left /\ queue[v] > p.x
           app == p.f + IF ctl THEN 1 ELSE 0 IN
       /\ waker[v] = "no"
       /\ owes' = [owes EXCEPT ![v] = @ /\ ~ctl] /\ queue' = [queue EXCEPT ![v] = @ - p.x]
       /\ idle' = [idle EXCEPT ![v] = (app = 0)]
       /\ n' = n1 + p.f /\ data' = data + p.x /\ bCap' = (bCap \/ capped)
       /\ capList' = (IF capped THEN capList \cup {v} ELSE capList)
       /\ capPM' = (IF capped /\ v \notin capList THEN rdPM ELSE capPM)
       /\ call' = [call EXCEPT !.app = app, !.used = p.x, !.capped = capped]
    /\ pc' = "after"
    /\ UNCHANGED <<made, waker, ringVars, sc, k, prog, rdPM, drrVars, carrierVars>>

Serve(v) == order' = Append(SelectSeq(order, LAMBDA w : w # v), v)
Rest == IF call.q > call.used THEN call.q - call.used ELSE 0
Stuck == call.app = 0 /\ (NearFull \/ (~call.capped /\ BatchCut(call.q)))

\* The rest of a cut turn placed nothing with room left: the turn ends, and drrTurn's loop starts the next one,
\* clearing ready again
TurnAgain ==
    /\ pc = "after" /\ call.app = 0 /\ ~Stuck /\ ~call.capped /\ call.resumed
    /\ deficit' = [deficit EXCEPT ![sc[k]] = 0] /\ resume' = [resume EXCEPT ![sc[k]] = FALSE] /\ Serve(sc[k])
    /\ pc' = "again"
    /\ UNCHANGED <<sessVars, waker, ringVars, capList, capPM, roundVars, carrierVars>>
TurnRestart ==
    /\ pc = "again" /\ pc' = "fill" /\ call' = [NoCall EXCEPT !.q = Quota(sc[k])]
    /\ ready' = [ready EXCEPT ![sc[k]] = FALSE]
    /\ UNCHANGED <<sessVars, waker, ring, capList, capPM, sc, k, prog, n, data, bCap, rdPM, drrVars, carrierVars>>

\* drrRound's first case: a call that placed control frames only, or that the batch had no room for, keeps the view ready
Keep_StuckOnly(v) == Stuck /\ ~ready[v]
Keep(v) == (Stuck \/ (call.app > 0 /\ call.used = 0)) /\ ~ready[v]

\* drrTurn's end and drrRound's switch: what the call leaves of the turn, and whether the view stays ready
TurnEnd ==
    /\ pc = "after" /\ ~(call.app = 0 /\ ~Stuck /\ ~call.capped /\ call.resumed)
    /\ LET v == sc[k]
           cut == call.used > 0 /\ Rest > 0 /\ (call.capped \/ BatchCut(Rest))
           reset == call.app = 0 /\ ~Stuck /\ ~call.capped
           again == call.used > 0 /\ ~ready[v] IN
       /\ deficit' = [deficit EXCEPT ![v] = IF call.used > 0 THEN Rest ELSE IF reset THEN 0 ELSE @]
       /\ resume' = [resume EXCEPT ![v] = IF call.used > 0 THEN cut ELSE @ /\ ~reset]
       /\ IF call.used > 0 /\ ~cut THEN Serve(v) ELSE UNCHANGED order
       /\ ready' = [ready EXCEPT ![v] = @ \/ Keep(v) \/ again]
       /\ ring' = (IF Keep(v) THEN Append(ring, v) ELSE ring)
       /\ sc' = (IF again THEN sc ELSE [sc EXCEPT ![k] = 0]) /\ prog' = (prog \/ again)
    /\ k' = k + 1 /\ pc' = "drr"
    /\ UNCHANGED <<sessVars, waker, capList, capPM, call, n, data, bCap, rdPM, carrierVars>>

\* The loop goes round again while a view made progress, and ends with the batch
DrrAgain ==
    /\ pc = "drr" /\ k > Len(sc) /\ prog /\ k' = 1 /\ prog' = FALSE
    /\ UNCHANGED <<sessVars, waker, ringVars, capList, capPM, pc, sc, call, n, data, bCap, rdPM, drrVars, carrierVars>>
DrrEnds ==
    /\ pc = "drr" /\ ((k > Len(sc) /\ ~prog) \/ (k <= Len(sc) /\ (data >= Budget \/ BatchFull)))
    /\ pc' = "finish"
    /\ UNCHANGED <<sessVars, waker, ringVars, capList, capPM, roundVars, drrVars, carrierVars>>

\* writeBatch: the batch is written, or the writer sleeps
Submit == submitted' = submitted + data /\ pc' = IF n = 0 THEN "sleep" ELSE "go"

\* returnScratchLocked; muxRound keeps the trunk cap-blocked; the round ends
RoundEnds ==
    /\ pc = "finish"
    /\ ring' = ring \o SelectSeq(sc, LAMBDA v : v # 0 /\ ready[v]) /\ sc' = <<>>
    /\ capFlag' = (bCap \/ capList # {}) /\ Submit /\ call' = NoCall
    /\ UNCHANGED <<sessVars, waker, ready, capList, capPM, k, prog, n, data, bCap, rdPM, drrVars, pongMark, wake>>

Next ==
    \/ \E v \in V : Produce(v, 1, FALSE) \/ Produce(v, 2, FALSE) \/ Produce(v, 0, TRUE) \/ WakePush(v) \/ WakeToken(v)
    \/ Pong \/ RoundStart \/ TakeReady \/ ControlPass \/ TurnBegin \/ Fill \/ TurnAgain \/ TurnRestart \/ TurnEnd
    \/ DrrAgain \/ DrrEnds \/ RoundEnds

Spec == Init /\ [][Next]_rVars

(***************************************************************************)
(* Properties.                                                             *)
(***************************************************************************)

Asleep == pc = "sleep" /\ ~wake /\ \A v \in V : waker[v] = "no"

\* When the writer sleeps and nobody is about to wake it, a view that owes frames waits for capacity only, with a
\* PONG to come that wakes the writer and readies it: no view is forgotten (R1-1, drrRound's "stuck" case, C5).
NoLostView ==
    Asleep => \A v \in V : queue[v] > 0 \/ owes[v] =>
                /\ v \in capList /\ capFlag /\ submitted > pongMark /\ ~owes[v]

\* A view in the ready ring has its ready flag set (mux.go:276, "v.ready is true exactly while v is in the ring or in
\* the writer's round scratch"): a Wake's CAS then pushes no view that the ring already carries.
RingIsReady == \A v \in V : Contains(ring, v) => ready[v]

=============================================================================
