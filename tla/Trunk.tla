------------------------------- MODULE Trunk -------------------------------
(***************************************************************************)
(* The views of one MUX trunk between a dialer "D" and a passive "P"       *)
(* (internal/carrier: mux.go, admit.go, detach.go).  Each side keeps a     *)
(* record per handle: the view's lifecycle state and the flags of viewExt. *)
(* chan[s] is the byte stream side s wrote and the other has not read.     *)
(*                                                                         *)
(* Handle 1 is the handshake's view, live on both sides at the start.  A   *)
(* Fill is two steps, because the session, the reader and Kill run while   *)
(* the writer is inside an endpoint; every other section runs under mx.    *)
(* The frames of a session (ACK, DATA, FIN, SCHED, RST...) are "data".     *)
(* Deadlines (the DETACH bound, the hold bound, WriteAndClose's) may pass  *)
(* at any moment; MaxExpire bounds how many DETACH bounds pass.            *)
(***************************************************************************)
EXTENDS Naturals, Sequences, FiniteSets

CONSTANTS MaxHandle, MaxData, MaxExpire,
          Plans   \* [cap, kind, D, P, may]: MuxMaxViews, the first frames, what each session does, troubles

VARIABLES
    plan,           \* one of Plans; it never changes
    view,           \* per side and handle: the view
    chan,           \* per side: frames written and not yet read
    wr,             \* per side: the Fill in progress
    lasts, detq,    \* per side: the queues of last frames and of DETACHes
    opens,          \* dialer: the opens FIFO
    refusals,       \* passive: the refusal ring, in order
    tol, tolHead,   \* per side: the two tolerance rings
    next, maxSeen,  \* dialer: the next handle; passive: the largest seen
    full, goAway, peerGoAway,
    expired,        \* per side: DETACH bounds passed
    over,           \* per side: a handle retired at its bound was pushed out of its ring
    overCap,        \* the passive answered CodeMuxFull because it was full
    viol            \* the rule a frame broke, which kills the trunk

queues == <<lasts, detq, opens, refusals>>
rings == <<tol, tolHead, over>>
marks == <<goAway, peerGoAway, expired, overCap>>
vars == <<plan, view, chan, wr, queues, rings, next, maxSeen, full, marks, viol>>

Side == {"D", "P"}
Other(s) == IF s = "D" THEN "P" ELSE "D"
Handle == 1 .. MaxHandle
cap == plan.cap

NoView == [st |-> "none", tab |-> FALSE, first |-> "open", queued |-> FALSE, att |-> FALSE, go |-> FALSE, fill |-> FALSE,
           need |-> FALSE, retq |-> FALSE, detQ |-> FALSE, sent |-> FALSE, pdet |-> FALSE, refused |-> FALSE,
           last |-> "", lsent |-> FALSE, prst |-> FALSE, got |-> FALSE, fin |-> FALSE, n |-> 0]

\* startMux: view 1 is live, with an endpoint
View1 == [NoView EXCEPT !.st = "live", !.tab = TRUE, !.att = TRUE, !.fill = TRUE, !.got = TRUE]

NoFill == [h |-> 0, f |-> "", ret |-> FALSE]

Init ==
    /\ plan \in Plans
    /\ view = [s \in Side |-> [h \in Handle |-> IF h = 1 THEN View1 ELSE NoView]]
    /\ chan = [s \in Side |-> <<>>] /\ wr = [s \in Side |-> NoFill]
    /\ lasts = [s \in Side |-> <<>>] /\ detq = [s \in Side |-> <<>>] /\ opens = <<>> /\ refusals = <<>>
    /\ tol = [s \in Side |-> [k \in {"refused", "retired"} |-> [i \in 0 .. cap - 1 |-> 0]]]
    /\ tolHead = [s \in Side |-> [k \in {"refused", "retired"} |-> 0]]
    /\ next = 2 /\ maxSeen = 1 /\ full = FALSE /\ viol = "" /\ overCap = FALSE
    /\ goAway = [s \in Side |-> FALSE] /\ peerGoAway = FALSE /\ expired = [s \in Side |-> 0]
    /\ over = [s \in Side |-> FALSE]

Frame(t, h, c) == [t |-> t, h |-> h, c |-> c]

(***************************************************************************)
(* The view table and the places it counts.                                *)
(***************************************************************************)

InTable(s, h) == view[s][h].tab

\* finish, exit, viewDoneClosed: an ended view's Done closes when its last endpoint call returned
Done(s, h) == view[s][h].fin /\ wr[s].h # h
NViews(s) == Cardinality({h \in Handle : view[s][h].st # "none" /\ ~Done(s, h)})

\* slotsLocked: a dialer view whose Done closed keeps its place while it is in the table
Slots == NViews("D") + Cardinality({h \in Handle : Done("D", h) /\ InTable("D", h)})

\* tolerateLocked and toleratedLocked
Tolerate(s, k, h) ==
    /\ tol' = [tol EXCEPT ![s][k][tolHead[s][k]] = h]
    /\ tolHead' = [tolHead EXCEPT ![s][k] = (@ + 1) % cap]
    /\ over' = [over EXCEPT ![s] = @ \/ (k = "retired" /\ tol[s][k][tolHead[s][k]] # 0)]
InRing(s, k, h) == \E i \in 0 .. cap - 1 : tol[s][k][i] = h
Tolerated(s, h, t) ==
    IF InRing(s, "refused", h) THEN t \in {"rst", "resp", "detach"} ELSE InRing(s, "retired", h)

(***************************************************************************)
(* The ends of a view.                                                     *)
(***************************************************************************)

\* removeLocked, completeLocked: the view leaves the table and ends
Complete(v) == [v EXCEPT !.st = "gone", !.tab = FALSE, !.fin = TRUE]

\* abandonLocked: the queue the view goes to
AbandonQueue(v) ==
    IF v.detQ \/ v.sent \/ v.refused THEN ""
    ELSE IF v.st \in {"pending", "joining"} /\ v.need /\ ~v.pdet THEN "lasts"
    ELSE IF v.st \in {"pending", "joining", "awaiting", "attachedPending", "live", "held"} THEN "detq"
    ELSE ""

AbandonView(v) ==
    LET w == [v EXCEPT !.fill = FALSE, !.retq = FALSE] IN
    CASE AbandonQueue(v) = "lasts" -> [w EXCEPT !.last = "refusal", !.detQ = TRUE]
      [] AbandonQueue(v) = "detq" -> [w EXCEPT !.st = "retiring", !.detQ = TRUE]
      [] v.st = "opening" -> Complete(w)
      [] OTHER -> w

Abandon(s, h, v) ==
    /\ view' = [view EXCEPT ![s][h] = AbandonView(v)]
    /\ lasts' = IF AbandonQueue(v) = "lasts" THEN [lasts EXCEPT ![s] = Append(@, h)] ELSE lasts
    /\ detq' = IF AbandonQueue(v) = "detq" THEN [detq EXCEPT ![s] = Append(@, h)] ELSE detq
    /\ UNCHANGED <<opens, refusals>>

\* The session holds the view: an attempt of the dialer returned it, or the passive admitted it
Owned(s, h) == InTable(s, h) /\ (s = "D" => view[s][h].got)

\* killView
Kill(s, h) ==
    /\ plan[s] = "kill" /\ Owned(s, h) /\ ~view[s][h].fin
    /\ Abandon(s, h, [view[s][h] EXCEPT !.fin = TRUE])
    /\ UNCHANGED <<plan, chan, wr, rings, next, maxSeen, marks, viol>>

\* retireView: a view with frames of its session to place keeps its Fill until a call places nothing
RetireView(s, h) ==
    LET v == view[s][h] IN
    /\ plan[s] = "retire" /\ Owned(s, h) /\ ~v.fin /\ ~v.detQ /\ ~v.sent /\ ~v.refused /\ ~v.retq
    /\ IF v.att /\ (v.st \in {"live", "held"} \/ (v.st \in {"pending", "joining"} /\ v.need))
         THEN view' = [view EXCEPT ![s][h].retq = TRUE] /\ UNCHANGED queues
         ELSE Abandon(s, h, v)
    /\ UNCHANGED <<plan, chan, wr, rings, next, maxSeen, marks, viol>>

\* boundHeldRetireLocked: the go frame never came
HeldBound(s, h) ==
    /\ view[s][h].st = "held" /\ view[s][h].retq /\ Abandon(s, h, view[s][h])
    /\ UNCHANGED <<plan, chan, wr, rings, next, maxSeen, marks, viol>>

\* writeAndCloseView: opening and held views drop the frame
WriteAndCloseView(s, h, v) ==
    IF v.st \in {"opening", "held"} THEN Abandon(s, h, [v EXCEPT !.fin = TRUE])
    ELSE /\ view' = [view EXCEPT ![s][h] = [v EXCEPT !.fill = FALSE, !.retq = FALSE, !.last = "rst", !.detQ = TRUE]]
         /\ lasts' = [lasts EXCEPT ![s] = Append(@, h)] /\ UNCHANGED <<detq, opens, refusals>>

WriteAndClose(s, h) ==
    LET v == view[s][h] IN
    /\ plan[s] = "reset" /\ Owned(s, h) /\ v.att /\ ~v.need /\ ~v.detQ /\ ~v.sent /\ ~v.refused /\ ~v.fin /\ WriteAndCloseView(s, h, v)
    /\ UNCHANGED <<plan, chan, wr, rings, next, maxSeen, marks, viol>>

\* lastExpired: the deadline drops the frame; only the DETACH follows
LastExpired(s, h) ==
    LET v == view[s][h] IN
    /\ v.last = "rst"
    /\ view' = [view EXCEPT ![s][h] = AbandonView([v EXCEPT !.last = "", !.detQ = FALSE, !.fin = TRUE])]
    /\ lasts' = [lasts EXCEPT ![s] = SelectSeq(@, LAMBDA g : g # h)] /\ detq' = [detq EXCEPT ![s] = Append(@, h)]
    /\ UNCHANGED <<opens, refusals>>
    /\ UNCHANGED <<plan, chan, wr, rings, next, maxSeen, marks, viol>>

\* goAwayView: GOAWAY once, ahead of any further frame
GoAway(s, h) ==
    /\ "goaway" \in plan.may /\ ~goAway[s] /\ Owned(s, h) /\ ~view[s][h].fin
    /\ goAway' = [goAway EXCEPT ![s] = TRUE]
    /\ chan' = [chan EXCEPT ![s] = Append(@, Frame("goaway", 0, ""))]
    /\ UNCHANGED <<plan, view, wr, queues, rings, next, maxSeen, peerGoAway, expired, overCap, viol>>

(***************************************************************************)
(* The dialer's attempts and the sessions' Start.                          *)
(***************************************************************************)

\* usableForMux: whether the dialer may open another view; MaxHandle bounds the handles
Usable == next <= MaxHandle /\ ~full /\ ~peerGoAway /\ ~goAway["D"] /\ Slots < cap

\* openViewMux
OpenView(kind) ==
    /\ kind = plan.kind /\ Usable
    /\ view' = [view EXCEPT !["D"][next] = [NoView EXCEPT !.st = "opening", !.tab = TRUE, !.first = kind]]
    /\ opens' = Append(opens, next) /\ next' = next + 1
    /\ UNCHANGED <<plan, chan, wr, lasts, detq, refusals, rings, maxSeen, marks, viol>>

\* awaitResponseMux releases the first frame to the writer
AwaitResponse(h) ==
    /\ view["D"][h].st = "opening" /\ ~view["D"][h].queued
    /\ view' = [view EXCEPT !["D"][h].queued = TRUE]
    /\ UNCHANGED <<plan, chan, wr, queues, rings, next, maxSeen, marks, viol>>

\* awaitResponseMux: the context ended first; a withdrawn OPEN writes RST, any other attempt kills the view
AttemptEnds(h) ==
    LET v == view["D"][h] IN
    /\ v.st \in {"opening", "awaiting"} /\ ~v.fin /\ ~v.detQ
    /\ \/ plan["D"] = "kill" /\ Abandon("D", h, [v EXCEPT !.fin = TRUE])
       \/ plan["D"] = "reset" /\ v.first = "open" /\ WriteAndCloseView("D", h, v)
    /\ UNCHANGED <<plan, chan, wr, rings, next, maxSeen, marks, viol>>

\* startView: a withdrawal that came first ends the view
Start(s, h) ==
    LET v == view[s][h] IN
    /\ v.st \in {"attachedPending", "pending", "joining"} /\ ~v.att /\ ~v.detQ /\ ~v.fin
    /\ IF v.prst THEN Abandon(s, h, [v EXCEPT !.fin = TRUE])
       ELSE view' = [view EXCEPT ![s][h] = [v EXCEPT !.att = TRUE, !.fill = TRUE, !.go = (s = "D"),
                                                     !.st = IF s = "D" THEN "live" ELSE v.st]]
            /\ UNCHANGED queues
    /\ UNCHANGED <<plan, chan, wr, rings, next, maxSeen, marks, viol>>

\* refuse: the Runtime refuses an admitted view that has not answered
Refuse(h) ==
    LET v == view["P"][h] IN
    /\ h # 1 /\ InTable("P", h) /\ v.need /\ ~v.att /\ ~v.fin /\ ~v.detQ
    /\ view' = [view EXCEPT !["P"][h] =
                  [Complete(v) EXCEPT !.need = FALSE, !.refused = TRUE, !.fill = FALSE]]
    /\ refusals' = Append(refusals, [h |-> h, c |-> "refused"]) /\ Tolerate("P", "refused", h)
    /\ UNCHANGED <<plan, chan, wr, lasts, detq, opens, next, maxSeen, marks, viol>>

(***************************************************************************)
(* The writer (placeControlLocked, drrRound).                              *)
(***************************************************************************)

Write(s, f) == chan' = [chan EXCEPT ![s] = Append(@, f)]

\* refusedLocked: the refusal ends the handle without a DETACH
Refused(s, h, v) ==
    /\ view' = [view EXCEPT ![s][h] = [Complete(v) EXCEPT !.need = FALSE, !.refused = TRUE, !.fill = FALSE, !.retq = FALSE,
                                                          !.last = ""]]
    /\ IF v.pdet THEN UNCHANGED rings ELSE Tolerate(s, "refused", h)

\* placeControlLocked: a view's last frame, then its DETACH unless it was a refusal
PlaceLast(s) ==
    /\ lasts[s] # <<>> /\ wr[s].h = 0
    /\ LET h == Head(lasts[s])  v == view[s][h] IN
       /\ lasts' = [lasts EXCEPT ![s] = Tail(@)]
       /\ IF v.last = "refusal"
            THEN Refused(s, h, [v EXCEPT !.lsent = TRUE]) /\ Write(s, Frame("resp", h, "refused")) /\ UNCHANGED detq
            ELSE /\ view' = [view EXCEPT ![s][h] = [v EXCEPT !.last = "", !.lsent = TRUE, !.fin = TRUE, !.st = "retiring"]]
                 /\ detq' = [detq EXCEPT ![s] = Append(@, h)] /\ Write(s, Frame("rst", h, "")) /\ UNCHANGED rings
    /\ UNCHANGED <<plan, wr, opens, refusals, next, maxSeen, marks, viol>>

\* placeDetachLocked
Detached(s, h, v) ==
    LET w == [v EXCEPT !.sent = TRUE, !.detQ = TRUE, !.fill = FALSE, !.retq = FALSE, !.st = "retiring"] IN
    /\ Write(s, Frame("detach", h, ""))
    /\ view' = [view EXCEPT ![s][h] = IF v.pdet \/ goAway[s] THEN Complete(w) ELSE w]
    /\ IF goAway[s] /\ ~v.pdet THEN Tolerate(s, "retired", h) ELSE UNCHANGED rings

PlaceDetach(s) ==
    /\ detq[s] # <<>> /\ lasts[s] = <<>> /\ wr[s].h = 0
    /\ LET h == Head(detq[s])  v == view[s][h] IN
       /\ detq' = [detq EXCEPT ![s] = Tail(@)]
       /\ IF v.sent \/ ~InTable(s, h) THEN UNCHANGED <<view, chan, rings>> ELSE Detached(s, h, v)
    /\ UNCHANGED <<plan, wr, lasts, opens, refusals, next, maxSeen, marks, viol>>

PlaceRefusal ==
    /\ refusals # <<>> /\ lasts["P"] = <<>> /\ detq["P"] = <<>> /\ wr["P"].h = 0
    /\ Write("P", Frame("resp", Head(refusals).h, Head(refusals).c)) /\ refusals' = Tail(refusals)
    /\ UNCHANGED <<plan, view, wr, lasts, detq, opens, rings, next, maxSeen, marks, viol>>

\* The first frames of new handles: a later handle never overtakes an earlier one
PlaceOpen ==
    /\ opens # <<>> /\ lasts["D"] = <<>> /\ detq["D"] = <<>> /\ wr["D"].h = 0
    /\ LET h == Head(opens)  v == view["D"][h] IN
       /\ v.st = "opening" => v.queued
       /\ IF v.st = "opening"
            THEN view' = [view EXCEPT !["D"][h].st = "awaiting"] /\ Write("D", Frame("open", h, v.first))
            ELSE UNCHANGED <<view, chan>>
    /\ opens' = Tail(opens)
    /\ UNCHANGED <<plan, wr, lasts, detq, refusals, rings, next, maxSeen, marks, viol>>

\* viewCall: the session's endpoint is asked for frames; `ret' is the retirement requested before the call
FillBegin(s, h) ==
    LET v == view[s][h] IN
    /\ wr[s].h = 0 /\ v.fill /\ ~Done(s, h) /\ lasts[s] = <<>> /\ detq[s] = <<>>
    /\ \E f \in {"", "data", "ok", "refused"} :
         /\ f \in {"ok", "refused"} => v.need
         /\ f = "data" => ~v.need /\ v.n < MaxData
         /\ f = "" => v.retq
         /\ wr' = [wr EXCEPT ![s] = [h |-> h, f |-> f, ret |-> v.retq]]
    /\ UNCHANGED <<plan, view, chan, queues, rings, next, maxSeen, marks, viol>>

\* retireDrainedLocked: the last frames are out, the DETACH follows; the writer's own round has room for it
RetireDrained(s, h, v) ==
    IF v.need THEN Abandon(s, h, v) /\ UNCHANGED <<chan, rings>>
              ELSE Detached(s, h, v) /\ UNCHANGED queues

\* responsePlacedLocked after an OK: the hold, and the refusal a Kill queued meanwhile is withdrawn
OkPlaced_KeepsRefusal(h, v) ==
    /\ view' = [view EXCEPT !["P"][h] =
                  IF v.st \in {"pending", "joining"} THEN [v EXCEPT !.need = FALSE, !.st = "held", !.fill = FALSE]
                                                     ELSE [v EXCEPT !.need = FALSE]]
    /\ UNCHANGED queues

OkPlaced(h, v) ==
    LET killed == v.last = "refusal"
        w == [v EXCEPT !.need = FALSE, !.last = "", !.detQ = @ /\ ~killed]
        u == [w EXCEPT !.st = "held", !.fill = FALSE]
        drop == [lasts EXCEPT !["P"] = SelectSeq(@, LAMBDA g : ~killed \/ g # h)] IN
    IF v.st \notin {"pending", "joining"} THEN view' = [view EXCEPT !["P"][h] = w] /\ UNCHANGED queues
    ELSE /\ view' = [view EXCEPT !["P"][h] = IF killed THEN AbandonView(u) ELSE u]
         /\ lasts' = drop /\ detq' = (IF killed THEN [detq EXCEPT !["P"] = Append(@, h)] ELSE detq)
         /\ UNCHANGED <<opens, refusals>>

\* The call returns and its frames are in the batch
FillEnd(s) ==
    LET h == wr[s].h  f == wr[s].f  v == view[s][h] IN
    /\ h # 0 /\ wr' = [wr EXCEPT ![s] = NoFill]
    /\ CASE f = "" ->
              IF wr[s].ret /\ v.retq /\ ~v.detQ /\ ~v.sent /\ InTable(s, h)
                THEN RetireDrained(s, h, v) ELSE UNCHANGED <<view, chan, queues, rings>>
         [] f = "data" ->
              /\ view' = [view EXCEPT ![s][h].n = @ + 1, ![s][h].go = FALSE] /\ Write(s, Frame("data", h, ""))
              /\ UNCHANGED <<queues, rings>>
         [] f = "ok" ->
              Write(s, Frame("resp", h, "ok")) /\ UNCHANGED rings
              /\ IF v.need THEN OkPlaced(h, v) ELSE UNCHANGED <<view, queues>>
         [] f = "refused" ->
              /\ Write(s, Frame("resp", h, "refused"))
              /\ IF v.need THEN Refused(s, h, v) /\ lasts' = [lasts EXCEPT ![s] = SelectSeq(@, LAMBDA g : g # h)]
                           ELSE UNCHANGED <<view, rings, lasts>>
              /\ UNCHANGED <<detq, opens, refusals>>
    /\ UNCHANGED <<plan, next, maxSeen, marks, viol>>

\* expireLocked: the DETACH bound passed
Expire(s, h) ==
    LET v == view[s][h] IN
    /\ v.st = "retiring" /\ v.sent /\ "expire" \in plan.may /\ expired[s] < MaxExpire
    /\ expired' = [expired EXCEPT ![s] = @ + 1]
    /\ view' = [view EXCEPT ![s][h] = Complete(v)]
    /\ IF v.pdet THEN UNCHANGED rings ELSE Tolerate(s, "retired", h)
    /\ UNCHANGED <<plan, chan, wr, queues, next, maxSeen, goAway, peerGoAway, overCap, viol>>

(***************************************************************************)
(* The reader (classifyLocked, admitMux, onResponse, onDetachLocked).      *)
(***************************************************************************)

\* classifyLocked: what the reader of side s does with the session frame f
Classify(s, f) ==
    LET v == view[s][f.h]  first == f.t \in {"open", "resp"} IN
    IF ~InTable(s, f.h) THEN
         IF f.t # "open" THEN IF Tolerated(s, f.h, f.t) THEN "ignore" ELSE "illegal"
                         ELSE IF s = "P" /\ f.h > maxSeen THEN "admit" ELSE "illegal"
    ELSE CASE v.st = "awaiting" /\ f.t = "resp" -> "response"
           [] v.st \in {"pending", "joining"} /\ ~first /\ v.att -> "dispatch"
           [] v.st = "pending" /\ f.t = "rst" /\ ~v.att /\ ~v.prst -> "withdrawn"
           [] v.st = "held" /\ ~first -> "go"
           [] v.st = "live" /\ ~first /\ ~v.go /\ ~v.pdet -> "dispatch"
           [] v.st = "retiring" /\ ~v.pdet /\ f.t = "resp" /\ s = "D" /\ ~v.got -> "response"
           [] v.st = "retiring" /\ ~v.pdet /\ ~first ->
                IF s = "D" /\ f.h # 1 /\ (~v.att \/ v.go) /\ ~(v.lsent /\ v.att)
                  THEN IF v.lsent THEN "ignore" ELSE "illegal" ELSE "dispatch"
           [] OTHER -> "illegal"

Incoming(s) == Head(chan[Other(s)])
Received(s) == chan[Other(s)] # <<>> /\ chan' = [chan EXCEPT ![Other(s)] = Tail(@)]

\* readFrame and readMux: a session frame that is dispatched, recorded, ignored, or a violation
ReadSession(s) ==
    /\ chan[Other(s)] # <<>> /\ Incoming(s).t \in {"data", "rst", "open", "resp"} /\ Received(s)
    /\ LET f == Incoming(s)  c == Classify(s, f) IN
       /\ c \in {"dispatch", "ignore", "withdrawn", "go", "illegal"}
       /\ viol' = (IF c = "illegal" THEN f.t ELSE viol)
       /\ view' = CASE c = "withdrawn" -> [view EXCEPT ![s][f.h].prst = TRUE]
                    [] c = "go" -> [view EXCEPT ![s][f.h].st = "live", ![s][f.h].fill = TRUE]
                    [] OTHER -> view
    /\ UNCHANGED <<plan, wr, queues, rings, next, maxSeen, marks>>

\* admitMux: the handle becomes the largest seen; the cap and our GOAWAY refuse it through the ring
Admit ==
    /\ chan["D"] # <<>> /\ Incoming("P").t = "open" /\ Classify("P", Incoming("P")) = "admit" /\ Received("P")
    /\ LET h == Incoming("P").h
           overfull == NViews("P") + Len(refusals) >= cap IN
       /\ maxSeen' = h
       /\ overCap' = (overCap \/ overfull)
       /\ IF overfull \/ goAway["P"]
            THEN IF Len(refusals) >= cap
                   THEN viol' = "mux flood" /\ UNCHANGED <<view, refusals, rings>>
                   ELSE /\ refusals' = Append(refusals, [h |-> h, c |-> IF overfull THEN "full" ELSE "refused"])
                        /\ Tolerate("P", "refused", h) /\ UNCHANGED <<view, viol>>
            ELSE /\ view' = [view EXCEPT !["P"][h] =
                               [NoView EXCEPT !.tab = TRUE, !.first = Incoming("P").c, !.need = TRUE, !.got = TRUE,
                                              !.st = IF Incoming("P").c = "join" THEN "joining" ELSE "pending"]]
                 /\ UNCHANGED <<refusals, rings, viol>>
    /\ UNCHANGED <<plan, wr, lasts, detq, opens, next, goAway, peerGoAway, expired>>

\* onResponse
Respond ==
    /\ chan["P"] # <<>> /\ Incoming("D").t = "resp" /\ Classify("D", Incoming("D")) = "response" /\ Received("D")
    /\ LET f == Incoming("D")  v == [view["D"][f.h] EXCEPT !.got = TRUE] IN
       view' = [view EXCEPT !["D"][f.h] =
                  CASE f.c = "ok" /\ v.st = "awaiting" -> [v EXCEPT !.st = "attachedPending"]
                    [] f.c # "ok" /\ v.st = "awaiting" -> [Complete(v) EXCEPT !.refused = TRUE, !.fill = FALSE]
                    [] f.c # "ok" /\ v.st # "awaiting" -> Complete(v)
                    [] OTHER -> v]
    /\ UNCHANGED <<plan, wr, queues, rings, next, maxSeen, marks, viol>>

\* onDetachLocked for a handle out of the table
DetachLate(s, h) ==
    /\ viol' = (IF Tolerated(s, h, "detach") THEN viol ELSE "detach")
    /\ tol' = [tol EXCEPT ![s] = [k \in DOMAIN @ |-> [i \in DOMAIN @[k] |-> IF @[k][i] = h THEN 0 ELSE @[k][i]]]]
    /\ UNCHANGED <<view, queues, tolHead, over>>

\* onDetachLocked for a view: the exchange ends, or our last frames and our DETACH follow
OnDetach(s, h) ==
    LET v == [view[s][h] EXCEPT !.pdet = TRUE] IN
    CASE v.sent -> view' = [view EXCEPT ![s][h] = Complete(v)] /\ UNCHANGED queues
      [] ~v.sent /\ v.detQ -> view' = [view EXCEPT ![s][h] = v] /\ UNCHANGED queues
      [] ~v.sent /\ ~v.detQ /\ v.st = "live" ->
           view' = [view EXCEPT ![s][h] = [v EXCEPT !.retq = @ \/ v.att]] /\ UNCHANGED queues
      [] OTHER -> Abandon(s, h, v)

ReadDetach(s) ==
    /\ chan[Other(s)] # <<>> /\ Incoming(s).t = "detach" /\ Received(s)
    /\ LET h == Incoming(s).h  v == view[s][h] IN
       IF ~InTable(s, h) THEN DetachLate(s, h)
       ELSE IF v.pdet \/ v.st \in {"opening", "awaiting"}
         THEN viol' = "detach" /\ UNCHANGED <<view, queues, rings>>
         ELSE OnDetach(s, h) /\ UNCHANGED <<rings, viol>>
    /\ UNCHANGED <<plan, wr, next, maxSeen, marks>>

ReadGoAway(s) ==
    /\ chan[Other(s)] # <<>> /\ Incoming(s).t = "goaway" /\ Received(s)
    /\ peerGoAway' = (peerGoAway \/ s = "D")
    /\ UNCHANGED <<plan, view, wr, queues, rings, next, maxSeen, goAway, expired, overCap, viol>>

(***************************************************************************)
(* The specification.                                                      *)
(***************************************************************************)

\* removeLocked, viewDoneClosed, onResponse: the mark of a CodeMuxFull answer goes when a view leaves
Left(h) == Done("D", h) /\ ~InTable("D", h) /\ ~view["D"][h].refused
FullMark ==
    LET f == Incoming("D")
        read == chan["P"] # <<>> /\ chan'["P"] # chan["P"] /\ Len(chan'["P"]) < Len(chan["P"]) IN
    full' = IF read /\ f.t = "resp" /\ f.c = "full" /\ view["D"][f.h].st = "awaiting" THEN TRUE
            ELSE IF \/ read /\ f.t = "detach" /\ ~InTable("D", f.h)
                    \/ \E h \in Handle : ~Left(h) /\ Left(h)' THEN FALSE
            ELSE full

Next ==
    /\ viol = ""
    /\ \/ \E kind \in {"open", "join"} : OpenView(kind)
       \/ \E h \in Handle : AwaitResponse(h) \/ AttemptEnds(h) \/ Refuse(h)
       \/ \E s \in Side, h \in Handle :
            \/ Start(s, h) \/ Kill(s, h) \/ RetireView(s, h) \/ HeldBound(s, h) \/ WriteAndClose(s, h)
            \/ LastExpired(s, h) \/ GoAway(s, h) \/ FillBegin(s, h) \/ Expire(s, h)
       \/ \E s \in Side : PlaceLast(s) \/ PlaceDetach(s) \/ FillEnd(s) \/ ReadSession(s) \/ ReadDetach(s) \/ ReadGoAway(s)
       \/ PlaceRefusal \/ PlaceOpen \/ Admit \/ Respond
    /\ FullMark

Spec == Init /\ [][Next]_vars

(***************************************************************************)
(* Properties.                                                             *)
(***************************************************************************)

\* Neither side takes a frame of the other for a violation, which would kill the trunk under every session:
\* crossing DETACHes, refusals, withdrawals, holds and passed bounds are all legal (classifyLocked, onDetachLocked,
\* admitMux's "mux flood").
NoViolation == viol # "" => over["D"] \/ over["P"]

\* A dialer that opens only within its places (slotsLocked) never meets a full passive, unless it gave up on a view
\* at its DETACH bound before the passive answered.
WithinCap == overCap => expired["D"] > 0

=============================================================================
