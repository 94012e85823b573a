-------------------------------- MODULE Pool --------------------------------
(***************************************************************************)
(* A Peer's pool of dialer MUX trunks (internal/carrier/pool.go), for one  *)
(* factory and one session kind: the pool keys its state by both.          *)
(*                                                                         *)
(* An attempt is of its own session.  An attempt dials at most once, so    *)
(* its dialWait and its fresh trunk carry the attempt's number.  A section *)
(* under Pool.mu is one step; a dial, a response, a death and a deadline   *)
(* come at any moment, also between the steps of the pool's goroutines.    *)
(***************************************************************************)
EXTENDS Naturals, FiniteSets, Sequences, SequencesExt

CONSTANTS Att, PoolPlans       \* PoolPlans: [n, kind, may], how many attempts begin, their first frames, what may happen

VARIABLES
    pplan,
    att,        \* the attempts: pc, the dial waited for, the trunk, graceOut, joined, kicked, skip, older
    dw,         \* the dialWaits
    dialing,    \* the dial in flight (0: none)
    extra,      \* fresh trunks of dials that are not in flight
    trunks,     \* the published trunks, oldest first
    pfull,      \* the pool's CodeMuxFull marks
    tk,         \* the trunks
    plive,      \* Pool.live
    wat,        \* watchFresh goroutines: where they are
    settling,   \* poolStarted goroutines
    hooks,      \* viewGone goroutines that have not run: [t, v, refused]
    leaving     \* viewGone goroutines waiting for their trunk's Done

poolVars == <<pplan, att, dw, dialing, extra, trunks, pfull, tk, plive, wat, settling, hooks, leaving>>

Kind(a) == pplan.kind[a]
May(x) == x \in pplan.may
NewAttempt == [pc |-> "new", w |-> 0, t |-> 0, graceOut |-> 0, joined |-> 0, kicked |-> FALSE, skip |-> {}, older |-> {}]
NoDial == [st |-> "none", err |-> FALSE, timeout |-> FALSE, proven |-> FALSE, inEst |-> FALSE, kept |-> FALSE]
NoTrunk == [st |-> "none", started |-> FALSE, sealed |-> FALSE, retiring |-> FALSE, full |-> FALSE, views |-> {}]

Init ==
    /\ pplan \in PoolPlans
    /\ att = [a \in Att |-> NewAttempt] /\ dw = [a \in Att |-> NoDial] /\ tk = [a \in Att |-> NoTrunk]
    /\ dialing = 0 /\ extra = {} /\ trunks = <<>> /\ pfull = {} /\ plive = {} /\ settling = {}
    /\ wat = [a \in Att |-> "none"] /\ hooks = {} /\ leaving = {}

(***************************************************************************)
(* An attempt.                                                             *)
(***************************************************************************)

Joins(w) == Cardinality({a \in Att : att[a].joined = w})

\* kickLocked, over the attempts st
Kicked(st, w) == [a \in Att |-> IF st[a].pc = "wait" /\ st[a].w = w THEN [st[a] EXCEPT !.kicked = TRUE] ELSE st[a]]

\* leaveLocked: the last JOIN waiter leaves an OPEN claimant still in place, and the OPEN waiters decide again
Leave_NoKick(st, a) == [st EXCEPT ![a].joined = 0]
Leave(st, a) ==
    LET w == st[a].joined  left == [st EXCEPT ![a].joined = 0] IN
    IF w # 0 /\ Joins(w) = 1 /\ Kind(w) = "open" /\ dw[w].inEst /\ dialing = w THEN Kicked(left, w) ELSE left

\* The attempt returns (the deferred leave)
Over(a) == att' = [Leave(att, a) EXCEPT ![a] = [NewAttempt EXCEPT !.pc = "over"]]

\* Attempts are numbered in the order they begin
Begin(a) ==
    /\ att[a].pc = "new" /\ a <= pplan.n /\ \A b \in Att : b < a => att[b].pc # "new"
    /\ att' = [att EXCEPT ![a].pc = "loop", ![a].older = {b \in Att : dw[b].st # "none"}]
    /\ UNCHANGED <<pplan, dw, dialing, extra, trunks, pfull, tk, plive, wat, settling, hooks, leaving>>

\* usableFor, without the slots of the trunk
UsableFor(t) == tk[t].st = "up" /\ tk[t].started /\ ~tk[t].retiring /\ ~tk[t].sealed /\ ~tk[t].full
Candidates(a) == {t \in ToSet(trunks) \ att[a].skip : UsableFor(t) /\ ~(t \in pfull /\ tk[t].full)}

\* pickLocked: the most views, then the oldest
Picked(a) ==
    LET C == Candidates(a)
        Riders(t) == Cardinality(tk[t].views)
        best == SelectSeq(trunks, LAMBDA t : t \in C /\ \A u \in C : Riders(u) <= Riders(t)) IN
    IF C = {} THEN 0 ELSE Head(best)

\* The fast path: a view on the picked trunk; or (E3) the trunk dies between the pick and the allocation
FastPath(a) ==
    /\ att[a].pc = "loop" /\ Picked(a) # 0
    /\ LET t == Picked(a) IN
       \/ /\ tk' = [tk EXCEPT ![t].views = @ \cup {a}] /\ att' = [att EXCEPT ![a].pc = "fast", ![a].t = t]
       \/ /\ May("dies") /\ tk' = [tk EXCEPT ![t].st = "dying"] /\ att' = [att EXCEPT ![a].skip = @ \cup {t}]
    /\ pfull' = {t \in pfull : tk[t].full \/ t \notin ToSet(trunks) \ att[a].skip}
    /\ UNCHANGED <<pplan, dw, dialing, extra, trunks, plive, wat, settling, hooks, leaving>>

\* ownDialLocked
OwnDial(w, a, graceOut) == w = graceOut /\ dw[w].inEst /\ (Kind(w) # "open" \/ Kind(a) = "join" \/ Joins(w) = 0)

\* A coalesced wait for the dial in flight
Wait(a) ==
    /\ att[a].pc = "loop" /\ Picked(a) = 0 /\ dialing # 0 /\ ~OwnDial(dialing, a, att[a].graceOut)
    /\ LET moved == IF Kind(a) = "join" /\ att[a].joined # dialing THEN Leave(att, a) ELSE att IN
       att' = [moved EXCEPT ![a].pc = "wait", ![a].w = dialing, ![a].kicked = FALSE,
                            ![a].joined = IF Kind(a) = "join" THEN dialing ELSE 0]
    /\ UNCHANGED <<pplan, dw, dialing, extra, trunks, pfull, tk, plive, wat, settling, hooks, leaving>>

\* The attempt dials: as the factory's dial in flight, or beside a slow OPEN claimant
Dial(a) ==
    /\ att[a].pc = "loop" /\ Picked(a) = 0 /\ (dialing # 0 => OwnDial(dialing, a, att[a].graceOut))
    /\ LET w == dialing
           first == w = 0 \/ Kind(w) # "open" \/ Kind(a) = "join"
           st == IF first /\ w # 0 THEN Kicked(att, w) ELSE att IN
       /\ dialing' = (IF first THEN a ELSE w)
       /\ att' = [Leave(st, a) EXCEPT ![a].pc = "dial", ![a].w = 0]
    /\ dw' = [dw EXCEPT ![a] = [NoDial EXCEPT !.st = "dial", !.inEst = TRUE]]
    /\ UNCHANGED <<pplan, extra, trunks, pfull, tk, plive, wat, settling, hooks, leaving>>

\* awaitDial: the dial ended; a failure counts unless it is the timeout of a dial older than the attempt
WaitEnded(a) ==
    /\ att[a].pc = "wait" /\ dw[att[a].w].st = "ended"
    /\ LET w == att[a].w IN
       IF ~dw[w].err \/ (dw[w].timeout /\ w \in att[a].older)
         THEN att' = [att EXCEPT ![a].pc = "loop"] ELSE Over(a)
    /\ UNCHANGED <<pplan, dw, dialing, extra, trunks, pfull, tk, plive, wat, settling, hooks, leaving>>

\* awaitDial: a kick, the verdict grace of a proven claimant, the context or the DialTimeout
WaitKick(a) ==
    /\ att[a].pc = "wait" /\ att[a].kicked /\ att' = [att EXCEPT ![a].pc = "loop"]
    /\ UNCHANGED <<pplan, dw, dialing, extra, trunks, pfull, tk, plive, wat, settling, hooks, leaving>>
WaitGrace(a) ==
    /\ att[a].pc = "wait" /\ dw[att[a].w].proven /\ att[a].graceOut # att[a].w
    /\ att' = [att EXCEPT ![a].pc = "loop", ![a].graceOut = att[a].w]
    /\ UNCHANGED <<pplan, dw, dialing, extra, trunks, pfull, tk, plive, wat, settling, hooks, leaving>>
WaitGivesUp(a) ==
    /\ att[a].pc = "wait" /\ May("gives up") /\ Over(a)
    /\ UNCHANGED <<pplan, dw, dialing, extra, trunks, pfull, tk, plive, wat, settling, hooks, leaving>>

(***************************************************************************)
(* The claimant's Establish and what it settles.                           *)
(***************************************************************************)

\* provenCheck: the PREFACE_ACK passed the check
Proven(a) ==
    /\ att[a].pc = "dial" /\ ~dw[a].proven /\ dw' = [dw EXCEPT ![a].proven = TRUE]
    /\ UNCHANGED <<pplan, att, dialing, extra, trunks, pfull, tk, plive, wat, settling, hooks, leaving>>

\* claimed: an OK response on a MUX trunk keeps the dial in flight until the session starts or discards view 1
ClaimedFresh(a) ==
    /\ att[a].pc = "dial" /\ dw[a].proven /\ May("fresh")
    /\ dw' = [dw EXCEPT ![a].st = "fresh", ![a].inEst = FALSE]
    /\ tk' = [tk EXCEPT ![a] = [NoTrunk EXCEPT !.st = "up", !.views = {a}]]
    /\ extra' = (IF dialing = a THEN extra ELSE extra \cup {a})
    /\ plive' = plive \cup {a} /\ wat' = [wat EXCEPT ![a] = "select"]
    /\ att' = [att EXCEPT ![a] = [NewAttempt EXCEPT !.pc = "fresh", !.t = a]]
    /\ UNCHANGED <<pplan, dialing, trunks, pfull, settling, hooks, leaving>>

\* claimed: a failure fails the waiters; a refusal, a trunk without mux or a cancelled claimant releases them
ClaimedOther(a, err, timeout) ==
    /\ att[a].pc = "dial" /\ (err => May("fails")) /\ (timeout => err)
    /\ dw' = [dw EXCEPT ![a] = [@ EXCEPT !.st = "ended", !.inEst = FALSE, !.err = err, !.timeout = timeout]]
    /\ dialing' = (IF dialing = a THEN 0 ELSE dialing)
    /\ Over(a)
    /\ UNCHANGED <<pplan, extra, trunks, pfull, tk, plive, wat, settling, hooks, leaving>>

\* Conn.Start on view 1 (poolStarted), or the session discards the fresh trunk
StartView1(a) ==
    /\ att[a].pc = "fresh" /\ tk[a].st = "up"
    /\ tk' = [tk EXCEPT ![a].started = TRUE] /\ settling' = settling \cup {a} /\ att' = [att EXCEPT ![a].pc = "view"]
    /\ UNCHANGED <<pplan, dw, dialing, extra, trunks, pfull, plive, wat, hooks, leaving>>
Discard(a) ==
    /\ att[a].pc = "fresh" /\ Over(a)
    /\ tk' = [tk EXCEPT ![a].st = IF @ = "up" THEN "dying" ELSE @]
    /\ UNCHANGED <<pplan, dw, dialing, extra, trunks, pfull, plive, wat, settling, hooks, leaving>>

\* settle: publish a running trunk with views, retire one without, discard a dead one; the dial ends either way
Settle(a) ==
    IF dw[a].st # "fresh" THEN UNCHANGED <<dw, dialing, extra, trunks, tk>>
    ELSE LET up == tk[a].st = "up" /\ tk[a].started  kept == up /\ tk[a].views # {} IN
         /\ extra' = extra \ {a} /\ dialing' = (IF dialing = a THEN 0 ELSE dialing)
         /\ dw' = [dw EXCEPT ![a].st = "ended", ![a].kept = kept]
         /\ trunks' = (IF kept THEN Append(trunks, a) ELSE trunks)
         /\ tk' = (IF up /\ ~kept THEN [tk EXCEPT ![a].sealed = TRUE, ![a].retiring = TRUE] ELSE tk)

Publish(a) ==
    /\ a \in settling /\ settling' = settling \ {a} /\ Settle(a)
    /\ UNCHANGED <<pplan, att, pfull, plive, wat, hooks, leaving>>

\* watchFresh: it settles a trunk that dies, waits for the Done of one the pool did not keep, and ends
WatchSelect(a) ==
    /\ wat[a] = "select"
    /\ \/ dw[a].st = "ended" /\ UNCHANGED <<dw, dialing, extra, trunks, tk>>
       \/ tk[a].st \in {"dying", "done"} /\ Settle(a)
    /\ wat' = [wat EXCEPT ![a] = "join"]
    /\ UNCHANGED <<pplan, att, pfull, plive, settling, hooks, leaving>>
WatchEnds(a) ==
    /\ wat[a] = "join" /\ (dw[a].kept \/ tk[a].st = "done")
    /\ wat' = [wat EXCEPT ![a] = "none"] /\ plive' = (IF dw[a].kept THEN plive ELSE plive \ {a})
    /\ UNCHANGED <<pplan, att, dw, dialing, extra, trunks, pfull, tk, settling, hooks, leaving>>

(***************************************************************************)
(* The views and the trunks.                                               *)
(***************************************************************************)

\* viewDoneClosed: the count falls, then the pool's hook runs on a goroutine of its own
EndView(t, a, refused) ==
    /\ tk' = [tk EXCEPT ![t].views = @ \ {a}, ![t].full = @ /\ refused]
    /\ hooks' = hooks \cup {[t |-> t, v |-> a, refused |-> refused]}

\* fastPath: the response is OK
FastOK(a) ==
    /\ att[a].pc = "fast" /\ a \in tk[att[a].t].views /\ tk[att[a].t].st = "up"
    /\ att' = [att EXCEPT ![a] = [NewAttempt EXCEPT !.pc = "view", !.t = att[a].t]]
    /\ UNCHANGED <<pplan, dw, dialing, extra, trunks, pfull, tk, plive, wat, settling, hooks, leaving>>

\* fastPath: CodeMuxFull marks the trunk, and the attempt marks the pool's later (fastPathRetry)
FastFull(a) ==
    /\ att[a].pc = "fast" /\ May("full") /\ a \in tk[att[a].t].views /\ tk[att[a].t].st = "up"
    /\ LET t == att[a].t IN
       /\ tk' = [tk EXCEPT ![t].views = @ \ {a}, ![t].full = TRUE]
       /\ hooks' = hooks \cup {[t |-> t, v |-> a, refused |-> TRUE]}
    /\ att' = [att EXCEPT ![a].pc = "full"]
    /\ UNCHANGED <<pplan, dw, dialing, extra, trunks, pfull, plive, wat, settling, leaving>>
FullNoted(a) ==
    /\ att[a].pc = "full" /\ pfull' = pfull \cup {att[a].t}
    /\ att' = [att EXCEPT ![a].pc = "loop", ![a].skip = @ \cup {att[a].t}, ![a].t = 0]
    /\ UNCHANGED <<pplan, dw, dialing, extra, trunks, tk, plive, wat, settling, hooks, leaving>>

\* fastPath fails: refused, timed out or cancelled; a trunk that died before the first frame is retried elsewhere
FastFails(a, retry) ==
    /\ att[a].pc = "fast"
    /\ LET t == att[a].t IN
       /\ retry => tk[t].st # "up"
       /\ ~retry => May("gives up") \/ tk[t].st # "up"
       /\ IF a \in tk[t].views THEN EndView(t, a, FALSE) ELSE UNCHANGED <<tk, hooks>>
       /\ IF retry THEN att' = [att EXCEPT ![a].pc = "loop", ![a].skip = @ \cup {t}, ![a].t = 0] ELSE Over(a)
    /\ UNCHANGED <<pplan, dw, dialing, extra, trunks, pfull, plive, wat, settling, leaving>>

\* A session ends its view
ViewEnds(a) ==
    /\ att[a].pc = "view" /\ Over(a)
    /\ IF a \in tk[att[a].t].views THEN EndView(att[a].t, a, FALSE) ELSE UNCHANGED <<tk, hooks>>
    /\ UNCHANGED <<pplan, dw, dialing, extra, trunks, pfull, plive, wat, settling, leaving>>

\* viewGone: at zero views a published trunk leaves the pool, is sealed and retired
ViewGone(h) ==
    /\ h \in hooks /\ hooks' = hooks \ {h}
    /\ LET last == h.t \in ToSet(trunks) /\ tk[h.t].views = {} IN
       /\ pfull' = (IF last \/ ~h.refused THEN pfull \ {h.t} ELSE pfull)
       /\ trunks' = (IF last THEN SelectSeq(trunks, LAMBDA t : t # h.t) ELSE trunks)
       /\ tk' = (IF last THEN [tk EXCEPT ![h.t].sealed = TRUE, ![h.t].retiring = TRUE] ELSE tk)
       /\ leaving' = (IF last THEN leaving \cup {h.t} ELSE leaving)
    /\ UNCHANGED <<pplan, att, dw, dialing, extra, plive, wat, settling>>
GoneDone(t) ==
    /\ t \in leaving /\ tk[t].st = "done" /\ leaving' = leaving \ {t} /\ plive' = plive \ {t}
    /\ UNCHANGED <<pplan, att, dw, dialing, extra, trunks, pfull, tk, wat, settling, hooks>>

\* A trunk ends: its retirement's CLOSE, a death, or Pool.Kill
TrunkDies(t) ==
    /\ tk[t].st = "up" /\ (tk[t].retiring \/ May("dies")) /\ tk' = [tk EXCEPT ![t].st = "dying"]
    /\ UNCHANGED <<pplan, att, dw, dialing, extra, trunks, pfull, plive, wat, settling, hooks, leaving>>

\* Its Done closes, and finishAll ends its views
TrunkDone(t) ==
    /\ tk[t].st = "dying" /\ tk' = [tk EXCEPT ![t].st = "done", ![t].views = {}]
    /\ hooks' = hooks \cup {[t |-> t, v |-> a, refused |-> FALSE] : a \in tk[t].views}
    /\ UNCHANGED <<pplan, att, dw, dialing, extra, trunks, pfull, plive, wat, settling, leaving>>

Next ==
    \/ \E a \in Att :
         \/ Begin(a) \/ FastPath(a) \/ Wait(a) \/ Dial(a) \/ WaitEnded(a) \/ WaitKick(a) \/ WaitGrace(a) \/ WaitGivesUp(a)
         \/ Proven(a) \/ ClaimedFresh(a) \/ (\E err, timeout \in BOOLEAN : ClaimedOther(a, err, timeout))
         \/ StartView1(a) \/ Discard(a) \/ Publish(a) \/ WatchSelect(a) \/ WatchEnds(a)
         \/ FastOK(a) \/ FastFull(a) \/ FullNoted(a) \/ (\E retry \in BOOLEAN : FastFails(a, retry)) \/ ViewEnds(a)
         \/ GoneDone(a) \/ TrunkDies(a) \/ TrunkDone(a)
    \/ \E h \in hooks : ViewGone(h)

Spec == Init /\ [][Next]_poolVars

(***************************************************************************)
(* Properties.                                                             *)
(***************************************************************************)

\* A waiter whose dial is no longer the one in flight, or who may dial itself now (the JOINs it deferred to left), has
\* been kicked: no attempt sleeps to its DialTimeout beside a decision that is its own (kickLocked, leaveLocked).
NoLostKick ==
    \A a \in Att : att[a].pc = "wait" /\ ~att[a].kicked /\ dw[att[a].w].st # "ended" =>
        dialing = att[a].w /\ ~OwnDial(dialing, a, att[a].graceOut)

\* The pool keeps no idle trunk and forgets none: a running trunk has a view, or is being settled or closed; a trunk
\* is counted until its Done and, once the pool's goroutines ran, no longer (settle, viewGone, Wait).
PoolSettles ==
    \A t \in Att :
        /\ tk[t].st = "up" => tk[t].views # {} \/ tk[t].retiring \/ t \in settling \/ wat[t] = "select" \/ \E h \in hooks : h.t = t
        /\ tk[t].st \in {"up", "dying"} => t \in plive
        /\ t \in plive /\ tk[t].st = "done" => wat[t] # "none" \/ t \in leaving \/ \E h \in hooks : h.t = t

=============================================================================
