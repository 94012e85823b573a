-------------------------------- MODULE Guard --------------------------------
(***************************************************************************)
(* Guarded embedder calls (internal/carrier/guard.go): a factory call that *)
(* runs on its own goroutine and may outlive its caller, the close of a    *)
(* conn by two watched goroutines, a verdict write with its last-resort    *)
(* close, and the abandoned-call pool they all count in (env.go).          *)
(*                                                                         *)
(* A section of dialCall.mu and each atomic operation is a step.  Bounds   *)
(* are timers that may fire at any moment.  An embedder's call returns     *)
(* when it likes, unless the plan says that it is stuck.                   *)
(***************************************************************************)
EXTENDS Integers, Sequences, FiniteSets, FiniteSetsExt

CONSTANTS GuardPlans   \* [calls, limit, may]: see eplan

VARIABLES eplan,  \* the calls ("dial" or "verdict"), the pool's limit and the troubles; never changes
          abandoned, \* AbandonPool.n
          callr,  \* per call: the caller of guardedCall, or the goroutine of the verdict
          gor,    \* per dial: the factory's goroutine
          gclose    \* per call: the conn's closeOnce

guardVars == <<eplan, abandoned, callr, gor, gclose>>

Part == {"deadline", "close"} \* a close's goroutines: SetDeadline and Close
Calls == DOMAIN eplan.calls
Dials == {c \in Calls : eplan.calls[c] = "dial"}
Verdicts == Calls \ Dials
GCan(x) == x \in eplan.may

GInit ==
    /\ eplan \in GuardPlans
    /\ abandoned = 0
    \* watch: the verdict's watch; got: what the caller returned
    /\ callr = [c \in Calls |-> [pc |-> IF eplan.calls[c] = "dial" THEN "start" ELSE "write",
                                 got |-> "none", watch |-> "run"]]
    /\ gor = [c \in Calls |-> [pc |-> "none", conn |-> FALSE, res |-> "none", sent |-> FALSE, gaveUp |-> FALSE]]
    /\ gclose = [c \in Calls |-> [setting |-> FALSE, closing |-> FALSE, closes |-> 0,
                                g |-> [p \in Part |-> [pc |-> "none", watch |-> "run", adopt |-> FALSE]]]]

-----------------------------------------------------------------------------
(* closeOnce                                                               *)

\* A goroutine of the embedder's call, watched
GoGuarded(k, p) == [k EXCEPT !.g[p].pc = "call"]

\* goDeadline
GoDeadline(k) == IF k.closing \/ k.setting THEN k ELSE GoGuarded([k EXCEPT !.setting = TRUE], "deadline")

\* last: the Close, unless it was started
LastClose(k) == IF k.closing THEN k ELSE GoGuarded([k EXCEPT !.closing = TRUE, !.closes = @ + 1], "close")

\* CloseConn: async on a conn nobody else holds
CloseConnAsync(k) == LastClose(GoDeadline(k))

\* The embedder's SetDeadline or Close returns; a deadline setter may wait
\* for a call in progress, which only the Close ends
PartReturns(c, p) ==
    /\ gclose[c].g[p].pc = "call"
    /\ ~(p = "deadline" /\ GCan("serial") /\ callr[c].pc = "write")
    /\ ~(p = "close" /\ GCan("close hangs") /\ c = 1)
    /\ gclose' = [gclose EXCEPT ![c].g[p].pc = "fin"]
    /\ UNCHANGED <<eplan, abandoned, callr, gor>>

\* watch.finish
Finish(c, p) ==
    LET w == gclose[c].g[p].watch
    IN  /\ gclose[c].g[p].pc = "fin"
        /\ gclose' = [gclose EXCEPT ![c].g[p].pc = "gone", ![c].g[p].watch = IF w = "run" THEN "done" ELSE w]
        /\ abandoned' = IF w = "run" THEN abandoned ELSE abandoned - 1
        /\ UNCHANGED <<eplan, callr, gor>>

\* watch.expire: its CAS, then its Adopt
Expire(c, p) ==
    /\ gclose[c].g[p].pc \in {"call", "fin"} /\ gclose[c].g[p].watch = "run"
    /\ gclose' = [gclose EXCEPT ![c].g[p].watch = "abandoned", ![c].g[p].adopt = TRUE]
    /\ UNCHANGED <<eplan, abandoned, callr, gor>>

ExpireAdopts(c, p) ==
    /\ gclose[c].g[p].adopt
    /\ gclose' = [gclose EXCEPT ![c].g[p].adopt = FALSE]
    /\ abandoned' = abandoned + 1
    /\ UNCHANGED <<eplan, callr, gor>>

-----------------------------------------------------------------------------
(* guardedCall                                                             *)

\* A full pool, or a context that ended, starts nothing
Start(c, ended) ==
    LET full == abandoned >= eplan.limit
    IN  /\ callr[c].pc = "start"
        /\ ended => GCan("ctx") /\ ~full
        /\ callr' = [callr EXCEPT ![c].pc = IF full \/ ended THEN "returned" ELSE "wait",
                                  ![c].got = IF full \/ ended THEN "err" ELSE @]
        /\ gor' = [gor EXCEPT ![c].pc = IF full \/ ended THEN @ ELSE "f"]
        /\ UNCHANGED <<eplan, abandoned, gclose>>

Return(c, got) == callr' = [callr EXCEPT ![c].pc = "returned", ![c].got = got]

\* The result in time
Receive(c) ==
    /\ callr[c].pc = "wait" /\ gor[c].sent
    /\ Return(c, gor[c].res)
    /\ UNCHANGED <<eplan, abandoned, gor, gclose>>

\* ctx ended or DialTimeout passed: a grace begins
GiveUp(c) ==
    /\ callr[c].pc = "wait"
    /\ callr' = [callr EXCEPT ![c].pc = "grace"]
    /\ UNCHANGED <<eplan, abandoned, gor, gclose>>

\* Mutant: a result that comes in the grace is not closed
Late_Kept(c) ==
    /\ callr[c].pc = "grace" /\ gor[c].sent
    /\ Return(c, "err")
    /\ UNCHANGED <<eplan, abandoned, gor, gclose>>

\* A result in the grace (or found when it ran out): too late, closed
Late(c) ==
    /\ callr[c].pc = "grace" /\ gor[c].sent
    /\ Return(c, "err")
    /\ gclose' = [gclose EXCEPT ![c] = IF gor[c].res = "conn" THEN CloseConnAsync(@) ELSE @]
    /\ UNCHANGED <<eplan, abandoned, gor>>

\* Still inside f after the grace: counted, under the lock
Abandon(c) ==
    /\ callr[c].pc = "grace" /\ ~gor[c].sent
    /\ gor' = [gor EXCEPT ![c].gaveUp = TRUE]
    /\ abandoned' = abandoned + 1
    /\ Return(c, "err")
    /\ UNCHANGED <<eplan, gclose>>

\* f returns (or panics): norm rejects a conn with an error and closes it
FReturns(c, conn, err) ==
    /\ gor[c].pc = "f" /\ ~(GCan("f stuck") /\ c = 1)
    /\ gor' = [gor EXCEPT ![c].pc = "send", ![c].conn = conn, ![c].res = IF conn /\ ~err THEN "conn" ELSE "err"]
    /\ gclose' = [gclose EXCEPT ![c] = IF conn /\ err THEN CloseConnAsync(@) ELSE @]
    /\ UNCHANGED <<eplan, abandoned, callr>>

\* The result is sent unless the caller gave up
Send(c) ==
    /\ gor[c].pc = "send"
    /\ gor' = [gor EXCEPT ![c].pc = IF gor[c].gaveUp THEN "leave" ELSE "done", ![c].sent = ~gor[c].gaveUp]
    /\ UNCHANGED <<eplan, abandoned, callr, gclose>>

\* The abandoned goroutine leaves the pool and closes its late conn
Leave(c) ==
    /\ gor[c].pc = "leave"
    /\ gor' = [gor EXCEPT ![c].pc = "done"]
    /\ abandoned' = abandoned - 1
    /\ gclose' = [gclose EXCEPT ![c] = IF gor[c].res = "conn" THEN CloseConnAsync(@) ELSE @]
    /\ UNCHANGED <<eplan, callr>>

-----------------------------------------------------------------------------
(* writeAndCloseInline: the verdict's write or drain, then the close       *)

\* A conn that ignores its deadline keeps the call until it is closed
WriteReturns(c) ==
    /\ callr[c].pc = "write"
    /\ GCan("ignores deadline") => gclose[c].closing
    /\ callr' = [callr EXCEPT ![c].pc = "deadline"]
    /\ UNCHANGED <<eplan, abandoned, gor, gclose>>

CloseDeadline(c) ==
    /\ callr[c].pc = "deadline"
    /\ gclose' = [gclose EXCEPT ![c] = GoDeadline(@)]
    /\ callr' = [callr EXCEPT ![c].pc = "close"]
    /\ UNCHANGED <<eplan, abandoned, gor>>

\* The Close, and the watch's finish
CloseLast(c) ==
    /\ callr[c].pc = "close"
    /\ gclose' = [gclose EXCEPT ![c] = LastClose(@)]
    /\ callr' = [callr EXCEPT ![c].pc = "returned", ![c].watch = IF @ = "run" THEN "done" ELSE @]
    /\ UNCHANGED <<eplan, abandoned, gor>>

\* The watch's last resort: nothing is counted here, the conn is closed
LastResort(c) ==
    /\ c \in Verdicts /\ callr[c].watch = "run"
    /\ callr' = [callr EXCEPT ![c].watch = "abandoned"]
    /\ UNCHANGED <<eplan, abandoned, gor, gclose>>

LastResortCloses(c) ==
    /\ c \in Verdicts /\ callr[c].watch = "abandoned"
    /\ callr' = [callr EXCEPT ![c].watch = "closed"]
    /\ gclose' = [gclose EXCEPT ![c] = LastClose(@)]
    /\ UNCHANGED <<eplan, abandoned, gor>>

GNext ==
    \/ \E c \in Dials :
         \/ \E ended \in BOOLEAN : Start(c, ended)
         \/ Receive(c) \/ GiveUp(c) \/ Late(c) \/ Abandon(c) \/ Send(c) \/ Leave(c)
         \/ \E conn, err \in BOOLEAN : FReturns(c, conn, err)
    \/ \E c \in Verdicts :
         WriteReturns(c) \/ CloseDeadline(c) \/ CloseLast(c) \/ LastResort(c) \/ LastResortCloses(c)
    \/ \E c \in Calls, p \in Part : PartReturns(c, p) \/ Finish(c, p) \/ Expire(c, p) \/ ExpireAdopts(c, p)

GSpec == GInit /\ [][GNext]_guardVars

-----------------------------------------------------------------------------
(* Properties                                                              *)

Parts == Calls \X Part

\* Every conn a factory returns has one fate: its caller gets it, or it is
\* closed, once, whether it came with an error, in the grace, or after the
\* caller had left; a verdict's conn is closed once, by its goroutine or by
\* the last resort, and never stays open because a call ignores deadlines.
\* The abandoned-call count is exact: each stuck goroutine once, from the
\* moment its joiner leaves (a watch's CAS and Adopt are two steps, so a
\* call that returns between them is read as -1 for that moment)
GuardExact ==
    /\ \A c \in Calls : gclose[c].closes <= 1
    /\ \A c \in Dials :
         /\ callr[c].got = "conn" => gor[c].conn /\ gclose[c].closes = 0
         /\ callr[c].pc = "returned" /\ gor[c].pc = "done" /\ gor[c].conn => (callr[c].got = "conn") = (gclose[c].closes = 0)
    /\ ~ENABLED GNext => \A c \in Verdicts : callr[c].pc = "returned" /\ gclose[c].closes = 1
    /\ abandoned = Cardinality({c \in Dials : gor[c].gaveUp /\ gor[c].pc # "done"})
                   + Cardinality({x \in Parts : LET g == gclose[x[1]].g[x[2]]
                                                IN  g.watch = "abandoned" /\ ~g.adopt /\ g.pc # "gone"})
                   - Cardinality({x \in Parts : gclose[x[1]].g[x[2]].adopt /\ gclose[x[1]].g[x[2]].pc = "gone"})

=============================================================================
