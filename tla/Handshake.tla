----------------------------- MODULE Handshake -----------------------------
(***************************************************************************)
(* One stream dial attempt on its conn (internal/carrier/establish.go):    *)
(* the handshake goroutine (EstablishEarly), the hello writer, the abort   *)
(* of the attempt's context, and the goroutine that writes RST(withdrawn). *)
(* They meet in hsGuard.                                                   *)
(*                                                                         *)
(* wire is what the dialer put on the conn: "first" (PREFACE and the first *)
(* frame), "data" (the early DATA frame), "cut" (a partial one), "rst".    *)
(* Every Write and Read may fail at any moment; `expired' is the drainMax  *)
(* timer of the withdrawal.                                                *)
(***************************************************************************)
EXTENDS Naturals, Sequences

CONSTANT Shapes   \* [open, factory, early, withdraw]: an OPEN, DialEarly, early data, the abort's cause

VARIABLES
    shape,                                  \* one of Shapes; it never changes
    hs, hsRst, hw,                          \* the handshake and the hello writer: where they are
    finished, aborted, closer, hsClosing,     \* hsGuard: the close's claim, and `closing' (runClose began)
    firstWritten, dataStarted, dataWritten, dataCut, wfinished, werr,
    rstJoins, joins, expired, rg, wire, closes

hsVars == <<hs, hsRst>>
closeVars == <<closer, hsClosing, rstJoins, closes>>
flightVars == <<firstWritten, dataStarted, dataWritten, dataCut, wfinished, werr>>
vars == <<shape, hsVars, hw, finished, aborted, closeVars, flightVars, joins, expired, rg, wire>>

Nobody == [by |-> "none", rst |-> FALSE]

\* newHsGuard and startHello: DialEarly's factory wrote the first frame, the writer writes the DATA frame
Init ==
    /\ shape \in Shapes
    /\ hs = "ack" /\ hsRst = FALSE /\ finished = FALSE /\ aborted = FALSE /\ closer = Nobody /\ hsClosing = FALSE
    /\ hw = (IF shape.factory /\ ~shape.early THEN "none" ELSE "start")
    /\ firstWritten = shape.factory /\ wire = (IF shape.factory THEN <<"first">> ELSE <<>>)
    /\ dataStarted = FALSE /\ dataWritten = FALSE /\ dataCut = FALSE /\ wfinished = FALSE /\ werr = FALSE
    /\ rstJoins = FALSE /\ joins = 0 /\ expired = FALSE /\ rg = "none" /\ closes = 0

\* The flight the hello writer writes in one Write
Hello == (IF shape.factory THEN <<>> ELSE <<"first">>) \o (IF shape.early THEN <<"data">> ELSE <<>>)

(***************************************************************************)
(* hsGuard's critical sections.                                            *)
(***************************************************************************)

\* claimLocked: the first to claim closes the conn; a withdrawal's goroutine then joins the writer
Claim(by, rst) ==
    IF closer = Nobody THEN closer' = [by |-> by, rst |-> rst] /\ rstJoins' = (rstJoins \/ (by = "abort" /\ rst))
                       ELSE UNCHANGED <<closer, rstJoins>>

\* rstFrame: nothing follows a partial flight; a DATA frame not begun is cancelled
MayFollow == shape.open /\ firstWritten /\ (~shape.early \/ dataWritten \/ ~dataStarted)
RstFrame == dataCut' = (dataCut \/ (MayFollow /\ shape.early /\ ~dataStarted))

(***************************************************************************)
(* The hello writer (startHello).                                          *)
(***************************************************************************)

HelloStart ==
    /\ hw = "start"
    /\ LET cut == shape.factory /\ (dataCut \/ closer # Nobody) IN
       /\ hw' = (IF cut THEN "failed" ELSE "write")
       /\ dataStarted' = (shape.factory /\ ~cut)
    /\ UNCHANGED <<shape, hsVars, finished, aborted, closeVars, firstWritten, dataWritten, dataCut, wfinished, werr,
                   joins, expired, rg, wire>>

\* The whole flight is on the conn, and the Write returns later
HelloDelivered ==
    /\ hw = "write" /\ closes = 0 /\ hw' = "delivered" /\ wire' = wire \o Hello
    /\ UNCHANGED <<shape, hsVars, finished, aborted, closeVars, flightVars, joins, expired, rg>>

HelloCut ==
    /\ hw = "write" /\ hw' = "failed"
    /\ wire' \in {wire, Append(wire, "cut")} \cup (IF Len(Hello) = 2 THEN {Append(Append(wire, "first"), "cut")} ELSE {})
    /\ UNCHANGED <<shape, hsVars, finished, aborted, closeVars, flightVars, joins, expired, rg>>

\* The deferred part: the flags, the close after a failure, wdone last
HelloReturned ==
    /\ hw \in {"delivered", "failed"} /\ hw' = (IF hw = "failed" THEN "close" ELSE "exited")
    /\ wfinished' = TRUE /\ werr' = (hw = "failed")
    /\ firstWritten' = (firstWritten \/ hw = "delivered") /\ dataWritten' = (hw = "delivered" /\ shape.early)
    /\ UNCHANGED <<shape, hsVars, finished, aborted, closeVars, dataStarted, dataCut, joins, expired, rg, wire>>

HelloCloses ==
    /\ \/ hw = "close" /\ hw' = "closing" /\ Claim("hello", FALSE)
       \/ hw = "closing" /\ (closer.by = "hello" => hsClosing) /\ hw' = "exited" /\ UNCHANGED <<closer, rstJoins>>
    /\ UNCHANGED <<shape, hsVars, finished, aborted, hsClosing, closes, flightVars, joins, expired, rg, wire>>

(***************************************************************************)
(* The handshake goroutine (EstablishEarly).                               *)
(***************************************************************************)

hsRest == <<shape, hw, aborted, flightVars, expired, rg, wire>>
Leave(rst) == hs' = "finish" /\ hsRst' = rst

\* PREFACE_ACK: OK (it may come while the first frame is still being written), another answer, or an error
ReadAck ==
    /\ hs = "ack"
    /\ \/ hw # "start" /\ closes = 0 /\ hs' = "await" /\ hsRst' = hsRst
       \/ Leave(FALSE)
    /\ UNCHANGED <<hsRest, finished, closeVars, joins>>

AwaitHello ==
    /\ hs = "await"
    /\ \/ hw \in {"none", "exited"} /\ ~werr /\ hs' = "check" /\ hsRst' = hsRst
       \/ ((hw = "exited" /\ werr) \/ hsClosing) /\ Leave(FALSE)
    /\ UNCHANGED <<hsRest, finished, closeVars, joins>>

\* check (openCheck, joinCheck): a refused OPEN is withdrawn
Check ==
    /\ hs = "check" /\ (Leave(TRUE) \/ (hs' = "response" /\ hsRst' = hsRst))
    /\ UNCHANGED <<hsRest, finished, closeVars, joins>>

\* The response, and finish: an abort that came first leaves no carrier
Response ==
    /\ hs = "response"
    /\ \/ Leave(FALSE) /\ finished' = finished
       \/ /\ closes = 0 /\ finished' = TRUE
          /\ IF aborted THEN Leave(FALSE) ELSE hs' = "established" /\ hsRst' = hsRst
    /\ UNCHANGED <<hsRest, closeVars, joins>>

\* leave: finish, then the close, then the join of the hello writer
LeaveFinish ==
    /\ hs = "finish" /\ finished' = TRUE /\ hs' = "close" /\ hsRst' = (hsRst /\ ~aborted)
    /\ UNCHANGED <<hsRest, closeVars, joins>>

LeaveClose ==
    /\ hs = "close" /\ Claim("hs", hsRst) /\ hs' = "join" /\ hsRst' = hsRst
    /\ UNCHANGED <<hsRest, finished, hsClosing, closes, joins>>

\* join and joinWriter: AbandonWait bounds it
Join ==
    /\ hs = "join" /\ (closer.by = "hs" => hsClosing) /\ hs' = "done" /\ hsRst' = hsRst
    /\ joins' = (IF rstJoins THEN joins ELSE joins + 1)
    /\ UNCHANGED <<hsRest, finished, closeVars>>

(***************************************************************************)
(* The abort, the close, and the withdrawal's goroutine.                   *)
(***************************************************************************)

\* Mutant: the decision releases the lock without claiming the close
Abort_Unclaimed ==
    /\ \/ ~aborted /\ ~finished /\ aborted' = TRUE /\ UNCHANGED <<closer, rstJoins>>
       \/ aborted /\ closer = Nobody /\ aborted' = aborted /\ Claim("abort", shape.open /\ shape.withdraw)
    /\ UNCHANGED <<shape, hsVars, hw, finished, hsClosing, closes, flightVars, joins, expired, rg, wire>>

\* abortDecide: the decision and the claim are one critical section
Abort ==
    /\ ~aborted /\ ~finished /\ aborted' = TRUE /\ Claim("abort", shape.open /\ shape.withdraw)
    /\ UNCHANGED <<shape, hsVars, hw, finished, hsClosing, closes, flightVars, joins, expired, rg, wire>>

\* runClose, by whoever claimed: RST first when it may follow, on a goroutine of its own when the handshake may be in a call
RunClose ==
    /\ closer # Nobody /\ ~hsClosing /\ hsClosing' = TRUE
    /\ IF closer = [by |-> "abort", rst |-> TRUE]
         THEN rg' = "left" /\ UNCHANGED <<dataCut, wire, closes>>
         ELSE /\ rg' = rg /\ closes' = closes + 1
              /\ IF closer.rst THEN RstFrame /\ wire' = IF MayFollow THEN Append(wire, "rst") ELSE wire
                               ELSE UNCHANGED <<dataCut, wire>>
    /\ UNCHANGED <<shape, hsVars, hw, finished, aborted, closer, rstJoins, firstWritten, dataStarted, dataWritten,
                   wfinished, werr, joins, expired>>

Expire ==
    /\ rg \in {"left", "writer"} /\ ~expired /\ expired' = TRUE
    /\ UNCHANGED <<shape, hsVars, hw, finished, aborted, closeVars, flightVars, joins, rg, wire>>

\* pickWithdrawal waits until the handshake left, then until the hello writer returned
PickLeft ==
    /\ rg = "left" /\ (finished \/ expired)
    /\ rstJoins' = (rstJoins /\ finished)
    /\ \/ finished /\ rg' = "writer"
       \/ expired /\ rg' = "close"
    /\ UNCHANGED <<shape, hsVars, hw, finished, aborted, closer, hsClosing, closes, flightVars, joins, expired, wire>>

PickFrame ==
    /\ rg = "writer"
    /\ \/ hw \in {"none", "exited"} /\ RstFrame /\ rg' = IF MayFollow THEN "frame" ELSE "close"
       \/ expired /\ rg' = "close" /\ dataCut' = dataCut
    /\ UNCHANGED <<shape, hsVars, hw, finished, aborted, closeVars, firstWritten, dataStarted, dataWritten, wfinished,
                   werr, joins, expired, wire>>

\* writeThenClose: the frame, the drain, the close; then the writer is joined here
WriteRst ==
    /\ rg = "frame" /\ rg' = "close" /\ wire' = Append(wire, "rst")
    /\ UNCHANGED <<shape, hsVars, hw, finished, aborted, closeVars, flightVars, joins, expired>>

CloseAfter ==
    /\ rg = "close" /\ rg' = "done" /\ closes' = closes + 1 /\ joins' = (IF rstJoins THEN joins + 1 ELSE joins)
    /\ UNCHANGED <<shape, hsVars, hw, finished, aborted, closer, hsClosing, rstJoins, flightVars, expired, wire>>

Next ==
    \/ HelloStart \/ HelloDelivered \/ HelloCut \/ HelloReturned \/ HelloCloses
    \/ ReadAck \/ AwaitHello \/ Check \/ Response \/ LeaveFinish \/ LeaveClose \/ Join
    \/ Abort \/ RunClose \/ Expire \/ PickLeft \/ PickFrame \/ WriteRst \/ CloseAfter

Spec == Init /\ [][Next]_vars

(***************************************************************************)
(* Properties.                                                             *)
(***************************************************************************)

Settled == hs = "done" /\ hw \in {"none", "exited"} /\ (closer # Nobody => hsClosing) /\ rg \in {"none", "done"}

\* A cut flight is the last thing on the conn (L42), and the RST is never before or instead of a
\* frame of the flight; a withdrawal whose flight was delivered whole is followed by the RST
\* although the handshake left on its own meanwhile (L49), unless its timer expired; the conn of
\* a failed attempt is closed once and its hello writer joined once (rstJoins), and an
\* established one is not closed at all.
WithdrawalFollows ==
    /\ \A i \in 1..Len(wire) : wire[i] \in {"cut", "rst"} => i = Len(wire)
    /\ "data" \in {wire[i] : i \in 1..Len(wire)} => wire[1] = "first"
    /\ Settled => closes = 1 /\ joins = 1
    /\ Settled /\ aborted /\ shape.open /\ shape.withdraw /\ ~expired
         /\ (werr => shape.factory /\ ~dataStarted) => wire[Len(wire)] = "rst"
    /\ hs = "established" => closer = Nobody /\ closes = 0

=============================================================================
