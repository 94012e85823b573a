------------------------------ MODULE Closing ------------------------------
(***************************************************************************)
(* How a stream session of internal/session ends, at both sides: the FIN,  *)
(* FIN_DELIVERED and DONE exchange (D4), resets, the Linger and IdleTimeout *)
(* deadlines, Runtime.Close, and the carriers that die meanwhile.          *)
(*                                                                         *)
(* The data path is Stream's, cut down to what the end of a session looks  *)
(* at: selector routing, one byte per DATA frame, no window; a failover    *)
(* replaces the lost carrier, and no planned switch happens.  A deadline   *)
(* that is armed may expire at any moment.                                 *)
(***************************************************************************)
EXTENDS Integers, Sequences

CONSTANTS
    Carrier,       \* carrier incarnations
    First,         \* the carrier of the OPEN exchange
    Plans,         \* what may happen in a behaviour, one of these (see Plan)
    NetMax,        \* frames a carrier holds each way (back-pressure)
    None           \* no carrier, no offset

Side == {"dialer", "passive"}

AllCauses == {"abort", "exhausted", "linger", "idle", "shutdown", "nopath", "retain"}

\* Which ends besides the clean one each side may come to, which carriers may break
\* by themselves, and how many bytes each side may write
Plan ==
    [causes : [Side -> SUBSET AllCauses], frail : SUBSET Carrier, bytes : [Side -> Nat]]

ASSUME ConstAssumption ==
    /\ First \in Carrier /\ Plans \subseteq Plan
    /\ NetMax \in Nat \ {0}
    /\ None \notin Carrier \cup Nat

VARIABLES
    plan,          \* the plan of this behaviour; it never changes
    \* the application
    wrote,         \* bytes written
    fin,           \* offset of our FIN once requested, else None
    closed,        \* Close was called: what comes in is consumed and discarded
    aborted,       \* Abort was called
    exhausted,     \* a Write passed OffsetLimit
    \* the stream
    sNext,         \* next byte to send
    sBase,         \* every byte below is acknowledged
    finLane,       \* the carrier our FIN was sent on, else None
    finAcked,      \* the peer acknowledged our FIN as delivered
    rTail,         \* end of the bytes received
    rRead,         \* end of the bytes consumed
    peerFin,       \* offset of the peer's FIN once read, else None
    discarded,     \* bytes came in and were discarded after Close
    \* the exchange
    ackDue,        \* the carriers that have not carried the current ACK values
    finDelivSent,  \* an ACK with FIN_DELIVERED went out
    doneSent,      \* an ACK with DONE went out
    peerDone,      \* an ACK with DONE came in
    rstIn,         \* an RST came in
    rst,           \* the RST of our own: "no", "rst", or "goaway" with a GOAWAY
    ended,         \* "no", or how the session ended
    \* the carriers
    lane,          \* lane[s][c]: "none", "joining", "up", "retired" (CLOSE is not written yet), "closed", "dead"
    active,        \* the carrier that carries our DATA, else None
    peerClosed,    \* carriers on which the peer's CLOSE came in
    peerGoAway,    \* carriers on which the peer's GOAWAY came in
    link,          \* link[c]: "none", "up", "broken", or "closed" after a CLOSE
    net            \* net[s][c]: frames on their way to s, or in its reader

appVars == <<wrote, fin, closed, aborted, exhausted>>
sendVars == <<sNext, sBase, finLane, finAcked>>
recvVars == <<rTail, rRead, peerFin, discarded>>
ackVars == <<ackDue, finDelivSent, doneSent, peerDone>>
endVars == <<rstIn, rst, ended>>
laneVars == <<lane, active, peerClosed, peerGoAway>>
vars == <<plan, appVars, sendVars, recvVars, ackVars, endVars, laneVars, link, net>>

-----------------------------------------------------------------------------
(* Operators of the code.                                                  *)

Peer(s) == IF s = "dialer" THEN "passive" ELSE "dialer"

Live(s) == ended[s] = "no"

\* The application still has the session: neither Close nor Abort was called.
Held(s) == Live(s) /\ ~closed[s] /\ ~aborted[s]

Up(s) == {c \in Carrier : lane[s][c] = "up"}

\* The frames fs go out on c; a side that ended drops what comes in, and a link
\* that is not up loses it.
Send(s, c, fs) ==
    net' = IF link[c] = "up" /\ Live(Peer(s))
           THEN [net EXCEPT ![Peer(s)][c] = @ \o fs] ELSE net

Reads(s, c, t) == Live(s) /\ net[s][c] # <<>> /\ Head(net[s][c]).t = t

Take(s, c) == net' = [net EXCEPT ![s][c] = Tail(@)]

\* bumpNowLocked: the current ACK values are owed.
Bump(s) == [ackDue EXCEPT ![s] = {c \in Carrier : lane[s][c] \in {"up", "retired"}}]

BumpIf(cond, s) == IF cond THEN Bump(s) ELSE ackDue

\* peerFinCheckLocked: everything up to the peer's FIN was consumed.
FinDelivered(s) == peerFin[s] # None /\ rRead[s] = peerFin[s]

\* maybeDoneLocked's conditions
DoneQueued(s) == finAcked[s] /\ FinDelivered(s) /\ finDelivSent[s]

\* finDueLocked; an Abort without a FIN leaves fin at None: none is ever due.
FinDue(s) == fin[s] # None /\ ~finAcked[s] /\ finLane[s] = None /\ sNext[s] = fin[s]

\* Mutant: the peer's FIN_DELIVERED is enough.
DoneOr_FinAcked(s, err) == IF finAcked[s] THEN "EOF" ELSE err

\* The end that proves the peer gone is clean once our DONE was sent.
DoneOr(s, err) == IF doneSent[s] THEN "EOF" ELSE err

\* The carrier that carries DATA once those in S are gone.
Fallback(s, S) ==
    IF active[s] \notin S THEN active[s]
    ELSE IF Up(s) \ S = {} THEN None ELSE CHOOSE c \in Up(s) \ S : TRUE

-----------------------------------------------------------------------------
Init ==
    /\ plan \in Plans
    /\ wrote = [s \in Side |-> 0] /\ fin = [s \in Side |-> None]
    /\ closed = [s \in Side |-> FALSE] /\ aborted = [s \in Side |-> FALSE]
    /\ exhausted = [s \in Side |-> FALSE]
    /\ sNext = [s \in Side |-> 0] /\ sBase = [s \in Side |-> 0]
    /\ finLane = [s \in Side |-> None] /\ finAcked = [s \in Side |-> FALSE]
    /\ rTail = [s \in Side |-> 0] /\ rRead = [s \in Side |-> 0]
    /\ peerFin = [s \in Side |-> None] /\ discarded = [s \in Side |-> FALSE]
    /\ ackDue = [s \in Side |-> {}] /\ finDelivSent = [s \in Side |-> FALSE]
    /\ doneSent = [s \in Side |-> FALSE] /\ peerDone = [s \in Side |-> FALSE]
    /\ rstIn = [s \in Side |-> FALSE] /\ rst = [s \in Side |-> "no"]
    /\ ended = [s \in Side |-> "no"]
    /\ lane = [s \in Side |-> [c \in Carrier |-> IF c = First THEN "up" ELSE "none"]]
    /\ active = [s \in Side |-> First]
    /\ peerClosed = [s \in Side |-> {}] /\ peerGoAway = [s \in Side |-> {}]
    /\ link = [c \in Carrier |-> IF c = First THEN "up" ELSE "none"]
    /\ net = [s \in Side |-> [c \in Carrier |-> <<>>]]

-----------------------------------------------------------------------------
(* The application's calls.                                                *)

Write(s) ==
    /\ Held(s) /\ fin[s] = None /\ wrote[s] < plan.bytes[s]
    /\ wrote' = [wrote EXCEPT ![s] = @ + 1]
    /\ UNCHANGED <<fin, closed, aborted, exhausted, sendVars, recvVars, ackVars, endVars, laneVars,
                   link, net>>

\* writeRoundLocked at OffsetLimit: the Write fails and the actor ends the session.
Exhaust(s) ==
    /\ "exhausted" \in plan.causes[s]
    /\ Held(s) /\ fin[s] = None /\ wrote[s] = plan.bytes[s]
    /\ exhausted' = [exhausted EXCEPT ![s] = TRUE]
    /\ UNCHANGED <<wrote, fin, closed, aborted, sendVars, recvVars, ackVars, endVars, laneVars,
                   link, net>>

CloseWrite(s) ==
    /\ Held(s) /\ fin[s] = None
    /\ fin' = [fin EXCEPT ![s] = wrote[s]]
    /\ UNCHANGED <<wrote, closed, aborted, exhausted, sendVars, recvVars, ackVars, endVars,
                   laneVars, link, net>>

Read(s) ==
    /\ Held(s) /\ rRead[s] < rTail[s]
    /\ rRead' = [rRead EXCEPT ![s] = rTail[s]]
    /\ ackDue' = Bump(s)
    /\ UNCHANGED <<appVars, sendVars, rTail, peerFin, discarded, finDelivSent, doneSent,
                   peerDone, endVars, laneVars, link, net>>

\* closeLocked: CloseWrite, and what is held, and still comes, is consumed.
Close(s) ==
    /\ Held(s)
    /\ closed' = [closed EXCEPT ![s] = TRUE]
    /\ fin' = [fin EXCEPT ![s] = IF @ = None THEN wrote[s] ELSE @]
    /\ rRead' = [rRead EXCEPT ![s] = rTail[s]]
    /\ ackDue' = BumpIf(rRead[s] < rTail[s], s)
    /\ UNCHANGED <<wrote, aborted, exhausted, sendVars, rTail, peerFin, discarded, finDelivSent,
                   doneSent, peerDone, endVars, laneVars, link, net>>

\* Abort, also after Close: no FIN is requested and nothing is consumed.
Abort(s) ==
    /\ "abort" \in plan.causes[s]
    /\ Live(s) /\ ~aborted[s]
    /\ aborted' = [aborted EXCEPT ![s] = TRUE]
    /\ UNCHANGED <<wrote, fin, closed, exhausted, sendVars, recvVars, ackVars, endVars, laneVars,
                   link, net>>

-----------------------------------------------------------------------------
(* Fill: the writer of carrier c at side s.                                *)

Room(s, c) == Len(net[Peer(s)][c]) < NetMax

FillData(s, c) ==
    /\ Live(s) /\ active[s] = c /\ Room(s, c)
    /\ sNext[s] < wrote[s]
    /\ Send(s, c, <<[t |-> "DATA", off |-> sNext[s]]>>)
    /\ sNext' = [sNext EXCEPT ![s] = @ + 1]
    /\ UNCHANGED <<appVars, sBase, finLane, finAcked, recvVars, ackVars, endVars,
                   laneVars, link>>

FillFin(s, c) ==
    /\ Live(s) /\ active[s] = c /\ Room(s, c)
    /\ FinDue(s)
    /\ Send(s, c, <<[t |-> "FIN", off |-> fin[s]]>>)
    /\ finLane' = [finLane EXCEPT ![s] = c]
    /\ UNCHANGED <<appVars, sNext, sBase, finAcked, recvVars, ackVars, endVars, laneVars,
                   link>>

\* Mutant: sending FIN_DELIVERED does not make the DONE due.
FillAck_NoDone(s, c) ==
    LET f == [t |-> "ACK", del |-> rRead[s], fin |-> FinDelivered(s), done |-> DoneQueued(s)]
    IN
    /\ Live(s) /\ lane[s][c] \in {"up", "retired"} /\ c \in ackDue[s] /\ Room(s, c)
    /\ Send(s, c, <<f>>)
    /\ finDelivSent' = [finDelivSent EXCEPT ![s] = @ \/ f.fin]
    /\ doneSent' = [doneSent EXCEPT ![s] = @ \/ f.done]
    /\ ackDue' = [ackDue EXCEPT ![s] = @ \ {c}]
    /\ UNCHANGED <<appVars, sendVars, recvVars, peerDone, endVars, laneVars, link>>

\* fillAckLocked: the first ACK with FIN_DELIVERED may make the DONE due.
FillAck(s, c) ==
    LET f == [t |-> "ACK", del |-> rRead[s], fin |-> FinDelivered(s), done |-> DoneQueued(s)]
    IN
    /\ Live(s) /\ lane[s][c] \in {"up", "retired"} /\ c \in ackDue[s] /\ Room(s, c)
    /\ Send(s, c, <<f>>)
    /\ finDelivSent' = [finDelivSent EXCEPT ![s] = @ \/ f.fin]
    /\ doneSent' = [doneSent EXCEPT ![s] = @ \/ f.done]
    /\ ackDue' = IF finAcked[s] /\ f.fin /\ ~finDelivSent[s] THEN Bump(s)
                 ELSE [ackDue EXCEPT ![s] = @ \ {c}]
    /\ UNCHANGED <<appVars, sendVars, recvVars, peerDone, endVars, laneVars, link>>

\* A retired carrier's last frames: the RST of an ended session, a GOAWAY before or
\* after it, then CLOSE; a pending ACK goes first.
FillClose(s, c, fs) ==
    /\ lane[s][c] = "retired" /\ c \notin ackDue[s]
    /\ fs \in CASE rst[s] = "no" -> {<<>>}
              [] rst[s] = "rst" -> {<<"RST">>}
              [] rst[s] = "goaway" -> {<<"GOAWAY", "RST">>, <<"RST", "GOAWAY">>}
    /\ Send(s, c, [i \in DOMAIN fs |-> [t |-> fs[i]]] \o <<[t |-> "CLOSE"]>>)
    /\ lane' = [lane EXCEPT ![s][c] = "closed"]
    /\ UNCHANGED <<appVars, sendVars, recvVars, ackVars, endVars, active, peerClosed,
                   peerGoAway, link>>

-----------------------------------------------------------------------------
(* Data and Control: the reader of carrier c hands over the next frame.  A    *)
(* frame of a carrier that already died is handled like any other.         *)

RecvData(s, c) ==
    LET new == Head(net[s][c]).off = rTail[s] IN
    /\ Reads(s, c, "DATA") /\ Take(s, c)
    /\ rTail' = IF new THEN [rTail EXCEPT ![s] = @ + 1] ELSE rTail
    /\ rRead' = IF new /\ closed[s] THEN [rRead EXCEPT ![s] = rTail[s] + 1] ELSE rRead
    /\ discarded' = [discarded EXCEPT ![s] = @ \/ (new /\ closed[s])]
    /\ ackDue' = BumpIf(closed[s] \/ ~new, s)
    /\ UNCHANGED <<appVars, sendVars, peerFin, finDelivSent, doneSent, peerDone, endVars,
                   laneVars, link>>

RecvFin(s, c) ==
    LET off == Head(net[s][c]).off IN
    /\ Reads(s, c, "FIN") /\ Take(s, c)
    /\ peerFin' = [peerFin EXCEPT ![s] = off]
    /\ ackDue' = BumpIf(rRead[s] = off, s)
    /\ UNCHANGED <<appVars, sendVars, rTail, rRead, discarded, finDelivSent, doneSent,
                   peerDone, endVars, laneVars, link>>

Advance(s, to) ==
    /\ sBase' = IF to > sBase[s] THEN [sBase EXCEPT ![s] = to] ELSE sBase
    /\ sNext' = IF to > sNext[s] THEN [sNext EXCEPT ![s] = to] ELSE sNext

\* ackLocked
RecvAck(s, c) ==
    LET f == Head(net[s][c]) IN
    /\ Reads(s, c, "ACK") /\ Take(s, c)
    /\ Advance(s, f.del)
    /\ finAcked' = [finAcked EXCEPT ![s] = @ \/ f.fin]
    /\ finLane' = IF f.fin THEN [finLane EXCEPT ![s] = None] ELSE finLane
    /\ peerDone' = [peerDone EXCEPT ![s] = @ \/ f.done]
    /\ ackDue' = BumpIf(~finAcked[s] /\ f.fin /\ FinDelivered(s) /\ finDelivSent[s], s)
    /\ UNCHANGED <<appVars, recvVars, finDelivSent, doneSent, endVars, laneVars, link>>

RecvRst(s, c) ==
    /\ Reads(s, c, "RST") /\ Take(s, c)
    /\ rstIn' = [rstIn EXCEPT ![s] = TRUE]
    /\ UNCHANGED <<appVars, sendVars, recvVars, ackVars, rst, ended, laneVars, link>>

\* The carrier's own frames: the actor looks at them at its next step.
RecvGoAway(s, c) ==
    /\ Reads(s, c, "GOAWAY") /\ Take(s, c)
    /\ peerGoAway' = [peerGoAway EXCEPT ![s] = @ \cup {c}]
    /\ UNCHANGED <<appVars, sendVars, recvVars, ackVars, endVars, lane, active,
                   peerClosed, link>>

RecvClose(s, c) ==
    /\ Reads(s, c, "CLOSE") /\ Take(s, c)
    /\ peerClosed' = [peerClosed EXCEPT ![s] = @ \cup {c}]
    /\ UNCHANGED <<appVars, sendVars, recvVars, ackVars, endVars, lane, active,
                   peerGoAway, link>>

-----------------------------------------------------------------------------
(* The end of a session.                                                   *)

\* Mutant: the lanes are not retired.
Terminate_Keeps(s, err, r) ==
    /\ ended' = [ended EXCEPT ![s] = err]
    /\ rst' = [rst EXCEPT ![s] = r]
    /\ active' = [active EXCEPT ![s] = None]
    /\ ackDue' = [ackDue EXCEPT ![s] = {}]
    /\ net' = [net EXCEPT ![s] = [c \in Carrier |-> <<>>]]
    /\ UNCHANGED <<appVars, sendVars, recvVars, finDelivSent, doneSent, peerDone, rstIn,
                   lane, peerClosed, peerGoAway, link>>

\* terminateLocked: the lanes retire, dial attempts are withdrawn, and what comes
\* in is no longer looked at.
Terminate(s, err, r) ==
    /\ ended' = [ended EXCEPT ![s] = err]
    /\ rst' = [rst EXCEPT ![s] = r]
    /\ active' = [active EXCEPT ![s] = None]
    /\ ackDue' = [ackDue EXCEPT ![s] = {}]
    /\ lane' = [lane EXCEPT ![s] = [c \in Carrier |->
                   CASE @[c] = "up" -> "retired" [] @[c] = "joining" -> "dead"
                     [] OTHER -> @[c]]]
    /\ link' = [c \in Carrier |-> IF lane[s][c] = "joining" THEN "broken" ELSE link[c]]
    /\ net' = [net EXCEPT ![s] = [c \in Carrier |->
                   IF lane[s][c] = "none" THEN @[c] ELSE <<>>]]
    /\ UNCHANGED <<appVars, sendVars, recvVars, finDelivSent, doneSent, peerDone, rstIn,
                   peerClosed, peerGoAway>>

\* endIfPeerEndedLocked, for an open session
PeerEnded(s) == rstIn[s] \/ (doneSent[s] /\ peerDone[s])

\* terminationLocked: how the session ends now, by a rule that waits for no deadline,
\* with the first one that applies; "no" if none does.
EndDue(s) ==
    IF rstIn[s] THEN [err |-> DoneOr(s, "Remote"), rst |-> "no"]
    ELSE IF aborted[s] THEN [err |-> "Abort", rst |-> "rst"]
    ELSE IF exhausted[s] THEN [err |-> "Exhausted", rst |-> "rst"]
    ELSE IF doneSent[s] /\ peerDone[s] THEN [err |-> "EOF", rst |-> "no"]
    ELSE IF closed[s] /\ finAcked[s] /\ peerFin[s] = None /\ discarded[s]
    THEN [err |-> "Closed", rst |-> "rst"]
    ELSE [err |-> "no", rst |-> "no"]

\* peerSignalsLocked's GOAWAY on a lane, else the rules above
End(s) ==
    LET bye == \E c \in peerGoAway[s] : lane[s][c] # "dead" IN
    /\ Live(s)
    /\ \/ bye /\ Terminate(s, DoneOr(s, "Remote"), "no")
       \/ ~bye /\ EndDue(s).err # "no" /\ Terminate(s, EndDue(s).err, EndDue(s).rst)

\* A deadline is looked at after these rules.
Waits(s) ==
    /\ Live(s) /\ EndDue(s).err = "no"
    /\ \A c \in peerGoAway[s] : lane[s][c] = "dead"

\* terminationLocked: Linger after our DONE, or after Close without it.
Linger(s) ==
    /\ "linger" \in plan.causes[s] /\ Waits(s)
    /\ \/ doneSent[s] /\ Terminate(s, "EOF", "no")
       \/ ~doneSent[s] /\ closed[s] /\ Terminate(s, "Linger", "rst")

\* terminationLocked: no data moved for the idle timeout.
Idle(s) ==
    /\ "idle" \in plan.causes[s] /\ Waits(s) /\ ~doneSent[s]
    /\ Terminate(s, "Idle", "rst")

\* onShutdownLocked on an open session, which is handled before the rules above
Shutdown(s) ==
    /\ "shutdown" \in plan.causes[s] /\ Live(s)
    /\ Terminate(s, "Shutdown", "goaway")

\* No carrier will come: the dialer has tried all, the passive's dialer has ended.
NoMore(s) ==
    IF s = "dialer" THEN \A c \in Carrier : lane[s][c] \notin {"none", "joining"}
    ELSE ~Live("dialer")

\* episodeExpiryLocked: no carrier came back within the grace.  With "retain" only,
\* the grace is long: the dialer's NoPathGrace covers every attempt, and the
\* passive's, PassiveRetain, exceeds the dialer's.
NoPath(s) ==
    /\ "nopath" \in plan.causes[s] \/ ("retain" \in plan.causes[s] /\ NoMore(s))
    /\ Waits(s) /\ Up(s) = {}
    /\ Terminate(s, DoneOr(s, "NoPath"), "no")

-----------------------------------------------------------------------------
(* Carriers: death, retirement, failover.                                  *)

\* A carrier breaks by itself, while a session uses it; what its readers have not
\* got may be lost.
Break(c) ==
    /\ c \in plan.frail /\ link[c] = "up" /\ \E s \in Side : Live(s)
    /\ link' = [link EXCEPT ![c] = "broken"]
    /\ \E kept \in [Side -> 0..(NetMax + 3)] :
           /\ \A s \in Side : kept[s] <= Len(net[s][c])
           /\ net' = [s \in Side |-> [net[s] EXCEPT ![c] = SubSeq(@, 1, kept[s])]]
    /\ UNCHANGED <<appVars, sendVars, recvVars, ackVars, endVars, laneVars>>

\* finishRetire: both CLOSEs are written, or the drain bound after ours passed.
FinishRetire(c) ==
    /\ link[c] = "up" /\ \E s \in Side : lane[s][c] = "closed"
    /\ \E s \in Side : Live(s)
    /\ link' = [link EXCEPT ![c] = "closed"]
    /\ UNCHANGED <<appVars, sendVars, recvVars, ackVars, endVars, laneVars, net>>

Ended(c) == link[c] \in {"broken", "closed"}

\* Mutant: the death step never waits.
AwaitReader_Never(s, c) == FALSE

\* awaitReaderLocked: after our DONE, the death step waits for the reader.
AwaitReader(s, c) == doneSent[s] /\ ~peerDone[s] /\ net[s][c] # <<>>

\* The lanes in S carry no more DATA (requeueLocked, passiveRouteLocked,
\* lostActiveLocked): their bytes are sent again on a lane that is left.
Unroute(s, S) ==
    /\ sNext' = IF active[s] \in S THEN [sNext EXCEPT ![s] = sBase[s]] ELSE sNext
    /\ active' = [active EXCEPT ![s] = Fallback(s, S)]

\* reapDead: a GOAWAY or the peer's end, if known, come before the death step
\* (laneDiedLocked, laneGoneLocked), which also makes the FIN and the ACK due again.
Reap(s, c) ==
    /\ Live(s) /\ lane[s][c] \in {"up", "retired", "closed"} /\ Ended(c)
    /\ ~AwaitReader(s, c)
    /\ \/ c \in peerGoAway[s] /\ Terminate(s, DoneOr(s, "Remote"), "no")
       \/ /\ c \notin peerGoAway[s] /\ PeerEnded(s)
          /\ Terminate(s, EndDue(s).err, EndDue(s).rst)
       \/ /\ c \notin peerGoAway[s] /\ ~PeerEnded(s)
          /\ lane' = [lane EXCEPT ![s][c] = "dead"]
          /\ Unroute(s, {c})
          /\ finLane' = IF finLane[s] = c THEN [finLane EXCEPT ![s] = None] ELSE finLane
          /\ ackDue' = [ackDue EXCEPT ![s] = Up(s) \ {c}]
          /\ UNCHANGED <<appVars, sBase, finAcked, recvVars, finDelivSent, doneSent,
                         peerDone, endVars, peerClosed, peerGoAway, link, net>>

\* peerClosedLocked on every lane the peer closed, once no reader is waited for
PeerCloses(s) ==
    LET S == Up(s) \cap peerClosed[s] IN
    /\ Waits(s) /\ S # {}
    /\ ~ \E c \in Carrier : lane[s][c] # "dead" /\ Ended(c) /\ AwaitReader(s, c)
    /\ lane' = [lane EXCEPT ![s] = [c \in Carrier |-> IF c \in S THEN "retired" ELSE @[c]]]
    /\ Unroute(s, S)
    /\ UNCHANGED <<appVars, sBase, finLane, finAcked, recvVars, ackVars, endVars, peerClosed,
                   peerGoAway, link, net>>

\* startFailoverRaceLocked: the dialer has no carrier left and dials another.
Join(c) ==
    /\ Waits("dialer") /\ lane["dialer"][c] = "none"
    /\ \A k \in Carrier : lane["dialer"][k] \notin {"up", "joining"}
    /\ lane' = [lane EXCEPT !["dialer"][c] = "joining"]
    /\ link' = [link EXCEPT ![c] = "up"]
    /\ net' = [net EXCEPT !["passive"][c] = <<[t |-> "JOIN", rx |-> rRead["dialer"]]>>]
    /\ UNCHANGED <<appVars, sendVars, recvVars, ackVars, endVars, active, peerClosed,
                   peerGoAway>>

\* laneAddedLocked with the peer's rxNext: the lane carries DATA if none does.
Gains(s, c, rx) ==
    /\ Advance(s, rx)
    /\ lane' = [lane EXCEPT ![s][c] = "up"]
    /\ active' = [active EXCEPT ![s] = IF @ = None THEN c ELSE @]
    /\ ackDue' = [ackDue EXCEPT ![s] = Up(s) \cup {c}]
    /\ UNCHANGED <<appVars, finLane, finAcked, recvVars, finDelivSent, doneSent, peerDone,
                   endVars, peerClosed, peerGoAway>>

\* Session.Join and onAdoptLocked
Adopt(c) ==
    /\ Reads("passive", c, "JOIN")
    /\ Gains("passive", c, Head(net["passive"][c]).rx)
    /\ net' = [net EXCEPT !["passive"][c] = <<>>,
                          !["dialer"][c] = IF link[c] = "up"
                              THEN <<[t |-> "JOIN_ACK", rx |-> rRead["passive"]]>> ELSE @]
    /\ UNCHANGED link

\* Mutant: an end without an RST has a code too.
EndCode_Any == TRUE

\* endCodeLocked: the passive decided an RST of its own.
EndCode == rst["passive"] # "no" /\ ~rstIn["passive"]

\* refuseAdopt, or the tombstone: UNKNOWN_SESSION, with the code of our own RST.
Refuse(c) ==
    /\ ~Live("passive") /\ lane["passive"][c] = "none" /\ net["passive"][c] # <<>>
    /\ net' = [net EXCEPT !["passive"][c] = <<>>,
                          !["dialer"][c] = IF link[c] = "up"
                              THEN <<[t |-> "UNKNOWN", code |-> EndCode]>> ELSE @]
    /\ link' = IF link[c] = "up" THEN [link EXCEPT ![c] = "closed"] ELSE link
    /\ UNCHANGED <<appVars, sendVars, recvVars, ackVars, endVars, laneVars>>

\* joinOKLocked
Attach(c) ==
    /\ lane["dialer"][c] = "joining" /\ Reads("dialer", c, "JOIN_ACK")
    /\ Gains("dialer", c, Head(net["dialer"][c]).rx)
    /\ Take("dialer", c)
    /\ UNCHANGED link

JoinRefused(c) ==
    /\ lane["dialer"][c] = "joining" /\ Reads("dialer", c, "UNKNOWN")
    /\ Terminate("dialer",
                 DoneOr("dialer", IF Head(net["dialer"][c]).code THEN "Remote" ELSE "Lost"),
                 "no")

AttemptFailed(c) ==
    /\ Live("dialer") /\ lane["dialer"][c] = "joining" /\ link[c] = "broken"
    /\ lane' = [lane EXCEPT !["dialer"][c] = "dead"]
    /\ net' = [net EXCEPT !["dialer"][c] = <<>>]
    /\ UNCHANGED <<appVars, sendVars, recvVars, ackVars, endVars, active, peerClosed,
                   peerGoAway, link>>

-----------------------------------------------------------------------------
App(s) ==
    \/ Write(s) \/ Exhaust(s) \/ CloseWrite(s) \/ Read(s) \/ Close(s) \/ Abort(s)

Fill(s, c) ==
    \/ FillData(s, c) \/ FillFin(s, c) \/ FillAck(s, c)
    \/ \E fs \in {<<>>, <<"RST">>, <<"GOAWAY", "RST">>, <<"RST", "GOAWAY">>} :
           FillClose(s, c, fs)

Recv(s, c) ==
    \/ RecvData(s, c) \/ RecvFin(s, c) \/ RecvAck(s, c)
    \/ RecvRst(s, c) \/ RecvGoAway(s, c) \/ RecvClose(s, c)

\* The actor's steps that no deadline and no embedder decides
Act(s) == End(s) \/ PeerCloses(s) \/ \E c \in Carrier : Reap(s, c)

Deadline(s) == Linger(s) \/ Idle(s) \/ NoPath(s)

Dial(c) ==
    \/ Join(c) \/ Adopt(c) \/ Refuse(c) \/ Attach(c) \/ JoinRefused(c) \/ AttemptFailed(c)

Next ==
    /\ UNCHANGED plan
    /\ \/ \E s \in Side : App(s) \/ Act(s) \/ Deadline(s) \/ Shutdown(s)
       \/ \E s \in Side, c \in Carrier : Fill(s, c) \/ Recv(s, c)
       \/ \E c \in Carrier : Dial(c) \/ Break(c) \/ FinishRetire(c)

Spec == Init /\ [][Next]_vars

\* What the code's scheduling gives: an application that has not closed keeps
\* reading; writers, readers, actors and dials make progress; the deadlines of an
\* end phase expire.
Progress ==
    /\ UNCHANGED plan
    /\ \/ \E s \in Side : Read(s) \/ Act(s) \/ Linger(s) \/ NoPath(s)
       \/ \E s \in Side, c \in Carrier : Fill(s, c) \/ Recv(s, c)
       \/ \E c \in Carrier : Dial(c) \/ FinishRetire(c)

\* Every behaviour is finite, so progress of some of them is progress of each.
Fairness == WF_vars(Progress)

FairSpec == Spec /\ Fairness

-----------------------------------------------------------------------------
(* Properties.                                                             *)

\* D4: io.EOF means that both directions are complete: the peer consumed all we
\* wrote up to our FIN, and we consumed all it wrote up to its FIN, whatever
\* deadline, RST, GOAWAY or refused JOIN gave the end.  And doneOr: once our DONE was
\* sent, only our own application or Runtime, or a Write that failed before, can end
\* the session with anything else.
CleanEnd ==
    \A s \in Side :
        /\ ended[s] = "EOF" =>
               /\ fin[s] = wrote[s] /\ rRead[Peer(s)] = fin[s]
               /\ fin[Peer(s)] = wrote[Peer(s)] /\ rRead[s] = fin[Peer(s)]
        /\ doneSent[s] => ended[s] \in {"no", "EOF", "Abort", "Exhausted", "Shutdown"}

\* A session that ends as reset by the peer was reset by the peer: RSTs are never
\* sent back, and the code of a tombstone is that of an RST of its own.
RemoteHasCause == \A s \in Side : ended[s] = "Remote" => rst[Peer(s)] # "no"

\* awaitReaderLocked and endIfPeerEndedLocked: after DONE went out both ways, the
\* peer's end of the carriers is no routing loss: the dialer dials again only if
\* a carrier broke by itself.
NoRedial ==
    [][\/ \E s \in Side : ~doneSent[s]
       \/ \A c \in Carrier : lane["dialer"][c] = "none" => lane'["dialer"][c] = "none"
       \/ \E c \in Carrier : link[c] = "broken"]_vars

\* When both sides have requested their FIN and nothing but the failover of a
\* carrier happens, both sessions end with io.EOF, or one was aborted, exhausted, or closed
\* while data still came in, or every carrier broke.
CleanFinish ==
    (\A s \in Side : fin[s] # None) ~>
        \/ \A s \in Side : ended[s] = "EOF"
        \/ \E s \in Side : discarded[s] \/ aborted[s] \/ exhausted[s]
        \/ \A c \in Carrier : link[c] = "broken"

\* A session never outlives its peer: when one side ended, the other learns of it,
\* by an RST, a GOAWAY, a refused JOIN, or the end of its grace.
EndsTogether == \A s \in Side : ~Live(s) ~> ~Live(Peer(s))

=============================================================================
