--------------------------- MODULE PacketForward ---------------------------
(***************************************************************************)
(* forwardPacket (l4/packet_forward.go): the caller moves datagrams from a *)
(* packet session to a connected local socket, a pump moves them back, and *)
(* a watcher ends both from outside: at once for ctx, a grace after the    *)
(* session's end, so that a local Write that never returns cannot hold the *)
(* flow.  The class tracker makes a flow of both directions a stream.      *)
(*                                                                         *)
(* A step is one call on the session or on local, one atomic, or one       *)
(* section of a mutex.  A datagram's instant is that of the step that      *)
(* notes it.                                                               *)
(***************************************************************************)
EXTENDS Integers, Sequences

CONSTANTS PfPlans,      \* [in, out, seed, time, may]: see wplan
          StreamAfter   \* streamAfter in ticks

VARIABLES wplan,   \* the datagrams of each side; whether one moved before; the last
                   \* tick; the troubles; never changes
          fwd,     \* pfwd: stopping, cancelled, stop, localErr; the result
          cls,     \* flowClass, and the promotions made
          caller,  \* session -> local, then the teardown
          pump,    \* local -> session
          watcher, \* watch
          pses,    \* the packet session
          lsock,   \* local
          clock    \* the time

pfVars == <<wplan, fwd, cls, caller, pump, watcher, pses, lsock, clock>>

Can(x) == x \in wplan.may

-----------------------------------------------------------------------------
(* flowClass.note under promoteActive: 1 toward the session, 2 toward local *)

\* A gap of StreamAfter starts a new period; a stream stays one
Note(c, d) ==
    LET new == c.seen = {} \/ clock - c.last >= StreamAfter
        s   == (IF new THEN {} ELSE c.seen) \cup {d}
        st  == IF new THEN clock ELSE c.start
    IN  IF c.streamed THEN c
        ELSE IF s = {1, 2} /\ clock - st >= StreamAfter
        THEN [streamed |-> TRUE, promotions |-> c.promotions + 1, seen |-> {}, start |-> 0, last |-> 0]
        ELSE [c EXCEPT !.seen = s, !.start = st, !.last = clock]

NoClass == [streamed |-> FALSE, promotions |-> 0, seen |-> {}, start |-> 0, last |-> 0]

PfInit ==
    /\ wplan \in PfPlans
    /\ clock = 0
    /\ fwd = [stopping |-> FALSE, cancelled |-> FALSE, stop |-> FALSE, localErr |-> FALSE,
              read |-> "none", result |-> "none", moved |-> {}]
    /\ cls = IF wplan.seed THEN Note(NoClass, 2) ELSE NoClass
    /\ caller = [pc |-> "read", got |-> "none", do |-> <<>>]
    /\ pump = [pc |-> "read", got |-> "none"]
    /\ watcher = [pc |-> "select", ended |-> TRUE, grace |-> FALSE, do |-> <<>>]
    \* in: datagrams not read yet; fin: the peer's FIN; end: "none" or "failed";
    \* done: Done is closed
    /\ pses = [in |-> wplan.in, fin |-> FALSE, closed |-> FALSE, end |-> FALSE, done |-> FALSE, ctx |-> FALSE]
    /\ lsock = [out |-> wplan.out, deadline |-> FALSE, closed |-> 0, failed |-> FALSE]

Broken == lsock.deadline \/ lsock.closed > 0 \/ lsock.failed

\* PacketConn.Close, also of a session that ended
CloseSession == pses' = [pses EXCEPT !.closed = TRUE]

-----------------------------------------------------------------------------
(* The caller: session -> local                                            *)

\* ReadFrom: this side's Close, the peer's FIN after its datagrams, the end
ReadFrom ==
    /\ caller.pc = "read"
    /\ LET err == IF pses.closed THEN "closed" ELSE IF pses.fin /\ pses.in = 0 THEN "eof" ELSE "end"
       IN  IF pses.closed \/ pses.end \/ (pses.fin /\ pses.in = 0)
           THEN /\ caller' = [pc |-> "teardown", got |-> "none", do |-> <<"stopping", "deadline", "close local", "close", "stop">>]
                /\ fwd' = [fwd EXCEPT !.read = err]
                /\ UNCHANGED pses
           ELSE /\ pses.in > 0
                /\ pses' = [pses EXCEPT !.in = @ - 1]
                /\ caller' = [caller EXCEPT !.pc = "write"]
                /\ UNCHANGED fwd
    /\ UNCHANGED <<wplan, cls, pump, watcher, lsock, clock>>

\* local.Write: done and noted, refused with a noise errno, or failed; one
\* that blocks returns at local's deadline
WriteLocal ==
    /\ caller.pc = "write"
    /\ \/ /\ ~Broken /\ ~Can("blocks")
          /\ caller' = [caller EXCEPT !.pc = "read"]
          /\ cls' = Note(cls, 2)
          /\ fwd' = [fwd EXCEPT !.moved = @ \cup {2}]
       \/ /\ Broken \/ Can("noise")
          /\ caller' = [caller EXCEPT !.pc = "error", !.got = IF Broken THEN "fatal" ELSE "noise"]
          /\ UNCHANGED <<cls, fwd>>
    /\ UNCHANGED <<wplan, pump, watcher, pses, lsock, clock>>

\* Mutant: the watcher's deadline is taken for a failure of local
WriteError_Always ==
    /\ caller.pc = "error"
    /\ IF caller.got = "noise"
       THEN caller' = [caller EXCEPT !.pc = "read", !.got = "none"] /\ UNCHANGED fwd
       ELSE /\ caller' = [caller EXCEPT !.pc = "fail", !.got = "none"]
            /\ fwd' = [fwd EXCEPT !.localErr = TRUE]
    /\ UNCHANGED <<wplan, cls, pump, watcher, pses, lsock, clock>>

\* Nothing once stopping; noise is counted; else failLocal
WriteError ==
    /\ caller.pc = "error"
    /\ IF fwd.stopping \/ caller.got = "noise"
       THEN caller' = [caller EXCEPT !.pc = "read", !.got = "none"] /\ UNCHANGED fwd
       ELSE /\ caller' = [caller EXCEPT !.pc = "fail", !.got = "none"]
            /\ fwd' = [fwd EXCEPT !.localErr = TRUE]
    /\ UNCHANGED <<wplan, cls, pump, watcher, pses, lsock, clock>>

\* failLocal's Close
CallerFails ==
    /\ caller.pc = "fail" /\ CloseSession
    /\ caller' = [caller EXCEPT !.pc = "read"]
    /\ UNCHANGED <<wplan, fwd, cls, pump, watcher, lsock, clock>>

\* The calls of the teardown and of halt
Does(x) ==
    CASE x = "stopping" -> fwd' = [fwd EXCEPT !.stopping = TRUE] /\ UNCHANGED <<pses, lsock>>
      [] x = "cancelled" -> fwd' = [fwd EXCEPT !.cancelled = TRUE] /\ UNCHANGED <<pses, lsock>>
      [] x = "stop" -> fwd' = [fwd EXCEPT !.stop = TRUE] /\ UNCHANGED <<pses, lsock>>
      [] x = "deadline" -> lsock' = [lsock EXCEPT !.deadline = TRUE] /\ UNCHANGED <<fwd, pses>>
      [] x = "close local" -> lsock' = [lsock EXCEPT !.closed = @ + 1] /\ UNCHANGED <<fwd, pses>>
      [] OTHER -> CloseSession /\ UNCHANGED <<fwd, lsock>>

Teardown ==
    /\ caller.pc = "teardown" /\ caller.do # <<>>
    /\ Does(Head(caller.do))
    /\ caller' = [caller EXCEPT !.do = Tail(@)]
    /\ UNCHANGED <<wplan, cls, pump, watcher, clock>>

\* The joins; ctx is the result where its halt closed the session
Returns ==
    /\ caller.pc = "teardown" /\ caller.do = <<>> /\ pump.pc = "done" /\ watcher.pc = "done"
    /\ caller' = [caller EXCEPT !.pc = "returned"]
    /\ fwd' = [fwd EXCEPT !.result = IF fwd.cancelled /\ fwd.read = "closed" THEN "ctx" ELSE fwd.read]
    /\ UNCHANGED <<wplan, cls, pump, watcher, pses, lsock, clock>>

-----------------------------------------------------------------------------
(* The pump: local -> session                                              *)

\* local.Read: a datagram, one too large, a noise errno, or a failure
ReadLocal ==
    /\ pump.pc = "read"
    /\ \/ /\ ~Broken /\ lsock.out > 0
          /\ lsock' = [lsock EXCEPT !.out = @ - 1]
          /\ \E x \in {"dgram"} \cup (wplan.may \cap {"size", "noise"}) : pump' = [pc |-> "got", got |-> x]
       \/ /\ Broken
          /\ pump' = [pc |-> "got", got |-> "fatal"]
          /\ UNCHANGED lsock
    /\ UNCHANGED <<wplan, fwd, cls, caller, watcher, pses, clock>>

\* What it returned, unless stopping: counted, a back-off (which stop ends),
\* the session's WriteTo next, or failLocal
PumpGot ==
    /\ pump.pc = "got"
    /\ pump' = [pc |-> IF fwd.stopping THEN "done"
                       ELSE CASE pump.got = "size" -> "read"
                              [] pump.got = "noise" -> "wait"
                              [] pump.got = "dgram" -> "write"
                              [] OTHER -> "close", got |-> "none"]
    /\ fwd' = [fwd EXCEPT !.localErr = @ \/ (~fwd.stopping /\ pump.got = "fatal")]
    /\ UNCHANGED <<wplan, cls, caller, watcher, pses, lsock, clock>>

PumpWait ==
    /\ pump.pc = "wait"
    /\ pump' = [pump EXCEPT !.pc = IF fwd.stop THEN "done" ELSE "read"]
    /\ UNCHANGED <<wplan, fwd, cls, caller, watcher, pses, lsock, clock>>

\* WriteTo: net.ErrClosed ends the pump; the session's end error closes it
WriteTo ==
    /\ pump.pc = "write"
    /\ IF pses.closed \/ pses.fin THEN pump' = [pump EXCEPT !.pc = "done"] /\ UNCHANGED <<cls, fwd>>
       ELSE IF pses.end THEN pump' = [pump EXCEPT !.pc = "close"] /\ UNCHANGED <<cls, fwd>>
       ELSE /\ pump' = [pump EXCEPT !.pc = "read"]
            /\ cls' = Note(cls, 1)
            /\ fwd' = [fwd EXCEPT !.moved = @ \cup {1}]
    /\ UNCHANGED <<wplan, caller, watcher, pses, lsock, clock>>

PumpCloses ==
    /\ pump.pc = "close" /\ CloseSession
    /\ pump' = [pump EXCEPT !.pc = "done"]
    /\ UNCHANGED <<wplan, fwd, cls, caller, watcher, lsock, clock>>

-----------------------------------------------------------------------------
(* The watcher                                                             *)

Watch ==
    /\ watcher.pc = "select"
    /\ \/ fwd.stop /\ watcher' = [watcher EXCEPT !.pc = "done"]
       \/ pses.ctx /\ watcher' = [watcher EXCEPT !.pc = "halt", !.do = IF watcher.ended THEN <<"cancelled", "close", "deadline">>
                                                                                       ELSE <<"deadline">>]
       \/ watcher.ended /\ pses.done /\ watcher' = [watcher EXCEPT !.ended = FALSE, !.grace = TRUE]
       \/ watcher.grace /\ watcher' = [watcher EXCEPT !.pc = "halt", !.do = <<"deadline">>]
    /\ UNCHANGED <<wplan, fwd, cls, caller, pump, pses, lsock, clock>>

\* halt: nothing once the teardown or another halt began
Halt ==
    /\ watcher.pc = "halt"
    /\ watcher' = [watcher EXCEPT !.pc = IF fwd.stopping THEN "done" ELSE "halting"]
    /\ fwd' = [fwd EXCEPT !.stopping = TRUE]
    /\ UNCHANGED <<wplan, cls, caller, pump, pses, lsock, clock>>

Halting ==
    /\ watcher.pc = "halting"
    /\ IF watcher.do = <<>> THEN watcher' = [watcher EXCEPT !.pc = "done"] /\ UNCHANGED <<fwd, pses, lsock>>
       ELSE watcher' = [watcher EXCEPT !.do = Tail(@)] /\ Does(Head(watcher.do))
    /\ UNCHANGED <<wplan, cls, caller, pump, clock>>

-----------------------------------------------------------------------------
(* The rest of the world                                                   *)

SessionSteps ==
    /\ \/ Can("peer closes") /\ ~pses.fin /\ ~pses.end /\ pses' = [pses EXCEPT !.fin = TRUE]
       \/ Can("session fails") /\ ~pses.end /\ ~pses.done /\ pses' = [pses EXCEPT !.end = TRUE]
       \/ (pses.end \/ pses.closed \/ pses.fin) /\ ~pses.done /\ pses' = [pses EXCEPT !.done = TRUE]
       \/ Can("ctx") /\ ~pses.ctx /\ pses' = [pses EXCEPT !.ctx = TRUE]
    /\ UNCHANGED <<wplan, fwd, cls, caller, pump, watcher, lsock, clock>>

LocalFails ==
    /\ Can("local fails") /\ ~Broken
    /\ lsock' = [lsock EXCEPT !.failed = TRUE]
    /\ UNCHANGED <<wplan, fwd, cls, caller, pump, watcher, pses, clock>>

Tick ==
    /\ clock < wplan.time /\ ~cls.streamed
    /\ clock' = clock + 1
    /\ UNCHANGED <<wplan, fwd, cls, caller, pump, watcher, pses, lsock>>

PfOwn ==
    \/ ReadFrom \/ WriteLocal \/ WriteError \/ CallerFails \/ Teardown \/ Returns
    \/ ReadLocal \/ PumpGot \/ PumpWait \/ WriteTo \/ PumpCloses \/ Watch \/ Halt \/ Halting

PfNext == PfOwn \/ SessionSteps \/ LocalFails \/ Tick
PfSpec == PfInit /\ [][PfNext]_pfVars

-----------------------------------------------------------------------------
(* Properties                                                              *)

\* A flow's end is attributed to what ended it and always comes, whatever
\* the order in which ctx, the session's end, a failure of local and a
\* local Write that never returns meet the two movers and the watcher: a
\* local error is local's own failure, never the watcher's deadline or the
\* teardown's; a ctx result follows ctx; once the session is over or ctx is
\* done the forward goes on to return, with both goroutines ended and local
\* closed once; and the stream class is applied at most once, to a flow
\* that moved datagrams both ways over a whole streamAfter
FlowEndIsTrue ==
    /\ fwd.localErr => lsock.failed
    /\ fwd.result = "ctx" => pses.ctx
    /\ fwd.result = "closed" => fwd.localErr \/ pses.end
    /\ lsock.closed <= 1
    /\ caller.pc = "returned" => pump.pc = "done" /\ watcher.pc = "done" /\ lsock.closed = 1 /\ pses.closed
    /\ pses.done \/ pses.ctx => caller.pc = "returned" \/ ENABLED PfOwn
    /\ cls.promotions <= 1
    /\ cls.streamed => clock >= StreamAfter /\ 1 \in fwd.moved /\ (2 \in fwd.moved \/ wplan.seed)

\* PacketResult's promise of SessionErr: net.ErrClosed only after a local
\* failure closed the session on this side
ClosedIsLocal == fwd.result = "closed" => fwd.localErr

=============================================================================
