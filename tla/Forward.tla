------------------------------ MODULE Forward ------------------------------
(***************************************************************************)
(* Forward (l4/forward.go): two pumps move bytes between a stream session  *)
(* and a local conn, a reaper watches the session's end and ctx, and the   *)
(* first failure decides how both ends are closed.                         *)
(*                                                                         *)
(* Each call on the session or on local is a step, and so is each section  *)
(* of forwarder.mu; every failure path is the three steps of failLocal or  *)
(* failSession.  The session is rendr.Conn's calls: Read and Write fail    *)
(* once it ended or was closed here, CloseWrite and Abort never do, the    *)
(* end comes at any later moment.  A chunk is one Read's bytes.            *)
(***************************************************************************)
EXTENDS Integers, Sequences, FiniteSets

CONSTANTS FwdPlans   \* [a, b, pending, half, may]: see fplan

VARIABLES fplan,  \* the chunks each side sends before its FIN; whether the session
                  \* is still pending at the call; whether local has a CloseWrite;
                  \* the troubles; never changes
          fw,     \* the forwarder: cause, eofA and eofB, the reaper
          pumpA,  \* local -> session
          pumpB,  \* session -> local
          conn,   \* the session
          loc     \* the local conn

fwdVars == <<fplan, fw, pumpA, pumpB, conn, loc>>

CanDo(x) == x \in fplan.may

FwInit ==
    /\ fplan \in FwdPlans
    /\ fw = [cause |-> "none", eofA |-> FALSE, eofB |-> FALSE, localDone |-> FALSE, firstWrite |-> ~fplan.pending,
             signals |-> 0, pending |-> 2, ended |-> TRUE, timer |-> "off", ctx |-> TRUE, do |-> <<>>, pc |-> "reap",
             clean |-> FALSE]
    /\ pumpA = [pc |-> "read", do |-> <<>>]
    /\ pumpB = [pc |-> IF fplan.pending THEN "hold" ELSE "read", do |-> <<>>]
    \* st: "live", or ended "clean" (io.EOF), "failed" or "reset" (our Abort);
    \* closed: by Abort or Close; fin: our FIN requested; cancelled: ctx
    /\ conn = [st |-> "live", closed |-> FALSE, in |-> 0, out |-> 0, fin |-> FALSE, reset |-> FALSE, cancelled |-> FALSE]
    \* st: "open", "closed" (a plain Close: FIN) or "reset"; failed: by itself
    /\ loc = [st |-> "open", in |-> 0, out |-> 0, fin |-> FALSE, failed |-> FALSE]

-----------------------------------------------------------------------------
(* What a goroutine does, one call at a time: the head of its to-do list   *)

\* closeLocal: once, a reset or a plain Close
CloseLocal(f, reset) ==
    /\ fw' = [f EXCEPT !.localDone = TRUE]
    /\ loc' = IF f.localDone THEN loc ELSE [loc EXCEPT !.st = IF reset THEN "reset" ELSE "closed"]

\* fail: the first cause is kept
Fail(f, c) == fw' = IF f.cause = "none" THEN [f EXCEPT !.cause = c] ELSE f

\* Conn.Abort: no FIN any more, and every call fails; nothing once the
\* session ended
Abort == conn' = IF conn.st = "live" THEN [conn EXCEPT !.closed = TRUE, !.reset = TRUE] ELSE conn

\* Conn.Close requests the FIN of a session that has none
CloseConn == conn' = IF conn.st = "live" /\ ~conn.closed THEN [conn EXCEPT !.closed = TRUE, !.fin = TRUE] ELSE conn

\* One call, or one section of mu; f is the forwarder otherwise
Does(f, x) ==
    CASE x = "abort" -> Abort /\ fw' = f /\ UNCHANGED loc
      [] x = "close" -> CloseConn /\ fw' = f /\ UNCHANGED loc
      [] x \in {"reset", "plain"} -> CloseLocal(f, x = "reset") /\ UNCHANGED conn
      [] OTHER -> Fail(f, x) /\ UNCHANGED <<conn, loc>>

\* Mutant: the session is aborted before the cause is recorded
FailLocal_AbortFirst == <<"abort", "local", "reset">>

\* failLocal and failSession: the cause, the session's reset, local's
FailLocal == <<"local", "abort", "reset">>
FailSession == <<"session", "abort", "reset">>

-----------------------------------------------------------------------------
(* pumpA and pumpB                                                         *)

\* local.Read: a chunk, its FIN, or an error; an error also once local was
\* closed here
ReadLocal ==
    /\ pumpA.pc = "read"
    /\ \/ /\ loc.st = "open" /\ ~loc.failed /\ loc.in < fplan.a
          /\ loc' = [loc EXCEPT !.in = @ + 1]
          /\ pumpA' = [pumpA EXCEPT !.pc = "write"]
       \/ /\ loc.st = "open" /\ ~loc.failed /\ loc.in = fplan.a
          /\ pumpA' = [pumpA EXCEPT !.pc = "fin"]
          /\ UNCHANGED loc
       \/ /\ loc.st # "open" \/ loc.failed
          /\ pumpA' = [pc |-> "fail", do |-> FailLocal]
          /\ UNCHANGED loc
    /\ UNCHANGED <<fplan, fw, pumpB, conn>>

Dead == conn.st # "live" \/ conn.closed

\* The session's Write.  The first Write, or the pump's end, lets pump B's
\* first Read go
WriteConn ==
    /\ pumpA.pc = "write"
    /\ IF Dead THEN pumpA' = [pc |-> "fail", do |-> FailSession] /\ UNCHANGED conn
       ELSE pumpA' = [pumpA EXCEPT !.pc = "read"] /\ conn' = [conn EXCEPT !.in = @ + 1]
    /\ fw' = [fw EXCEPT !.firstWrite = TRUE]
    /\ UNCHANGED <<fplan, pumpB, loc>>

\* CloseWrite, which returns nil always, then the pump's signal
FinConn ==
    /\ pumpA.pc = "fin"
    /\ conn' = IF Dead THEN conn ELSE [conn EXCEPT !.fin = TRUE]
    /\ pumpA' = [pumpA EXCEPT !.pc = "done"]
    /\ fw' = [fw EXCEPT !.eofA = TRUE, !.firstWrite = TRUE, !.signals = @ + 1]
    /\ UNCHANGED <<fplan, pumpB, loc>>

\* The hold of pump B's first Read: at most earlyFirstWriteWait
Hold ==
    /\ pumpB.pc = "hold" /\ (fw.firstWrite \/ CanDo("hold"))
    /\ pumpB' = [pumpB EXCEPT !.pc = "read"]
    /\ UNCHANGED <<fplan, fw, pumpA, conn, loc>>

\* The session's Read: the peer's bytes; its FIN, also after the end; or
\* the error
ReadConn ==
    /\ pumpB.pc = "read"
    /\ \/ /\ ~Dead /\ conn.out < fplan.b
          /\ conn' = [conn EXCEPT !.out = @ + 1]
          /\ pumpB' = [pumpB EXCEPT !.pc = "write"]
       \/ /\ ~conn.closed /\ conn.out = fplan.b
          /\ pumpB' = [pumpB EXCEPT !.pc = "fin"]
          /\ UNCHANGED conn
       \/ /\ conn.closed \/ (Dead /\ conn.st # "clean")
          /\ pumpB' = [pc |-> "fail", do |-> FailSession]
          /\ UNCHANGED conn
    /\ UNCHANGED <<fplan, fw, pumpA, loc>>

\* local.Write and CloseWrite; a local that takes nothing blocks until it
\* is closed
WriteLocal ==
    LET bad == loc.st # "open" \/ loc.failed
    IN  /\ pumpB.pc \in {"write", "fin"}
        /\ bad \/ ~CanDo("blocks") \/ pumpB.pc = "fin"
        /\ IF bad /\ (pumpB.pc = "write" \/ fplan.half)
           THEN pumpB' = [pc |-> "fail", do |-> FailLocal] /\ UNCHANGED <<loc, fw>>
           ELSE IF pumpB.pc = "write"
             THEN /\ loc' = [loc EXCEPT !.out = @ + 1]
                  /\ pumpB' = [pumpB EXCEPT !.pc = "read"]
                  /\ UNCHANGED fw
           ELSE /\ loc' = [loc EXCEPT !.fin = fplan.half]
                /\ pumpB' = [pumpB EXCEPT !.pc = "done"]
                /\ fw' = [fw EXCEPT !.eofB = TRUE, !.signals = @ + 1]
        /\ UNCHANGED <<fplan, pumpA, conn>>

\* A failed pump's calls, then its signal
FailA ==
    /\ pumpA.pc = "fail"
    /\ IF pumpA.do = <<>>
       THEN /\ fw' = [fw EXCEPT !.signals = @ + 1, !.firstWrite = TRUE]
            /\ pumpA' = [pumpA EXCEPT !.pc = "done"]
            /\ UNCHANGED <<conn, loc>>
       ELSE Does(fw, Head(pumpA.do)) /\ pumpA' = [pumpA EXCEPT !.do = Tail(@)]
    /\ UNCHANGED <<fplan, pumpB>>

FailB ==
    /\ pumpB.pc = "fail"
    /\ IF pumpB.do = <<>>
       THEN /\ fw' = [fw EXCEPT !.signals = @ + 1]
            /\ pumpB' = [pumpB EXCEPT !.pc = "done"]
            /\ UNCHANGED <<conn, loc>>
       ELSE Does(fw, Head(pumpB.do)) /\ pumpB' = [pumpB EXCEPT !.do = Tail(@)]
    /\ UNCHANGED <<fplan, pumpA>>

-----------------------------------------------------------------------------
(* reap                                                                    *)

\* The select: a pump's signal, the session's end, the bound of a clean
\* end's join, ctx
Reap ==
    /\ fw.pc = "reap" /\ fw.do = <<>> /\ fw.pending > 0
    /\ \/ fw.signals > 0 /\ fw' = [fw EXCEPT !.signals = @ - 1, !.pending = @ - 1]
       \/ /\ fw.ended /\ conn.st # "live"
          /\ LET left == fw.pending - fw.signals
                 d    == [fw EXCEPT !.ended = FALSE, !.pending = left, !.signals = 0]
             IN  fw' = IF left = 0 THEN d
                       ELSE IF conn.st = "clean" THEN [d EXCEPT !.timer = "on"]
                       ELSE [d EXCEPT !.do = <<"session", "reset">>]
       \/ fw.timer = "on" /\ fw' = [fw EXCEPT !.timer = "fired", !.do = <<"no drain", "reset">>]
       \/ conn.cancelled /\ fw.ctx /\ fw' = [fw EXCEPT !.ctx = FALSE, !.do = <<"ctx", "abort", "reset">>]
    /\ UNCHANGED <<fplan, pumpA, pumpB, conn, loc>>

\* Both pumps ended: an end that is not both FINs is a reset both ways
ReapEnds ==
    LET clean == fw.cause = "none" /\ fw.eofA /\ fw.eofB
    IN  /\ fw.pc = "reap" /\ fw.do = <<>> /\ fw.pending = 0
        /\ fw' = [fw EXCEPT !.pc = "close", !.clean = clean,
                            !.do = IF clean THEN <<"close", "plain">> ELSE <<"abort", "close", "reset">>]
        /\ UNCHANGED <<fplan, pumpA, pumpB, conn, loc>>

ReapStep ==
    /\ fw.do # <<>>
    /\ Does([fw EXCEPT !.do = Tail(@)], Head(fw.do))
    /\ UNCHANGED <<fplan, pumpA, pumpB>>

Returns ==
    /\ fw.pc = "close" /\ fw.do = <<>>
    /\ fw' = [fw EXCEPT !.pc = "returned"]
    /\ UNCHANGED <<fplan, pumpA, pumpB, conn, loc>>

-----------------------------------------------------------------------------
(* The rest of the world                                                   *)

\* The session ends: clean once both FINs went through, with the RST of an
\* Abort, or because it failed
SessionEnds ==
    /\ conn.st = "live"
    /\ \/ conn.reset /\ conn' = [conn EXCEPT !.st = "reset"]
       \/ ~conn.reset /\ conn.fin /\ conn.out = fplan.b /\ conn' = [conn EXCEPT !.st = "clean"]
       \/ CanDo("session") /\ conn' = [conn EXCEPT !.st = "failed"]
    /\ UNCHANGED <<fplan, fw, pumpA, pumpB, loc>>

LocalFails ==
    /\ CanDo("local") /\ loc.st = "open" /\ ~loc.failed
    /\ loc' = [loc EXCEPT !.failed = TRUE]
    /\ UNCHANGED <<fplan, fw, pumpA, pumpB, conn>>

Cancel ==
    /\ CanDo("ctx") /\ ~conn.cancelled
    /\ conn' = [conn EXCEPT !.cancelled = TRUE]
    /\ UNCHANGED <<fplan, fw, pumpA, pumpB, loc>>

FwOwn == ReadLocal \/ WriteConn \/ FinConn \/ Hold \/ ReadConn \/ WriteLocal \/ FailA \/ FailB
           \/ Reap \/ ReapEnds \/ ReapStep \/ Returns
FwNext == FwOwn \/ SessionEnds \/ LocalFails \/ Cancel
FwSpec == FwInit /\ [][FwNext]_fwdVars

-----------------------------------------------------------------------------
(* Properties                                                              *)

\* Neither far end takes a broken transfer for a complete one, and the
\* result names what broke it, whichever of the two pumps, the reaper, the
\* session's end and ctx comes first: a FIN of ours that no RST replaces
\* follows local's FIN and all its bytes; local sees a FIN only after the
\* peer's and all of its bytes; a cause is never a consequence of the
\* teardown it started; the result is clean exactly when local was closed
\* with a FIN; and once the session ended, was aborted, or ctx is done,
\* Forward goes on to return, with both pumps ended
ForwardHonest ==
    /\ conn.fin /\ ~conn.reset => conn.in = fplan.a /\ fw.eofA
    /\ loc.fin \/ loc.st = "closed" => loc.out = fplan.b /\ conn.out = fplan.b
    /\ fw.cause = "local" => loc.failed
    /\ fw.cause = "session" => conn.st = "failed"
    /\ fw.cause = "no drain" => conn.st = "clean"
    /\ fw.pc = "returned" =>
         /\ pumpA.pc = "done" /\ pumpB.pc = "done" /\ loc.st # "open"
         /\ fw.clean <=> loc.st = "closed"
         /\ fw.clean <=> fw.cause = "none"
    /\ Dead \/ conn.cancelled => fw.pc = "returned" \/ ENABLED FwOwn

=============================================================================
