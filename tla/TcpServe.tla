------------------------------ MODULE TcpServe ------------------------------
(***************************************************************************)
(* PortForward.ServeTCP (l4/portforward_tcp.go): the accept loop with its  *)
(* backoff, MaxConns, a handler per connection that dials the session and  *)
(* forwards, and the halt by ctx, a broken listener, or a closed Peer.     *)
(*                                                                         *)
(* A call and what follows it up to the next call or shared access is a    *)
(* step.  Peer.Dial and Forward are one state each, which ends as the      *)
(* session does or with the serve's ctx.                                   *)
(***************************************************************************)
EXTENDS Integers, FiniteSets

CONSTANTS TcpPlans   \* [conns, max, early, may]: see tplan

VARIABLES tplan,   \* the connections, MaxConns, EarlyReturn and the troubles; never changes
          serve,   \* the accept loop: pc, the serve's and the caller's ctx, the halt's cause, the result
          lst,     \* the listener: open, how often ServeTCP closed it, the AfterFunc
          units,   \* MaxConns units in use
          client   \* per connection: its handler, its fate and what was counted

tcpVars == <<tplan, serve, lst, units, client>>

TMay(x) == x \in tplan.may
Conns == 1..tplan.conns

TInit ==
    /\ tplan \in TcpPlans
    /\ serve = [pc |-> "accept", ctx |-> TRUE, caller |-> TRUE, cause |-> "none", result |-> "none"]
    /\ lst = [open |-> TRUE, broken |-> FALSE, closed |-> 0, peer |-> TRUE]
    /\ units = 0
    \* out: how the dial or the session failed
    /\ client = [i \in Conns |-> [pc |-> "none", fate |-> "none", out |-> "none", counted |-> "none"]]

\* closeLn, whoever comes first
CloseLn == lst' = IF lst.closed = 0 THEN [lst EXCEPT !.open = FALSE, !.closed = 1] ELSE lst

\* halt: the first cause, then the cancellation
HaltWith(err) == [serve EXCEPT !.ctx = FALSE, !.cause = IF @ = "none" THEN err ELSE @]

\* context.AfterFunc: a blocked Accept returns
AfterFunc ==
    /\ ~serve.ctx /\ lst.closed = 0
    /\ CloseLn
    /\ UNCHANGED <<tplan, serve, units, client>>

\* Accept returned a connection: reset when the serve ended or is full
AcceptConn(i) ==
    /\ serve.pc = "accept" /\ lst.open /\ ~lst.broken /\ client[i].pc = "none"
    /\ \A j \in 1..(i - 1) : client[j].pc # "none"
    /\ IF ~serve.ctx
       THEN /\ client' = [client EXCEPT ![i].pc = "over", ![i].fate = "reset"]
            /\ serve' = [serve EXCEPT !.pc = "stop"]
            /\ UNCHANGED units
       ELSE /\ UNCHANGED serve
            /\ IF units >= tplan.max
               THEN client' = [client EXCEPT ![i] = [pc |-> "over", fate |-> "reset", out |-> "none", counted |-> "refused"]]
                    /\ UNCHANGED units
               ELSE client' = [client EXCEPT ![i].pc = "dial"] /\ units' = units + 1
    /\ UNCHANGED <<tplan, lst>>

\* Accept failed: with the serve's end, for good, or for a backoff
AcceptFails ==
    /\ serve.pc = "accept" /\ (~lst.open \/ lst.broken \/ TMay("noise"))
    /\ serve' = IF ~serve.ctx THEN [serve EXCEPT !.pc = "stop"]
                ELSE IF ~lst.open \/ lst.broken THEN [HaltWith("accept") EXCEPT !.pc = "stop"]
                ELSE [serve EXCEPT !.pc = "backoff"]
    /\ UNCHANGED <<tplan, lst, units, client>>

Backoff ==
    /\ serve.pc = "backoff"
    /\ \/ serve' = [serve EXCEPT !.pc = "accept"]
       \/ ~serve.ctx /\ serve' = [serve EXCEPT !.pc = "stop"]
    /\ UNCHANGED <<tplan, lst, units, client>>

\* The loop's defer: the cancellation and closeLn, then the join
StopAccepting ==
    /\ serve.pc = "stop"
    /\ serve' = [serve EXCEPT !.pc = "join", !.ctx = FALSE]
    /\ CloseLn
    /\ UNCHANGED <<tplan, units, client>>

\* Every handler is over: the caller's ctx first, then the cause
ServeEnds ==
    /\ serve.pc = "join" /\ \A i \in Conns : client[i].pc \in {"none", "over"}
    /\ serve' = [serve EXCEPT !.pc = "returned", !.result = IF serve.caller THEN serve.cause ELSE "ctx"]
    /\ UNCHANGED <<tplan, lst, units, client>>

\* Peer.Dial: the session; a refusal or a dead path (whose error may wrap a
\* carrier's net.ErrClosed); the bare net.ErrClosed of a closed Peer; or
\* the serve's ctx
DialReturns(i, out) ==
    /\ client[i].pc = "dial"
    /\ out = "fails" => TMay("fails")
    /\ out = "closed" => ~lst.peer
    /\ out = "ctx" => ~serve.ctx
    /\ client' = IF out = "ok" THEN [client EXCEPT ![i].pc = "forward"]
                 ELSE [client EXCEPT ![i].pc = "failed", ![i].fate = "reset", ![i].out = out]
    /\ UNCHANGED <<tplan, serve, lst, units>>

\* Mutant: any net.ErrClosed, a carrier's too, halts the serve
DialFailed_AnyClosed(i) ==
    /\ client[i].pc = "failed"
    /\ serve' = IF client[i].out \in {"closed", "fails"} THEN HaltWith("peer") ELSE serve
    /\ client' = [client EXCEPT ![i].pc = "count"]
    /\ UNCHANGED <<tplan, lst, units>>

\* A closed Peer halts the serve
DialFailed(i) ==
    /\ client[i].pc = "failed"
    /\ serve' = IF client[i].out = "closed" THEN HaltWith("peer") ELSE serve
    /\ client' = [client EXCEPT ![i].pc = "count"]
    /\ UNCHANGED <<tplan, lst, units>>

\* Forward returns: the session's or the client's end, or ctx; out is
\* "fails" for an EarlyReturn session that the peer never accepted
ForwardReturns(i, out) ==
    /\ client[i].pc = "forward"
    /\ out = "fails" => tplan.early
    /\ out = "ctx" => ~serve.ctx
    /\ client' = [client EXCEPT ![i].pc = "count", ![i].out = out, ![i].fate = IF out = "ok" THEN "served" ELSE "reset"]
    /\ UNCHANGED <<tplan, serve, lst, units>>

\* dialFailed, unless the serve's ctx is done; then the unit
CountFailure(i) ==
    /\ client[i].pc = "count"
    /\ client' = [client EXCEPT ![i].pc = "over",
                                ![i].counted = IF client[i].out \in {"fails", "closed", "ctx"} /\ serve.ctx THEN "failed" ELSE @]
    /\ units' = units - 1
    /\ UNCHANGED <<tplan, serve, lst>>

\* The caller's ctx, a listener closed by someone else, the Peer's Close
Outside ==
    /\ \/ TMay("ctx") /\ serve.caller /\ serve' = [serve EXCEPT !.caller = FALSE, !.ctx = FALSE] /\ UNCHANGED lst
       \/ TMay("listener") /\ lst' = [lst EXCEPT !.broken = TRUE] /\ ~lst.broken /\ UNCHANGED serve
       \/ TMay("peer") /\ lst' = [lst EXCEPT !.peer = FALSE] /\ lst.peer /\ UNCHANGED serve
    /\ UNCHANGED <<tplan, units, client>>

TNext ==
    \/ AfterFunc \/ AcceptFails \/ Backoff \/ StopAccepting \/ ServeEnds \/ Outside
    \/ \E i \in Conns :
         \/ AcceptConn(i) \/ DialFailed(i) \/ CountFailure(i)
         \/ \E out \in {"ok", "fails", "closed", "ctx"} : DialReturns(i, out)
         \/ \E out \in {"ok", "fails", "ctx"} : ForwardReturns(i, out)

TSpec == TInit /\ [][TNext]_tcpVars

-----------------------------------------------------------------------------
(* Properties                                                              *)

\* ServeTCP gives every connection one fate and stops for the reason it
\* reports: the MaxConns units are exact, a connection is reset or served
\* before ServeTCP returns, the listener is closed once, a connection the
\* stop cancelled is not counted as a failed dial, and net.ErrClosed for
\* the Peer is returned only when the Peer was closed, never for one
\* connection's dead carrier
ServeTcpExact ==
    /\ units = Cardinality({i \in Conns : client[i].pc \in {"dial", "failed", "forward", "count"}}) /\ units <= tplan.max
    /\ \A i \in Conns :
         /\ client[i].counted = "failed" => client[i].out # "ctx" /\ client[i].fate = "reset"
         /\ client[i].pc = "over" => client[i].fate # "none"
    /\ serve.cause = "peer" => ~lst.peer
    /\ serve.pc = "returned" =>
         /\ lst.closed = 1 /\ units = 0 /\ serve.result # "none"
         /\ serve.result = "ctx" => ~serve.caller

=============================================================================
