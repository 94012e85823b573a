------------------------------ MODULE Serving ------------------------------
(***************************************************************************)
(* Server (l4/server.go, l4/server_udp.go): the passive end of an L4       *)
(* forward.  Serve's accept loops start a handler per pending session;     *)
(* the handler dials the target, with the embedder's Dial hook on a        *)
(* goroutine of its own that may be abandoned, answers the session once    *)
(* and forwards it.                                                        *)
(*                                                                         *)
(* A step is a section between two things another goroutine can see: an    *)
(* atomic counter, a CAS, an answer to the session, a call on the target.  *)
(* Deadlines may pass at any moment.  The forward itself (Forward,         *)
(* forwardPacket) is one state, left with the target closed.               *)
(***************************************************************************)
EXTENDS Integers, Sequences, FiniteSets

CONSTANTS ServePlans  \* [ses, units, hooks, custom, udp, may]: see lplan

VARIABLES lplan, \* the pending sessions' kinds; the limits; whether Dial and UDP
                 \* are set; the troubles; never changes
          srv,   \* ctx, the Listener, the loops, the kinds' counters, Serve
          han,   \* per session: its handler
          hook,  \* per session: its Dial hook call
          pend,  \* per session: "pending", "confirmed", "rejected" or "gone"
          tgt    \* per session: the target conns opened and closed for it

serveVars == <<lplan, srv, han, hook, pend, tgt>>

Ses == DOMAIN lplan.ses
Kind(i) == lplan.ses[i]
Trouble(x) == x \in lplan.may

NoCall == [st |-> "none", pc |-> "none", conn |-> FALSE, drop |-> FALSE]

SvInit ==
    /\ lplan \in ServePlans
    /\ srv = [ctx |-> TRUE, ln |-> TRUE, pc |-> "serving", abandoned |-> 0,
              loop |-> [k \in {"tcp", "udp"} |-> k = "tcp" \/ lplan.udp],
              k |-> [k \in {"tcp", "udp"} |-> [units |-> 0, hooks |-> 0, dialing |-> 0, live |-> 0]]]
    /\ han = [i \in Ses |-> [pc |-> "none", conn |-> FALSE, counted |-> 0]]
    /\ hook = [i \in Ses |-> NoCall]
    /\ pend = [i \in Ses |-> "pending"]
    /\ tgt = [i \in Ses |-> [opened |-> 0, closed |-> 0]]

-----------------------------------------------------------------------------
(* Counters and answers                                                    *)

Count(i, f, d) == [srv EXCEPT !.k[Kind(i)][f] = @ + d]

\* reject: answers a session that is still pending, counts either way
Reject(i, pc) ==
    /\ pend' = [pend EXCEPT ![i] = IF @ = "pending" THEN "rejected" ELSE @]
    /\ han' = [han EXCEPT ![i] = [pc |-> pc, conn |-> FALSE, counted |-> @.counted + 1]]

\* unconfirmed or lost: counted, no answer
NoAnswer(i) ==
    /\ han' = [han EXCEPT ![i] = [pc |-> "release", conn |-> FALSE, counted |-> @.counted + 1]]
    /\ UNCHANGED pend

To(i, pc) == han' = [han EXCEPT ![i].pc = pc]
Close(i) == tgt' = [tgt EXCEPT ![i].closed = @ + 1]

-----------------------------------------------------------------------------
(* Serve and its accept loops                                              *)

\* acceptLoop: a handler per session
Accept(i) ==
    /\ srv.loop[Kind(i)] /\ pend[i] = "pending" /\ han[i].pc = "none"
    /\ To(i, "start")
    /\ UNCHANGED <<lplan, srv, hook, pend, tgt>>

LoopEnds(k) ==
    /\ srv.loop[k] /\ ~(srv.ctx /\ srv.ln)
    /\ srv' = [srv EXCEPT !.loop[k] = FALSE]
    /\ UNCHANGED <<lplan, han, hook, pend, tgt>>

\* Serve returns after its loops and every handler
ServeReturns ==
    /\ srv.pc = "serving" /\ \A k \in {"tcp", "udp"} : ~srv.loop[k]
    /\ \A i \in Ses : han[i].pc \in {"none", "over"}
    /\ srv' = [srv EXCEPT !.pc = "returned"]
    /\ UNCHANGED <<lplan, han, hook, pend, tgt>>

Stop(x) ==
    /\ Trouble(x) /\ srv[x]
    /\ srv' = [srv EXCEPT ![x] = FALSE]
    /\ pend' = [i \in Ses |-> IF x = "ln" /\ pend[i] = "pending" THEN "gone" ELSE pend[i]]
    /\ UNCHANGED <<lplan, han, hook, tgt>>

\* The pending phase ends: withdrawn, timed out
Gone(i) ==
    /\ Trouble("gone") /\ pend[i] = "pending" /\ han[i].pc # "none"
    /\ pend' = [pend EXCEPT ![i] = "gone"]
    /\ UNCHANGED <<lplan, srv, han, hook, tgt>>

-----------------------------------------------------------------------------
(* Handle, serveFlow: up to the dial                                       *)

\* A handler within MaxConns or MaxFlows
Admit(i) ==
    /\ han[i].pc = "start"
    /\ IF srv.k[Kind(i)].units >= lplan.units
       THEN Reject(i, "over") /\ UNCHANGED srv
       ELSE srv' = Count(i, "units", 1) /\ To(i, "parse") /\ UNCHANGED pend
    /\ UNCHANGED <<lplan, hook, tgt>>

\* The metadata, then the hook count
Parse(i) ==
    /\ han[i].pc = "parse"
    /\ \/ Trouble("bad") /\ Reject(i, "release") /\ UNCHANGED srv
       \/ lplan.custom /\ srv.k[Kind(i)].hooks >= lplan.hooks /\ Reject(i, "release") /\ UNCHANGED srv
       \/ lplan.custom /\ srv.k[Kind(i)].hooks < lplan.hooks /\ srv' = Count(i, "hooks", 1) /\ To(i, "budget") /\ UNCHANGED pend
       \/ ~lplan.custom /\ To(i, "budget") /\ UNCHANGED <<srv, pend>>
    /\ UNCHANGED <<lplan, hook, tgt>>

\* connect before the dial: the pending phase ended, the budget is spent,
\* or the dial starts (a custom hook on its own goroutine)
Budget(i) ==
    /\ han[i].pc = "budget"
    /\ \/ /\ pend[i] # "pending" \/ Trouble("spent")
          /\ srv' = IF lplan.custom THEN Count(i, "hooks", -1) ELSE srv
          /\ IF pend[i] # "pending" THEN NoAnswer(i) ELSE Reject(i, "release")
          /\ UNCHANGED hook
       \/ /\ pend[i] = "pending"
          /\ srv' = Count(i, "dialing", 1)
          /\ To(i, "dial")
          /\ hook' = [hook EXCEPT ![i] = IF lplan.custom THEN [@ EXCEPT !.st = "running", !.pc = "dial"] ELSE @]
          /\ UNCHANGED pend
    /\ UNCHANGED <<lplan, tgt>>

-----------------------------------------------------------------------------
(* The hook call: runHook's goroutine and callHook's wait                  *)

\* The hook returns: a conn, an error, both, neither, a panic or Goexit (a
\* flow's conn that fails the datagram check is a conn and an error); the
\* result goes to the handler, or the call was abandoned
HookReturns(i, conn, err) ==
    LET h == hook[i]
    IN  /\ h.pc = "dial"
        /\ tgt' = IF conn THEN [tgt EXCEPT ![i].opened = @ + 1] ELSE tgt
        /\ hook' = [hook EXCEPT ![i] =
             IF h.st = "running" THEN [st |-> "returned", pc |-> "drop", conn |-> conn /\ ~err, drop |-> conn /\ err]
             ELSE [st |-> h.st, pc |-> "gauge", conn |-> FALSE, drop |-> conn]]
        /\ UNCHANGED <<lplan, srv, han, pend>>

HookGauge(i) ==
    /\ hook[i].pc = "gauge"
    /\ srv' = [srv EXCEPT !.abandoned = @ - 1]
    /\ hook' = [hook EXCEPT ![i].pc = "drop"]
    /\ UNCHANGED <<lplan, han, pend, tgt>>

\* Mutant: an abandoned call's late conn is left open
HookDrop_Returned(i) ==
    /\ hook[i].pc = "drop"
    /\ IF hook[i].drop /\ hook[i].st = "returned" THEN Close(i) ELSE UNCHANGED tgt
    /\ hook' = [hook EXCEPT ![i].pc = "release", ![i].drop = FALSE]
    /\ UNCHANGED <<lplan, srv, han, pend>>

\* closeHookConn, then the hook count, last
HookDrop(i) ==
    /\ hook[i].pc = "drop"
    /\ IF hook[i].drop THEN Close(i) ELSE UNCHANGED tgt
    /\ hook' = [hook EXCEPT ![i].pc = "release", ![i].drop = FALSE]
    /\ UNCHANGED <<lplan, srv, han, pend>>

HookRelease(i) ==
    /\ hook[i].pc = "release"
    /\ srv' = Count(i, "hooks", -1)
    /\ hook' = [hook EXCEPT ![i].pc = "over"]
    /\ UNCHANGED <<lplan, han, pend, tgt>>

\* callHook: the result, or its bound
Dial(i) ==
    /\ han[i].pc = "dial" /\ lplan.custom
    /\ \/ /\ hook[i].st = "returned"
          /\ han' = [han EXCEPT ![i].pc = "dialled", ![i].conn = hook[i].conn]
          /\ UNCHANGED hook
       \/ /\ Trouble("slow") /\ hook[i].st = "running"
          /\ hook' = [hook EXCEPT ![i].st = "abandoned"]
          /\ To(i, "abandon")
    /\ UNCHANGED <<lplan, srv, pend, tgt>>

Abandon(i) ==
    /\ han[i].pc = "abandon"
    /\ srv' = [srv EXCEPT !.abandoned = @ + 1]
    /\ To(i, "dialled")
    /\ UNCHANGED <<lplan, hook, pend, tgt>>

\* dialTCP, dialUDP: they end at the deadline, with ctx or the pending phase
DialDefault(i) ==
    /\ han[i].pc = "dial" /\ ~lplan.custom
    /\ \E ok \in BOOLEAN :
         /\ han' = [han EXCEPT ![i].pc = "dialled", ![i].conn = ok]
         /\ tgt' = IF ok THEN [tgt EXCEPT ![i].opened = @ + 1] ELSE tgt
    /\ UNCHANGED <<lplan, srv, hook, pend>>

-----------------------------------------------------------------------------
(* The dial's result, the first datagram, Confirm                          *)

\* connect's end: a target that connected after ctx ended is reset
Dialled(i) ==
    /\ han[i].pc = "dialled"
    /\ srv' = Count(i, "dialing", -1)
    /\ IF han[i].conn /\ ~srv.ctx
       THEN Close(i) /\ han' = [han EXCEPT ![i].pc = "failed", ![i].conn = FALSE]
       ELSE UNCHANGED tgt /\ To(i, IF ~han[i].conn THEN "failed" ELSE IF Kind(i) = "udp" THEN "flow" ELSE "confirm")
    /\ UNCHANGED <<lplan, hook, pend>>

\* Serve's ctx first, then the pending context, then the error's class
Failed(i) ==
    /\ han[i].pc = "failed"
    /\ IF srv.ctx /\ pend[i] # "pending" THEN NoAnswer(i) ELSE Reject(i, "release")
    /\ UNCHANGED <<lplan, srv, hook, tgt>>

\* serveFlow counts the flow as dialing until it is confirmed
Flow(i) ==
    /\ han[i].pc = "flow"
    /\ srv' = Count(i, "dialing", 1)
    /\ To(i, IF Trouble("first") THEN "first" ELSE "confirm")
    /\ UNCHANGED <<lplan, hook, pend, tgt>>

\* openFlow's first datagram: not written once the session is decided; its
\* write goes on, refuses the flow, or ends with the pending phase or ctx
First(i) ==
    /\ han[i].pc = "first"
    /\ IF pend[i] # "pending"
       THEN Close(i) /\ han' = [han EXCEPT ![i].pc = "unconfirmed", ![i].conn = FALSE]
       ELSE UNCHANGED tgt /\ To(i, "write")
    /\ UNCHANGED <<lplan, srv, hook, pend>>

WriteFirst(i) ==
    /\ han[i].pc = "write"
    /\ \/ /\ ~Trouble("blocks") \/ pend[i] # "pending" \/ ~srv.ctx
          /\ To(i, "confirm") /\ UNCHANGED tgt
       \/ /\ Trouble("refuses")
          /\ Close(i)
          /\ han' = [han EXCEPT ![i].pc = "refused", ![i].conn = FALSE]
    /\ UNCHANGED <<lplan, srv, hook, pend>>

\* Confirm: the one answer of a session not decided meanwhile
Confirm(i) ==
    /\ han[i].pc = "confirm"
    /\ IF pend[i] = "pending"
       THEN /\ pend' = [pend EXCEPT ![i] = "confirmed"]
            /\ han' = [han EXCEPT ![i].pc = "confirmed", ![i].counted = @ + 1]
            /\ UNCHANGED tgt
       ELSE /\ Close(i)
            /\ han' = [han EXCEPT ![i].pc = "unconfirmed", ![i].conn = FALSE]
            /\ UNCHANGED pend
    /\ UNCHANGED <<lplan, srv, hook>>

\* openFlow's ends without a session, and Handle's
Unopened(i) ==
    /\ han[i].pc \in {"refused", "unconfirmed"}
    /\ srv' = IF Kind(i) = "udp" THEN Count(i, "dialing", -1) ELSE srv
    /\ IF han[i].pc = "unconfirmed" \/ (srv.ctx /\ pend[i] # "pending") THEN NoAnswer(i) ELSE Reject(i, "release")
    /\ UNCHANGED <<lplan, hook, tgt>>

-----------------------------------------------------------------------------
(* The forward and the handler's end                                       *)

Forwards(i) ==
    /\ han[i].pc = "confirmed"
    /\ srv' = [srv EXCEPT !.k[Kind(i)].live = @ + 1,
                          !.k[Kind(i)].dialing = IF Kind(i) = "udp" THEN @ - 1 ELSE @]
    /\ To(i, "forward")
    /\ UNCHANGED <<lplan, hook, pend, tgt>>

\* Forward and forwardPacket close the target, whatever ended them
ForwardEnds(i) ==
    /\ han[i].pc = "forward"
    /\ Close(i)
    /\ srv' = Count(i, "live", -1)
    /\ han' = [han EXCEPT ![i].pc = "release", ![i].conn = FALSE]
    /\ UNCHANGED <<lplan, hook, pend>>

\* The deferred unit; a flow's handler then waits for its session's end
Release(i) ==
    /\ han[i].pc = "release"
    /\ srv' = Count(i, "units", -1)
    /\ To(i, IF Kind(i) = "udp" /\ pend[i] = "confirmed" THEN "wait" ELSE "over")
    /\ UNCHANGED <<lplan, hook, pend, tgt>>

SessionDone(i) ==
    /\ han[i].pc = "wait"
    /\ To(i, "over")
    /\ UNCHANGED <<lplan, srv, hook, pend, tgt>>

Handler(i) ==
    \/ Admit(i) \/ Parse(i) \/ Budget(i) \/ Dial(i) \/ Abandon(i) \/ DialDefault(i) \/ Dialled(i) \/ Failed(i)
    \/ Flow(i) \/ First(i) \/ WriteFirst(i) \/ Confirm(i) \/ Unopened(i) \/ Forwards(i) \/ ForwardEnds(i)
    \/ Release(i) \/ SessionDone(i)

HookSteps(i) ==
    \/ \E conn, err \in BOOLEAN : HookReturns(i, conn, err)
    \/ HookGauge(i) \/ HookDrop(i) \/ HookRelease(i)

SvNext ==
    \/ \E i \in Ses : Accept(i) \/ Gone(i) \/ Handler(i) \/ HookSteps(i)
    \/ \E k \in {"tcp", "udp"} : LoopEnds(k)
    \/ \E x \in {"ctx", "ln"} : Stop(x)
    \/ ServeReturns

SvSpec == SvInit /\ [][SvNext]_serveVars

-----------------------------------------------------------------------------
(* Properties                                                              *)

In(k, pcs) == Cardinality({i \in Ses : Kind(i) = k /\ han[i].pc \in pcs})
Idle == {"none", "start", "wait", "over"}

\* Every accepted session is answered and counted exactly once, no target
\* outlives its handler and its hook call or is closed twice, and the
\* gauges are exact at every moment, however hook calls return late, the
\* pending phases end and Serve stops: a handler that ended left its
\* session decided and counted once; the conns a hook or a dial opened are
\* closed once both the handler and the call are over; units and hook
\* calls stay within their limits, an abandoned call still counted; and a
\* Serve that returned has no handler
ServedOnce ==
    /\ \A i \in Ses :
         /\ han[i].counted <= 1 /\ tgt[i].closed <= tgt[i].opened
         /\ han[i].pc = "over" => han[i].counted = 1 /\ pend[i] # "pending"
         /\ han[i].pc = "forward" => tgt[i].opened = tgt[i].closed + 1
         /\ han[i].pc \in {"none", "release", "wait", "over"} /\ hook[i].pc \in {"none", "release", "over"} =>
              tgt[i].opened = tgt[i].closed
    /\ \A k \in {"tcp", "udp"} :
         LET c == srv.k[k]
         IN  /\ c.units = In(k, {han[i].pc : i \in Ses} \ Idle) /\ c.units <= lplan.units
             /\ c.hooks <= lplan.hooks
             /\ c.hooks = Cardinality({i \in Ses : Kind(i) = k /\ hook[i].pc \in {"dial", "gauge", "drop", "release"}})
                            + (IF lplan.custom THEN In(k, {"budget"}) ELSE 0)
             /\ c.live = In(k, {"forward"})
    /\ srv.abandoned = Cardinality({i \in Ses : hook[i].st = "abandoned" /\ hook[i].pc \in {"dial", "gauge"}})
                         - Cardinality({i \in Ses : han[i].pc = "abandon"})
    /\ srv.pc = "returned" => \A i \in Ses : han[i].pc \in {"none", "over"}

=============================================================================
