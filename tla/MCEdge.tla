------------------------------- MODULE MCEdge -------------------------------
(***************************************************************************)
(* Datagrams and the l4 package on small instances: Packet, UdpFlow,       *)
(* Ingress, Forward, Serving, PacketForward and TcpServe.  A behaviour     *)
(* runs one of them (`which'), the others keep their initial state.        *)
(***************************************************************************)
EXTENDS Naturals, Sequences

CONSTANTS Parts,  \* the components that a run starts
          MaxAge, BatchFrames, QueueMax, MaxRedo, PktPlans,
          FlowMax, MaxFlows, Quota, Inbox, Reserve, Tombs, FlowPlans,
          OpenQueue, IngPlans,
          FwdPlans, ServePlans, PfPlans, StreamAfter, TcpPlans

VARIABLES
    which,
    kplan, clk, pk, pl, pnet, rcv,
    splan, arr, src, demux, flow, bud,
    iplan, ing, ent, ses,
    fplan, fw, pumpA, pumpB, conn, loc,
    lplan, srv, han, hook, pend, tgt,
    wplan, fwd, cls, caller, pump, watcher, pses, lsock, clock,
    tplan, serve, lst, units, client

K == INSTANCE Packet
U == INSTANCE UdpFlow
I == INSTANCE Ingress
W == INSTANCE Forward
S == INSTANCE Serving
X == INSTANCE PacketForward
C == INSTANCE TcpServe

kVars == <<kplan, clk, pk, pl, pnet, rcv>>
uVars == <<splan, arr, src, demux, flow, bud>>
iVars == <<iplan, ing, ent, ses>>
wVars == <<fplan, fw, pumpA, pumpB, conn, loc>>
sVars == <<lplan, srv, han, hook, pend, tgt>>
xVars == <<wplan, fwd, cls, caller, pump, watcher, pses, lsock, clock>>
cVars == <<tplan, serve, lst, units, client>>

-----------------------------------------------------------------------------
\* Each behaviour meets the troubles of one plan: all of them at once would multiply the states
Dg(m) == [kind |-> "dgram", max |-> m]
St(m) == [kind |-> "stream", max |-> m]
PktPlan(mo, la, st, sz, t, my) == [mode |-> mo, lanes |-> la, start |-> st, sizes |-> sz, time |-> t, may |-> my]
MCPktPlans ==
    {PktPlan("selector", <<Dg(1), Dg(1)>>, {1}, <<1, 1>>, 2, {"close", "dies", "count"}),
     PktPlan("selector", <<Dg(1), Dg(1)>>, {1}, <<1, 1>>, 0, {"close", "dies", "control"}),
     PktPlan("selector", <<Dg(1)>>, {1}, <<1, 1>>, 0, {"recv", "close", "peer closes", "end"}),
     PktPlan("bond", <<Dg(2), Dg(1)>>, {1, 2}, <<1, 2>>, 1, {"close", "dies", "shrinks", "share"}),
     PktPlan("bond", <<Dg(1), St(3)>>, {1, 2}, <<2, 1>>, 0, {"close", "dies", "blocks"}),
     PktPlan("bond", <<Dg(1), St(3)>>, {1, 2}, <<2, 2, 1>>, 0, {"close"}),
     PktPlan("race", <<Dg(2), Dg(1)>>, {1, 2}, <<1, 2>>, 0, {"close", "dies"}),
     PktPlan("race", <<Dg(1), Dg(1)>>, {1, 2}, <<1, 1, 1>>, 0, {"dies"}),
     PktPlan("race", <<Dg(1), Dg(1)>>, {1, 2}, <<1>>, 0, {"close", "recv", "dies"})}

Hello(i, kd, p) == [id |-> i, kind |-> kd, ip |-> p]
FlowPlan(o, d, b, pk0, my) == [owned |-> o, depth |-> d, budget |-> b, pkts |-> pk0, may |-> my]
MCQuota == [open |-> 1, join |-> 1]
Admits == <<Hello(1, "open", 1), Hello(1, "dgram", 1), Hello(2, "join", 1), Hello(1, "open", 1)>>
Mixes == <<Hello(1, "open", 1), Hello(1, "ctl", 2), Hello(1, "dgram", 1), Hello(1, "dgram", 2)>>
MCFlowPlans ==
    {FlowPlan(TRUE, 2, 2, Admits, {"stop"}), FlowPlan(TRUE, 2, 2, Admits, {"expire"}),
     FlowPlan(FALSE, 1, 1, Admits, {"stop", "stuck", "fails"}), FlowPlan(TRUE, 2, 2, Mixes, {"stop", "deadline"}),
     FlowPlan(FALSE, 1, 1, Mixes, {"abort", "stuck"}), FlowPlan(TRUE, 2, 2, Mixes, {"abort", "idle"})}

Dat(c, s) == [cl |-> c, size |-> s]
IngPlan(ds, f, o, my) == [pkts |-> ds, flows |-> f, opening |-> o, may |-> my]
TwoClients == <<Dat(1, "rides"), Dat(2, "follows"), Dat(1, "big")>>
OneClient == <<Dat(1, "follows"), Dat(1, "follows"), Dat(1, "big")>>
Returns == <<Dat(1, "follows"), Dat(2, "rides"), Dat(1, "rides")>>
MCIngPlans ==
    {IngPlan(TwoClients, 1, 1, {"idle", "replies"}), IngPlan(TwoClients, 2, 1, {"aged", "halt"}),
     IngPlan(OneClient, 1, 2, {"aged", "fails", "halt", "peer closed"}), IngPlan(Returns, 2, 2, {"idle"})}

MCFwdPlans ==
    [a : {1}, b : {1}, pending : {FALSE}, half : BOOLEAN, may : {{"session", "blocks"}, {"local", "ctx"}}]
    \cup [a : {1}, b : {1}, pending : {TRUE}, half : {TRUE}, may : {{"session", "hold"}, {"local", "hold"}}]

ServePlan(ss, u, h, c, my) == [ses |-> ss, units |-> u, hooks |-> h, custom |-> c, udp |-> TRUE, may |-> my]
MCServePlans ==
    {ServePlan(<<"tcp", "udp">>, 1, 1, TRUE, {"ctx"}),
     ServePlan(<<"udp">>, 1, 1, FALSE, {"gone", "ctx", "first", "refuses", "blocks"}),
     ServePlan(<<"udp", "udp">>, 1, 1, TRUE, {"spent", "bad", "ln", "slow"}),
     ServePlan(<<"tcp", "tcp">>, 2, 1, TRUE, {"slow", "gone"})}

PfPlan(i, o, sd, t, my) == [in |-> i, out |-> o, seed |-> sd, time |-> t, may |-> my]
MCPfPlans ==
    {PfPlan(1, 1, FALSE, 0, {"session fails", "ctx", "blocks"}),
     PfPlan(1, 1, FALSE, 0, {"peer closes", "local fails", "ctx", "noise"}),
     PfPlan(1, 2, TRUE, 2, {"session fails", "size"}), PfPlan(2, 1, FALSE, 2, {"peer closes"})}

TcpPlan(cs, mx, e, my) == [conns |-> cs, max |-> mx, early |-> e, may |-> my]
MCTcpPlans ==
    {TcpPlan(3, 2, FALSE, {"fails", "peer", "noise"}), TcpPlan(2, 2, TRUE, {"ctx", "noise"}),
     TcpPlan(2, 1, FALSE, {"listener", "ctx", "peer"})}

-----------------------------------------------------------------------------
AnyOf(Q) == CHOOSE x \in Q : TRUE

MCInit ==
    /\ which \in Parts
    /\ K!PInit /\ (which = "packet" \/ kplan = AnyOf(PktPlans))
    /\ U!FInit /\ (which = "udpflow" \/ splan = AnyOf(FlowPlans))
    /\ I!IInit /\ (which = "ingress" \/ iplan = AnyOf(IngPlans))
    /\ W!FwInit /\ (which = "forward" \/ fplan = AnyOf(FwdPlans))
    /\ S!SvInit /\ (which = "serving" \/ lplan = AnyOf(ServePlans))
    /\ X!PfInit /\ (which = "packetforward" \/ wplan = AnyOf(PfPlans))
    /\ C!TInit /\ (which = "tcpserve" \/ tplan = AnyOf(TcpPlans))

MCNext ==
    \/ which = "packet" /\ K!PNext /\ UNCHANGED <<which, uVars, iVars, wVars, sVars, xVars, cVars>>
    \/ which = "udpflow" /\ U!FNext /\ UNCHANGED <<which, kVars, iVars, wVars, sVars, xVars, cVars>>
    \/ which = "ingress" /\ I!INext /\ UNCHANGED <<which, kVars, uVars, wVars, sVars, xVars, cVars>>
    \/ which = "forward" /\ W!FwNext /\ UNCHANGED <<which, kVars, uVars, iVars, sVars, xVars, cVars>>
    \/ which = "serving" /\ S!SvNext /\ UNCHANGED <<which, kVars, uVars, iVars, wVars, xVars, cVars>>
    \/ which = "packetforward" /\ X!PfNext /\ UNCHANGED <<which, kVars, uVars, iVars, wVars, sVars, cVars>>
    \/ which = "tcpserve" /\ C!TNext /\ UNCHANGED <<which, kVars, uVars, iVars, wVars, sVars, xVars>>

MCSpec == MCInit /\ [][MCNext]_<<which, kVars, uVars, iVars, wVars, sVars, xVars, cVars>>

-----------------------------------------------------------------------------
(* The components' properties (see there).                                 *)

\* Every datagram accepted is counted once, a FIN's final seq is final, and nothing that could leave waits for a lost
\* wake-up (PacketCounters, racePktFinDueLocked, pktWakeDataLocked)
PacketExact == K!PacketAccounted /\ K!PacketFinExact /\ K!PacketAwake

\* The books of a UDP source balance whichever of its ends comes first, and no flow's reader sleeps through what it
\* waits for (Source.removed, killLocked)
FlowsExact == U!SourceSettles /\ U!FlowNeverDeaf

\* The UDP ingress's units, entries and counters are exact, and a flow recorded as ended by its far end was closed by
\* it (replace)
IngressExact == I!IngressExact /\ I!PeerEndIsPeers

\* What Forward reports of the two directions is what happened (Forward, ForwardResult)
ForwardHonest == W!ForwardHonest

\* Every accepted session of a Server is served or ended once, its units and hooks are given back (Serve)
ServedOnce == S!ServedOnce

\* The end a forwarded flow reports is the one that happened (PacketForward)
FlowEndIsTrue == X!FlowEndIsTrue

\* The comment in the pump of PacketForward: net.ErrClosed is reported only after a local failure
ClosedIsLocal == X!ClosedIsLocal

\* ServeTCP's units and counters are exact and it returns after its connections (ServeTCP)
ServeTcpExact == C!ServeTcpExact

=============================================================================
