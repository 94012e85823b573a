----------------------------- MODULE MCCarriers -----------------------------
(***************************************************************************)
(* The carrier layer on small instances: Trunk, Rounds, Pool, Rel,         *)
(* and DepthReader.  A behaviour runs one of them (`which'), the           *)
(* others keep their initial state: their states add up, and do not        *)
(* multiply.                                                               *)
(***************************************************************************)
EXTENDS Naturals, Sequences

CONSTANTS Parts,  \* the components that a run starts
          MaxHandle, MaxData, MaxExpire, Plans,
          N, Seg, Quantum, Budget, MaxFrames, Capacity,
          Att, PoolPlans,
          RelWindow, RelFirstKeep, SeqMod, FirstCseq, RelPlans,
          HdrCap, DepthMax, DepthPlans

VARIABLES
    which,
    plan, view, chan, wr, lasts, detq, opens, refusals, tol, tolHead, over, next, maxSeen, full, goAway, peerGoAway,
    expired, overCap, viol,
    queue, owes, made, idle, waker, ready, ring, capList, capPM, pc, sc, k, prog, call, n, data, bCap, rdPM, deficit,
    resume, order, submitted, pongMark, capFlag, wake,
    pplan, att, dw, dialing, extra, trunks, pfull, tk, plive, wat, settling, hooks, leaving,
    relPlan, rel, wrt, rdr, trunk, rwake, rnet,
    dplan, word, lent, relHdr, hdrs, pooled, rd, tmr, flag, sock, dying

T == INSTANCE Trunk
R == INSTANCE Rounds WITH MaxMade <- <<1, 1>>
R2 == INSTANCE Rounds WITH MaxMade <- <<2, 0>>
P == INSTANCE Pool
L == INSTANCE Rel
D == INSTANCE DepthReader

tVars == <<plan, view, chan, wr, lasts, detq, opens, refusals, tol, tolHead, over, next, maxSeen, full, goAway,
           peerGoAway, expired, overCap, viol>>
rVars == <<queue, owes, made, idle, waker, ready, ring, capList, capPM, pc, sc, k, prog, call, n, data, bCap, rdPM,
           deficit, resume, order, submitted, pongMark, capFlag, wake>>
pVars == <<pplan, att, dw, dialing, extra, trunks, pfull, tk, plive, wat, settling, hooks, leaving>>
lVars == <<relPlan, rel, wrt, rdr, trunk, rwake, rnet>>
dVars == <<dplan, word, lent, relHdr, hdrs, pooled, rd, tmr, flag, sock, dying>>

-----------------------------------------------------------------------------
\* Each behaviour meets the troubles of one plan: all of them at once would multiply the states
EndOf == {"kill", "retire", "reset"}
TrunkPlan(c, kd, x, y, my) == [cap |-> c, kind |-> kd, D |-> x, P |-> y, may |-> my]
MCTrunkPlans ==
    {TrunkPlan(1, kd, x, y, {}) : kd \in {"open", "join"}, x \in EndOf, y \in EndOf}
    \cup {TrunkPlan(1, "open", x, y, {"expire"}) : x \in {"kill", "retire"}, y \in {"reset"}}
    \cup {TrunkPlan(1, "join", "retire", y, {"goaway"}) : y \in {"kill", "retire"}}

PoolPlan(a, kd, my) == [n |-> a, kind |-> kd, may |-> my]
MCPoolPlans ==
    {PoolPlan(3, kd, {"gives up", "fails"}) : kd \in {<<"open", "join", "open">>, <<"open", "open", "join">>,
                                                       <<"join", "open", "join">>}}
    \cup {PoolPlan(2, <<"open", "join", "open">>, {"fresh", "dies", "full", "fails", "gives up"})}

RelPlan(f, o, rt, an, no) == [first |-> f, other |-> o, retire |-> rt, answers |-> an, noise |-> no]
MCRelPlans ==
    {RelPlan(<<0, 0>>, <<2, 0>>, {}, {}, TRUE), RelPlan(<<1, 0>>, <<1, 0>>, {}, {}, FALSE),
     RelPlan(<<0, 0>>, <<0, 0>>, {1}, {2}, TRUE), RelPlan(<<0, 0>>, <<1, 1>>, {}, {}, FALSE)}

MCHdrCap == <<2, 2, 4, 4, 8, 8>>
MCDepthPlans == {[bursts |-> <<1, 2, 4, 1>>, may |-> {}], [bursts |-> <<1, 2, 1>>, may |-> {"dies", "plain", "refuse"}]}

-----------------------------------------------------------------------------
AnyOf(S) == CHOOSE x \in S : TRUE

MCInit ==
    /\ which \in Parts
    /\ T!Init /\ (which = "trunk" \/ plan = AnyOf(Plans))
    /\ R!Init
    /\ P!Init /\ (which = "pool" \/ pplan = AnyOf(PoolPlans))
    /\ L!RelInit /\ (which = "rel" \/ relPlan = AnyOf(RelPlans))
    /\ D!DInit /\ (which = "depth" \/ dplan = AnyOf(DepthPlans))

MCNext ==
    \/ which = "trunk" /\ T!Next /\ UNCHANGED <<which, rVars, pVars, lVars, dVars>>
    \/ which = "rounds" /\ R!Next /\ UNCHANGED <<which, tVars, pVars, lVars, dVars>>
    \/ which = "cut rounds" /\ R2!Next /\ UNCHANGED <<which, tVars, pVars, lVars, dVars>>
    \/ which = "pool" /\ P!Next /\ UNCHANGED <<which, tVars, rVars, lVars, dVars>>
    \/ which = "rel" /\ L!RelNext /\ UNCHANGED <<which, tVars, rVars, pVars, dVars>>
    \/ which = "depth" /\ D!DNext /\ UNCHANGED <<which, tVars, rVars, pVars, lVars>>

MCSpec == MCInit /\ [][MCNext]_<<which, tVars, rVars, pVars, lVars, dVars>>

-----------------------------------------------------------------------------
(* The components' properties (see there).                                 *)

\* Two sides of a MUX trunk never take each other's frames for a violation, and a dialer within its places never
\* meets a full passive (classifyLocked, slotsLocked)
TrunkRules == T!NoViolation /\ T!WithinCap

\* A view that owes frames is never forgotten by the rounds of the trunk's writer (drrRound)
NoLostView == R!NoLostView

\* The comment on the ready ring (mux.go:276): a view in the ring has its ready flag set
RingIsReady == R!RingIsReady

\* No attempt sleeps beside a decision that is its own, and the pool keeps no idle trunk and forgets none (awaitDial,
\* settle)
PoolExact == P!NoLostKick /\ P!PoolSettles

\* The REL window is exact, no control frame is forgotten by a sleeping writer, and a completed retirement lost nothing
\* (relOnRel, relOnRack, retireDone)
RelCorrect == L!RelExact /\ L!RelNeverStuck /\ L!RetiredComplete

\* A receive header has one owner, and the release of an idle reader's extras never ends the carrier (idleFire)
DepthSafe == D!ExtrasOwned /\ D!WakeNeverKills

=============================================================================
