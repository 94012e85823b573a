----------------------------- MODULE MCDialing -----------------------------
(***************************************************************************)
(* Opening, Handshake, Guard and Health on small instances.  A behaviour   *)
(* runs one of them (`which'); the others keep their initial state.        *)
(***************************************************************************)
EXTENDS Opening

CONSTANTS Shapes, GuardPlans, HealthPlans, MaxRuns

VARIABLES
    which,
    shape, hs, hsRst, hw, finished, aborted, closer, hsClosing, firstWritten, dataStarted, dataWritten, dataCut,
    wfinished, werr, rstJoins, joins, expired, rg, wire, closes,
    eplan, abandoned, callr, gor, gclose,
    gplan, tick, hl, fac, run, prb

H == INSTANCE Handshake
G == INSTANCE Guard
Q == INSTANCE Health

hVars == <<shape, hs, hsRst, hw, finished, aborted, closer, hsClosing, firstWritten, dataStarted, dataWritten, dataCut,
           wfinished, werr, rstJoins, joins, expired, rg, wire, closes>>
gVars == <<eplan, abandoned, callr, gor, gclose>>
qVars == <<gplan, tick, hl, fac, run, prb>>

P(e, m) == [early |-> e, may |-> m]

\* Each behaviour meets the troubles of one plan: all of them at once would multiply the states
MCPlans ==
    {P(FALSE, m) : m \in {{"cancel", "stuck"}, {"goaway"}, {"grace", "fails"}, {"reject", "lost"}, {"end"}, {"dies"}}}
    \cup {P(TRUE, m) : m \in {{"close", "goaway"}, {"abort"}, {"idle"}}}

\* Only a stream OPEN carries early data
MCShapes == {x \in [open: BOOLEAN, factory: BOOLEAN, early: BOOLEAN, withdraw: BOOLEAN] : x.early => x.open}

GuardPlan(cs, lim, m) == [calls |-> cs, limit |-> lim, may |-> m]
MCGuardPlans ==
    {GuardPlan(<<"dial", "dial">>, 1, {"f stuck"}),
     GuardPlan(<<"dial", "verdict">>, 2, {"ctx", "ignores deadline", "serial"}),
     GuardPlan(<<"dial", "verdict">>, 2, {"close hangs"})}

HealthPlan(as, ks, t, marks, pings, m) ==
    [atts |-> as, kind |-> ks, time |-> t, marks |-> marks, pings |-> pings, may |-> m]
MCHealthPlans ==
    {HealthPlan(<<2, 0>>, <<"stream", "dgram">>, 1, 1, 1, {"dies", "error", "hold"}),
     HealthPlan(<<1, 1>>, <<"stream", "dgram">>, 0, 0, 0, {"stuck", "close", "refused"}),
     HealthPlan(<<1, 0>>, <<"dgram", "dgram">>, 2, 1, 2, {"dies", "succeeds"}),
     HealthPlan(<<2, 1>>, <<"stream", "dgram">>, 0, 0, 0, {"close", "idle", "stuck"}),
     HealthPlan(<<1, 1>>, <<"dgram", "stream">>, 0, 1, 1, {"close", "planned", "error"})}

AnyOf(S) == CHOOSE x \in S : TRUE

MCInit ==
    /\ which \in {"opening", "handshake", "guard", "health"}
    /\ Init /\ (which = "opening" \/ plan = AnyOf(Plans))
    /\ H!Init /\ (which = "handshake" \/ shape = AnyOf(Shapes))
    /\ G!GInit /\ (which = "guard" \/ eplan = AnyOf(GuardPlans))
    /\ Q!HInit /\ (which = "health" \/ gplan = AnyOf(HealthPlans))

MCNext ==
    \/ which = "opening" /\ Next /\ UNCHANGED <<which, hVars, gVars, qVars>>
    \/ which = "handshake" /\ H!Next /\ UNCHANGED <<which, vars, gVars, qVars>>
    \/ which = "guard" /\ G!GNext /\ UNCHANGED <<which, vars, hVars, qVars>>
    \/ which = "health" /\ Q!HNext /\ UNCHANGED <<which, vars, hVars, gVars>>

MCSpec == MCInit /\ [][MCNext]_<<which, vars, hVars, gVars, qVars>>

-----------------------------------------------------------------------------
(* The components' properties (see there).                                 *)

\* Handshake's: an abandoned handshake's RST(withdrawn) follows a whole flight and no other (hsGuard)
WithdrawalFollows == H!WithdrawalFollows

\* Guard's: a guarded call ends once, its late result is closed once, the abandoned calls are counted (guardedCall)
GuardExact == G!GuardExact

\* Health's: the failed mark follows the order of events and not of reports, and probing leaves nothing behind
\* (MarkFailed, Close)
ProbingExact == Q!MarkIsTrue /\ Q!ProbesJoined

=============================================================================
