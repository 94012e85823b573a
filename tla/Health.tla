------------------------------- MODULE Health -------------------------------
(***************************************************************************)
(* The Peer health layer (internal/carrier/health.go, probe.go): per       *)
(* factory a probe carrier whose PINGs give evidence, and a failed mark    *)
(* that session deaths, probe failures and proofs set and clear.  A run is *)
(* a goroutine of probing between Use or Hold and the idle stop or Close;  *)
(* its wind-down joins the attempts and carriers it started.               *)
(*                                                                         *)
(* A section of Health.mu is a step; so is each thing an attempt's         *)
(* goroutine or the wind-down does outside it.  Timers may fire at any     *)
(* moment.  An attempt and the carrier it established share an identity.   *)
(* The values of samples and the self-load guard are left out.             *)
(***************************************************************************)
EXTENDS Integers, Sequences, FiniteSets, FiniteSetsExt

CONSTANTS HealthPlans,  \* [atts, kind, time, marks, pings, may]: see gplan
          MaxRuns       \* the runs of a behaviour

VARIABLES gplan, \* per factory: the attempts and the kind; the last tick, the reports
                 \* and the PINGs of a behaviour; the troubles; never changes
          tick,  \* the time
          hl,    \* Health: closed, the current run, holds, Close, Env.Abandon
          fac,   \* per factory: its mark and its evidence
          run,   \* the runs
          prb    \* the attempts, with the carriers they established

healthVars == <<gplan, tick, hl, fac, run, prb>>

Never == -1
Fac == DOMAIN gplan.kind
Runs == 1..MaxRuns
Atts == DOMAIN prb
HCan(x) == x \in gplan.may

HInit ==
    /\ gplan \in HealthPlans
    /\ tick = 0
    /\ hl = [closed |-> FALSE, cur |-> 0, hold |-> FALSE, close |-> "none", pool |-> 0, marks |-> 0, pings |-> 0]
    \* last: the latest failure reported; okAt: the latest Succeeded
    /\ fac = [i \in Fac |-> [failed |-> FALSE, markAt |-> Never, proofAt |-> Never, first |-> FALSE, conn |-> 0,
                             last |-> Never, okAt |-> Never]]
    /\ run = [r \in Runs |-> [pc |-> "none", firstDue |-> FALSE, first |-> FALSE, ended |-> FALSE,
                              slot |-> [i \in Fac |-> [conn |-> 0, prb |-> 0]], adopt |-> 0, gaveUp |-> FALSE, join |-> {}]]
    /\ prb = <<>>

-----------------------------------------------------------------------------
(* Sections of Health.mu on H = [h, f, r, a]                               *)

Now == [h |-> hl, f |-> fac, r |-> run, a |-> prb]
Set(H) == hl' = H.h /\ fac' = H.f /\ run' = H.r /\ prb' = H.a

\* storeLocked: a publication releases WaitFirst once the evidence is in
Publish(H) == IF H.h.cur # 0 /\ H.r[H.h.cur].firstDue THEN [H EXCEPT !.r[H.h.cur].first = TRUE] ELSE H

\* noteFirstLocked: evidence of the current run
NoteFirst(H, i) ==
    LET c == H.h.cur
        G == [H EXCEPT !.f[i].first = TRUE]
    IN  IF c = 0 THEN H
        ELSE IF H.r[c].first THEN H
        ELSE IF \A j \in Fac : G.f[j].first THEN [G EXCEPT !.r[c].firstDue = TRUE] ELSE G

\* markLocked; at is the failure's time
Mark(H, i, at) ==
    NoteFirst([H EXCEPT !.f[i].failed = TRUE, !.f[i].markAt = at], i)

Clear(H, i) == [H EXCEPT !.f[i].failed = FALSE, !.f[i].markAt = Never]

Reported(H, i, at) == [H EXCEPT !.f[i].last = IF at > @ THEN at ELSE @]

\* A probe's own failure happens now
ProbeFailed(H, i) == Reported(Mark(H, i, tick), i, tick)

\* Mutant: the failure is dated by the call
MarkFailed_ByCall(H, i, at) ==
    LET G == Reported(H, i, at)
        f == H.f[i]
    IN  IF ~f.failed /\ f.proofAt >= tick THEN G
        ELSE Publish(Mark(G, i, IF f.failed /\ f.markAt > tick THEN f.markAt ELSE tick))

\* MarkFailedAt: a session carrier's death at at, reported later
MarkFailed(H, i, at) ==
    LET G == Reported(H, i, at)
        f == H.f[i]
    IN  IF ~f.failed /\ f.proofAt >= at THEN G
        ELSE Publish(Mark(G, i, IF f.failed /\ f.markAt > at THEN f.markAt ELSE at))

\* sampleLocked: a PONG whose PING was committed at commit
Sample(H, i, commit) ==
    LET G == [H EXCEPT !.f[i].proofAt = IF commit > @ THEN commit ELSE @]
    IN  Publish(NoteFirst(IF G.f[i].failed /\ commit >= G.f[i].markAt THEN Clear(G, i) ELSE G, i))

\* startRunLocked
StartRun(H, r) ==
    Publish([H EXCEPT !.h.cur = r, !.r[r].pc = "wait", !.f = [i \in Fac |-> [@[i] EXCEPT !.first = FALSE]]])

NextRun == {r \in Runs : run[r].pc = "none"}

-----------------------------------------------------------------------------
(* Calls                                                                   *)

\* Use and Hold start probing; a release leaves it to the idle stop
Use(hold) ==
    /\ ~hl.closed /\ (hold => HCan("hold") /\ ~hl.hold)
    /\ hl.cur # 0 => hold
    /\ hl.cur = 0 => NextRun # {}
    /\ LET H == [Now EXCEPT !.h.hold = @ \/ hold]
       IN  Set(IF hl.cur = 0 THEN StartRun(H, Min(NextRun)) ELSE H)
    /\ UNCHANGED <<gplan, tick>>

ReleaseHold ==
    /\ hl.hold
    /\ hl' = [hl EXCEPT !.hold = FALSE]
    /\ UNCHANGED <<gplan, tick, fac, run, prb>>

MarkFailedAt(i, at) ==
    /\ hl.marks < gplan.marks /\ at <= tick
    /\ Set(MarkFailed([Now EXCEPT !.h.marks = @ + 1], i, at))
    /\ UNCHANGED <<gplan, tick>>

Succeeded(i) ==
    /\ HCan("succeeds") /\ fac[i].failed
    /\ Set(Publish([Clear(Now, i) EXCEPT !.f[i].okAt = tick]))
    /\ UNCHANGED <<gplan, tick>>

Close ==
    /\ HCan("close") /\ hl.close = "none"
    /\ Set(Publish([Now EXCEPT !.h.closed = TRUE, !.h.cur = 0, !.h.close = "join"]))
    /\ UNCHANGED <<gplan, tick>>

CloseReturns ==
    /\ hl.close = "join" /\ \A r \in Runs : run[r].pc \in {"none", "done"}
    /\ hl' = [hl EXCEPT !.close = "returned"]
    /\ UNCHANGED <<gplan, tick, fac, run, prb>>

-----------------------------------------------------------------------------
(* The run's step                                                          *)

\* endedLocked: a dead carrier's slot; a planned end marks nothing
SlotEnded(H, r, i) ==
    LET c == H.r[r].slot[i].conn
        G == [H EXCEPT !.r[r].slot[i].conn = 0, !.f[i].conn = IF @ = c THEN 0 ELSE @]
    IN  IF c = 0 THEN H
        ELSE IF H.a[c].dead = "no" THEN H
        ELSE IF H.a[c].dead = "planned" THEN G ELSE ProbeFailed(G, i)

\* resultLocked: a PONG is a carrier and, for a stream, a proof of the
\* factory from the attempt's start
SlotResult(H, r, i) ==
    LET n == H.r[r].slot[i].prb
        a == H.a[n]
        G == [H EXCEPT !.r[r].slot[i].prb = 0]
        S == [G EXCEPT !.r[r].slot[i].conn = n, !.f[i].conn = n, !.a[n].conn = "live",
                       !.f[i].proofAt = IF gplan.kind[i] = "stream" /\ a.start > @ THEN a.start ELSE @]
    IN  IF n = 0 THEN H
        ELSE IF ~a.fin THEN H
        ELSE IF a.res = "error" THEN ProbeFailed(G, i)
        ELSE IF a.res = "refused" THEN ProbeFailed([G EXCEPT !.a[n].conn = "dying"], i)
        ELSE IF gplan.kind[i] = "stream" /\ G.f[i].failed /\ a.start >= G.f[i].markAt THEN Clear(S, i)
        ELSE S

NewAtt(r, i) == [run |-> r, fac |-> i, start |-> tick, st |-> "dial", fin |-> FALSE, res |-> "none", acct |-> "running",
                 conn |-> "none", dead |-> "no", ping |-> Never, rec |-> FALSE, pong |-> FALSE]

\* A due attempt of an empty slot (the cadence is a timer)
SlotDials(H, r, i) ==
    LET s == H.r[r].slot[i]
        n == Len(H.a) + 1
    IN  IF s.conn # 0 \/ s.prb # 0 \/ Cardinality({a \in 1..Len(H.a) : H.a[a].fac = i}) >= gplan.atts[i] THEN H
        ELSE [H EXCEPT !.a = Append(@, NewAtt(r, i)), !.r[r].slot[i].prb = n]

Slot(H, r, i) == SlotDials(SlotResult(SlotEnded(H, r, i), r, i), r, i)

Step(r) ==
    /\ run[r].pc = "wait" /\ ~hl.closed
    /\ LET H == Slot(Slot(Now, r, 1), r, 2)
       IN  H # Now /\ Set(Publish(H))
    /\ UNCHANGED <<gplan, tick>>

\* endLocked, then the wind-down's kills and retirements: the carriers that
\* posted and the ones in a slot end; WaitFirst is released
End(r) ==
    LET mine == {a \in Atts : prb[a].run = r}
        H    == [Now EXCEPT !.h.cur = IF @ = r THEN 0 ELSE @,
                            !.r[r].pc = "conns", !.r[r].ended = TRUE, !.r[r].first = TRUE,
                            !.r[r].join = {a \in mine : ~prb[a].fin},
                            !.f = [i \in Fac |-> [@[i] EXCEPT !.conn = IF @ = run[r].slot[i].conn THEN 0 ELSE @]],
                            !.a = [a \in Atts |-> IF a \in mine /\ prb[a].conn \in {"est", "live"} /\ prb[a].fin
                                                  THEN [@[a] EXCEPT !.conn = "dying"] ELSE @[a]]]
    IN  /\ run[r].pc = "wait" /\ (hl.closed \/ (HCan("idle") /\ ~hl.hold))
        /\ Set(Publish(H))
        /\ UNCHANGED <<gplan, tick>>

-----------------------------------------------------------------------------
(* The wind-down's joins                                                   *)

RunTo(r, pc) == run' = [run EXCEPT ![r].pc = pc]

JoinConns(r) ==
    /\ run[r].pc = "conns"
    /\ \A a \in Atts : prb[a].run = r /\ prb[a].fin => prb[a].conn \in {"none", "done"}
    /\ RunTo(r, "atts")
    /\ UNCHANGED <<gplan, tick, hl, fac, prb>>

\* Each attempt in flight ends, or 2 AbandonWait passes and it is adopted
JoinAtt(r) ==
    /\ run[r].pc = "atts" /\ run[r].join # {}
    /\ LET a == Min(run[r].join)
       IN  \/ /\ prb[a].st = "exited" /\ ~run[r].gaveUp
              /\ run' = [run EXCEPT ![r].join = @ \ {a}]
              /\ UNCHANGED hl
           \/ /\ HCan("stuck") \/ run[r].gaveUp
              /\ run' = [run EXCEPT ![r].pc = "adopted", ![r].gaveUp = TRUE, ![r].adopt = a, ![r].join = @ \ {a}]
              /\ hl' = [hl EXCEPT !.pool = @ + 1]
    /\ UNCHANGED <<gplan, tick, fac, prb>>

\* Adopt came before the CAS; one that finished meanwhile leaves again
Adopted(r) ==
    LET a == run[r].adopt
    IN  /\ run[r].pc = "adopted"
        /\ run' = [run EXCEPT ![r].pc = "atts", ![r].adopt = 0]
        /\ IF prb[a].acct = "running"
           THEN prb' = [prb EXCEPT ![a].acct = "abandoned"] /\ UNCHANGED hl
           ELSE hl' = [hl EXCEPT !.pool = @ - 1] /\ UNCHANGED prb
        /\ UNCHANGED <<gplan, tick, fac>>

\* The attempts that posted are joined without a bound
RunExits(r) ==
    /\ run[r].pc = "atts" /\ run[r].join = {}
    /\ \A a \in Atts : prb[a].run = r /\ prb[a].fin => prb[a].st = "exited"
    /\ RunTo(r, "done")
    /\ UNCHANGED <<gplan, tick, hl, fac, prb>>

-----------------------------------------------------------------------------
(* An attempt's goroutine                                                  *)

\* Establish returns and the result is posted, unless the run ended: then
\* the carrier is killed and joined here
Post(a, res) ==
    LET keep == ~run[prb[a].run].ended
    IN  /\ prb[a].st = "dial"
        /\ prb' = [prb EXCEPT ![a].res = res, ![a].fin = keep,
                              ![a].conn = IF res = "error" THEN @ ELSE IF keep THEN "est" ELSE "dying",
                              ![a].st = IF keep \/ res = "error" THEN "exit" ELSE "join"]
        /\ UNCHANGED <<gplan, tick, hl, fac, run>>

JoinOwn(a) ==
    /\ prb[a].st = "join" /\ prb[a].conn = "done"
    /\ prb' = [prb EXCEPT ![a].st = "exit"]
    /\ UNCHANGED <<gplan, tick, hl, fac, run>>

\* The CAS of the account, then done
Exit(a) ==
    /\ prb[a].st = "exit"
    /\ prb' = [prb EXCEPT ![a].st = "exited", ![a].acct = IF @ = "running" THEN "done" ELSE @]
    /\ hl' = IF prb[a].acct = "abandoned" THEN [hl EXCEPT !.pool = @ - 1] ELSE hl
    /\ UNCHANGED <<gplan, tick, fac, run>>

-----------------------------------------------------------------------------
(* The probe carriers                                                      *)

\* The writer commits a PING; its callback and the PONG race
PingCommit(a) ==
    /\ prb[a].conn = "live" /\ prb[a].ping = Never /\ hl.pings < gplan.pings
    /\ prb' = [prb EXCEPT ![a].ping = tick]
    /\ hl' = [hl EXCEPT !.pings = @ + 1]
    /\ UNCHANGED <<gplan, tick, fac, run>>

\* pingCommitted and pong: nothing unless the carrier is the current one;
\* the later of the two gives the sample
Callback(a, pong) ==
    LET x == prb[a]
        i == x.fac
        G == [Now EXCEPT !.a[a].rec = TRUE]
        P == [Now EXCEPT !.a[a].pong = TRUE]
        S == [Now EXCEPT !.a[a].ping = Never, !.a[a].rec = FALSE, !.a[a].pong = FALSE]
    IN  /\ x.ping # Never /\ (IF pong THEN ~x.pong ELSE ~x.rec)
        /\ Set(IF fac[i].conn # a THEN (IF pong THEN P ELSE G)
               ELSE IF (IF pong THEN x.rec ELSE x.pong) THEN Sample(S, i, x.ping)
               ELSE IF pong THEN P ELSE G)
        /\ UNCHANGED <<gplan, tick>>

\* A carrier dies (a capacity CLOSE of a datagram probe counts as that), or
\* ends as planned (the peer's CLOSE, a GOAWAY)
CarrierEnds(a, how) ==
    /\ prb[a].conn = "live" /\ prb[a].dead = "no" /\ (how = "death" => HCan("dies"))
    /\ how = "planned" => HCan("planned")
    /\ prb' = [prb EXCEPT ![a].dead = how, ![a].conn = "dying"]
    /\ UNCHANGED <<gplan, tick, hl, fac, run>>

CarrierDone(a) ==
    /\ prb[a].conn = "dying"
    /\ prb' = [prb EXCEPT ![a].conn = "done", ![a].dead = IF @ = "no" THEN "planned" ELSE @,
                          ![a].ping = Never, ![a].rec = FALSE, ![a].pong = FALSE]
    /\ UNCHANGED <<gplan, tick, hl, fac, run>>

Tick ==
    /\ tick < gplan.time
    /\ tick' = tick + 1
    /\ UNCHANGED <<gplan, hl, fac, run, prb>>

HNext ==
    \/ \E hold \in BOOLEAN : Use(hold)
    \/ ReleaseHold \/ Close \/ CloseReturns \/ Tick
    \/ \E i \in Fac : Succeeded(i) \/ \E at \in 0..gplan.time : MarkFailedAt(i, at)
    \/ \E r \in Runs : Step(r) \/ End(r) \/ JoinConns(r) \/ JoinAtt(r) \/ Adopted(r) \/ RunExits(r)
    \/ \E a \in Atts :
         \/ \E res \in {"ok", "refused", "error"} : (res = "ok" \/ HCan(res)) /\ Post(a, res)
         \/ JoinOwn(a) \/ Exit(a) \/ PingCommit(a) \/ CarrierDone(a)
         \/ \E pong \in BOOLEAN : Callback(a, pong)
         \/ \E how \in {"death", "planned"} : CarrierEnds(a, how)

HSpec == HInit /\ [][HNext]_healthVars

-----------------------------------------------------------------------------
(* Properties                                                              *)

\* The failed mark follows the order in which failures and proofs happened,
\* not the order in which they are reported: a marked factory failed no
\* earlier than its latest proof (a PING's commit, a stream probe's start),
\* and one that is not marked was proved at or after its latest failure,
\* whatever late death reports, PONGs that overtake their commit, carriers
\* of an earlier incarnation and restarts come between
MarkIsTrue ==
    \A i \in Fac :
        /\ fac[i].failed => fac[i].proofAt <= fac[i].last /\ fac[i].proofAt <= fac[i].markAt
        /\ ~fac[i].failed => fac[i].last <= Max({fac[i].proofAt, fac[i].okAt})

\* Probing leaves nothing behind and counts what it must leave: a run that
\* exited has no carrier that is not done and no attempt that is neither
\* over nor counted in Env.Abandon; the abandoned-call count is exact and
\* never negative; WaitFirst waits for every factory's evidence or the
\* run's end; and Close returns after every run
ProbesJoined ==
    /\ \A r \in Runs :
         /\ run[r].pc = "done" => \A a \in Atts : prb[a].run = r =>
              /\ prb[a].st = "exited" \/ prb[a].acct = "abandoned"
              /\ prb[a].st = "exited" => prb[a].conn \in {"none", "done"}
         /\ run[r].first /\ ~run[r].ended => hl.cur # r \/ \A i \in Fac : fac[i].first
    /\ hl.pool = Cardinality({a \in Atts : prb[a].acct = "abandoned" /\ prb[a].st # "exited"})
                   + Cardinality({r \in Runs : run[r].adopt # 0})
    /\ hl.close = "returned" => \A r \in Runs : run[r].pc \in {"none", "done"}

=============================================================================
