------------------------------ MODULE Opening ------------------------------
(***************************************************************************)
(* The dialer's opening phase: Peer.Dial with its MaxSessions unit and its *)
(* membership of the Runtime's Dial group, the session actor's OPEN race   *)
(* over the factories, the attempt goroutines, the passive instances they  *)
(* reach, EarlyReturn's deferred opening, and Runtime.Close (dial.go, and  *)
(* dial.go, opening.go and early_dial.go of internal/session).             *)
(*                                                                         *)
(* An attempt is <<f, n>>: the n-th of factory f.  Which factory is ready, *)
(* the stagger and every deadline are left open: they may pass at any      *)
(* moment.  EarlyDataMax is one byte: it is what the first Write commits.  *)
(***************************************************************************)
EXTENDS Naturals, FiniteSets

CONSTANTS
    Factory, Inst, None,
    MaxAttempts,   \* attempts of one factory (a bound)
    MaxRunning,    \* MaxCarriers: attempts outstanding at a time
    Plans          \* what a behaviour may bring: [early: BOOLEAN, may: set of troubles]

ASSUME ConstAssumption == MaxAttempts \in Nat /\ None \notin Inst

Attempt == Factory \X (1..MaxAttempts)

VARIABLES
    plan,                                      \* one of Plans; it never changes
    dl, ret, unit, member, attached,           \* Peer.dial: its step, what it returned, its unit, its membership
    noted, told, regDone, owed,                \* dialReg and Runtime.Close's records of the session
    closing,                                   \* Runtime.Close began
    outcome, result,                           \* the CAS word of Dial and the channel to it
    created, started, deferred, opened, peer, ending, exited, cmds,
    att, n, lanes,                             \* the slots' attempts in flight; attempts started; attached ones
    resEnd, shut,                          \* EarlyReturn: what Write reserved, Close or Abort
    st, inst, resp, rst, lost,                 \* the attempts: stage, instance, response, RST(withdrawn) written, cut
    cancelled, kind, results,
    psess                                      \* psess[i]: the session at instance i

dialVars == <<dl, ret, unit, member, attached, noted, told, regDone, owed, closing, outcome, result>>
sessVars == <<created, started, deferred, opened, peer, ending, exited, cmds, att, n, lanes, resEnd, shut>>
attVars == <<st, inst, resp, rst, lost, cancelled, kind, results>>
vars == <<plan, dialVars, sessVars, attVars, psess>>

Init ==
    /\ plan \in Plans
    /\ dl = "new" /\ ret = "none" /\ unit = FALSE /\ member = 0 /\ attached = FALSE
    /\ noted = FALSE /\ told = FALSE /\ regDone = FALSE /\ owed = FALSE /\ closing = FALSE
    /\ outcome = "waiting" /\ result = "none"
    /\ created = FALSE /\ started = FALSE /\ deferred = FALSE /\ opened = FALSE /\ peer = None
    /\ ending = FALSE /\ exited = FALSE /\ cmds = {} /\ att = [f \in Factory |-> 0]
    /\ n = [f \in Factory |-> 0] /\ lanes = {} /\ resEnd = 0 /\ shut = "no"
    /\ st = [a \in Attempt |-> "none"] /\ inst = [a \in Attempt |-> None]
    /\ resp = [a \in Attempt |-> "none"] /\ rst = {} /\ lost = {} /\ cancelled = {}
    /\ kind = [a \in Attempt |-> "none"] /\ results = {}
    /\ psess = [i \in Inst |-> "none"]

(***************************************************************************)
(* Peer.dial and Runtime.Close.                                            *)
(***************************************************************************)

\* placeDialer, after the entry checks
PlaceDialer ==
    /\ dl = "new"
    /\ IF closing THEN dl' = "done" /\ ret' = "closed" /\ unit' = unit
                  ELSE dl' = "placed" /\ unit' = TRUE /\ ret' = ret
    /\ UNCHANGED <<plan, member, attached, noted, told, regDone, owed, closing, outcome, result,
                   sessVars, attVars, psess>>

BeginDial ==
    /\ dl = "placed"
    /\ IF closing THEN dl' = "done" /\ ret' = "closed" /\ unit' = FALSE /\ member' = member
                  ELSE dl' = "begun" /\ member' = 1 /\ UNCHANGED <<ret, unit>>
    /\ UNCHANGED <<plan, attached, noted, told, regDone, owed, closing, outcome, result,
                   sessVars, attVars, psess>>

\* session.Dial: no session when the context ended before; EarlyReturn returns at once
SessionDial ==
    /\ dl = "begun"
    /\ \/ /\ closing \/ "cancel" \in plan.may
          /\ dl' = "failed" /\ ret' = "err" /\ UNCHANGED <<created, started, deferred>>
       \/ /\ created' = TRUE /\ started' = ~plan.early /\ deferred' = plan.early
          /\ dl' = (IF plan.early THEN "returned" ELSE "waiting") /\ ret' = ret
    /\ UNCHANGED <<plan, unit, member, attached, noted, told, regDone, owed, closing, outcome, result,
                   opened, peer, ending, exited, cmds, att, n, lanes, resEnd, shut, attVars, psess>>

DialResult ==
    /\ dl = "waiting" /\ result # "none"
    /\ dl' = (IF result = "ok" THEN "returned" ELSE "failed")
    /\ ret' = (IF result = "ok" THEN ret ELSE "err")
    /\ UNCHANGED <<plan, unit, member, attached, noted, told, regDone, owed, closing, outcome, result,
                   sessVars, attVars, psess>>

\* Dial's context ends: one compare-and-swap decides between success and withdrawal
DialCancelled ==
    /\ dl = "waiting" /\ (closing \/ "cancel" \in plan.may) /\ outcome = "waiting"
    /\ outcome' = "withdrawn" /\ cmds' = cmds \cup {"withdraw"} /\ dl' = "failed" /\ ret' = "ctx"
    /\ UNCHANGED <<plan, unit, member, attached, noted, told, regDone, owed, closing, result,
                   created, started, deferred, opened, peer, ending, exited, att, n, lanes, resEnd, shut,
                   attVars, psess>>

\* A failed Dial frees its placeholder, then leaves its membership to Registry.Ended
FreePlace ==
    /\ dl = "failed" /\ dl' = "freed" /\ unit' = FALSE
    /\ UNCHANGED <<plan, ret, member, attached, noted, told, regDone, owed, closing, outcome, result,
                   sessVars, attVars, psess>>

HandOver ==
    /\ dl = "freed" /\ dl' = "done"
    /\ IF created /\ ~regDone THEN owed' = TRUE /\ member' = member
                              ELSE member' = member - 1 /\ owed' = owed
    /\ UNCHANGED <<plan, ret, unit, attached, noted, told, regDone, closing, outcome, result,
                   sessVars, attVars, psess>>

\* A successful Dial attaches its session, then looks at closing, then leaves the group
Attach ==
    /\ dl = "returned" /\ dl' = "attached" /\ attached' = ~noted
    /\ UNCHANGED <<plan, ret, unit, member, noted, told, regDone, owed, closing, outcome, result,
                   sessVars, attVars, psess>>

CheckClosing ==
    /\ dl = "attached" /\ dl' = "leaves" /\ ret' = (IF closing THEN "closed" ELSE "ok")
    /\ cmds' = (IF closing THEN cmds \cup {"shutdown"} ELSE cmds)
    /\ UNCHANGED <<plan, unit, member, attached, noted, told, regDone, owed, closing, outcome, result,
                   created, started, deferred, opened, peer, ending, exited, att, n, lanes, resEnd, shut,
                   attVars, psess>>

LeaveGroup ==
    /\ dl = "leaves" /\ dl' = "done" /\ member' = member - 1
    /\ UNCHANGED <<plan, ret, unit, attached, noted, told, regDone, owed, closing, outcome, result,
                   sessVars, attVars, psess>>

RuntimeClose ==
    /\ "goaway" \in plan.may /\ ~closing /\ closing' = TRUE
    /\ UNCHANGED <<plan, dl, ret, unit, member, attached, noted, told, regDone, owed, outcome, result,
                   sessVars, attVars, psess>>

\* Step 3 of Runtime.Close: Shutdown of the sessions the table has
CloseTells ==
    /\ closing /\ ~told /\ told' = TRUE
    /\ cmds' = (IF attached /\ ~regDone THEN cmds \cup {"shutdown"} ELSE cmds)
    /\ UNCHANGED <<plan, dl, ret, unit, member, attached, noted, regDone, owed, closing, outcome, result,
                   created, started, deferred, opened, peer, ending, exited, att, n, lanes, resEnd, shut,
                   attVars, psess>>

(***************************************************************************)
(* The application of an EarlyReturn session.                              *)
(***************************************************************************)

\* triggerOpen: the first caller to clear deferred posts startOpen; none after Close or Abort
TriggerOpen ==
    IF deferred /\ shut = "no"
      THEN deferred' = FALSE /\ cmds' = cmds \cup {"startOpen"}
      ELSE UNCHANGED <<deferred, cmds>>

\* Write reserves under the session lock; its commit triggers the opening
Write ==
    /\ plan.early /\ dl = "done" /\ ret = "ok" /\ shut = "no" /\ ~ending /\ resEnd = 0 /\ resEnd' = 1
    /\ UNCHANGED <<plan, dialVars, created, started, deferred, opened, peer, ending, exited, cmds,
                   att, n, lanes, shut, attVars, psess>>

Commit ==
    /\ resEnd = 1 /\ resEnd' = 2 /\ TriggerOpen
    /\ UNCHANGED <<plan, dialVars, created, started, opened, peer, ending, exited,
                   att, n, lanes, shut, attVars, psess>>

Read ==
    /\ deferred /\ dl = "done" /\ ret = "ok" /\ TriggerOpen /\ deferred' = FALSE
    /\ UNCHANGED <<plan, dialVars, created, started, opened, peer, ending, exited,
                   att, n, lanes, resEnd, shut, attVars, psess>>

CloseOrAbort(how) ==
    /\ plan.early /\ how \in plan.may /\ dl = "done" /\ ret = "ok" /\ shut = "no" /\ shut' = how
    /\ UNCHANGED <<plan, dialVars, created, started, deferred, opened, peer, ending, exited, cmds,
                   att, n, lanes, resEnd, attVars, psess>>

(***************************************************************************)
(* The session's actor.                                                    *)
(***************************************************************************)

Steps == created /\ ~exited
Opens == Steps /\ ~opened /\ ~ending

InFlight == {<<f, att[f]>> : f \in {g \in Factory : att[g] # 0}}

\* terminateLocked: every attempt in flight is cancelled with ErrWithdrawn
Terminate == ending' = TRUE /\ cancelled' = cancelled \cup InFlight

\* failOpeningLocked: the outcome for Dial, unless it was withdrawn
FailOpening ==
    /\ IF outcome = "waiting" THEN outcome' = "failed" /\ result' = "err" ELSE UNCHANGED <<outcome, result>>
    /\ Terminate

dialRest == <<dl, ret, unit, member, attached, noted, told, regDone, owed, closing>>
attRest == <<st, inst, resp, lost, kind>>

OnStartOpen ==
    /\ Steps /\ "startOpen" \in cmds /\ cmds' = cmds \ {"startOpen"}
    /\ started' = (started \/ ~ending)
    /\ UNCHANGED <<plan, dialVars, created, deferred, opened, peer, ending, exited, att, n, lanes, resEnd, shut,
                   attVars, psess>>

\* earlyCloseLocked: nothing reserved ends locally; a reserved round still opens, until Linger
EarlyClose ==
    /\ Opens /\ shut # "no"
    /\ deferred' = FALSE
    /\ IF deferred /\ resEnd = 0
         THEN Terminate /\ started' = started
         ELSE /\ started' = TRUE
              /\ Terminate \/ (shut = "close" /\ ~started /\ UNCHANGED <<ending, cancelled>>)
    /\ UNCHANGED <<plan, dialVars, created, opened, peer, exited, cmds, att, n, lanes, resEnd, shut,
                   attRest, rst, results, psess>>

\* earlyIdleLocked: IdleTimeout of a session nothing triggered
EarlyIdle ==
    /\ Opens /\ "idle" \in plan.may /\ deferred /\ resEnd = 0 /\ deferred' = FALSE /\ Terminate
    /\ UNCHANGED <<plan, dialVars, created, started, opened, peer, exited, cmds, att, n, lanes, resEnd, shut,
                   attRest, rst, results, psess>>

\* raceLocked and startAttemptLocked: an OPEN, or a JOIN once open
StartAttempt(f) ==
    LET a == <<f, n[f] + 1>> IN
    /\ Steps /\ started /\ ~ending /\ att[f] = 0 /\ n[f] < MaxAttempts
    /\ Cardinality(InFlight) < MaxRunning
    /\ ~opened \/ \A b \in lanes : b[1] # f
    /\ ~opened => outcome # "withdrawn"
    /\ att' = [att EXCEPT ![f] = a[2]] /\ n' = [n EXCEPT ![f] = a[2]]
    /\ kind' = [kind EXCEPT ![a] = IF opened THEN "JOIN" ELSE "OPEN"]
    /\ st' = [st EXCEPT ![a] = "dial"]
    /\ UNCHANGED <<plan, dialVars, created, started, deferred, opened, peer, ending, exited, cmds, lanes, resEnd,
                   shut, inst, resp, rst, lost, cancelled, results, psess>>

\* openingLocked: the withdrawal's word or message, or the grace
OpeningEnds ==
    /\ Opens /\ started
    /\ IF outcome = "withdrawn" THEN Terminate /\ UNCHANGED <<outcome, result>>
                                ELSE "grace" \in plan.may /\ FailOpening
    /\ cmds' = cmds \ {"withdraw"}
    /\ UNCHANGED <<plan, dialRest, created, started, deferred, opened, peer, exited, att, n, lanes, resEnd, shut,
                   attRest, rst, results, psess>>

\* onShutdownLocked, also before the verdict
OnShutdown ==
    /\ Steps /\ "shutdown" \in cmds /\ cmds' = cmds \ {"shutdown"}
    /\ IF ending THEN UNCHANGED <<outcome, result, ending, cancelled>>
       ELSE IF opened THEN Terminate /\ UNCHANGED <<outcome, result>> ELSE FailOpening
    /\ UNCHANGED <<plan, dialRest, created, started, deferred, opened, peer, exited, att, n, lanes, resEnd, shut,
                   attRest, rst, results, psess>>

\* An open session ends for a reason of its own
SessionEnds ==
    /\ Steps /\ opened /\ ~ending /\ "end" \in plan.may /\ Terminate
    /\ UNCHANGED <<plan, dialVars, created, started, deferred, opened, peer, exited, cmds, att, n, lanes, resEnd,
                   shut, attRest, rst, results, psess>>

\* The result's conn: an OPEN_ACK(OK) nobody keeps is answered RST(withdrawn) while the session never opened
Discard(a, never) == IF never /\ resp[a] = "OK" THEN rst \cup {a} ELSE rst

\* Mutant: an OPEN_ACK(OK) opens the session although Dial was withdrawn
OpenOK_NoCAS(a) ==
    /\ outcome' = "succeeded" /\ result' = "ok" /\ opened' = TRUE /\ peer' = inst[a]
    /\ lanes' = {a} /\ UNCHANGED <<rst, ending, cancelled>>

\* openOKLocked: the first OPEN_ACK(OK) binds the session to its instance, unless Dial was withdrawn
OpenOK(a) ==
    IF outcome = "waiting"
      THEN /\ outcome' = "succeeded" /\ result' = "ok" /\ opened' = TRUE /\ peer' = inst[a]
           /\ lanes' = {a} /\ UNCHANGED <<rst, ending, cancelled>>
      ELSE /\ rst' = rst \cup {a} /\ Terminate /\ UNCHANGED <<outcome, result, opened, peer, lanes>>

\* joinOKLocked, and openOKLocked for a later OPEN_ACK(OK): another lane, never at another instance
JoinOK(a) ==
    /\ IF inst[a] = peer THEN lanes' = lanes \cup {a} /\ rst' = rst
                         ELSE rst' = rst \cup {a} /\ lanes' = lanes
    /\ UNCHANGED <<outcome, result, opened, peer, ending, cancelled>>

\* openRefusedLocked: a refusal ends the opening, a carrier limit or a failure only the attempt
OpenRefused(a) ==
    /\ IF resp[a] \in {"REJECTED", "UNKNOWN"} /\ ~opened THEN FailOpening ELSE UNCHANGED <<outcome, result, ending, cancelled>>
    /\ UNCHANGED <<rst, opened, peer, lanes>>

\* attemptFailedLocked and joinRefusedLocked: a JOIN answered UNKNOWN_SESSION ends the session,
\* and so does another instance answering when no lane is left
JoinRefused(a) ==
    /\ IF resp[a] = "UNKNOWN" \/ (resp[a] = "none" /\ inst[a] \notin {None, peer} /\ lanes = {})
         THEN Terminate ELSE UNCHANGED <<ending, cancelled>>
    /\ UNCHANGED <<rst, outcome, result, opened, peer, lanes>>

\* attemptAnsweredLocked and attemptFailedLocked
Answered(a) ==
    IF resp[a] = "OK" THEN IF opened THEN JoinOK(a) ELSE OpenOK(a)
                      ELSE IF kind[a] = "OPEN" THEN OpenRefused(a) ELSE JoinRefused(a)

\* onDialResultLocked: a result the slot no longer waits for, or of an ending session, is discarded
OnDialResult(a) ==
    /\ Steps /\ a \in results /\ results' = results \ {a}
    /\ IF att[a[1]] # a[2] \/ ending
         THEN /\ rst' = Discard(a, ~opened)
              /\ UNCHANGED <<outcome, result, opened, peer, lanes, ending, cancelled>>
         ELSE Answered(a)
    /\ att' = IF att[a[1]] = a[2] THEN [att EXCEPT ![a[1]] = 0] ELSE att
    /\ UNCHANGED <<plan, dialRest, created, started, deferred, exited, cmds, n, resEnd, shut, attRest, psess>>

\* A lane dies under an open session
LaneDies(a) ==
    /\ Steps /\ "dies" \in plan.may /\ a \in lanes /\ lanes' = lanes \ {a}
    /\ UNCHANGED <<plan, dialVars, created, started, deferred, opened, peer, ending, exited, cmds, att, n, resEnd,
                   shut, attVars, psess>>

\* abandonAttemptsLocked: an attempt stuck in embedder code is no longer waited for
Abandon(f) ==
    /\ Steps /\ ending /\ "stuck" \in plan.may /\ att[f] # 0 /\ st[<<f, att[f]>>] \notin {"over", "dead"}
    /\ att' = [att EXCEPT ![f] = 0]
    /\ UNCHANGED <<plan, dialVars, created, started, deferred, opened, peer, ending, exited, cmds, n, lanes, resEnd, shut, attVars, psess>>

\* dialReg.Ended: recorded for Runtime.Close, then out of the table, then the handed membership
NoteEnded ==
    /\ ending /\ ~noted /\ noted' = TRUE
    /\ UNCHANGED <<plan, dl, ret, unit, member, attached, told, regDone, owed, closing, outcome, result,
                   sessVars, attVars, psess>>

RegistryEnded ==
    /\ noted /\ ~regDone /\ regDone' = TRUE /\ unit' = FALSE
    /\ member' = (IF owed THEN member - 1 ELSE member)
    /\ UNCHANGED <<plan, dl, ret, attached, noted, told, owed, closing, outcome, result,
                   sessVars, attVars, psess>>

\* The actor returns: results left in its mailbox are discarded
Exit ==
    /\ Steps /\ ending /\ regDone /\ InFlight = {} /\ exited' = TRUE
    /\ rst' = rst \cup {a \in results : ~opened /\ resp[a] = "OK"} /\ results' = {}
    /\ UNCHANGED <<plan, dialVars, created, started, deferred, opened, peer, ending, cmds, att, n, lanes, resEnd,
                   shut, attRest, cancelled, psess>>

(***************************************************************************)
(* The attempt goroutines.                                                 *)
(***************************************************************************)

\* Establish as the actor sees it: the OPEN or JOIN reaches an instance
Reach(a, i) ==
    /\ st[a] = "dial" /\ a \notin cancelled /\ st' = [st EXCEPT ![a] = "sent"] /\ inst' = [inst EXCEPT ![a] = i]
    /\ psess' = IF kind[a] = "OPEN" /\ psess[i] = "none" THEN [psess EXCEPT ![i] = "pending"] ELSE psess
    /\ UNCHANGED <<plan, dialVars, sessVars, resp, rst, lost, cancelled, kind, results>>

DialFails(a) ==
    /\ st[a] = "dial" /\ (a \in cancelled \/ "fails" \in plan.may) /\ st' = [st EXCEPT ![a] = "failed"]
    /\ UNCHANGED <<plan, dialVars, sessVars, inst, resp, rst, lost, cancelled, kind, results, psess>>

\* openCheck and joinCheck on PREFACE_ACK(OK): an OPEN at another instance than the bound one is withdrawn
Check(a) ==
    /\ st[a] = "sent"
    /\ IF (opened \/ kind[a] = "JOIN") /\ inst[a] # peer
         THEN st' = [st EXCEPT ![a] = "failed"] /\ rst' = IF kind[a] = "OPEN" THEN rst \cup {a} ELSE rst
         ELSE st' = [st EXCEPT ![a] = "checked"] /\ rst' = rst
    /\ UNCHANGED <<plan, dialVars, sessVars, inst, resp, lost, cancelled, kind, results, psess>>

\* The response is read, or the withdrawal follows the OPEN (hsGuard), or the conn is lost
Establish(a) ==
    /\ st[a] = "checked" /\ a \notin cancelled /\ resp[a] # "none" /\ st' = [st EXCEPT ![a] = "est"]
    /\ UNCHANGED <<plan, dialVars, sessVars, inst, resp, rst, lost, cancelled, kind, results, psess>>

Withdraw(a) ==
    /\ st[a] \in {"sent", "checked"} /\ a \in cancelled /\ st' = [st EXCEPT ![a] = "failed"]
    /\ rst' = IF kind[a] = "OPEN" THEN rst \cup {a} ELSE rst
    /\ UNCHANGED <<plan, dialVars, sessVars, inst, resp, lost, cancelled, kind, results, psess>>

Lose(a) ==
    /\ st[a] \in {"sent", "checked"} /\ "lost" \in plan.may /\ st' = [st EXCEPT ![a] = "failed"]
    /\ lost' = lost \cup {a}
    /\ UNCHANGED <<plan, dialVars, sessVars, inst, resp, rst, cancelled, kind, results, psess>>

\* Mutant: a result the exited actor cannot take is only closed
PostResult_Closes(a) ==
    /\ st[a] \in {"est", "failed"} /\ st' = [st EXCEPT ![a] = IF st[a] = "est" THEN "over" ELSE "dead"]
    /\ resp' = IF st[a] = "failed" THEN [resp EXCEPT ![a] = "none"] ELSE resp
    /\ results' = (IF exited THEN results ELSE results \cup {a}) /\ rst' = rst
    /\ UNCHANGED <<plan, dialVars, sessVars, inst, lost, cancelled, kind, psess>>

\* postResult: the actor's mailbox, or closed here once the actor exited
PostResult(a) ==
    /\ st[a] \in {"est", "failed"} /\ st' = [st EXCEPT ![a] = IF st[a] = "est" THEN "over" ELSE "dead"]
    /\ resp' = IF st[a] = "failed" THEN [resp EXCEPT ![a] = "none"] ELSE resp
    /\ IF exited THEN /\ rst' = IF st[a] = "est" THEN Discard(a, kind[a] = "OPEN") ELSE rst
                      /\ results' = results
                 ELSE results' = results \cup {a} /\ rst' = rst
    /\ UNCHANGED <<plan, dialVars, sessVars, inst, lost, cancelled, kind, psess>>

(***************************************************************************)
(* The instances (Admission has their side).                               *)
(***************************************************************************)

Decide(i, v) ==
    /\ psess[i] = "pending" /\ psess' = [psess EXCEPT ![i] = v]
    /\ v = "rejected" => "reject" \in plan.may
    /\ UNCHANGED <<plan, dialVars, sessVars, attVars>>

Answer(a) ==
    LET i == inst[a] IN
    /\ st[a] \in {"sent", "checked"} /\ resp[a] = "none" /\ (i = peer \/ kind[a] = "OPEN")
    /\ CASE psess[i] = "open" -> resp' = [resp EXCEPT ![a] = "OK"]
         [] psess[i] = "rejected" -> resp' = [resp EXCEPT ![a] = IF kind[a] = "OPEN" THEN "REJECTED" ELSE "UNKNOWN"]
         [] psess[i] = "over" -> resp' = [resp EXCEPT ![a] = "UNKNOWN"]
         [] OTHER -> \E b \in Attempt : b # a /\ inst[b] = i /\ b \notin lost /\ resp' = [resp EXCEPT ![a] = "CARRIERS"]
    /\ UNCHANGED <<plan, dialVars, sessVars, st, inst, rst, lost, cancelled, kind, results, psess>>

\* RST(withdrawn) reaches the instance: its session is over
RstArrives(a) ==
    /\ a \in rst /\ psess[inst[a]] \in {"pending", "open"} /\ psess' = [psess EXCEPT ![inst[a]] = "over"]
    /\ UNCHANGED <<plan, dialVars, sessVars, attVars>>

DialStep == PlaceDialer \/ BeginDial \/ SessionDial \/ DialResult \/ FreePlace \/ HandOver \/ Attach
            \/ CheckClosing \/ LeaveGroup

ActorStep ==
    \/ OnStartOpen \/ EarlyClose \/ OpeningEnds \/ OnShutdown \/ NoteEnded \/ RegistryEnded \/ Exit
    \/ \E a \in Attempt : OnDialResult(a)

AttemptStep(a) ==
    \/ DialFails(a) \/ Check(a) \/ Establish(a) \/ Withdraw(a) \/ PostResult(a)

Next ==
    \/ DialStep \/ DialCancelled \/ RuntimeClose \/ CloseTells
    \/ Write \/ Commit \/ Read \/ (\E how \in {"close", "abort"} : CloseOrAbort(how))
    \/ ActorStep \/ EarlyIdle \/ SessionEnds
    \/ \E f \in Factory : StartAttempt(f) \/ Abandon(f)
    \/ \E a \in Attempt : LaneDies(a) \/ AttemptStep(a) \/ Lose(a) \/ Answer(a) \/ RstArrives(a)
    \/ \E a \in Attempt, i \in Inst : Reach(a, i)
    \/ \E i \in Inst, v \in {"open", "rejected"} : Decide(i, v)

Spec == Init /\ [][Next]_vars

(***************************************************************************)
(* Properties.                                                             *)
(***************************************************************************)

\* A Dial that never opened leaves no session behind at an instance (C25, L49): every carrier
\* whose OPEN was written gets RST(withdrawn), unless it was lost or refused; also when the
\* answer raced the withdrawal, was stale, or found the actor gone.  And one byte stream is
\* never split: every lane is at the bound instance (C9).
NoOrphan ==
    /\ exited /\ ~opened => \A a \in Attempt :
         st[a] \in {"over", "dead"} /\ inst[a] # None =>
           a \in rst \cup lost \/ resp[a] \in {"CARRIERS", "REJECTED", "UNKNOWN"}
    /\ \A a \in lanes : inst[a] = peer

\* Dial's word and the session agree, whoever wins: a Dial that failed or was withdrawn never
\* opens, a nil error means an open (or EarlyReturn) session, and EarlyReturn sends nothing
\* for a session closed unused but still opens for a round reserved before the Close.
\* Runtime.Close's Dial group counts each Dial once, and empty means that every session of a
\* Dial is live in the table and told, or recorded for the join.
DialAgrees ==
    /\ ret \in {"err", "ctx"} => ~opened
    /\ ret = "ok" /\ ~plan.early => opened
    /\ ending /\ ~started /\ cmds \cap {"startOpen", "shutdown"} = {} /\ ~closing => \A a \in Attempt : st[a] = "none"
    /\ plan.early /\ ending /\ shut = "close" /\ ~started /\ ~closing => resEnd = 0 \/ "startOpen" \in cmds \/ deferred
    /\ member \in {0, 1}
    /\ closing /\ told /\ dl = "done" /\ member = 0 /\ created => noted \/ ending \/ "shutdown" \in cmds
    /\ dl = "done" /\ regDone => member = 0 /\ ~unit

=============================================================================
