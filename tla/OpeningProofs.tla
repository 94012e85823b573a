--------------------------- MODULE OpeningProofs ---------------------------
(***************************************************************************)
(* What Opening guarantees for any number of factories, instances and      *)
(* attempts and every plan: no OPEN is left behind by a Dial that never    *)
(* opened, and Dial's word agrees with the session.                        *)
(***************************************************************************)
EXTENDS Opening, TLAPS

Refused == {"CARRIERS", "REJECTED", "UNKNOWN"}

AttTypes ==
    /\ n \in [Factory -> Nat]
    /\ st \in [Attempt -> {"none", "dial", "sent", "checked", "est", "failed", "over", "dead"}]
    /\ inst \in [Attempt -> Inst \cup {None}]
    /\ resp \in [Attempt -> Refused \cup {"OK", "none"}]
    /\ kind \in [Attempt -> {"OPEN", "JOIN", "none"}]
    /\ results \subseteq Attempt

DialTypes ==
    /\ dl \in {"new", "placed", "begun", "waiting", "returned", "attached", "leaves", "failed", "freed", "done"}
    /\ ret \in {"none", "ok", "closed", "err", "ctx"}

\* An attempt: its number, its instance, its kind, and the answer it had
CountInv == \A a \in Attempt : st[a] # "none" => a[2] <= n[a[1]]

Good(a) ==
    /\ st[a] # "none" => started /\ kind[a] # "none"
    /\ st[a] \in {"none", "dial"} => inst[a] = None
    /\ kind[a] = "JOIN" => opened
    /\ a \in results => st[a] \in {"over", "dead"}
    /\ st[a] \in {"est", "over"} => resp[a] # "none"
    /\ st[a] = "dead" => resp[a] = "none"

AttemptInv == \A a \in Attempt : Good(a)

\* An attempt that failed after its OPEN was written was lost or withdrawn; an
\* OPEN_ACK(OK) waits for the actor or was answered by RST(withdrawn).
Settled(a) ==
    /\ st[a] \in {"failed", "dead"} /\ inst[a] # None => a \in rst \cup lost
    /\ st[a] = "over" /\ resp[a] = "OK" => a \in rst \/ (a \in results /\ ~exited)

OpenInv == ~opened => \A a \in Attempt : Settled(a)

LaneInv == \A a \in lanes : a \in Attempt /\ st[a] = "over" /\ inst[a] = peer

\* The CAS word, the channel to Dial, and the session
WordInv ==
    /\ outcome \in {"waiting", "failed", "withdrawn", "succeeded"}
    /\ opened <=> outcome = "succeeded"
    /\ result = (IF outcome = "succeeded" THEN "ok" ELSE IF outcome = "failed" THEN "err" ELSE "none")
    /\ dl \in {"new", "placed", "begun"} => ~created
    /\ (opened => started) /\ (ending \/ started => created)
    /\ created /\ ~started => plan.early
    /\ ret = "err" => outcome = "failed" \/ (~created /\ dl \in {"failed", "freed", "done"})
    /\ ret = "ctx" => outcome = "withdrawn"
    /\ dl \in {"returned", "attached"} \/ ret = "ok" => plan.early \/ opened

\* Runtime.Close's Dial group, and what it knows of the session
Known == noted \/ ending \/ "shutdown" \in cmds
GroupInv ==
    /\ member = (IF dl \in {"new", "placed"} \/ (dl = "done" /\ (~owed \/ regDone)) THEN 0 ELSE 1)
    /\ owed => dl = "done"
    /\ noted => ending
    /\ regDone => noted /\ ~unit
    /\ told \/ "shutdown" \in cmds => closing
    /\ dl \in {"waiting", "returned", "attached"} => ret = "none"
    /\ dl \in {"failed", "freed"} => ret \in {"err", "ctx"}
    /\ dl \in {"new", "placed", "begun"} => ret = "none"
    /\ dl = "leaves" => ret \in {"ok", "closed"}
    /\ dl = "done" => ret # "none"
    /\ dl = "attached" => attached \/ noted
    /\ attached => dl \in {"attached", "leaves", "done"}
    /\ ret = "ok" => attached \/ noted
    /\ dl \in {"leaves", "done"} /\ ret = "closed" /\ created => Known
    /\ dl \in {"leaves", "done"} /\ told /\ attached => Known
    /\ dl = "done" /\ ret \in {"err", "ctx"} /\ created /\ ~owed => regDone

\* EarlyReturn: a session that ended unstarted had nothing reserved.
EarlyInv == ending /\ ~started /\ ~closing => resEnd = 0

AInv == AttTypes /\ CountInv /\ AttemptInv /\ OpenInv /\ LaneInv
DInv == DialTypes /\ WordInv /\ GroupInv /\ EarlyInv
IInv == AInv /\ DInv

-----------------------------------------------------------------------------
(* What leaves the attempts, or the Dial, as they are.                     *)

LEMMA InitIInv == Init => IInv
  <1> SUFFICES ASSUME Init PROVE IInv
    OBVIOUS
  <1>1. AInv
    BY DEF Init, AInv, AttTypes, CountInv, AttemptInv, Good, OpenInv, Settled, LaneInv, Refused
  <1>2. DInv
    BY DEF Init, DInv, DialTypes, WordInv, GroupInv, EarlyInv, Known
  <1> QED BY <1>1, <1>2 DEF IInv

LEMMA AttemptsStay ==
    ASSUME AInv, UNCHANGED <<n, st, inst, resp, kind, results, rst, lost, opened, exited, peer>>,
           lanes' \subseteq lanes, started => started'
    PROVE  AInv'
  <1>1. AttTypes' /\ CountInv'
    BY Zenon DEF AInv, AttTypes, CountInv
  <1>2. AttemptInv'
    BY Zenon DEF AInv, AttemptInv, Good
  <1>3. OpenInv'
    BY Zenon DEF AInv, OpenInv, Settled
  <1>4. LaneInv'
    BY Zenon DEF AInv, LaneInv
  <1> QED BY <1>1, <1>2, <1>3, <1>4, Zenon DEF AInv

LEMMA DialStays ==
    ASSUME DInv, UNCHANGED <<plan, dialVars, created, started, opened, ending, cmds, resEnd>>
    PROVE  DInv'
  <1> USE DEF DInv, dialVars
  <1>1. DialTypes' /\ EarlyInv'
    BY Zenon DEF DialTypes, EarlyInv
  <1>2. WordInv'
    BY ZenonT(30) DEF WordInv
  <1>3. GroupInv'
    BY ZenonT(30) DEF GroupInv, Known
  <1> QED BY <1>1, <1>2, <1>3, Zenon

-----------------------------------------------------------------------------
(* Peer.dial, Runtime.Close and the application.                           *)

LEMMA DialDInv ==
    ASSUME DInv, DialStep \/ DialCancelled \/ RuntimeClose \/ CloseTells
    PROVE  DInv'
  <1> USE DEF DInv, DialTypes, WordInv, GroupInv, EarlyInv, Known, sessVars
  <1>1. CASE PlaceDialer
    <2>1. DialTypes'
      BY <1>1 DEF PlaceDialer
    <2>2. WordInv'
      BY <1>1 DEF PlaceDialer
    <2>3. GroupInv'
      <3>1. ~created /\ ~noted /\ ~regDone /\ ~owed /\ ~attached /\ ret = "none" /\ member = 0
        BY <1>1 DEF PlaceDialer
      <3>2. CASE closing
        BY <1>1, <3>1, <3>2 DEF PlaceDialer
      <3>3. CASE ~closing
        BY <1>1, <3>1, <3>3 DEF PlaceDialer
      <3> QED BY <3>2, <3>3
    <2>4. EarlyInv'
      BY <1>1 DEF PlaceDialer
    <2> QED BY <2>1, <2>2, <2>3, <2>4, Zenon
  <1>2. CASE BeginDial
    <2>1. DialTypes'
      BY <1>2 DEF BeginDial
    <2>2. WordInv'
      BY <1>2 DEF BeginDial
    <2>3. GroupInv'
      <3>1. ~created /\ ~noted /\ ~regDone /\ ~owed /\ ~attached /\ ret = "none" /\ member = 0
        BY <1>2 DEF BeginDial
      <3>2. CASE closing
        BY <1>2, <3>1, <3>2 DEF BeginDial
      <3>3. CASE ~closing
        BY <1>2, <3>1, <3>3 DEF BeginDial
      <3> QED BY <3>2, <3>3
    <2>4. EarlyInv'
      BY <1>2 DEF BeginDial
    <2> QED BY <2>1, <2>2, <2>3, <2>4, Zenon
  <1>3. CASE SessionDial
    <2>1. DialTypes'
      BY <1>3 DEF SessionDial
    <2>2. WordInv'
      <3>1. ~created /\ ~opened /\ ~ending /\ ~started /\ ret = "none"
        BY <1>3 DEF SessionDial
      <3>2. CASE dl' = "failed" /\ ret' = "err" /\ UNCHANGED <<created, started, deferred>>
        BY <1>3, <3>1, <3>2 DEF SessionDial
      <3>3. CASE /\ created' = TRUE /\ started' = ~plan.early /\ deferred' = plan.early
                 /\ dl' = (IF plan.early THEN "returned" ELSE "waiting") /\ ret' = ret
        <4>1. CASE plan.early
          BY <1>3, <3>1, <3>3, <4>1 DEF SessionDial
        <4>2. CASE ~plan.early
          BY <1>3, <3>1, <3>3, <4>2, ZenonT(30) DEF SessionDial
        <4> QED BY <4>1, <4>2
      <3> QED BY <1>3, <3>2, <3>3, Zenon DEF SessionDial
    <2>3. GroupInv'
      BY <1>3 DEF SessionDial
    <2>4. EarlyInv'
      BY <1>3 DEF SessionDial
    <2> QED BY <2>1, <2>2, <2>3, <2>4, Zenon
  <1>4. CASE DialResult
    BY <1>4 DEF DialResult
  <1>5. CASE FreePlace
    BY <1>5 DEF FreePlace
  <1>6. CASE HandOver
    <2>1. DialTypes'
      BY <1>6 DEF HandOver
    <2>2. WordInv'
      BY <1>6 DEF HandOver
    <2>3. GroupInv'
      <3>1. member = 1 /\ ~owed /\ ~attached /\ ret \in {"err", "ctx"}
        BY <1>6 DEF HandOver
      <3>2. CASE created /\ ~regDone
        BY <1>6, <3>1, <3>2 DEF HandOver
      <3>3. CASE ~(created /\ ~regDone)
        BY <1>6, <3>1, <3>3 DEF HandOver
      <3> QED BY <3>2, <3>3
    <2>4. EarlyInv'
      BY <1>6 DEF HandOver
    <2> QED BY <2>1, <2>2, <2>3, <2>4, Zenon
  <1>7. CASE Attach
    BY <1>7, ZenonT(30) DEF Attach
  <1>8. CASE CheckClosing
    BY <1>8 DEF CheckClosing
  <1>9. CASE LeaveGroup
    BY <1>9 DEF LeaveGroup
  <1>10. CASE DialCancelled
    BY <1>10 DEF DialCancelled
  <1>11. CASE RuntimeClose
    BY <1>11 DEF RuntimeClose
  <1>12. CASE CloseTells
    BY <1>12 DEF CloseTells
  <1> QED BY <1>1, <1>2, <1>3, <1>4, <1>5, <1>6, <1>7, <1>8, <1>9, <1>10, <1>11, <1>12, ZenonT(30) DEF DialStep

LEMMA AppDInv ==
    ASSUME DInv, Write \/ Commit \/ Read \/ (\E how \in {"close", "abort"} : CloseOrAbort(how))
    PROVE  DInv'
  <1> USE DEF DInv, DialTypes, WordInv, GroupInv, EarlyInv, Known, dialVars
  <1>1. CASE Write
    BY <1>1 DEF Write
  <1>2. CASE Commit
    BY <1>2 DEF Commit, TriggerOpen
  <1>3. CASE Read
    <2>1. /\ UNCHANGED <<plan, dialVars, created, started, opened, ending, resEnd>>
          /\ cmds' = cmds \cup {"startOpen"} \/ cmds' = cmds
      BY <1>3, Zenon DEF Read, TriggerOpen
    <2> QED BY <2>1
  <1>4. ASSUME NEW how, CloseOrAbort(how) PROVE DInv'
    BY <1>4 DEF CloseOrAbort
  <1> QED BY <1>1, <1>2, <1>3, <1>4, Zenon

LEMMA ActorDInv ==
    ASSUME DInv, OnStartOpen \/ EarlyClose \/ EarlyIdle \/ OpeningEnds \/ OnShutdown \/ SessionEnds
                   \/ NoteEnded \/ RegistryEnded
    PROVE  DInv'
  <1> USE DEF DInv, DialTypes, WordInv, GroupInv, EarlyInv, Known, dialVars, dialRest, sessVars,
              Steps, Opens, Terminate, FailOpening
  <1>1. CASE OnStartOpen
    <2>0. /\ created /\ cmds' = cmds \ {"startOpen"}
          /\ UNCHANGED <<plan, dialVars, created, opened, ending, resEnd>>
      BY <1>1, Zenon DEF OnStartOpen
    <2>1. (started => started') /\ (~started' => ending)
      BY <1>1, Zenon DEF OnStartOpen
    <2>2. WordInv'
      BY <2>0, <2>1
    <2>3. DialTypes' /\ GroupInv'
      BY <2>0
    <2>4. EarlyInv'
      BY <2>0, <2>1
    <2> QED BY <2>2, <2>3, <2>4, Zenon
  <1>2. CASE EarlyClose
    BY <1>2 DEF EarlyClose
  <1>3. CASE EarlyIdle
    BY <1>3 DEF EarlyIdle
  <1>4. CASE OpeningEnds
    BY <1>4 DEF OpeningEnds
  <1>5. CASE OnShutdown
    BY <1>5 DEF OnShutdown
  <1>6. CASE SessionEnds
    <2>1. DialTypes'
      BY <1>6 DEF SessionEnds
    <2>2. WordInv'
      BY <1>6 DEF SessionEnds
    <2>3. GroupInv'
      BY <1>6 DEF SessionEnds
    <2>4. EarlyInv'
      BY <1>6 DEF SessionEnds
    <2> QED BY <2>1, <2>2, <2>3, <2>4, Zenon
  <1>7. CASE NoteEnded
    BY <1>7 DEF NoteEnded
  <1>8. CASE RegistryEnded
    BY <1>8 DEF RegistryEnded
  <1> QED BY <1>1, <1>2, <1>3, <1>4, <1>5, <1>6, <1>7, <1>8, Zenon

-----------------------------------------------------------------------------
(* The attempts.                                                           *)

LEMMA StartAInv ==
    ASSUME AInv, NEW f \in Factory, StartAttempt(f)
    PROVE  AInv'
  <1>0. n[f] \in Nat /\ <<f, n[f] + 1>> \in Attempt
    <2>1. n[f] \in Nat /\ n[f] < MaxAttempts
      BY DEF AInv, AttTypes, StartAttempt
    <2> QED BY <2>1, ConstAssumption DEF Attempt
  <1> PICK a \in Attempt : a = <<f, n[f] + 1>>
    BY <1>0, Zenon
  <1>1. /\ n' = [n EXCEPT ![f] = n[f] + 1] /\ st' = [st EXCEPT ![a] = "dial"]
        /\ kind' = [kind EXCEPT ![a] = IF opened THEN "JOIN" ELSE "OPEN"] /\ started
        /\ UNCHANGED <<started, opened, peer, exited, lanes, inst, resp, rst, lost, results>>
    BY DEF StartAttempt
  <1>2. st[a] = "none"
    <2>1. a[1] = f /\ a[2] = n[f] + 1 /\ ~(n[f] + 1 <= n[f])
      BY <1>0
    <2> QED BY <2>1, Zenon DEF AInv, CountInv
  <1>3. AttTypes'
    BY <1>1, <1>2 DEF AInv, AttTypes
  <1>4. /\ \A b \in Attempt : b # a => st'[b] = st[b] /\ kind'[b] = kind[b]
        /\ st'[a] = "dial" /\ kind'[a] \in {"JOIN", "OPEN"} /\ (kind'[a] = "JOIN" => opened)
    <2>1. /\ \A b \in Attempt : b # a => st'[b] = st[b] /\ kind'[b] = kind[b]
          /\ st'[a] = "dial" /\ kind'[a] = IF opened THEN "JOIN" ELSE "OPEN"
      BY <1>1, <1>2 DEF AInv, AttTypes
    <2>2. kind'[a] \in {"JOIN", "OPEN"} /\ (kind'[a] = "JOIN" => opened)
      <3>1. CASE opened
        BY <2>1, <3>1
      <3>2. CASE ~opened
        BY <2>1, <3>2
      <3> QED BY <3>1, <3>2
    <2> QED BY <2>1, <2>2, Zenon
  <1>5. AttemptInv'
    <2>1. Good(a)'
      <3>1. Good(a)
        BY <1>2, Zenon DEF AInv, AttemptInv
      <3> QED BY <1>1, <1>2, <1>4, <3>1 DEF Good
    <2>2. \A b \in Attempt : b # a => Good(b)'
      BY <1>1, <1>2, <1>4 DEF AInv, AttemptInv, Good
    <2> QED BY <2>1, <2>2, Zenon DEF AttemptInv
  <1>8. CountInv'
    <2> SUFFICES ASSUME NEW b \in Attempt, st'[b] # "none" PROVE b[2] <= n'[b[1]]
      BY Zenon DEF CountInv
    <2>1. CASE b = a
      <3>1. b[1] = f /\ b[2] = n[f] + 1 /\ n'[f] = n[f] + 1
        BY <2>1, <1>1 DEF AInv, AttTypes
      <3> QED BY <3>1, <1>0
    <2>2. CASE b # a
      <3>1. b[2] <= n[b[1]] /\ b[1] \in Factory /\ b[2] \in Nat
        <4>0. st[b] # "none"
          BY <2>2, <1>4, Zenon
        <4>1. b[2] <= n[b[1]]
          BY <4>0, Zenon DEF AInv, CountInv
        <4>2. b[1] \in Factory /\ b[2] \in Nat
          BY ConstAssumption DEF Attempt
        <4> QED BY <4>1, <4>2
      <3>2. n[b[1]] \in Nat /\ n'[b[1]] \in Nat /\ n[b[1]] <= n'[b[1]]
        BY <1>0, <1>1, <3>1 DEF AInv, AttTypes
      <3> QED BY <3>1, <3>2
    <2> QED BY <2>1, <2>2
  <1>6. OpenInv'
    BY <1>1, <1>2, <1>4 DEF AInv, OpenInv, Settled
  <1>7. LaneInv'
    BY <1>1, <1>2, <1>4 DEF AInv, LaneInv
  <1> QED BY <1>3, <1>5, <1>6, <1>7, <1>8, Zenon DEF AInv

\* A step of one attempt's goroutine, or of what it reached
Others(a) ==
    \A b \in Attempt \ {a} :
        /\ st'[b] = st[b] /\ inst'[b] = inst[b] /\ resp'[b] = resp[b]
        /\ (b \in rst' <=> b \in rst) /\ (b \in lost' <=> b \in lost)
        /\ (b \in results' <=> b \in results)

LEMMA OneAttempt ==
    ASSUME AInv, NEW a \in Attempt, st[a] # "none", st'[a] # "none",
           UNCHANGED <<sessVars, kind>>, AttTypes', Good(a)', Settled(a)' \/ opened,
           st[a] # "over" \/ st'[a] = "over", inst'[a] = inst[a] \/ st[a] = "dial",
           Others(a)
    PROVE  AInv'
  <1>1. CountInv'
    BY Zenon DEF AInv, CountInv, Others, sessVars
  <1>2. AttemptInv'
    <2>1. \A b \in Attempt \ {a} : Good(b)'
      BY Zenon DEF AInv, AttemptInv, Good, Others, sessVars
    <2> QED BY <2>1, Zenon DEF AttemptInv
  <1>3. OpenInv'
    <2>1. ~opened => \A b \in Attempt \ {a} : Settled(b)'
      BY Zenon DEF AInv, OpenInv, Settled, Others, sessVars
    <2> QED BY <2>1, Zenon DEF OpenInv, sessVars
  <1>4. LaneInv'
    BY DEF AInv, LaneInv, Others, sessVars
  <1> QED BY <1>1, <1>2, <1>3, <1>4, Zenon DEF AInv

LEMMA AttemptAInv ==
    ASSUME AInv, NEW a \in Attempt,
           AttemptStep(a) \/ Lose(a) \/ Answer(a) \/ (\E i \in Inst : Reach(a, i))
    PROVE  AInv'
  <1>0. AttTypes /\ Good(a) /\ (Settled(a) \/ opened)
    BY Zenon DEF AInv, AttemptInv, OpenInv
  <1>1. CASE DialFails(a)
    <2> USE <1>0, <1>1 DEF DialFails
    <2>1. st[a] # "none" /\ st'[a] # "none" /\ (st[a] # "over" \/ st'[a] = "over")
      BY DEF AttTypes
    <2>2. UNCHANGED <<sessVars, kind>> /\ (inst'[a] = inst[a] \/ st[a] = "dial")
      BY Zenon
    <2>3. AttTypes'
      BY DEF AttTypes, sessVars
    <2>4. Good(a)'
      BY DEF AttTypes, Good, sessVars
    <2>5. Settled(a)' \/ opened
      BY DEF AttTypes, Good, Settled, sessVars
    <2>6. Others(a)
      BY DEF AttTypes, Others
    <2> QED BY <2>1, <2>2, <2>3, <2>4, <2>5, <2>6, OneAttempt, Zenon
  <1>2. CASE Check(a)
    <2> USE <1>0, <1>2 DEF Check
    <2>1. st[a] # "none" /\ st'[a] # "none" /\ (st[a] # "over" \/ st'[a] = "over")
      BY DEF AttTypes
    <2>2. UNCHANGED <<sessVars, kind>> /\ (inst'[a] = inst[a] \/ st[a] = "dial")
      BY Zenon
    <2>3. AttTypes'
      BY DEF AttTypes, sessVars
    <2>4. Good(a)'
      BY DEF AttTypes, Good, sessVars
    <2>5. Settled(a)' \/ opened
      BY DEF AttTypes, Good, Settled, sessVars
    <2>6. Others(a)
      BY DEF AttTypes, Others
    <2> QED BY <2>1, <2>2, <2>3, <2>4, <2>5, <2>6, OneAttempt, Zenon
  <1>3. CASE Establish(a)
    <2> USE <1>0, <1>3 DEF Establish
    <2>1. st[a] # "none" /\ st'[a] # "none" /\ (st[a] # "over" \/ st'[a] = "over")
      BY DEF AttTypes
    <2>2. UNCHANGED <<sessVars, kind>> /\ (inst'[a] = inst[a] \/ st[a] = "dial")
      BY Zenon
    <2>3. AttTypes'
      BY DEF AttTypes, sessVars
    <2>4. Good(a)'
      BY DEF AttTypes, Good, sessVars
    <2>5. Settled(a)' \/ opened
      BY DEF AttTypes, Good, Settled, sessVars
    <2>6. Others(a)
      BY DEF AttTypes, Others
    <2> QED BY <2>1, <2>2, <2>3, <2>4, <2>5, <2>6, OneAttempt, Zenon
  <1>4. CASE Withdraw(a)
    <2> USE <1>0, <1>4 DEF Withdraw
    <2>1. st[a] # "none" /\ st'[a] # "none" /\ (st[a] # "over" \/ st'[a] = "over")
      BY DEF AttTypes
    <2>2. UNCHANGED <<sessVars, kind>> /\ (inst'[a] = inst[a] \/ st[a] = "dial")
      BY Zenon
    <2>3. AttTypes'
      BY DEF AttTypes, sessVars
    <2>4. Good(a)'
      BY DEF AttTypes, Good, sessVars
    <2>5. Settled(a)' \/ opened
      BY DEF AttTypes, Good, Settled, sessVars
    <2>6. Others(a)
      BY DEF AttTypes, Others
    <2> QED BY <2>1, <2>2, <2>3, <2>4, <2>5, <2>6, OneAttempt, Zenon
  <1>5. CASE PostResult(a)
    <2> USE <1>0, <1>5 DEF PostResult, Discard
    <2>1. st[a] # "none" /\ st'[a] # "none" /\ (st[a] # "over" \/ st'[a] = "over")
      BY DEF AttTypes
    <2>2. UNCHANGED <<sessVars, kind>> /\ (inst'[a] = inst[a] \/ st[a] = "dial")
      BY Zenon
    <2>3. AttTypes'
      BY DEF AttTypes, sessVars
    <2>4. Good(a)'
      BY DEF AttTypes, Good, sessVars
    <2>5. Settled(a)' \/ opened
      BY DEF AttTypes, Good, Settled, sessVars
    <2>6. Others(a)
      BY DEF AttTypes, Others
    <2> QED BY <2>1, <2>2, <2>3, <2>4, <2>5, <2>6, OneAttempt, Zenon
  <1>6. CASE Lose(a)
    <2> USE <1>0, <1>6 DEF Lose
    <2>1. st[a] # "none" /\ st'[a] # "none" /\ (st[a] # "over" \/ st'[a] = "over")
      BY ZenonT(30) DEF AttTypes
    <2>2. UNCHANGED <<sessVars, kind>> /\ (inst'[a] = inst[a] \/ st[a] = "dial")
      BY Zenon
    <2>3. AttTypes'
      BY ZenonT(30) DEF AttTypes, sessVars
    <2>4. Good(a)'
      BY DEF AttTypes, Good, sessVars
    <2>5. Settled(a)' \/ opened
      BY DEF AttTypes, Good, Settled, sessVars
    <2>6. Others(a)
      BY ZenonT(30) DEF AttTypes, Others
    <2> QED BY <2>1, <2>2, <2>3, <2>4, <2>5, <2>6, OneAttempt, Zenon
  <1>7. CASE Answer(a)
    <2> USE <1>0, <1>7 DEF Answer, Refused
    <2>1. st[a] # "none" /\ st'[a] # "none" /\ (st[a] # "over" \/ st'[a] = "over")
      BY DEF AttTypes
    <2>2. UNCHANGED <<sessVars, kind>> /\ (inst'[a] = inst[a] \/ st[a] = "dial")
      BY Zenon
    <2>3. AttTypes'
      BY DEF AttTypes, sessVars
    <2>4. Good(a)'
      BY DEF AttTypes, Good, sessVars
    <2>5. Settled(a)' \/ opened
      BY DEF AttTypes, Good, Settled, sessVars
    <2>6. Others(a)
      BY DEF AttTypes, Others
    <2> QED BY <2>1, <2>2, <2>3, <2>4, <2>5, <2>6, OneAttempt, Zenon
  <1>8. CASE \E i \in Inst : Reach(a, i)
    <2> USE <1>0, <1>8 DEF Reach
    <2>1. st[a] # "none" /\ st'[a] # "none" /\ (st[a] # "over" \/ st'[a] = "over")
      BY DEF AttTypes
    <2>2. UNCHANGED <<sessVars, kind>> /\ (inst'[a] = inst[a] \/ st[a] = "dial")
      BY Zenon
    <2>3. AttTypes'
      BY DEF AttTypes, sessVars
    <2>4. Good(a)'
      BY DEF AttTypes, Good, sessVars
    <2>5. Settled(a)' \/ opened
      BY DEF AttTypes, Good, Settled, sessVars
    <2>6. Others(a)
      BY DEF AttTypes, Others
    <2> QED BY <2>1, <2>2, <2>3, <2>4, <2>5, <2>6, OneAttempt, Zenon
  <1> QED BY <1>1, <1>2, <1>3, <1>4, <1>5, <1>6, <1>7, <1>8, Zenon DEF AttemptStep

-----------------------------------------------------------------------------
(* The actor takes a result, or exits.                                     *)

LEMMA ResultAInv ==
    ASSUME AInv, NEW a \in Attempt, OnDialResult(a)
    PROVE  AInv'
  <1>1. /\ UNCHANGED <<n, st, inst, resp, kind, lost, started, exited>>
        /\ results' = results \ {a} /\ a \in results /\ ~exited
    BY Zenon DEF OnDialResult, attRest, Steps
  <1>2. rst \subseteq rst' /\ (opened => opened')
    BY Zenon DEF OnDialResult, Discard, Answered, JoinOK, OpenOK, OpenRefused, JoinRefused
  <1>3. ~opened' /\ resp[a] = "OK" => a \in rst'
    BY Zenon DEF OnDialResult, Discard, Answered, JoinOK, OpenOK, OpenRefused, JoinRefused
  <1>4. \A b \in lanes' : \/ b \in lanes /\ peer' = peer
                          \/ b = a /\ resp[a] = "OK" /\ inst[a] = peer'
    <2>1. \/ UNCHANGED <<lanes, peer>>
          \/ resp[a] = "OK" /\ (JoinOK(a) \/ OpenOK(a))
      BY ZenonT(30) DEF OnDialResult, Answered, OpenRefused, JoinRefused
    <2>2. ASSUME resp[a] = "OK", JoinOK(a), NEW b \in lanes'
          PROVE  (b \in lanes /\ peer' = peer) \/ (b = a /\ inst[a] = peer')
      BY <2>2, Zenon DEF JoinOK
    <2>3. ASSUME resp[a] = "OK", OpenOK(a), NEW b \in lanes'
          PROVE  (b \in lanes /\ peer' = peer) \/ (b = a /\ inst[a] = peer')
      BY <2>3 DEF OpenOK
    <2> SUFFICES ASSUME NEW b \in lanes'
                 PROVE  (b \in lanes /\ peer' = peer) \/ (b = a /\ resp[a] = "OK" /\ inst[a] = peer')
      BY Zenon
    <2>4. CASE UNCHANGED <<lanes, peer>>
      BY <2>4, Zenon
    <2>5. CASE resp[a] = "OK" /\ JoinOK(a)
      BY <2>2, <2>5, Zenon
    <2>6. CASE resp[a] = "OK" /\ OpenOK(a)
      BY <2>3, <2>6, Zenon
    <2> QED BY <2>1, <2>4, <2>5, <2>6, Zenon
  <1>5. st[a] \in {"over", "dead"} /\ (st[a] = "dead" => resp[a] = "none")
    BY <1>1, Zenon DEF AInv, AttemptInv, Good
  <1>6. AttTypes' /\ CountInv'
    BY <1>1, Zenon DEF AInv, AttTypes, CountInv
  <1>7. AttemptInv'
    BY <1>1, <1>2, ZenonT(30) DEF AInv, AttemptInv, Good
  <1>8. OpenInv'
    <2> SUFFICES ASSUME ~opened', NEW b \in Attempt PROVE Settled(b)'
      BY Zenon DEF OpenInv
    <2>1. Settled(b)
      BY <1>2, Zenon DEF AInv, OpenInv
    <2> QED BY <2>1, <1>1, <1>2, <1>3, Zenon DEF Settled
  <1>9. LaneInv'
    <2> SUFFICES ASSUME NEW b \in lanes' PROVE b \in Attempt /\ st[b] = "over" /\ inst[b] = peer'
      BY <1>1, Zenon DEF LaneInv
    <2>1. CASE b \in lanes /\ peer' = peer
      BY <2>1, Zenon DEF AInv, LaneInv
    <2>2. CASE b = a /\ resp[a] = "OK" /\ inst[a] = peer'
      BY <2>2, <1>5
    <2> QED BY <1>4, <2>1, <2>2, Zenon
  <1> QED BY <1>6, <1>7, <1>8, <1>9, Zenon DEF AInv

LEMMA ResultDInv ==
    ASSUME AInv, DInv, NEW a \in Attempt, OnDialResult(a)
    PROVE  DInv'
  <1>1. /\ UNCHANGED <<plan, dialRest, created, started, cmds, resEnd>> /\ created
        /\ (ending => ending')
    BY ZenonT(30) DEF OnDialResult, Steps, Answered, JoinOK, OpenOK, OpenRefused, JoinRefused, FailOpening, Terminate
  <1>2. \/ UNCHANGED <<outcome, result, opened>>
        \/ outcome = "waiting" /\ outcome' = "failed" /\ result' = "err" /\ opened' = opened
        \/ outcome = "waiting" /\ outcome' = "succeeded" /\ result' = "ok" /\ opened' = TRUE
    BY ZenonT(30) DEF OnDialResult, Answered, JoinOK, OpenOK, OpenRefused, JoinRefused, FailOpening, Terminate
  <1>3. started
    <2>1. a \in results
      BY Zenon DEF OnDialResult
    <2>2. Good(a)
      BY Zenon DEF AInv, AttemptInv
    <2> QED BY <2>1, <2>2 DEF Good
  <1>4. DialTypes' /\ EarlyInv'
    BY <1>1, <1>3, Zenon DEF DInv, DialTypes, EarlyInv, dialRest
  <1>5. WordInv'
    <2> USE DEF DInv, WordInv, dialRest
    <2>1. CASE UNCHANGED <<outcome, result, opened>>
      BY <2>1, <1>1, <1>3
    <2>2. CASE outcome = "waiting" /\ outcome' = "failed" /\ result' = "err" /\ opened' = opened
      BY <2>2, <1>1, <1>3
    <2>3. CASE outcome = "waiting" /\ outcome' = "succeeded" /\ result' = "ok" /\ opened' = TRUE
      BY <2>3, <1>1, <1>3
    <2> QED BY <1>2, <2>1, <2>2, <2>3, Zenon
  <1>6. GroupInv'
    BY <1>1, ZenonT(30) DEF DInv, GroupInv, Known, dialRest
  <1> QED BY <1>4, <1>5, <1>6, Zenon DEF DInv

LEMMA ExitAInv ==
    ASSUME AInv, Exit
    PROVE  AInv'
  <1>1. /\ UNCHANGED <<n, st, inst, resp, kind, lost, started, opened, lanes, peer>>
        /\ results' = {} /\ rst' = rst \cup {a \in results : ~opened /\ resp[a] = "OK"}
    BY Zenon DEF Exit, attRest
  <1>2. AttTypes' /\ CountInv' /\ LaneInv'
    BY <1>1, Zenon DEF AInv, AttTypes, CountInv, LaneInv
  <1>3. AttemptInv'
    BY <1>1, ZenonT(30) DEF AInv, AttemptInv, Good
  <1>4. OpenInv'
    BY <1>1, ZenonT(30) DEF AInv, OpenInv, Settled
  <1> QED BY <1>2, <1>3, <1>4, Zenon DEF AInv

-----------------------------------------------------------------------------
(* The theorems.                                                           *)

LEMMA NextIInv == IInv /\ [Next]_vars => IInv'
  <1> SUFFICES ASSUME IInv, [Next]_vars PROVE IInv'
    OBVIOUS
  <1>0. AInv /\ DInv
    BY DEF IInv
  <1> USE DEF IInv
  <1>1. CASE DialStep \/ DialCancelled \/ RuntimeClose \/ CloseTells
    <2>1. /\ UNCHANGED <<n, st, inst, resp, kind, results, rst, lost, opened, exited, peer, lanes>>
          /\ started => started'
      BY <1>0, <1>1, ZenonT(30) DEF DialStep, PlaceDialer, BeginDial, SessionDial, DialResult, FreePlace, HandOver, Attach,
         CheckClosing, LeaveGroup, DialCancelled, RuntimeClose, CloseTells, sessVars, attVars, DInv, WordInv
    <2> QED BY <1>0, <1>1, <2>1, DialDInv, AttemptsStay, Zenon
  <1>2. CASE Write \/ Commit \/ Read \/ (\E how \in {"close", "abort"} : CloseOrAbort(how))
    <2>1. UNCHANGED <<n, st, inst, resp, kind, results, rst, lost, opened, exited, peer, lanes, started>>
      BY <1>2, ZenonT(30) DEF Write, Commit, Read, CloseOrAbort, attVars
    <2> QED BY <1>0, <1>2, <2>1, AppDInv, AttemptsStay, Zenon
  <1>3. CASE OnStartOpen \/ EarlyClose \/ EarlyIdle \/ OpeningEnds \/ OnShutdown \/ SessionEnds
               \/ NoteEnded \/ RegistryEnded
    <2>1. /\ UNCHANGED <<n, st, inst, resp, kind, results, rst, lost, opened, exited, peer, lanes>>
          /\ started => started'
      <3>1. CASE OnStartOpen
        BY <3>1, Zenon DEF OnStartOpen, attVars
      <3>4. CASE EarlyClose \/ EarlyIdle
        BY <3>4 DEF EarlyClose, EarlyIdle, attRest
      <3>2. CASE OpeningEnds \/ OnShutdown \/ SessionEnds
        BY <3>2 DEF OpeningEnds, OnShutdown, SessionEnds, attRest
      <3>3. CASE NoteEnded \/ RegistryEnded
        BY <3>3 DEF NoteEnded, RegistryEnded, sessVars, attVars
      <3> QED BY <1>3, <3>1, <3>2, <3>3, <3>4, Zenon
    <2> QED BY <1>0, <1>3, <2>1, ActorDInv, AttemptsStay, Zenon
  <1>4. ASSUME NEW f \in Factory, StartAttempt(f) PROVE IInv'
    <2>1. UNCHANGED <<plan, dialVars, created, started, opened, ending, cmds, resEnd>>
      BY <1>4, Zenon DEF StartAttempt
    <2> QED BY <1>0, <1>4, <2>1, StartAInv, DialStays, Zenon
  <1>5. CASE \/ \E f \in Factory : Abandon(f)
             \/ \E a \in Attempt : LaneDies(a) \/ RstArrives(a)
             \/ \E i \in Inst, v \in {"open", "rejected"} : Decide(i, v)
             \/ UNCHANGED vars
    <2>1. /\ UNCHANGED <<plan, dialVars, created, started, opened, ending, cmds, resEnd>>
          /\ UNCHANGED <<n, st, inst, resp, kind, results, rst, lost, exited, peer>> /\ lanes' \subseteq lanes
      BY <1>5, ZenonT(30) DEF Abandon, LaneDies, RstArrives, Decide, sessVars, attVars, vars
    <2> QED BY <1>0, <2>1, AttemptsStay, DialStays, Zenon
  <1>6. ASSUME NEW a \in Attempt, AttemptStep(a) \/ Lose(a) \/ Answer(a) \/ (\E i \in Inst : Reach(a, i))
        PROVE  IInv'
    <2>1. UNCHANGED <<plan, dialVars, created, started, opened, ending, cmds, resEnd>>
      BY <1>6, ZenonT(30) DEF AttemptStep, DialFails, Check, Establish, Withdraw, PostResult, Lose, Answer, Reach, sessVars
    <2> QED BY <1>0, <1>6, <2>1, AttemptAInv, DialStays, Zenon
  <1>7. ASSUME NEW a \in Attempt, OnDialResult(a) PROVE IInv'
    BY <1>0, <1>7, ResultAInv, ResultDInv, Zenon
  <1>8. CASE Exit
    <2>1. UNCHANGED <<plan, dialVars, created, started, opened, ending, cmds, resEnd>>
      BY <1>8, Zenon DEF Exit
    <2> QED BY <1>0, <1>8, <2>1, ExitAInv, DialStays, Zenon
  <1> QED BY <1>1, <1>2, <1>3, <1>4, <1>5, <1>6, <1>7, <1>8, ZenonT(60) DEF Next, ActorStep

LEMMA Invariance == Spec => []IInv
  BY InitIInv, NextIInv, PTL DEF Spec

\* opening.go, dial.go (C25, L49, C9): when the actor of a session that never
\* opened is gone, every attempt whose OPEN was written was answered by
\* RST(withdrawn), lost or refused, and every lane is at the bound instance.
THEOREM NoOrphanHolds == Spec => []NoOrphan
  <1>1. IInv => NoOrphan
    <2> SUFFICES ASSUME IInv PROVE NoOrphan
      OBVIOUS
    <2>1. ASSUME exited, ~opened, NEW a \in Attempt, st[a] \in {"over", "dead"}, inst[a] # None
          PROVE  a \in rst \cup lost \/ resp[a] \in {"CARRIERS", "REJECTED", "UNKNOWN"}
      <3>1. Good(a) /\ Settled(a) /\ resp[a] \in Refused \cup {"OK", "none"}
        BY <2>1, Zenon DEF IInv, AInv, AttemptInv, OpenInv, AttTypes
      <3> QED BY <2>1, <3>1 DEF Good, Settled, Refused
    <2>2. \A a \in lanes : inst[a] = peer
      BY Zenon DEF IInv, AInv, LaneInv
    <2> QED BY <2>1, <2>2, Zenon DEF NoOrphan
  <1> QED BY <1>1, Invariance, PTL

\* dial.go, early_dial.go, runtime.go: whoever wins the word, what Dial returned,
\* what the session did and what Runtime.Close's Dial group counts agree.
THEOREM DialAgreesHolds == Spec => []DialAgrees
  <1>1. IInv => DialAgrees
    <2> SUFFICES ASSUME IInv PROVE DialAgrees
      OBVIOUS
    <2> USE DEF IInv, DInv, DialTypes
    <2>1. (ret \in {"err", "ctx"} => ~opened) /\ (ret = "ok" /\ ~plan.early => opened)
      BY DEF WordInv
    <2>2. ~started => \A a \in Attempt : st[a] = "none"
      BY Zenon DEF AInv, AttemptInv, Good
    <2>3. ending /\ ~started /\ ~closing => resEnd = 0
      BY Zenon DEF EarlyInv
    <2>4. member \in {0, 1}
      BY DEF GroupInv
    <2>5. closing /\ told /\ dl = "done" /\ member = 0 /\ created => Known
      BY DEF GroupInv, Known
    <2>6. dl = "done" /\ regDone => member = 0 /\ ~unit
      BY DEF GroupInv
    <2> QED BY <2>1, <2>2, <2>3, <2>4, <2>5, <2>6, ZenonT(30) DEF DialAgrees, Known
  <1> QED BY <1>1, Invariance, PTL

=============================================================================
