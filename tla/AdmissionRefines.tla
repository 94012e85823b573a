-------------------------- MODULE AdmissionRefines --------------------------
(***************************************************************************)
(* Admission implements OpenOnce (OpenIsOnce of Admission), for every set  *)
(* of carriers, keys and plans and every limit: the initial states map to  *)
(* initial states, and every step maps to a step or a stutter.  The second *)
(* half proves that MaxSessions units and backlog slots are exact          *)
(* (SlotsExact of Admission).                                              *)
(***************************************************************************)
EXTENDS AdmissionProofs

\* The variables of OpenOnce
Over == {s \in Carrier : verdict[s] = "OK" /\ st[s] \in {"ended", "exited"}}
To == [c \in Carrier |-> IF hello[c].t = "OPEN" THEN to[c] ELSE None]
Ans == [c \in Carrier |-> IF hello[c].t = "OPEN" THEN ans[c] ELSE "none"]

Implements == [Promise!Next]_<<verdict, Over, To, Ans>>

Verdicts == {"REJECTED", "CAPACITY", "GOING_AWAY", "UNKNOWN", "OK"}
Alone == {"cut", "FULL", "BAD", "AWAY"}
Asked == Before \ {"failed"}
Apart == Before \ {"route"}

RefType ==
    /\ verdict \in [Carrier -> Verdicts \cup {"none"}]
    /\ ans \in [Carrier -> Verdicts \cup Alone \cup {"none"}]
    /\ to \in [Carrier -> Carrier \cup {None}]
    /\ lanes \in [Carrier -> SUBSET Carrier] /\ adopting \in [Carrier -> SUBSET Carrier]

\* A session has decided when it is pending no more; its tombstone says what it decided.
VerdictInv ==
    /\ \A s \in Carrier : /\ verdict[s] = "none" <=> st[s] \in {"none", "new", "pending"}
                          /\ st[s] = "open" => verdict[s] = "OK"
    /\ \A k \in Key : table[k] # None /\ table[k].tomb => st[table[k].s] \in {"ended", "exited"}

\* A carrier the goroutine still holds has no answer, and no session until it is routed.
AskInv ==
    \A c \in Carrier :
        /\ pc[c] \in Asked => ans[c] = "none"
        /\ pc[c] \in Apart => to[c] = None
        /\ pc[c] = "route" => to[c] \in Carrier
        /\ pc[c] = "ping" => hello[c].t = "PING"

\* A session's carriers were handed to it; what it has not handled yet has no answer.
LaneInv ==
    \A s, c \in Carrier :
        /\ c \in lanes[s] => to[c] = s /\ pc[c] \notin Before
        /\ c \in adopting[s] => to[c] = s /\ ans[c] = "none" /\ pc[c] \notin Before /\ c \notin lanes[s]

RInv == RefType /\ VerdictInv /\ AskInv /\ LaneInv

-----------------------------------------------------------------------------
(* Steps of OpenOnce.                                                      *)

LEMMA Stutters ==
    ASSUME UNCHANGED <<hello, verdict, to, ans>>, Over' = Over
    PROVE  Implements
  BY DEF Implements, To, Ans

LEMMA OverSame ==
    ASSUME verdict' = verdict,
           \A s \in Carrier : st'[s] \in {"ended", "exited"} <=> st[s] \in {"ended", "exited"}
    PROVE  Over' = Over
  BY DEF Over

\* Over a carrier that brought no OPEN nothing is promised.
LEMMA NotOpen ==
    ASSUME NEW c \in Carrier, hello[c].t # "OPEN", UNCHANGED <<hello, verdict>>, Over' = Over,
           \A t \in Carrier \ {c} : to'[t] = to[t] /\ ans'[t] = ans[t]
    PROVE  Implements
  <1>1. To' = To /\ Ans' = Ans
    BY DEF To, Ans
  <1> QED BY <1>1 DEF Implements

LEMMA Refuses ==
    ASSUME RefType, NEW c \in Carrier, NEW a \in Alone, ans[c] = "none",
           ans' = [ans EXCEPT ![c] = a], UNCHANGED <<hello, verdict, to>>, Over' = Over
    PROVE  Implements
  <1>1. CASE hello[c].t # "OPEN"
    BY <1>1, NotOpen DEF RefType
  <1>2. CASE hello[c].t = "OPEN"
    <2>1. To' = To /\ Ans[c] = "none" /\ Ans' = [Ans EXCEPT ![c] = a]
      BY <1>2, ZenonT(30) DEF To, Ans, RefType
    <2>2. Promise!Refuse(c)
      BY <2>1, ZenonT(30) DEF Promise!Refuse, Promise!Plain, Over, To, Ans, Alone
    <2> QED BY <2>2 DEF Implements, Promise!Next
  <1> QED BY <1>1, <1>2

\* What a session that has decided says to an OPEN handed to it
Said(s) == IF verdict[s] # "OK" THEN verdict[s] ELSE IF s \in Over THEN "UNKNOWN" ELSE "OK"

LEMMA Hands ==
    ASSUME RefType, NEW c \in Carrier, NEW s \in Carrier, ans[c] = "none", to[c] \in {None, s},
           NEW a \in Verdicts \cup Alone \cup {"none"},
           hello[c].t = "OPEN" => a = "none" \/ a \in Alone \/ (verdict[s] # "none" /\ a = Said(s)),
           to' = [to EXCEPT ![c] = s], ans' = [ans EXCEPT ![c] = a],
           UNCHANGED <<hello, verdict>>, Over' = Over
    PROVE  Implements
  <1>1. CASE hello[c].t # "OPEN"
    BY <1>1, NotOpen DEF RefType
  <1>2. CASE hello[c].t = "OPEN"
    <2>1. /\ Ans[c] = "none" /\ To[c] \in {None, s}
          /\ To' = [To EXCEPT ![c] = s] /\ Ans' = [Ans EXCEPT ![c] = a]
      BY <1>2, ZenonT(30) DEF To, Ans, RefType
    <2>2. Ans' \in {Ans} \cup {[Ans EXCEPT ![c] = b] : b \in Alone \cup
             (IF verdict[s] = "none" THEN {} ELSE IF verdict[s] # "OK" THEN {verdict[s]} ELSE
              IF s \in Over THEN {"UNKNOWN"} ELSE {"OK"})}
      <3>1. CASE a = "none"
        <4>1. Ans' = Ans
          BY <2>1, <3>1 DEF Ans
        <4> QED BY <4>1
      <3>2. CASE a \in Alone
        BY <2>1, <3>2, ZenonT(30)
      <3>3. CASE verdict[s] # "none" /\ a = Said(s)
        BY <2>1, <3>3, ZenonT(30) DEF Said
      <3> QED BY <1>2, <3>1, <3>2, <3>3
    <2>3. Promise!Hand(c, s)
      BY <2>1, <2>2 DEF Promise!Hand, Promise!Plain, Over, To, Ans, Alone
    <2> QED BY <2>3 DEF Implements, Promise!Next
  <1> QED BY <1>1, <1>2

LEMMA Decides ==
    ASSUME RefType, NEW s \in Carrier, NEW v \in Verdicts, NEW w,
           w = v \/ (v = "UNKNOWN" /\ w = "cut"),
           verdict[s] = "none", verdict' = [verdict EXCEPT ![s] = v],
           \A c \in lanes[s] : to[c] = s,
           ans' = [c \in Carrier |-> IF c \in lanes[s] /\ ans[c] = "none" THEN w ELSE ans[c]],
           UNCHANGED <<hello, to>>, Over' = Over
    PROVE  Implements
  <1> DEFINE told == {c \in Carrier : c \in lanes[s] /\ ans[c] = "none" /\ hello[c].t = "OPEN"}
  <1>1. To' = To /\ Ans' = [c \in Carrier |-> IF c \in told THEN w ELSE Ans[c]]
    BY DEF To, Ans
  <1>2. told \in SUBSET {c \in Carrier : To[c] = s /\ Ans[c] = "none"}
    BY DEF To, Ans
  <1>3. w \in {v} \cup (IF v = "UNKNOWN" THEN {"cut"} ELSE {})
    OBVIOUS
  <1> HIDE DEF told
  <1>4. Promise!Decide(s, v)
    BY <1>1, <1>2, <1>3, ZenonT(30) DEF Promise!Decide, Over, To, Ans
  <1>5. v \in Promise!Refusals \cup {"OK"}
    BY DEF Promise!Refusals, Verdicts
  <1> QED BY <1>4, <1>5 DEF Implements, Promise!Next

LEMMA Finishes ==
    ASSUME NEW s \in Carrier, st \in [Carrier -> State], verdict[s] = "OK", st[s] = "open",
           st' = [st EXCEPT ![s] = "ended"], UNCHANGED <<hello, verdict, to, ans>>
    PROVE  Implements
  <1>1. To' = To /\ Ans' = Ans /\ s \notin Over /\ Over' = Over \cup {s}
    BY DEF To, Ans, Over
  <1>2. Promise!Finish(s)
    BY <1>1 DEF Promise!Finish, Over, To, Ans
  <1> QED BY <1>2 DEF Implements, Promise!Next

-----------------------------------------------------------------------------
(* The invariant.                                                          *)

LEMMA InitRInv == Init => RInv
  <1> SUFFICES ASSUME Init PROVE RInv
    OBVIOUS
  <1>1. RefType
    BY DEF Init, RefType
  <1>2. VerdictInv /\ AskInv /\ LaneInv
    BY DEF Init, VerdictInv, AskInv, LaneInv, Before, Asked, Apart
  <1> QED BY <1>1, <1>2 DEF RInv

\* A step of a goroutine that no session has heard of
LEMMA AsksOn ==
    ASSUME IInv, RInv, NEW c \in Carrier, pc[c] \in Before, NEW x \in PC,
           NEW y \in Verdicts \cup Alone \cup {"none"}, NEW z \in Carrier \cup {None},
           pc' = [pc EXCEPT ![c] = x], ans' = [ans EXCEPT ![c] = y], to' = [to EXCEPT ![c] = z],
           UNCHANGED <<hello, verdict, st, table, lanes, adopting>>,
           x \in Asked => y = "none", x \in Apart => z = None, x = "route" => z \in Carrier,
           x = "ping" => hello[c].t = "PING"
    PROVE  RInv'
  <1>1. RefType'
    BY DEF RInv, RefType
  <1>2. VerdictInv'
    BY DEF RInv, VerdictInv
  <1>3. \A t \in Carrier : /\ pc'[t] = IF t = c THEN x ELSE pc[t]
                           /\ ans'[t] = IF t = c THEN y ELSE ans[t]
                           /\ to'[t] = IF t = c THEN z ELSE to[t]
    BY DEF IInv, TypeOK, RInv, RefType
  <1>4. AskInv'
    BY <1>3 DEF RInv, AskInv
  <1>5. \A s \in Carrier : c \notin lanes[s] /\ c \notin adopting[s]
    BY DEF RInv, LaneInv
  <1>6. LaneInv'
    BY <1>3, <1>5 DEF RInv, LaneInv
  <1> QED BY <1>1, <1>2, <1>4, <1>6 DEF RInv

-----------------------------------------------------------------------------
(* The handshake goroutine.                                                *)

\* It goes on, and nobody is answered.
LEMMA Quietly ==
    ASSUME IInv, RInv, NEW c \in Carrier, pc[c] \in Before, NEW x \in PC \ {"route"},
           pc[c] \in Asked \/ x \notin Asked, pc[c] \in Apart \/ x \notin Apart,
           x = "ping" => hello[c].t = "PING", pc' = [pc EXCEPT ![c] = x],
           UNCHANGED <<hello, verdict, to, ans, st, table, lanes, adopting>>
    PROVE  RInv' /\ Implements
  <1>1. Implements
    BY Stutters, OverSame
  <1> DEFINE y == ans[c]
             z == to[c]
  <1>2. /\ y \in Verdicts \cup Alone \cup {"none"} /\ ans' = [ans EXCEPT ![c] = y]
        /\ z \in Carrier \cup {None} /\ to' = [to EXCEPT ![c] = z]
    BY DEF RInv, RefType
  <1>3. (x \in Asked => y = "none") /\ (x \in Apart => z = None) /\ x # "route" /\ x \in PC
    BY DEF RInv, AskInv
  <1> HIDE DEF y, z
  <1>4. RInv'
    BY <1>2, <1>3, AsksOn, ZenonT(30)
  <1> QED BY <1>1, <1>4

\* It answers for itself.
LEMMA Refusing ==
    ASSUME IInv, RInv, NEW c \in Carrier, pc[c] \in Asked, NEW x \in {"done", "failed"}, NEW a \in Alone,
           pc[c] \in Apart \/ x = "done", pc' = [pc EXCEPT ![c] = x], ans' = [ans EXCEPT ![c] = a],
           UNCHANGED <<hello, verdict, to, st, table, lanes, adopting>>
    PROVE  RInv' /\ Implements
  <1>1. ans[c] = "none" /\ (pc[c] \in Apart => to[c] = None) /\ RefType
    BY DEF RInv, AskInv
  <1>2. Implements
    BY <1>1, Refuses, OverSame, ZenonT(30)
  <1>3. to[c] \in Carrier \cup {None} /\ to' = [to EXCEPT ![c] = to[c]]
    BY DEF RInv, RefType
  <1>4. x \in PC /\ x \notin Asked /\ (x \in Apart => to[c] = None) /\ x \notin {"route", "ping"} /\ pc[c] \in Before
    BY <1>1 DEF PC, Asked, Apart, Before
  <1>5. RInv'
    BY <1>3, <1>4, AsksOn, ZenonT(30)
  <1> QED BY <1>2, <1>5

\* It hands the carrier to a session, or answers in its name.
LEMMA Routing ==
    ASSUME IInv, RInv, NEW c \in Carrier, pc[c] \in Asked, NEW s \in Carrier, to[c] \in {None, s},
           NEW x, NEW a \in Verdicts \cup Alone \cup {"none"},
           (x = "route" /\ a = "none") \/ x = "done",
           hello[c].t = "OPEN" => a = "none" \/ a \in Alone \/ (verdict[s] # "none" /\ a = Said(s)),
           pc' = [pc EXCEPT ![c] = x], ans' = [ans EXCEPT ![c] = a], to' = [to EXCEPT ![c] = s],
           UNCHANGED <<hello, verdict, st, table, lanes, adopting>>
    PROVE  RInv' /\ Implements
  <1>1. ans[c] = "none" /\ RefType
    BY DEF RInv, AskInv
  <1>2. Implements
    BY <1>1, Hands, OverSame, ZenonT(30)
  <1>3. x \in PC /\ (x \in Asked => a = "none") /\ x \notin Apart /\ x # "ping" /\ pc[c] \in Before
    BY DEF PC, Asked, Apart, Before
  <1>4. RInv'
    BY <1>3, AsksOn, ZenonT(30)
  <1> QED BY <1>2, <1>4

\* The verdict of an ended session, as OpenAck repeats it
LEMMA Repeats ==
    ASSUME RInv, NEW s \in Carrier, st[s] \in {"ended", "exited"}
    PROVE  verdict[s] # "none" /\ OpenAck(s) = Said(s) /\ OpenAck(s) \in Verdicts
  BY DEF RInv, RefType, VerdictInv, OpenAck, Said, Over, Verdicts

LEMMA EarlySteps ==
    ASSUME IInv, RInv, NEW c \in Carrier,
           \/ BeginHandshake(c) \/ StartHandshake(c) \/ ReadHello(c) \/ Release(c) \/ AdmitView(c)
           \/ ReserveUnit(c) \/ ReserveSlot(c)
    PROVE  RInv' /\ Implements
  <1> USE DEF tableVars, sessVars, Answer, Step
  <1>1. CASE BeginHandshake(c)
    <2>1. /\ pc[c] = "none" /\ UNCHANGED <<hello, verdict, to, st, table, lanes, adopting>>
          /\ \/ pc' = [pc EXCEPT ![c] = "begun"] /\ ans' = ans
             \/ pc' = [pc EXCEPT ![c] = "done"] /\ ans' = [ans EXCEPT ![c] = "cut"]
      BY <1>1 DEF BeginHandshake
    <2> QED BY <2>1, Quietly, Refusing DEF PC, Asked, Apart, Before, Alone
  <1>2. CASE StartHandshake(c)
    <2>1. /\ pc[c] = "begun" /\ UNCHANGED <<hello, verdict, to, st, table, lanes, adopting>>
          /\ \/ pc' = [pc EXCEPT ![c] = "hello"] /\ ans' = ans
             \/ pc' = [pc EXCEPT ![c] = "done"] /\ ans' = [ans EXCEPT ![c] = "cut"]
      BY <1>2 DEF StartHandshake
    <2> QED BY <2>1, Quietly, Refusing DEF PC, Asked, Apart, Before, Alone
  <1>3. CASE ReadHello(c)
    <2>1. /\ pc[c] = "hello" /\ UNCHANGED <<hello, verdict, to, st, table, lanes, adopting>>
          /\ \/ pc' = [pc EXCEPT ![c] = "release"] /\ ans' = ans
             \/ pc' = [pc EXCEPT ![c] = "failed"] /\ \E a \in {"AWAY", "cut"} : ans' = [ans EXCEPT ![c] = a]
      BY <1>3 DEF ReadHello
    <2> QED BY <2>1, Quietly, Refusing DEF PC, Asked, Apart, Before, Alone
  <1>4. CASE Release(c)
    <2>1. /\ pc[c] \in {"release", "failed"} /\ UNCHANGED <<hello, verdict, to, st, table, lanes, adopting>>
          /\ \/ pc[c] = "failed" /\ pc' = [pc EXCEPT ![c] = "done"] /\ ans' = ans
             \/ pc[c] = "release" /\ pc' = [pc EXCEPT ![c] = "done"] /\ ans' = [ans EXCEPT ![c] = "cut"]
             \/ /\ pc[c] = "release" /\ ans' = ans
                /\ \/ pc' = [pc EXCEPT ![c] = "ping"] /\ hello[c].t = "PING"
                   \/ pc' = [pc EXCEPT ![c] = "view"]
                   \/ pc' = [pc EXCEPT ![c] = "lookup"]
      BY <1>4 DEF Release
    <2>2. CASE pc[c] = "failed" /\ pc' = [pc EXCEPT ![c] = "done"] /\ ans' = ans
      BY <2>1, <2>2, Quietly, ZenonT(30) DEF PC, Asked, Apart, Before
    <2>3. CASE pc[c] = "release" /\ pc' = [pc EXCEPT ![c] = "done"] /\ ans' = [ans EXCEPT ![c] = "cut"]
      BY <2>1, <2>3, Refusing, ZenonT(30) DEF Asked, Before, Alone
    <2>4. ASSUME pc[c] = "release", ans' = ans, NEW x \in {"ping", "view", "lookup"},
                 pc' = [pc EXCEPT ![c] = x], x = "ping" => hello[c].t = "PING"
          PROVE  RInv' /\ Implements
      <3>1. x \in PC \ {"route"} /\ pc[c] \in Asked /\ pc[c] \in Apart /\ pc[c] \in Before
        BY <2>4 DEF PC, Asked, Apart, Before
      <3> QED BY <2>1, <2>4, <3>1, Quietly, ZenonT(30)
    <2>5. CASE pc[c] = "release" /\ ans' = ans /\ pc' = [pc EXCEPT ![c] = "ping"] /\ hello[c].t = "PING"
      BY <2>4, <2>5
    <2>6. CASE /\ pc[c] = "release" /\ ans' = ans
               /\ pc' = [pc EXCEPT ![c] = "view"] \/ pc' = [pc EXCEPT ![c] = "lookup"]
      BY <2>4, <2>6
    <2> QED BY <2>1, <2>2, <2>3, <2>5, <2>6, Zenon
  <1>5. CASE AdmitView(c)
    <2>1. /\ pc[c] = "view" /\ UNCHANGED <<hello, verdict, to, st, table, lanes, adopting>>
          /\ \/ pc' = [pc EXCEPT ![c] = "lookup"] /\ ans' = ans
             \/ pc' = [pc EXCEPT ![c] = "done"] /\ \E a \in {"AWAY", "FULL"} : ans' = [ans EXCEPT ![c] = a]
      BY <1>5 DEF AdmitView, Refusal
    <2> QED BY <2>1, Quietly, Refusing DEF PC, Asked, Apart, Before, Alone
  <1>6. CASE ReserveUnit(c)
    <2>1. /\ pc[c] = "unit" /\ UNCHANGED <<hello, verdict, to, st, table, lanes, adopting>>
          /\ \/ pc' = [pc EXCEPT ![c] = "backlog"] /\ ans' = ans
             \/ pc' = [pc EXCEPT ![c] = "done"] /\ ans' = [ans EXCEPT ![c] = "FULL"]
      BY <1>6 DEF ReserveUnit
    <2> QED BY <2>1, Quietly, Refusing DEF PC, Asked, Apart, Before, Alone
  <1>7. CASE ReserveSlot(c)
    <2>1. /\ pc[c] = "backlog" /\ UNCHANGED <<hello, verdict, to, st, table, lanes, adopting>>
          /\ \/ pc' = [pc EXCEPT ![c] = "insert"] /\ ans' = ans
             \/ pc' = [pc EXCEPT ![c] = "done"] /\ \E a \in {"AWAY", "FULL"} : ans' = [ans EXCEPT ![c] = a]
      BY <1>7 DEF ReserveSlot
    <2> QED BY <2>1, Quietly, Refusing DEF PC, Asked, Apart, Before, Alone
  <1> QED BY <1>1, <1>2, <1>3, <1>4, <1>5, <1>6, <1>7

\* sessionTable.lookup, insertOrGet for a loser, Session.AttachOpen and Session.Join
LEMMA RoutingSteps ==
    ASSUME IInv, RInv, NEW c \in Carrier, Lookup(c) \/ (Insert(c) /\ table[hello[c].key] # None)
    PROVE  RInv' /\ Implements
  <1> DEFINE e == table[hello[c].key]
  <1> USE DEF tableVars, sessVars, Answer, Step
  <1>1. /\ UNCHANGED <<hello, verdict, st, table, lanes, adopting>> /\ pc[c] \in {"lookup", "insert"}
        /\ \/ e # None /\ ~ e.tomb /\ Route(c, e.s)
           \/ e # None /\ e.tomb /\ RepeatVerdict(c, e.s)
           \/ hello[c].t = "JOIN" /\ Answer(c, "UNKNOWN") /\ to' = to
           \/ Refusal # "none" /\ Answer(c, Refusal) /\ to' = to
           \/ Step(c, "unit") /\ UNCHANGED <<ans, to>>
    BY DEF Lookup, Insert, Live
  <1>2. e # None => e.s \in Carrier /\ e.tomb \in BOOLEAN
    BY DEF IInv, TypeOK, Hello, Entry
  <1>3. pc[c] \in Asked /\ pc[c] \in Apart /\ pc[c] \in Before /\ to[c] = None /\ ans[c] = "none"
    BY <1>1 DEF Asked, Apart, Before, RInv, AskInv
  <1>4. e # None /\ e.tomb => st[e.s] \in {"ended", "exited"}
    BY DEF RInv, VerdictInv, IInv, TypeOK, Hello
  <1> HIDE DEF e
  <1>5. CASE e # None /\ ~ e.tomb /\ Route(c, e.s)
    <2>1. ans' = [ans EXCEPT ![c] = "none"]
      BY <1>3, <1>5 DEF Route, RInv, RefType
    <2> QED BY <1>1, <1>2, <1>3, <1>5, <2>1, Routing, ZenonT(30) DEF Route
  <1>6. CASE e # None /\ e.tomb /\ RepeatVerdict(c, e.s)
    <2> DEFINE a == IF hello[c].t = "OPEN" THEN OpenAck(e.s) ELSE "UNKNOWN"
    <2>1. /\ verdict[e.s] # "none" /\ a \in Verdicts /\ (hello[c].t = "OPEN" => a = Said(e.s))
      BY <1>2, <1>4, <1>6, Repeats DEF Verdicts
    <2>2. pc' = [pc EXCEPT ![c] = "done"] /\ ans' = [ans EXCEPT ![c] = a] /\ to' = [to EXCEPT ![c] = e.s]
      BY <1>6 DEF RepeatVerdict
    <2> HIDE DEF a
    <2> QED BY <1>1, <1>2, <1>3, <1>6, <2>1, <2>2, Routing, ZenonT(30)
  <1>7. CASE hello[c].t = "JOIN" /\ Answer(c, "UNKNOWN") /\ to' = to
    <2>1. ans' = [ans EXCEPT ![c] = "UNKNOWN"] /\ pc' = [pc EXCEPT ![c] = "done"] /\ to' = [to EXCEPT ![c] = None]
      BY <1>3, <1>7 DEF RInv, RefType
    <2>2. Over' = Over
      BY <1>1, OverSame
    <2>3. Implements
      BY <1>1, <1>7, <2>1, <2>2, NotOpen DEF RInv, RefType
    <2>4. RInv'
      BY <1>1, <1>3, <2>1, AsksOn, ZenonT(30) DEF PC, Asked, Apart, Before, Verdicts
    <2> QED BY <2>3, <2>4
  <1>8. CASE Refusal # "none" /\ Answer(c, Refusal) /\ to' = to
    <2>1. Refusal \in Alone
      BY <1>8 DEF Refusal, Alone
    <2> QED BY <1>1, <1>3, <1>8, <2>1, Refusing, ZenonT(30)
  <1>9. CASE Step(c, "unit") /\ UNCHANGED <<ans, to>>
    BY <1>1, <1>3, <1>9, Quietly, ZenonT(30) DEF PC, Before
  <1> QED BY <1>1, <1>5, <1>6, <1>7, <1>8, <1>9

\* The winner of an insert hands its carrier to the new session.
LEMMA WinsInsert ==
    ASSUME IInv, RInv, NEW c \in Carrier, Insert(c), table[hello[c].key] = None
    PROVE  RInv' /\ Implements
  <1>1. /\ pc[c] = "insert" /\ pc' = [pc EXCEPT ![c] = "bind"] /\ UNCHANGED <<hello, verdict, adopting, ans>>
        /\ table' = [table EXCEPT ![hello[c].key] = [s |-> c, tomb |-> FALSE]]
        /\ st' = [st EXCEPT ![c] = "new"] /\ lanes' = [lanes EXCEPT ![c] = {c}]
        /\ to' = [to EXCEPT ![c] = c]
    BY DEF Insert, Step
  <1>2. pc[c] \in Before /\ ans[c] = "none" /\ to[c] = None /\ st[c] = "none"
    BY <1>1 DEF RInv, AskInv, Asked, Apart, Before, IInv, StageInv
  <1>3. \A t \in Carrier : /\ pc'[t] = IF t = c THEN "bind" ELSE pc[t]
                           /\ st'[t] = IF t = c THEN "new" ELSE st[t]
                           /\ to'[t] = IF t = c THEN c ELSE to[t]
                           /\ lanes'[t] = IF t = c THEN {c} ELSE lanes[t]
    BY <1>1 DEF IInv, TypeOK, RInv, RefType
  <1>4. Implements
    <2>1. Over' = Over
      BY <1>1, <1>2, <1>3, OverSame
    <2>2. ans' = [ans EXCEPT ![c] = "none"] /\ RefType
      BY <1>1, <1>2 DEF RInv, RefType
    <2> QED BY <1>1, <1>2, <2>1, <2>2, Hands, ZenonT(30)
  <1>5. RefType'
    BY <1>1 DEF RInv, RefType
  <1>6. VerdictInv'
    <2>1. \A t \in Carrier : /\ verdict'[t] = "none" <=> st'[t] \in {"none", "new", "pending"}
                             /\ st'[t] = "open" => verdict'[t] = "OK"
      BY <1>1, <1>2, <1>3 DEF RInv, VerdictInv
    <2>2. ASSUME NEW k \in Key, table'[k] # None, table'[k].tomb
          PROVE  st'[table'[k].s] \in {"ended", "exited"}
      <3>1. table'[k] = table[k] /\ table[k].s \in Carrier
        BY <1>1, <2>2 DEF IInv, TypeOK, Entry
      <3>2. st[table[k].s] \in {"ended", "exited"}
        BY <2>2, <3>1 DEF RInv, VerdictInv
      <3> QED BY <1>2, <1>3, <3>1, <3>2
    <2> QED BY <2>1, <2>2 DEF VerdictInv
  <1>7. AskInv'
    BY <1>1, <1>3 DEF RInv, AskInv, Asked, Apart, Before
  <1>8. LaneInv'
    <2>1. \A t \in Carrier : c \notin lanes[t] /\ c \notin adopting[t]
      BY <1>2 DEF RInv, LaneInv
    <2>2. "bind" \notin Before
      BY DEF Before
    <2> QED BY <1>1, <1>3, <2>1, <2>2 DEF RInv, LaneInv
  <1> QED BY <1>4, <1>5, <1>6, <1>7, <1>8 DEF RInv

\* AttachOpen and Join count the carrier, or answer it at once.
LEMMA AttachSteps ==
    ASSUME IInv, RInv, NEW c \in Carrier, Attach(c)
    PROVE  RInv' /\ Implements
  <1> DEFINE s == to[c]
             a == IF hello[c].t = "OPEN" THEN OpenAck(s) ELSE "UNKNOWN"
  <1>1. /\ pc[c] = "route" /\ pc' = [pc EXCEPT ![c] = "done"]
        /\ UNCHANGED <<hello, verdict, to, st, table, lanes>>
        /\ \/ st[s] \in {"ended", "exited"} /\ ans' = [ans EXCEPT ![c] = a] /\ adopting' = adopting
           \/ ans' = [ans EXCEPT ![c] = "BAD"] /\ adopting' = adopting
           \/ ans' = [ans EXCEPT ![c] = "FULL"] /\ adopting' = adopting
           \/ ans' = ans /\ adopting' = [adopting EXCEPT ![s] = @ \cup {c}]
    BY DEF Attach, Answer, Step, tableVars
  <1>2. pc[c] \in Asked /\ pc[c] \in Before /\ s \in Carrier /\ ans[c] = "none"
    BY <1>1 DEF RInv, AskInv, Asked, Before
  <1>3. CASE st[s] \in {"ended", "exited"} /\ ans' = [ans EXCEPT ![c] = a] /\ adopting' = adopting
    <2>1. verdict[s] # "none" /\ a \in Verdicts /\ (hello[c].t = "OPEN" => a = Said(s))
      BY <1>2, <1>3, Repeats DEF Verdicts
    <2>2. to' = [to EXCEPT ![c] = s] /\ to[c] \in {None, s}
      BY <1>1 DEF RInv, RefType
    <2> HIDE DEF s, a
    <2> QED BY <1>1, <1>2, <1>3, <2>1, <2>2, Routing, ZenonT(30)
  <1>4. CASE adopting' = adopting /\ \E b \in {"BAD", "FULL"} : ans' = [ans EXCEPT ![c] = b]
    BY <1>1, <1>2, <1>4, Refusing, ZenonT(30) DEF Alone
  <1>5. CASE ans' = ans /\ adopting' = [adopting EXCEPT ![s] = @ \cup {c}]
    <2>1. Implements
      BY <1>1, <1>5, Stutters, OverSame
    <2>2. \A t \in Carrier : /\ pc'[t] = IF t = c THEN "done" ELSE pc[t]
                             /\ adopting'[t] = IF t = s THEN adopting[t] \cup {c} ELSE adopting[t]
      BY <1>1, <1>5, ZenonT(30) DEF IInv, TypeOK, RInv, RefType
    <2>3. RefType' /\ VerdictInv'
      BY <1>1, <1>2, <1>5 DEF RInv, RefType, VerdictInv
    <2>4. AskInv'
      BY <1>1, <1>5, <2>2 DEF RInv, AskInv, Asked, Apart, Before
    <2>5. LaneInv'
      <3>1. "done" \notin Before /\ \A t \in Carrier : c \notin lanes[t] /\ c \notin adopting[t]
        BY <1>2 DEF RInv, LaneInv, Before
      <3>2. to'[c] = s /\ ans'[c] = "none" /\ UNCHANGED <<to, ans, lanes>>
        BY <1>1, <1>2, <1>5
      <3> HIDE DEF s
      <3> SUFFICES ASSUME NEW t \in Carrier, NEW d \in Carrier
                   PROVE  /\ d \in lanes'[t] => to'[d] = t /\ pc'[d] \notin Before
                          /\ d \in adopting'[t] => /\ to'[d] = t /\ ans'[d] = "none"
                                                   /\ pc'[d] \notin Before /\ d \notin lanes'[t]
        BY DEF LaneInv
      <3>3. CASE d = c
        BY <2>2, <3>1, <3>2, <3>3, ZenonT(30)
      <3>4. CASE d # c
        <4>1. pc'[d] = pc[d] /\ lanes' = lanes /\ to' = to /\ ans' = ans
          BY <2>2, <3>2, <3>4, ZenonT(30)
        <4>2. d \in adopting'[t] => d \in adopting[t]
          BY <2>2, <3>4, ZenonT(30)
        <4> QED BY <4>1, <4>2 DEF RInv, LaneInv
      <3> QED BY <3>3, <3>4
    <2> QED BY <2>1, <2>3, <2>4, <2>5 DEF RInv
  <1> QED BY <1>1, <1>3, <1>4, <1>5

LEMMA SessionlessSteps ==
    ASSUME IInv, RInv, NEW c \in Carrier, AdmitSessionless(c)
    PROVE  RInv' /\ Implements
  <1>1. /\ pc[c] = "ping" /\ pc' = [pc EXCEPT ![c] = "done"]
        /\ UNCHANGED <<hello, verdict, to, st, table, lanes, adopting>>
        /\ \E a \in {"AWAY", "FULL", "OK"} : ans' = [ans EXCEPT ![c] = a]
    BY DEF AdmitSessionless, Answer, Step, tableVars, sessVars
  <1>2. PICK a \in {"AWAY", "FULL", "OK"} : ans' = [ans EXCEPT ![c] = a]
    BY <1>1, ZenonT(30)
  <1>3. hello[c].t # "OPEN" /\ pc[c] \in Before
    BY <1>1 DEF RInv, AskInv, Before
  <1>4. Implements
    <2>1. Over' = Over
      BY <1>1, OverSame
    <2>2. \A t \in Carrier \ {c} : to'[t] = to[t] /\ ans'[t] = ans[t]
      BY <1>1, <1>2 DEF RInv, RefType
    <2> QED BY <1>1, <1>3, <2>1, <2>2, NotOpen
  <1>5. RInv'
    <2> DEFINE z == to[c]
    <2>1. z \in Carrier \cup {None} /\ to' = [to EXCEPT ![c] = z]
      BY <1>1 DEF RInv, RefType
    <2>2. "done" \in PC /\ "done" \notin Asked /\ "done" \notin Apart /\ a \in Verdicts \cup Alone \cup {"none"}
      BY DEF PC, Asked, Apart, Before, Verdicts, Alone
    <2> HIDE DEF z
    <2> QED BY <1>1, <1>2, <1>3, <2>1, <2>2, AsksOn, ZenonT(30)
  <1> QED BY <1>4, <1>5

-----------------------------------------------------------------------------
(* Sessions, time and Runtime.Close.                                       *)

\* A step that concerns neither answers nor verdicts
LEMMA Settled ==
    ASSUME IInv, RInv, UNCHANGED <<hello, verdict, to, ans, lanes, adopting>>,
           \A t \in Carrier : pc'[t] = pc[t] \/ {pc[t], pc'[t]} \cap Before = {},
           \A t \in Carrier : \/ st'[t] = st[t]
                              \/ st[t] = "new" /\ st'[t] = "pending"
                              \/ st[t] = "ended" /\ st'[t] = "exited",
           \A k \in Key : table'[k] # None /\ table'[k].tomb =>
                            table'[k].s \in Carrier /\ st[table'[k].s] \in {"ended", "exited"}
    PROVE  RInv' /\ Implements
  <1>1. Implements
    BY Stutters, OverSame
  <1>2. RefType'
    BY DEF RInv, RefType
  <1>3. VerdictInv'
    BY DEF RInv, VerdictInv
  <1>4. AskInv'
    <2>1. Asked \subseteq Before /\ Apart \subseteq Before /\ {"route", "ping"} \subseteq Before
      BY DEF Asked, Apart, Before
    <2> QED BY <2>1 DEF RInv, AskInv
  <1>5. LaneInv'
    BY DEF RInv, LaneInv
  <1> QED BY <1>1, <1>2, <1>3, <1>4, <1>5 DEF RInv

LEMMA TombsEnded ==
    ASSUME IInv, RInv, NEW k \in Key, table[k] # None, table[k].tomb
    PROVE  table[k].s \in Carrier /\ st[table[k].s] \in {"ended", "exited"}
  BY DEF IInv, TypeOK, Entry, RInv, VerdictInv

LEMMA LateSteps ==
    ASSUME IInv, RInv, NEW c \in Carrier,
           Bind(c) \/ Start(c) \/ LateShutdown(c) \/ Enqueue(c)
    PROVE  RInv' /\ Implements
  <1>1. /\ UNCHANGED <<hello, verdict, to, ans, lanes, adopting, table>>
        /\ pc[c] \in {"bind", "start", "late", "enqueue"}
        /\ \E x \in {"start", "late", "enqueue", "done"} : pc' = [pc EXCEPT ![c] = x]
        /\ st' = st \/ (pc[c] = "start" /\ st' = [st EXCEPT ![c] = "pending"])
    BY DEF Bind, Start, LateShutdown, Enqueue, Step, tableVars, sessVars
  <1>2. \A t \in Carrier : pc'[t] = pc[t] \/ {pc[t], pc'[t]} \cap Before = {}
    BY <1>1 DEF Before, IInv, TypeOK
  <1>3. \A t \in Carrier : st'[t] = st[t] \/ (st[t] = "new" /\ st'[t] = "pending")
    BY <1>1 DEF IInv, TypeOK, StageInv
  <1> QED BY <1>1, <1>2, <1>3, TombsEnded, Settled

LEMMA SettledSteps ==
    ASSUME IInv, RInv, NEW s \in Carrier,
           ProbeDone(s) \/ NoteEnded(s) \/ TableEnded(s) \/ LeavePending(s) \/ Exit(s) \/ DialerWithdraws(s)
    PROVE  RInv' /\ Implements
  <1> USE DEF hsVars, tableVars, sessVars
  <1>1. UNCHANGED <<hello, verdict, to, ans, lanes, adopting, pc>>
    BY ZenonT(30) DEF ProbeDone, NoteEnded, TableEnded, LeavePending, Exit, DialerWithdraws
  <1>2. CASE TableEnded(s)
    <2>1. /\ st' = st /\ reg[s] = "tomb"
          /\ \A i \in Key : table'[i] \in {table[i], None, [s |-> s, tomb |-> TRUE]}
      BY <1>2 DEF TableEnded
    <2>2. st[s] = "ended"
      BY <2>1, ZenonT(30) DEF IInv, StageInv
    <2>3. ASSUME NEW i \in Key, table'[i] # None, table'[i].tomb
          PROVE  table'[i].s \in Carrier /\ st[table'[i].s] \in {"ended", "exited"}
      <3>1. CASE table'[i] = table[i]
        BY <2>3, <3>1, TombsEnded
      <3>2. CASE table'[i] = [s |-> s, tomb |-> TRUE]
        BY <2>2, <3>2
      <3> QED BY <2>1, <2>3, <3>1, <3>2, ZenonT(30)
    <2> QED BY <1>1, <2>1, <2>3, Settled, ZenonT(30)
  <1>3. CASE ProbeDone(s) \/ NoteEnded(s) \/ LeavePending(s) \/ Exit(s) \/ DialerWithdraws(s)
    <2>1. table' = table /\ (st' = st \/ (st[s] = "ended" /\ st' = [st EXCEPT ![s] = "exited"]))
      BY <1>3, ZenonT(30) DEF ProbeDone, NoteEnded, LeavePending, Exit, DialerWithdraws
    <2>2. \A t \in Carrier : st'[t] = st[t] \/ (st[t] = "ended" /\ st'[t] = "exited")
      BY <2>1 DEF IInv, TypeOK
    <2> QED BY <1>1, <2>1, <2>2, TombsEnded, Settled
  <1> QED BY <1>2, <1>3

LEMMA OutsideSteps ==
    ASSUME IInv, RInv,
           (\E k \in Key : Expire(k)) \/ Accept \/ ListenerClose \/ CloseBegins \/ CloseStep \/ UNCHANGED vars
    PROVE  RInv' /\ Implements
  <1> USE DEF hsVars, tableVars, sessVars
  <1>1. UNCHANGED <<hello, verdict, to, ans, lanes, adopting, pc, st>>
    BY ZenonT(30) DEF Expire, Accept, ListenerClose, CloseBegins, CloseStep, CloseShuts, CloseTells, CloseDrains,
           CloseJoins, CloseReturns, vars
  <1>2. \A i \in Key : table'[i] = table[i] \/ table'[i] = None
    BY ZenonT(30) DEF Expire, Accept, ListenerClose, CloseBegins, CloseStep, CloseShuts, CloseTells, CloseDrains,
           CloseJoins, CloseReturns, vars, IInv, TypeOK
  <1>3. ASSUME NEW i \in Key, table'[i] # None, table'[i].tomb
        PROVE  table'[i].s \in Carrier /\ st[table'[i].s] \in {"ended", "exited"}
    <2>1. table'[i] = table[i]
      BY <1>2, <1>3
    <2> QED BY <1>3, <2>1, TombsEnded
  <1> QED BY <1>1, <1>3, Settled, ZenonT(30)

\* A pending session decides and tells the carriers it has.
LEMMA DecideSteps ==
    ASSUME IInv, RInv, NEW s \in Carrier, NEW v \in Verdicts, NEW w,
           w = v \/ (v = "UNKNOWN" /\ w = "cut"), st[s] = "pending",
           verdict' = [verdict EXCEPT ![s] = v], Tell(s, w),
           NEW z \in {"open", "ended"}, st' = [st EXCEPT ![s] = z], z = "open" <=> v = "OK",
           UNCHANGED <<hello, pc, to, table, lanes, adopting>>
    PROVE  RInv' /\ Implements
  <1>1. \A t \in Carrier : /\ st'[t] = IF t = s THEN z ELSE st[t]
                           /\ verdict'[t] = IF t = s THEN v ELSE verdict[t]
    BY DEF IInv, TypeOK, RInv, RefType
  <1>2. verdict[s] = "none" /\ v # "none"
    BY DEF RInv, VerdictInv, Verdicts
  <1>3. \A t \in Carrier : ans'[t] = IF t \in lanes[s] /\ ans[t] = "none" THEN w ELSE ans[t]
    BY DEF Tell
  <1>4. Implements
    <2>1. Over' = Over
      BY <1>1, <1>2 DEF Over
    <2>2. RefType /\ \A c \in lanes[s] : to[c] = s
      BY DEF RInv, RefType, LaneInv
    <2> QED BY <1>2, <2>1, <2>2, Decides, ZenonT(30) DEF Tell
  <1>5. RefType'
    <2>1. verdict' \in [Carrier -> Verdicts \cup {"none"}]
      BY DEF RInv, RefType
    <2>2. w \in Verdicts \cup Alone
      BY DEF Alone
    <2>3. ans' \in [Carrier -> Verdicts \cup Alone \cup {"none"}]
      BY <2>2 DEF Tell, RInv, RefType
    <2> QED BY <2>1, <2>3 DEF RInv, RefType
  <1>6. VerdictInv'
    <2>1. \A t \in Carrier : /\ verdict'[t] = "none" <=> st'[t] \in {"none", "new", "pending"}
                             /\ st'[t] = "open" => verdict'[t] = "OK"
      BY <1>1, <1>2 DEF RInv, VerdictInv
    <2>2. ASSUME NEW k \in Key, table'[k] # None, table'[k].tomb
          PROVE  st'[table'[k].s] \in {"ended", "exited"}
      <3>1. table[k].s \in Carrier /\ st[table[k].s] \in {"ended", "exited"}
        BY <2>2, TombsEnded
      <3> QED BY <1>1, <3>1
    <2> QED BY <2>1, <2>2 DEF VerdictInv
  <1>7. AskInv'
    <2>1. Asked \subseteq Before
      BY DEF Asked
    <2> QED BY <1>3, <2>1 DEF RInv, AskInv, LaneInv
  <1>8. LaneInv'
    <2>1. \A t, c \in Carrier : c \in adopting[t] => c \notin lanes[s]
      BY DEF RInv, LaneInv
    <2> QED BY <1>3, <2>1 DEF RInv, LaneInv
  <1> QED BY <1>4, <1>5, <1>6, <1>7, <1>8 DEF RInv

\* An open session ends.
LEMMA FinishSteps ==
    ASSUME IInv, RInv, NEW s \in Carrier, st[s] = "open", End(s),
           UNCHANGED <<hello, pc, verdict, to, ans, table, lanes, adopting>>
    PROVE  RInv' /\ Implements
  <1>1. \A t \in Carrier : st'[t] = IF t = s THEN "ended" ELSE st[t]
    BY DEF End, IInv, TypeOK
  <1>2. st \in [Carrier -> State] /\ verdict[s] = "OK"
    BY DEF IInv, TypeOK, RInv, VerdictInv
  <1>3. Implements
    BY <1>2, Finishes, ZenonT(30) DEF End
  <1>4. RefType' /\ AskInv' /\ LaneInv'
    BY DEF RInv, RefType, AskInv, LaneInv
  <1>5. VerdictInv'
    <2>1. \A t \in Carrier : /\ verdict'[t] = "none" <=> st'[t] \in {"none", "new", "pending"}
                             /\ st'[t] = "open" => verdict'[t] = "OK"
      BY <1>1, <1>2 DEF RInv, VerdictInv
    <2>2. ASSUME NEW k \in Key, table'[k] # None, table'[k].tomb
          PROVE  st'[table'[k].s] \in {"ended", "exited"}
      <3>1. table[k].s \in Carrier /\ st[table[k].s] \in {"ended", "exited"}
        BY <2>2, TombsEnded
      <3> QED BY <1>1, <3>1
    <2> QED BY <2>1, <2>2 DEF VerdictInv
  <1> QED BY <1>3, <1>4, <1>5 DEF RInv

LEMMA RefusePendingSteps ==
    ASSUME IInv, RInv, NEW s \in Carrier, st[s] = "pending",
           NEW v \in {"REJECTED", "CAPACITY", "GOING_AWAY"},
           Withdrawn(s) \/ RefusePending(s, v, v),
           UNCHANGED <<hello, pc, to, table, lanes, adopting>>
    PROVE  RInv' /\ Implements
  <1>1. PICK u \in Verdicts \ {"OK"}, w \in Verdicts \cup Alone :
           (w = u \/ (u = "UNKNOWN" /\ w = "cut")) /\ RefusePending(s, u, w)
    BY DEF Withdrawn, Verdicts, Alone
  <1> DEFINE z == "ended"
  <1>2. /\ verdict' = [verdict EXCEPT ![s] = u] /\ Tell(s, w) /\ st' = [st EXCEPT ![s] = z]
        /\ w = u \/ (u = "UNKNOWN" /\ w = "cut")
    BY <1>1 DEF RefusePending, End
  <1>3. z \in {"open", "ended"} /\ (z = "open" <=> u = "OK") /\ u \in Verdicts
    OBVIOUS
  <1> HIDE DEF z
  <1> QED BY <1>2, <1>3, DecideSteps, ZenonT(30)

LEMMA SessionSteps ==
    ASSUME IInv, RInv, NEW s \in Carrier,
           Confirm(s) \/ Reject(s) \/ PendingDue(s) \/ Ends(s)
    PROVE  RInv' /\ Implements
  <1> USE DEF hsVars, tableVars
  <1>1. CASE Confirm(s)
    <2>1. st[s] = "pending" /\ UNCHANGED <<hello, pc, to, table, lanes, adopting>>
      BY <1>1 DEF Confirm
    <2>2. CASE Withdrawn(s)
      BY <2>1, <2>2, RefusePendingSteps
    <2>3. CASE /\ verdict' = [verdict EXCEPT ![s] = "OK"] /\ Tell(s, "OK")
               /\ st' = [st EXCEPT ![s] = "open"]
      BY <2>1, <2>3, DecideSteps, ZenonT(30) DEF Verdicts
    <2> QED BY <1>1, <2>2, <2>3, ZenonT(30) DEF Confirm
  <1>2. CASE Reject(s)
    <2>1. st[s] = "pending" /\ UNCHANGED <<hello, pc, to, table, lanes, adopting>>
      BY <1>2 DEF Reject
    <2>2. Withdrawn(s) \/ RefusePending(s, "REJECTED", "REJECTED")
      BY <1>2 DEF Reject
    <2> QED BY <2>1, <2>2, RefusePendingSteps
  <1>3. CASE PendingDue(s)
    <2>1. st[s] = "pending" /\ UNCHANGED <<hello, pc, to, table, lanes, adopting>>
      BY <1>3 DEF PendingDue
    <2>2. Withdrawn(s) \/ RefusePending(s, "CAPACITY", "CAPACITY")
      BY <1>3 DEF PendingDue
    <2> QED BY <2>1, <2>2, RefusePendingSteps
  <1>4. CASE Ends(s)
    BY <1>4, FinishSteps DEF Ends
  <1> QED BY <1>1, <1>2, <1>3, <1>4

LEMMA CommandSteps ==
    ASSUME IInv, RInv, NEW s \in Carrier, NEW cmd \in {"refuse", "away", "shutdown"}, OnCommand(s, cmd)
    PROVE  RInv' /\ Implements
  <1>1. UNCHANGED <<hello, pc, to, table, lanes, adopting>>
    BY DEF OnCommand, tableVars
  <1>2. CASE st[s] = "pending"
    <2> DEFINE v == IF cmd = "refuse" THEN "CAPACITY" ELSE "GOING_AWAY"
    <2>1. v \in {"REJECTED", "CAPACITY", "GOING_AWAY"}
      OBVIOUS
    <2>2. Withdrawn(s) \/ RefusePending(s, v, v)
      BY <1>2 DEF OnCommand
    <2> HIDE DEF v
    <2> QED BY <1>1, <1>2, <2>1, <2>2, RefusePendingSteps
  <1>3. CASE st[s] = "open" /\ End(s) /\ UNCHANGED <<verdict, ans>>
    BY <1>1, <1>3, FinishSteps
  <1>4. CASE UNCHANGED <<st, verdict, ans>>
    BY <1>1, <1>4, TombsEnded, Settled
  <1> QED BY <1>2, <1>3, <1>4 DEF OnCommand

\* onAdoptLocked: a carrier the session counted is parked, confirmed or refused
LEMMA AdoptSteps ==
    ASSUME IInv, RInv, NEW s \in Carrier, NEW c \in Carrier, OnAdopt(s, c)
    PROVE  RInv' /\ Implements
  <1> DEFINE a == IF st[s] = "pending" THEN "none" ELSE IF st[s] = "open" THEN "OK"
                  ELSE IF hello[c].t = "OPEN" THEN OpenAck(s) ELSE "UNKNOWN"
  <1>1. /\ st[s] \in {"pending", "open", "ended"} /\ c \in adopting[s]
        /\ adopting' = [adopting EXCEPT ![s] = @ \ {c}]
        /\ UNCHANGED <<hello, pc, to, table, st, verdict>>
        /\ lanes' = lanes \/ lanes' = [lanes EXCEPT ![s] = @ \cup {c}]
    BY DEF OnAdopt, Runs, tableVars
  <1>2. to[c] = s /\ ans[c] = "none" /\ pc[c] \notin Before /\ RefType
    BY <1>1 DEF RInv, LaneInv
  <1>3. ans' = [ans EXCEPT ![c] = a]
    <2>1. ans = [ans EXCEPT ![c] = "none"]
      BY <1>2 DEF RefType
    <2> QED BY <1>1, <2>1, ZenonT(30) DEF OnAdopt
  <1>4. /\ a \in Verdicts \cup Alone \cup {"none"}
        /\ hello[c].t = "OPEN" => a = "none" \/ (verdict[s] # "none" /\ a = Said(s))
    <2>1. st[s] = "open" => verdict[s] = "OK" /\ Said(s) = "OK"
      BY DEF RInv, VerdictInv, Said, Over
    <2>2. st[s] = "ended" => verdict[s] # "none" /\ OpenAck(s) = Said(s) /\ OpenAck(s) \in Verdicts
      BY Repeats
    <2> QED BY <1>1, <2>1, <2>2 DEF Verdicts
  <1> HIDE DEF a
  <1>5. Implements
    <2>1. to' = [to EXCEPT ![c] = s] /\ to[c] \in {None, s}
      BY <1>1, <1>2, ZenonT(30) DEF RefType
    <2>2. Over' = Over
      BY <1>1, OverSame
    <2> QED BY <1>1, <1>2, <1>3, <1>4, <2>1, <2>2, Hands, ZenonT(30)
  <1>6. /\ \A t \in Carrier : ans'[t] = IF t = c THEN a ELSE ans[t]
        /\ \A t, d \in Carrier : /\ d \in adopting'[t] <=> d \in adopting[t] /\ ~ (t = s /\ d = c)
                                 /\ d \in lanes'[t] => d \in lanes[t] \/ (t = s /\ d = c)
    BY <1>1, <1>2, <1>3 DEF RefType
  <1>7. RefType'
    BY <1>1, <1>3, <1>4 DEF RInv, RefType
  <1>8. VerdictInv'
    BY <1>1, ZenonT(30) DEF RInv, VerdictInv
  <1>9. AskInv'
    <2>1. Asked \subseteq Before
      BY DEF Asked
    <2> QED BY <1>1, <1>2, <1>6, <2>1, ZenonT(30) DEF RInv, AskInv
  <1>10. LaneInv'
    <2> SUFFICES ASSUME NEW t \in Carrier, NEW d \in Carrier
                 PROVE  /\ d \in lanes'[t] => to'[d] = t /\ pc'[d] \notin Before
                        /\ d \in adopting'[t] => /\ to'[d] = t /\ ans'[d] = "none"
                                                 /\ pc'[d] \notin Before /\ d \notin lanes'[t]
      BY DEF LaneInv
    <2>1. CASE d = c
      <3>1. d \in adopting'[t] => t # s /\ to[c] = t
        BY <1>6, <2>1 DEF RInv, LaneInv
      <3>2. d \in lanes'[t] => t = s
        BY <1>2, <1>6, <2>1 DEF RInv, LaneInv
      <3> QED BY <1>1, <1>2, <2>1, <3>1, <3>2
    <2>2. CASE d # c
      <3>1. (d \in lanes'[t] => d \in lanes[t]) /\ (d \in adopting'[t] => d \in adopting[t]) /\ ans'[d] = ans[d]
        BY <1>6, <2>2
      <3> QED BY <1>1, <3>1 DEF RInv, LaneInv
    <2> QED BY <2>1, <2>2, ZenonT(30)
  <1> QED BY <1>5, <1>7, <1>8, <1>9, <1>10 DEF RInv

\* A carrier dies without an answer, or after it.
LEMMA DeathSteps ==
    ASSUME IInv, RInv, NEW s \in Carrier, NEW c \in Carrier, LaneDies(s, c)
    PROVE  RInv' /\ Implements
  <1>1. /\ c \in lanes[s] /\ lanes' = [lanes EXCEPT ![s] = @ \ {c}]
        /\ UNCHANGED <<hello, pc, to, table, st, verdict, adopting>>
        /\ ans' = IF ans[c] = "none" THEN [ans EXCEPT ![c] = "cut"] ELSE ans
    BY DEF LaneDies, tableVars
  <1>2. to[c] = s /\ pc[c] \notin Before /\ RefType
    BY <1>1 DEF RInv, LaneInv
  <1>3. Over' = Over
    BY <1>1, OverSame
  <1>4. Implements
    <2>1. CASE ans[c] = "none"
      BY <1>1, <1>2, <1>3, <2>1, Refuses, ZenonT(30) DEF Alone
    <2>2. CASE ans[c] # "none"
      BY <1>1, <1>3, <2>2, Stutters
    <2> QED BY <2>1, <2>2
  <1>5. RefType' /\ VerdictInv'
    BY <1>1 DEF RInv, RefType, VerdictInv, Alone
  <1>6. /\ \A d \in Carrier : d # c => ans'[d] = ans[d]
        /\ \A t, d \in Carrier : d \in lanes'[t] => d \in lanes[t]
    BY <1>1, <1>2 DEF RefType
  <1>7. AskInv'
    <2>1. Asked \subseteq Before
      BY DEF Asked
    <2> QED BY <1>1, <1>2, <1>6, <2>1 DEF RInv, AskInv
  <1>8. LaneInv'
    <2>1. \A t \in Carrier : c \notin adopting[t]
      BY <1>1, <1>2 DEF RInv, LaneInv
    <2> QED BY <1>1, <1>6, <2>1 DEF RInv, LaneInv
  <1> QED BY <1>4, <1>5, <1>7, <1>8 DEF RInv

-----------------------------------------------------------------------------
(* The theorem.                                                            *)

LEMMA NextImplements == IInv /\ RInv /\ [Next]_vars => RInv' /\ Implements
  <1> SUFFICES ASSUME IInv, RInv, [Next]_vars PROVE RInv' /\ Implements
    OBVIOUS
  <1>1. ASSUME NEW c \in Carrier, BeginHandshake(c) \/ HandshakeStep(c) \/ ProbeDone(c)
        PROVE  RInv' /\ Implements
    BY ZenonT(30), <1>1, EarlySteps, RoutingSteps, WinsInsert, LateSteps, AttachSteps, SessionlessSteps, SettledSteps,
       Zenon DEF HandshakeStep
  <1>2. ASSUME NEW s \in Carrier,
               ActorStep(s) \/ Confirm(s) \/ Reject(s) \/ Ends(s) \/ DialerWithdraws(s)
        PROVE  RInv' /\ Implements
    BY <1>2, SettledSteps, SessionSteps, CommandSteps, AdoptSteps, Zenon DEF ActorStep
  <1>3. ASSUME NEW s \in Carrier, NEW c \in Carrier, LaneDies(s, c) PROVE RInv' /\ Implements
    BY <1>3, DeathSteps, Zenon
  <1>4. CASE (\E k \in Key : Expire(k)) \/ Accept \/ ListenerClose \/ CloseBegins \/ CloseStep \/ UNCHANGED vars
    BY <1>4, OutsideSteps, Zenon
  <1> QED BY <1>1, <1>2, <1>3, <1>4, Zenon DEF Next

\* An OPEN is idempotent (L47): every carrier answered in a session's name hears the one
\* decision of that session (Verdict.OpenAck, AttachOpen, the tombstone), for all carriers,
\* plans and limits: Admission implements OpenOnce.
THEOREM OpenIsOnceHolds == Spec => OpenIsOnce
  <1>1. Init => Promise!Init
    <2> SUFFICES ASSUME Init PROVE Promise!Init
      OBVIOUS
    <2>1. Over = {} /\ To = [c \in Carrier |-> None] /\ Ans = [c \in Carrier |-> "none"]
      BY ZenonT(30) DEF Init, Over, To, Ans
    <2> QED BY <2>1 DEF Init, Promise!Init, Over, To, Ans
  <1>2. Spec => [](IInv /\ RInv)
    BY Invariance, InitRInv, NextImplements, PTL DEF Spec
  <1>3. IInv /\ RInv /\ [Next]_vars => [Promise!Next]_<<verdict, Over, To, Ans>>
    BY NextImplements DEF Implements
  <1>4. Spec => Promise!Init /\ [][Promise!Next]_<<verdict, Over, To, Ans>>
    BY <1>1, <1>2, <1>3, PTL DEF Spec
  <1> QED BY <1>4, PTL DEF OpenIsOnce, Promise!Spec, Over, To, Ans

-----------------------------------------------------------------------------
(* SlotsExact.  A unit is owned by a session with an entry or by an        *)
(* admission on its way to one; a backlog slot by a session in the pending *)
(* phase or by an admission that reserved it.                              *)

\* The sessions that own a unit, and the admissions that do
Owners == {s \in Carrier : Has(s)}
Counted == {"backlog", "insert"}
Reserving == {"insert", "bind"}

\* A session that holds a backlog slot has not left the pending phase.
SlotDue(s) == st[s] \in {"new", "pending"} \/ reg[s] # "none"

UnitInv ==
    /\ units \in Nat /\ units <= MaxSessions
    /\ units = Cardinality(Owners) + At(Counted)

SlotInv ==
    /\ reserved = At(Reserving) /\ slots \subseteq Carrier
    /\ reserved + Cardinality(slots) <= Backlog
    /\ \A s \in slots : SlotDue(s)

UInv == UnitInv /\ SlotInv

\* What counting the subsets of Carrier needs, which is finite (CountingHolds)
Counting ==
    /\ Cardinality({}) = 0
    /\ \A S \in SUBSET Carrier :
          /\ Cardinality(S) \in Nat
          /\ \A c \in Carrier \ S : Cardinality(S \cup {c}) = Cardinality(S) + 1
          /\ \A T \in SUBSET S : Cardinality(T) <= Cardinality(S)

LEMMA Counts ==
    ASSUME Counting, NEW S \in SUBSET Carrier
    PROVE  Cardinality(S) \in Nat
  BY Zenon DEF Counting

LEMMA Added ==
    ASSUME Counting, NEW S \in SUBSET Carrier, NEW T \in SUBSET Carrier, NEW c \in Carrier,
           c \notin S, T = S \cup {c}
    PROVE  Cardinality(T) = Cardinality(S) + 1
  BY Zenon DEF Counting

LEMMA CountsLess ==
    ASSUME Counting, NEW S \in SUBSET Carrier, NEW T \in SUBSET S
    PROVE  Cardinality(T) <= Cardinality(S)
  BY Zenon DEF Counting

\* One goroutine goes from one stage to another.
LEMMA AtMoves ==
    ASSUME Counting, NEW W, pc \in [Carrier -> PC], NEW c \in Carrier, NEW x, pc' = [pc EXCEPT ![c] = x]
    PROVE  /\ At(W) \in Nat /\ At(W)' \in Nat
           /\ (pc[c] \in W <=> x \in W) => At(W)' = At(W)
           /\ pc[c] \notin W /\ x \in W => At(W)' = At(W) + 1
           /\ pc[c] \in W /\ x \notin W => At(W) = At(W)' + 1
  <1> DEFINE A == {t \in Carrier : pc[t] \in W}
             B == {t \in Carrier : pc'[t] \in W}
  <1>1. At(W) = Cardinality(A) /\ At(W)' = Cardinality(B) /\ A \in SUBSET Carrier /\ B \in SUBSET Carrier
    BY DEF At
  <1>2. \A t \in Carrier : pc'[t] = IF t = c THEN x ELSE pc[t]
    OBVIOUS
  <1>3. (pc[c] \in W <=> x \in W) => A = B
    BY <1>2
  <1>4. pc[c] \notin W /\ x \in W => c \notin A /\ B = A \cup {c}
    BY <1>2
  <1>5. pc[c] \in W /\ x \notin W => c \notin B /\ A = B \cup {c}
    BY <1>2
  <1> HIDE DEF A, B
  <1>6. Cardinality(A) \in Nat /\ Cardinality(B) \in Nat
    BY <1>1, Counts
  <1>7. pc[c] \notin W /\ x \in W => Cardinality(B) = Cardinality(A) + 1
    BY <1>1, <1>4, Added
  <1>8. pc[c] \in W /\ x \notin W => Cardinality(A) = Cardinality(B) + 1
    BY <1>1, <1>5, Added
  <1> QED BY <1>1, <1>3, <1>6, <1>7, <1>8

LEMMA OwnersSame == (\A t \in Carrier : Has(t)' <=> Has(t)) => Owners' = Owners
  BY DEF Owners

-----------------------------------------------------------------------------
(* Every step preserves it.                                                *)

LEMMA InitUInv == Counting /\ Init => UInv
  <1> SUFFICES ASSUME Counting, Init PROVE UInv
    OBVIOUS
  <1>1. Owners = {} /\ \A W : "none" \notin W => {c \in Carrier : pc[c] \in W} = {}
    BY DEF Init, Owners, Has
  <1>2. At(Counted) = 0 /\ At(Reserving) = 0 /\ Cardinality(Owners) = 0
    BY <1>1, ZenonT(30) DEF Counting, At, Counted, Reserving
  <1> QED BY <1>2, ConstAssumption DEF Counting, Init, UInv, UnitInv, SlotInv

\* No unit and no slot changes hands.
LEMMA Keeps ==
    ASSUME UInv, UNCHANGED <<units, reserved, slots>>,
           At(Counted)' = At(Counted), At(Reserving)' = At(Reserving),
           \A t \in Carrier : (Has(t)' <=> Has(t)) /\ (SlotDue(t) => SlotDue(t)')
    PROVE  UInv'
  <1>1. Owners' = Owners
    BY OwnersSame
  <1>2. UnitInv'
    BY <1>1 DEF UInv, UnitInv
  <1>3. SlotInv'
    BY DEF UInv, SlotInv
  <1> QED BY <1>2, <1>3 DEF UInv

\* A step of a handshake goroutine between stages that own nothing
LEMMA WalksOn ==
    ASSUME Counting, IInv, UInv, NEW c \in Carrier, NEW x, pc' = [pc EXCEPT ![c] = x],
           {pc[c], x} \cap {"backlog", "insert", "bind"} = {},
           UNCHANGED <<units, reserved, slots, st, reg>>
    PROVE  UInv'
  <1>1. At(Counted)' = At(Counted) /\ At(Reserving)' = At(Reserving)
    <2>1. {pc[c], x} \cap (Counted \cup Reserving) = {}
      BY DEF Counted, Reserving
    <2>2. pc \in [Carrier -> PC]
      BY DEF IInv, TypeOK
    <2> QED BY <2>1, <2>2, AtMoves, ZenonT(30)
  <1>2. \A t \in Carrier : (Has(t)' <=> Has(t)) /\ (SlotDue(t) => SlotDue(t)')
    BY DEF Has, SlotDue
  <1> QED BY <1>1, <1>2, Keeps

LEMMA WalksUInv ==
    ASSUME Counting, IInv, UInv, NEW c \in Carrier,
           \/ BeginHandshake(c) \/ StartHandshake(c) \/ ReadHello(c) \/ Release(c) \/ AdmitView(c)
           \/ Lookup(c) \/ LateShutdown(c) \/ Enqueue(c) \/ Attach(c) \/ AdmitSessionless(c)
    PROVE  UInv'
  <1> USE WalksOn
  <1> USE DEF tableVars, lnVars, sessVars, Answer, Step
  <1>1. CASE StartHandshake(c)
    BY <1>1 DEF StartHandshake
  <1>2. CASE ReadHello(c)
    BY <1>2 DEF ReadHello
  <1>3. CASE Release(c)
    BY <1>3 DEF Release
  <1>4. CASE AdmitView(c)
    BY <1>4 DEF AdmitView
  <1>5. CASE Lookup(c)
    BY <1>5 DEF Lookup, Route, RepeatVerdict
  <1>6. CASE LateShutdown(c)
    BY <1>6, ZenonT(30) DEF LateShutdown
  <1>7. CASE Enqueue(c)
    BY <1>7, ZenonT(30) DEF Enqueue
  <1>8. CASE Attach(c)
    BY <1>8 DEF Attach
  <1>9. CASE AdmitSessionless(c)
    BY <1>9 DEF AdmitSessionless
  <1>10. CASE BeginHandshake(c)
    BY <1>10 DEF BeginHandshake
  <1> QED BY <1>1, <1>2, <1>3, <1>4, <1>5, <1>6, <1>7, <1>8, <1>9, <1>10

\* sessionTable.reserve and Listener.reserve
LEMMA ReserveUInv ==
    ASSUME Counting, IInv, UInv, NEW c \in Carrier, ReserveUnit(c) \/ ReserveSlot(c)
    PROVE  UInv'
  <1> USE DEF lnVars, sessVars, Answer, Step
  <1>0. pc \in [Carrier -> PC] /\ Cardinality(Owners) \in Nat /\ Cardinality(slots) \in Nat
    <2>1. Owners \subseteq Carrier /\ slots \subseteq Carrier
      BY DEF Owners, UInv, SlotInv
    <2> QED BY <2>1, Counts DEF IInv, TypeOK
  <1>1. UNCHANGED <<slots, st, reg>> /\ \E x : pc' = [pc EXCEPT ![c] = x]
    BY DEF ReserveUnit, ReserveSlot
  <1>2. PICK x : pc' = [pc EXCEPT ![c] = x]
    BY <1>1, ZenonT(30)
  <1>3. Owners' = Owners /\ \A s \in slots : SlotDue(s)'
    BY <1>1 DEF Owners, Has, SlotDue, UInv, SlotInv
  <1>4. pc[c] = "unit" \/ pc[c] = "backlog"
    BY DEF ReserveUnit, ReserveSlot
  <1>5. pc'[c] = x
    BY <1>0, <1>2
  <1>6. /\ At(Counted) \in Nat /\ At(Counted)' \in Nat /\ At(Reserving) \in Nat
        /\ (pc[c] \in Counted <=> x \in Counted) => At(Counted)' = At(Counted)
        /\ pc[c] \notin Counted /\ x \in Counted => At(Counted)' = At(Counted) + 1
        /\ pc[c] \in Counted /\ x \notin Counted => At(Counted) = At(Counted)' + 1
        /\ (pc[c] \in Reserving <=> x \in Reserving) => At(Reserving)' = At(Reserving)
        /\ pc[c] \notin Reserving /\ x \in Reserving => At(Reserving)' = At(Reserving) + 1
    BY <1>0, <1>2, AtMoves, ZenonT(30)
  <1>8. CASE ReserveUnit(c)
    <2>1. \/ x = "done" /\ units' = units
          \/ x = "backlog" /\ units' = units + 1 /\ ~ (units >= MaxSessions)
      BY <1>0, <1>5, <1>8 DEF ReserveUnit
    <2>2. pc[c] = "unit" /\ reserved' = reserved
      BY <1>8 DEF ReserveUnit
    <2>3. UnitInv'
      BY <1>0, <1>3, <1>6, <2>1, <2>2, ConstAssumption DEF UInv, UnitInv, Counted
    <2>4. SlotInv'
      BY <1>1, <1>3, <1>6, <2>1, <2>2 DEF UInv, SlotInv, Reserving
    <2> QED BY <2>3, <2>4 DEF UInv
  <1>9. CASE ReserveSlot(c)
    <2>1. \/ x = "done" /\ units' = units - 1 /\ reserved' = reserved
          \/ /\ x = "insert" /\ units' = units /\ reserved' = reserved + 1
             /\ ~ (Cardinality(slots) + reserved >= Backlog)
      BY <1>0, <1>5, <1>9 DEF ReserveSlot
    <2>2. pc[c] = "backlog"
      BY <1>9 DEF ReserveSlot
    <2>3. UnitInv'
      BY <1>0, <1>3, <1>6, <2>1, <2>2, ConstAssumption DEF UInv, UnitInv, Counted
    <2>4. SlotInv'
      BY <1>0, <1>1, <1>3, <1>6, <2>1, <2>2, ConstAssumption DEF UInv, SlotInv, Reserving
    <2> QED BY <2>3, <2>4 DEF UInv
  <1> QED BY <1>8, <1>9

\* NewPending and insertOrGet: the winner's unit passes to its session
LEMMA InsertUInv ==
    ASSUME Counting, IInv, UInv, NEW c \in Carrier, Insert(c)
    PROVE  UInv'
  <1> DEFINE k == hello[c].key
  <1>0. pc \in [Carrier -> PC] /\ Cardinality(Owners) \in Nat /\ Cardinality(slots) \in Nat
    <2>1. Owners \subseteq Carrier /\ slots \subseteq Carrier
      BY DEF Owners, UInv, SlotInv
    <2> QED BY <2>1, Counts DEF IInv, TypeOK
  <1>1. pc[c] = "insert" /\ UNCHANGED <<slots, reg>>
    BY DEF Insert
  <1>2. st[c] = "none" /\ reg[c] = "none"
    BY <1>1 DEF IInv, StageInv, Before, TypeOK
  <1>3. CASE table[k] # None
    <2>1. /\ units' = units - 1 /\ reserved' = reserved - 1 /\ st' = st
          /\ \E x \in {"done", "route"} : pc' = [pc EXCEPT ![c] = x]
      BY <1>3 DEF Insert, Route, RepeatVerdict, Answer, Step
    <2>2. PICK x \in {"done", "route"} : pc' = [pc EXCEPT ![c] = x]
      BY <2>1, ZenonT(30)
    <2>3. /\ At(Counted)' \in Nat /\ At(Counted) = At(Counted)' + 1
          /\ At(Reserving)' \in Nat /\ At(Reserving) = At(Reserving)' + 1
      <3>1. pc[c] \in Counted \cap Reserving /\ x \notin Counted \cup Reserving
        BY <1>1 DEF Counted, Reserving
      <3> QED BY <1>0, <2>2, <3>1, AtMoves, ZenonT(30)
    <2>4. Owners' = Owners /\ \A s \in slots : SlotDue(s)'
      BY <1>1, <2>1 DEF Owners, Has, SlotDue, UInv, SlotInv
    <2>6. UnitInv'
      BY <1>0, <2>1, <2>3, <2>4, ConstAssumption DEF UInv, UnitInv
    <2>7. SlotInv'
      BY <1>0, <1>1, <2>1, <2>3, <2>4, ConstAssumption DEF UInv, SlotInv
    <2> QED BY <2>6, <2>7 DEF UInv
  <1>4. CASE table[k] = None
    <2>1. UNCHANGED <<units, reserved>> /\ st' = [st EXCEPT ![c] = "new"] /\ pc' = [pc EXCEPT ![c] = "bind"]
      BY <1>4 DEF Insert, Step
    <2>2. /\ At(Counted)' \in Nat /\ At(Counted) = At(Counted)' + 1
          /\ At(Reserving)' = At(Reserving)
      <3>1. pc[c] \in Counted /\ "bind" \notin Counted /\ {pc[c], "bind"} \subseteq Reserving
        BY <1>1 DEF Counted, Reserving
      <3> QED BY <1>0, <2>1, <3>1, AtMoves, ZenonT(30)
    <2>3. \A t \in Carrier : st'[t] = IF t = c THEN "new" ELSE st[t]
      BY <2>1 DEF IInv, TypeOK
    <2>4. c \notin Owners /\ Owners' = Owners \cup {c}
      <3>1. ~ Has(c) /\ Has(c)' /\ \A t \in Carrier \ {c} : Has(t)' <=> Has(t)
        BY <1>1, <1>2, <2>3 DEF Has
      <3> QED BY <3>1 DEF Owners
    <2>5. Cardinality(Owners') = Cardinality(Owners) + 1
      <3>1. Owners \in SUBSET Carrier /\ Owners' \in SUBSET Carrier
        BY DEF Owners
      <3> QED BY <2>4, <3>1, Added
    <2>6. \A s \in slots : SlotDue(s)'
      BY <1>1, <2>3 DEF SlotDue, UInv, SlotInv
    <2>8. UnitInv'
      BY <1>0, <2>1, <2>2, <2>5 DEF UInv, UnitInv
    <2>9. SlotInv'
      BY <1>1, <2>1, <2>2, <2>6 DEF UInv, SlotInv
    <2> QED BY <2>8, <2>9 DEF UInv
  <1> QED BY <1>3, <1>4

\* Listener.bind: the reservation becomes the session's slot
LEMMA BindUInv ==
    ASSUME Counting, IInv, UInv, NEW c \in Carrier, Bind(c)
    PROVE  UInv'
  <1>1. /\ pc[c] = "bind" /\ pc' = [pc EXCEPT ![c] = "start"] /\ UNCHANGED <<units, st, reg>>
        /\ reserved' = reserved - 1 /\ slots' = slots \cup {c}
    BY DEF Bind, Step, tableVars, sessVars
  <1>2. /\ At(Counted)' = At(Counted)
        /\ At(Reserving)' \in Nat /\ At(Reserving) = At(Reserving)' + 1
    <2>1. {pc[c], "start"} \cap Counted = {} /\ pc[c] \in Reserving /\ "start" \notin Reserving
      BY <1>1 DEF Counted, Reserving
    <2>2. pc \in [Carrier -> PC]
      BY DEF IInv, TypeOK
    <2> QED BY <1>1, <2>1, <2>2, AtMoves, ZenonT(30)
  <1>3. slots \subseteq Carrier /\ \A s \in slots : SlotDue(s)
    BY DEF UInv, SlotInv
  <1>4. Cardinality(slots) \in Nat /\ Cardinality(slots') \in Nat /\ Cardinality(slots') <= Cardinality(slots) + 1
    <2>1. slots' = slots \/ (c \notin slots /\ slots' = slots \cup {c})
      BY <1>1
    <2>2. c \notin slots /\ slots' = slots \cup {c} => Cardinality(slots') = Cardinality(slots) + 1
      BY <1>3, Added
    <2>3. Cardinality(slots) \in Nat
      BY <1>3, Counts
    <2> QED BY <2>1, <2>2, <2>3
  <1>5. Owners' = Owners /\ \A s \in slots : SlotDue(s)'
    BY <1>1, <1>3 DEF Owners, Has, SlotDue
  <1>6. SlotDue(c)'
    BY <1>1 DEF SlotDue, IInv, StageInv
  <1>7. UnitInv'
    BY <1>1, <1>2, <1>5 DEF UInv, UnitInv
  <1>8. SlotInv'
    <2>1. slots' \subseteq Carrier /\ \A s \in slots' : SlotDue(s)'
      BY <1>1, <1>3, <1>5, <1>6
    <2>2. reserved' = At(Reserving)' /\ reserved' + Cardinality(slots') <= Backlog
      BY <1>1, <1>2, <1>4, ConstAssumption DEF UInv, SlotInv
    <2> QED BY <2>1, <2>2 DEF SlotInv
  <1> QED BY <1>7, <1>8 DEF UInv

LEMMA StartUInv ==
    ASSUME Counting, IInv, UInv, NEW c \in Carrier, Start(c)
    PROVE  UInv'
  <1>1. /\ pc[c] = "start" /\ pc' = [pc EXCEPT ![c] = "late"] /\ UNCHANGED <<units, reserved, slots, reg>>
        /\ st' = [st EXCEPT ![c] = "pending"]
    BY DEF Start, Step, tableVars, lnVars
  <1>2. st[c] = "new" /\ \A t \in Carrier : st'[t] = IF t = c THEN "pending" ELSE st[t]
    BY <1>1 DEF IInv, StageInv, TypeOK
  <1>3. At(Counted)' = At(Counted) /\ At(Reserving)' = At(Reserving)
    <2>1. {pc[c], "late"} \cap (Counted \cup Reserving) = {}
      BY <1>1 DEF Counted, Reserving
    <2>2. pc \in [Carrier -> PC]
      BY DEF IInv, TypeOK
    <2> QED BY <1>1, <2>1, <2>2, AtMoves, ZenonT(30)
  <1>4. \A t \in Carrier : (Has(t)' <=> Has(t)) /\ (SlotDue(t) => SlotDue(t)')
    BY <1>1, <1>2 DEF Has, SlotDue
  <1> QED BY <1>1, <1>3, <1>4, Keeps

\* A step of the actor of s that leaves the table alone, and may give the slot of s back
LEMMA ActsOn ==
    ASSUME Counting, IInv, UInv, NEW s \in Carrier, UNCHANGED <<units, reserved, pc>>,
           \A t \in Carrier \ {s} : st'[t] = st[t] /\ reg'[t] = reg[t],
           Has(s)' <=> Has(s),
           \/ slots' = slots /\ (SlotDue(s) => SlotDue(s)')
           \/ slots' = slots \ {s}
    PROVE  UInv'
  <1>1. At(Counted)' = At(Counted) /\ At(Reserving)' = At(Reserving)
    BY DEF At
  <1>2. \A t \in Carrier : Has(t)' <=> Has(t)
    BY DEF Has
  <1>3. \A t \in Carrier \ {s} : SlotDue(t)' <=> SlotDue(t)
    BY DEF SlotDue
  <1>4. UnitInv'
    <2>1. Owners' = Owners
      BY <1>2, OwnersSame
    <2> QED BY <1>1, <2>1 DEF UInv, UnitInv
  <1>5. SlotInv'
    <2>1. slots \in SUBSET Carrier /\ slots' \in SUBSET Carrier /\ slots' \subseteq slots
      BY DEF UInv, SlotInv
    <2>2. Cardinality(slots') <= Cardinality(slots)
      BY <2>1, CountsLess
    <2>3. Cardinality(slots) \in Nat /\ Cardinality(slots') \in Nat
      BY <2>1, Counts
    <2>4. reserved \in Nat
      <3>1. {c \in Carrier : pc[c] \in Reserving} \in SUBSET Carrier
        OBVIOUS
      <3> QED BY <3>1, Counts DEF UInv, SlotInv, At
    <2>5. reserved' + Cardinality(slots') <= Backlog
      BY <2>2, <2>3, <2>4, ConstAssumption DEF UInv, SlotInv
    <2>6. \A t \in slots' : SlotDue(t)'
      BY <1>3, <2>1 DEF UInv, SlotInv
    <2> QED BY <1>1, <2>1, <2>5, <2>6 DEF UInv, SlotInv
  <1> QED BY <1>4, <1>5 DEF UInv

LEMMA ActorUInv ==
    ASSUME Counting, IInv, UInv, NEW s \in Carrier,
           \/ NoteEnded(s) \/ LeavePending(s) \/ Exit(s) \/ PendingDue(s)
           \/ Confirm(s) \/ Reject(s) \/ Ends(s)
           \/ \E cmd \in {"refuse", "away", "shutdown"} : OnCommand(s, cmd)
    PROVE  UInv'
  <1> USE DEF hsVars, tableVars, lnVars
  <1>0. /\ st \in [Carrier -> State]
        /\ reg \in [Carrier -> {"none", "opened", "note", "tomb", "leave"}]
    BY DEF IInv, TypeOK
  <1>1. UNCHANGED <<units, reserved, pc>>
    BY ZenonT(30) DEF NoteEnded, LeavePending, Exit, PendingDue, Confirm, Reject, Ends, OnCommand
  <1>2. /\ reg[s] = "opened" => st[s] = "open"
        /\ reg[s] \in {"note", "tomb", "leave"} => st[s] = "ended"
    BY ZenonT(30) DEF IInv, StageInv
  <1>3. CASE NoteEnded(s)
    <2>1. /\ slots' = slots /\ st' = st /\ reg[s] = "note" /\ reg'[s] = "tomb"
          /\ \A t \in Carrier \ {s} : reg'[t] = reg[t]
      BY <1>0, <1>3 DEF NoteEnded
    <2> QED BY <1>1, <2>1, ActsOn, ZenonT(30) DEF Has, SlotDue
  <1>4. CASE LeavePending(s)
    <2>1. /\ slots' = slots \ {s} /\ st' = st /\ reg[s] \in {"opened", "leave"} /\ reg'[s] = "none"
          /\ \A t \in Carrier \ {s} : reg'[t] = reg[t]
      BY <1>0, <1>4 DEF LeavePending
    <2> QED BY <1>1, <2>1, ActsOn, ZenonT(30) DEF Has
  <1>5. CASE Exit(s)
    <2>1. /\ slots' = slots /\ reg' = reg /\ reg[s] = "none" /\ st[s] = "ended" /\ st'[s] = "exited"
          /\ \A t \in Carrier \ {s} : st'[t] = st[t]
      BY <1>0, <1>5, ZenonT(30) DEF Exit, Runs
    <2> QED BY <1>1, <2>1, ActsOn, ZenonT(30) DEF Has, SlotDue
  <1>6. CASE slots' = slots /\ st[s] \in {"pending", "open"} /\ End(s)
    <2>1. /\ slots' = slots /\ st[s] \in {"pending", "open"} /\ st'[s] = "ended" /\ reg'[s] = "note"
          /\ \A t \in Carrier \ {s} : st'[t] = st[t] /\ reg'[t] = reg[t]
      BY <1>0, <1>6 DEF End
    <2> QED BY <1>1, <2>1, ActsOn, ZenonT(30) DEF Has, SlotDue
  <1>7. CASE slots' = slots /\ UNCHANGED <<st, reg>>
    BY <1>1, <1>7, ActsOn, ZenonT(30) DEF Has, SlotDue
  <1>8. CASE PendingDue(s) \/ Reject(s) \/ Ends(s)
    <2>1. CASE PendingDue(s)
      BY <1>6, <2>1, Zenon DEF PendingDue, Withdrawn, RefusePending
    <2>2. CASE Reject(s)
      BY <1>6, <2>2, Zenon DEF Reject, Withdrawn, RefusePending
    <2>3. CASE Ends(s)
      BY <1>6, <2>3, Zenon DEF Ends
    <2> QED BY <1>8, <2>1, <2>2, <2>3
  <1>9. CASE Confirm(s)
    <2>1. CASE st' = [st EXCEPT ![s] = "open"] /\ reg' = [reg EXCEPT ![s] = "opened"]
      <3>1. /\ slots' = slots /\ st[s] = "pending" /\ st'[s] = "open" /\ reg'[s] = "opened"
            /\ \A t \in Carrier \ {s} : st'[t] = st[t] /\ reg'[t] = reg[t]
        BY <1>0, <1>9, <2>1 DEF Confirm
      <3>2. (Has(s)' <=> Has(s)) /\ SlotDue(s)'
        BY <3>1 DEF Has, SlotDue
      <3> QED BY <1>1, <3>1, <3>2, ActsOn
    <2> QED BY <1>6, <1>9, <2>1 DEF Confirm, Withdrawn, RefusePending
  <1>10. ASSUME NEW cmd \in {"refuse", "away", "shutdown"}, OnCommand(s, cmd) PROVE UInv'
    BY <1>6, <1>7, <1>10 DEF OnCommand, Withdrawn, RefusePending
  <1> QED BY <1>3, <1>4, <1>5, <1>8, <1>9, <1>10

\* sessionTable.ended frees the unit
LEMMA TableEndedUInv ==
    ASSUME Counting, IInv, UInv, NEW s \in Carrier, TableEnded(s)
    PROVE  UInv'
  <1>1. /\ reg[s] = "tomb" /\ reg' = [reg EXCEPT ![s] = "leave"] /\ units' = units - 1
        /\ UNCHANGED <<pc, st, reserved, slots>>
    BY ZenonT(30) DEF TableEnded, hsVars, lnVars
  <1>2. st[s] = "ended" /\ \A t \in Carrier : reg'[t] = IF t = s THEN "leave" ELSE reg[t]
    BY <1>1 DEF IInv, StageInv, TypeOK
  <1>3. At(Counted)' = At(Counted) /\ At(Reserving)' = At(Reserving)
    BY <1>1 DEF At
  <1>4. ~ Has(s)' /\ Has(s) /\ \A t \in Carrier \ {s} : Has(t)' <=> Has(t)
    BY <1>1, <1>2 DEF Has
  <1>5. s \notin Owners' /\ Owners = Owners' \cup {s} /\ Owners \in SUBSET Carrier /\ Owners' \in SUBSET Carrier
    BY <1>4 DEF Owners
  <1>6. Cardinality(Owners) = Cardinality(Owners') + 1 /\ Cardinality(Owners') \in Nat
    BY <1>5, Added, Counts
  <1>7. At(Counted) \in Nat
    <2>1. {c \in Carrier : pc[c] \in Counted} \in SUBSET Carrier
      OBVIOUS
    <2> QED BY <2>1, Counts DEF At
  <1>8. UnitInv'
    BY <1>1, <1>3, <1>6, <1>7, ConstAssumption DEF UInv, UnitInv
  <1>9. SlotInv'
    <2>1. \A t \in slots : SlotDue(t)'
      BY <1>1, <1>2 DEF UInv, SlotInv, SlotDue
    <2> QED BY <1>1, <1>3, <2>1 DEF UInv, SlotInv
  <1> QED BY <1>8, <1>9 DEF UInv

\* Steps that touch neither goroutines nor sessions' stages
LEMMA StillUInv ==
    ASSUME UInv, UNCHANGED <<units, reserved, slots, pc, st, reg>>
    PROVE  UInv'
  BY DEF UInv, UnitInv, SlotInv, Owners, At, Has, SlotDue

-----------------------------------------------------------------------------
(* The theorem.                                                            *)

LEMMA NextUInv == Counting /\ IInv /\ UInv /\ [Next]_vars => UInv'
  <1> SUFFICES ASSUME Counting, IInv, UInv, [Next]_vars PROVE UInv'
    OBVIOUS
  <1> USE DEF hsVars, tableVars, lnVars, sessVars
  <1>1. CASE UNCHANGED vars
    BY <1>1, StillUInv DEF vars
  <1>2. ASSUME NEW c \in Carrier, BeginHandshake(c) \/ HandshakeStep(c) PROVE UInv'
    BY <1>2, WalksUInv, ReserveUInv, InsertUInv, BindUInv, StartUInv, Zenon DEF HandshakeStep
  <1>3. ASSUME NEW c \in Carrier, ProbeDone(c) PROVE UInv'
    BY <1>3, StillUInv DEF ProbeDone
  <1>4. ASSUME NEW s \in Carrier, NEW c \in Carrier, OnAdopt(s, c) PROVE UInv'
    BY <1>4, StillUInv DEF OnAdopt
  <1>5. ASSUME NEW s \in Carrier, DialerWithdraws(s) PROVE UInv'
    BY <1>5, StillUInv DEF DialerWithdraws
  <1>6. ASSUME NEW s \in Carrier, ActorStep(s) \/ Confirm(s) \/ Reject(s) \/ Ends(s) PROVE UInv'
    BY <1>4, <1>6, ActorUInv, TableEndedUInv, Zenon DEF ActorStep
  <1>7. ASSUME NEW s \in Carrier, NEW c \in Carrier, LaneDies(s, c) PROVE UInv'
    BY <1>7, StillUInv DEF LaneDies
  <1>8. ASSUME NEW k \in Key, Expire(k) PROVE UInv'
    BY <1>8, StillUInv DEF Expire
  <1>9. CASE Accept
    BY <1>9, StillUInv DEF Accept
  <1>10. CASE ListenerClose
    BY <1>10, StillUInv DEF ListenerClose
  <1>11. CASE CloseBegins
    BY <1>11, StillUInv DEF CloseBegins
  <1>12. CASE CloseStep
    BY <1>12, StillUInv DEF CloseStep, CloseShuts, CloseTells, CloseDrains, CloseJoins, CloseReturns
  <1> QED
    BY <1>1, <1>2, <1>3, <1>5, <1>6, <1>7, <1>8, <1>9, <1>10, <1>11, <1>12, Zenon DEF Next

LEMMA SlotsFollow == IInv /\ UInv => SlotsExact
  <1> SUFFICES ASSUME IInv, UInv PROVE SlotsExact
    OBVIOUS
  <1>1. LiveSessions = Owners
    BY LiveHas DEF Owners
  <1>2. \A s \in Carrier : st[s] \in {"open", "ended", "exited"} /\ reg[s] = "none" => s \notin slots
    BY DEF UInv, SlotInv, SlotDue
  <1>3. \A s \in Carrier : st[s] \in {"new", "pending"} => table[hello[s].key] = [s |-> s, tomb |-> FALSE]
    BY DEF IInv, EntryInv, Has
  <1> QED BY <1>1, <1>2, <1>3, ZenonT(30) DEF UInv, UnitInv, SlotInv, SlotsExact, Counted, Reserving

\* Carrier is finite.
LOCAL FST == INSTANCE FiniteSetTheorems

LEMMA SameCount ==
    ASSUME NEW S
    PROVE  (IsFiniteSet(S) <=> FST!IsFiniteSet(S)) /\ Cardinality(S) = FST!Cardinality(S)
  BY DEF IsFiniteSet, Cardinality, FST!IsFiniteSet, FST!Cardinality

LEMMA CountingHolds == Counting
  <1>1. \A S \in SUBSET Carrier : IsFiniteSet(S) /\ Cardinality(S) \in Nat
    BY ConstAssumption, SameCount, FST!FS_Subset, FST!FS_CardinalityType
  <1>2. \A S \in SUBSET Carrier : \A c \in Carrier \ S : Cardinality(S \cup {c}) = Cardinality(S) + 1
    BY <1>1, SameCount, FST!FS_AddElement
  <1>3. \A S \in SUBSET Carrier : \A T \in SUBSET S : Cardinality(T) <= Cardinality(S)
    BY <1>1, SameCount, FST!FS_Subset
  <1>4. Cardinality({}) = 0
    BY SameCount, FST!FS_EmptySet
  <1> QED BY <1>1, <1>2, <1>3, <1>4, Zenon DEF Counting

\* MaxSessions units and backlog slots are exact at every moment (reserve, insertOrGet,
\* bind, leavePending, ended): for all carriers, plans and limits.
THEOREM SlotsExactHolds == Spec => []SlotsExact
  <1>1. Init => UInv
    BY InitUInv, CountingHolds
  <1>2. IInv /\ UInv /\ [Next]_vars => UInv'
    BY NextUInv, CountingHolds
  <1>3. Spec => []UInv
    BY <1>1, <1>2, Invariance, PTL DEF Spec
  <1> QED BY <1>3, SlotsFollow, Invariance, PTL
=============================================================================
