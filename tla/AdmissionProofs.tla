-------------------------- MODULE AdmissionProofs --------------------------
(***************************************************************************)
(* The inductive invariant of Admission, and what it shows for every set   *)
(* of carriers, keys and plans and every limit: Runtime.Close misses no    *)
(* session.  AdmissionRefines builds on it.                                *)
(***************************************************************************)
EXTENDS Admission, TLAPS

-----------------------------------------------------------------------------
(* The inductive invariant: where sessions are, and what Close knows.      *)

\* The handshake goroutine has created no session.
Before == {"none", "begun", "hello", "release", "failed", "ping", "view", "lookup", "unit",
           "backlog", "insert", "route"}
PC == Before \cup {"bind", "start", "late", "enqueue", "done"}
State == {"none", "new", "pending", "open", "ended", "exited"}
Entry == [s : Carrier, tomb : BOOLEAN]
Told == {"shut", "told", "drained", "joined", "closed"}
Cmds == {"rst", "refuse", "away", "shutdown"}

TypeOK ==
    /\ hello \in [Carrier -> Hello]
    /\ pc \in [Carrier -> PC] /\ st \in [Carrier -> State]
    /\ reg \in [Carrier -> {"none", "opened", "note", "tomb", "leave"}]
    /\ table \in [Key -> Entry \cup {None}] /\ tombs \in Seq(Key)
    /\ posted \in [Carrier -> SUBSET Cmds]
    /\ draining \subseteq Carrier /\ join \subseteq Carrier
    /\ lnClosed \in BOOLEAN /\ rc \in {"run", "closing"} \cup Told

\* The goroutine, the session and the Registry call that is due
StageInv ==
    \A s \in Carrier :
        /\ pc[s] \in Before => st[s] = "none"
        /\ st[s] = "new" <=> pc[s] \in {"bind", "start"}
        /\ reg[s] = "opened" => st[s] = "open"
        /\ reg[s] \in {"note", "tomb", "leave"} => st[s] = "ended"

\* The session has its entry of the table, and its unit.
Has(s) == st[s] \in {"new", "pending", "open"} \/ reg[s] \in {"note", "tomb"}

EntryInv ==
    /\ \A s \in Carrier : Has(s) => table[hello[s].key] = [s |-> s, tomb |-> FALSE]
    /\ \A k \in Key : Live(k) => Has(table[k].s) /\ hello[table[k].s].key = k

\* The index of the tombstones holds each once, and nothing else.
TombInv ==
    /\ \A i \in DOMAIN tombs : table[tombs[i]] # None /\ table[tombs[i]].tomb
    /\ \A i, j \in DOMAIN tombs : tombs[i] = tombs[j] => i = j

\* An ended session is in the table, or was recorded before it left it.
DrainInv ==
    \A s \in Carrier : /\ st[s] \in {"ended", "exited"} => Has(s) \/ s \in draining
                       /\ reg[s] = "tomb" => s \in draining

\* What Runtime.Close has reached holds of every session.
CloseInv ==
    /\ rc \in Told => lnClosed
    /\ rc \in Told \ {"shut"} =>
         \A s \in Carrier : st[s] \in {"new", "pending", "open"} =>
             "shutdown" \in posted[s] \/ pc[s] \in {"bind", "start", "late"}
    /\ rc \in {"joined", "closed"} =>
         \A c \in Carrier : Unheld(c) /\ (st[c] # "none" => c \in join)
    /\ rc = "closed" => \A s \in join : st[s] = "exited"

IInv == TypeOK /\ StageInv /\ EntryInv /\ TombInv /\ DrainInv /\ CloseInv

-----------------------------------------------------------------------------
(* Every step preserves it.                                                *)

LEMMA EntryIsSome == \A t \in Carrier, b \in BOOLEAN : [s |-> t, tomb |-> b] # None
  BY ConstAssumption

LEMMA InitIInv == Init => IInv
  <1> SUFFICES ASSUME Init PROVE IInv
    OBVIOUS
  <1>1. TypeOK
    <2>1. PICK p \in Plans : hello = p.hello
      BY DEF Init
    <2>2. hello \in [Carrier -> Hello]
      BY <2>1, ConstAssumption
    <2>3. /\ pc \in [Carrier -> PC] /\ st \in [Carrier -> State]
          /\ reg \in [Carrier -> {"none", "opened", "note", "tomb", "leave"}]
      BY DEF Init, PC, Before, State
    <2>4. table \in [Key -> Entry \cup {None}] /\ tombs \in Seq(Key)
      BY DEF Init
    <2>5. posted \in [Carrier -> SUBSET Cmds] /\ draining \subseteq Carrier /\ join \subseteq Carrier
      BY DEF Init
    <2> QED BY <2>2, <2>3, <2>4, <2>5, ZenonT(30) DEF Init, TypeOK
  <1>2. StageInv /\ CloseInv
    BY DEF Init, StageInv, CloseInv, Told
  <1>3. EntryInv /\ TombInv /\ DrainInv
    BY DEF Init, EntryInv, TombInv, DrainInv, Has, Live
  <1> QED BY <1>1, <1>2, <1>3 DEF IInv

\* A step of a handshake goroutine that creates no session
LEMMA GoesOn ==
    ASSUME IInv, NEW c \in Carrier, NEW x \in Before \cup {"done"},
           pc[c] \in Before, pc' = [pc EXCEPT ![c] = x],
           UNCHANGED <<hello, st, reg, table, tombs, posted, draining, join, lnClosed, rc>>,
           rc \in {"joined", "closed"} => x = "done"
    PROVE  IInv'
  <1> USE DEF IInv
  <1>1. TypeOK'
    BY DEF TypeOK, PC
  <1>2. \A t \in Carrier : pc'[t] = IF t = c THEN x ELSE pc[t]
    BY DEF TypeOK
  <1>3. StageInv'
    BY <1>2 DEF StageInv, Before
  <1>4. EntryInv' /\ TombInv' /\ DrainInv'
    BY DEF EntryInv, TombInv, DrainInv, Has, Live
  <1>5. CloseInv'
    BY <1>2 DEF CloseInv, StageInv, Unheld, Told
  <1> QED BY <1>1, <1>3, <1>4, <1>5

\* A step that neither the goroutines' nor the sessions' stages take part in; no
\* command is lost.
LEMMA StandsStill ==
    ASSUME IInv, UNCHANGED <<hello, pc, st, reg, table, tombs, draining, join, lnClosed, rc>>,
           posted' \in [Carrier -> SUBSET Cmds],
           \A s \in Carrier : st[s] \in {"new", "pending", "open"} /\ "shutdown" \in posted[s]
                                => "shutdown" \in posted'[s]
    PROVE  IInv'
  <1> USE DEF IInv
  <1>1. TypeOK'
    BY DEF TypeOK
  <1>2. StageInv' /\ EntryInv' /\ TombInv' /\ DrainInv'
    BY DEF StageInv, EntryInv, TombInv, DrainInv, Has, Live
  <1>3. CloseInv'
    BY DEF CloseInv, Unheld
  <1> QED BY <1>1, <1>2, <1>3

\* A step of a session's actor that leaves the table alone
LEMMA Acts ==
    ASSUME IInv, NEW s \in Carrier, st[s] \in {"pending", "open", "ended"},
           NEW z \in {"pending", "open", "ended", "exited"},
           NEW r \in {"none", "opened", "note", "tomb", "leave"},
           st' = [st EXCEPT ![s] = z], reg' = [reg EXCEPT ![s] = r],
           UNCHANGED <<hello, pc, table, tombs, join, lnClosed, rc>>,
           draining' \subseteq Carrier, draining \subseteq draining',
           posted' \in [Carrier -> SUBSET Cmds],
           \A t \in Carrier \ {s} : posted'[t] = posted[t],
           z \in {"pending", "open"} => /\ st[s] \in {"pending", "open"}
                                        /\ "shutdown" \in posted[s] => "shutdown" \in posted'[s],
           r = "opened" => z = "open", r \in {"note", "tomb", "leave"} => z = "ended",
           z \in {"pending", "open"} \/ r \in {"note", "tomb"} <=> Has(s),
           z \in {"ended", "exited"} => r \in {"note", "tomb"} \/ s \in draining',
           r = "tomb" => s \in draining'
    PROVE  IInv'
  <1> USE DEF IInv
  <1>1. TypeOK'
    BY ZenonT(30) DEF TypeOK, State
  <1>2. \A t \in Carrier : /\ st'[t] = IF t = s THEN z ELSE st[t]
                           /\ reg'[t] = IF t = s THEN r ELSE reg[t]
    BY DEF TypeOK
  <1>3. StageInv'
    BY <1>2 DEF StageInv, Before
  <1>4. \A t \in Carrier : Has(t)' <=> Has(t)
    BY <1>2 DEF Has
  <1>5. EntryInv'
    <2>1. \A k \in Key : Live(k) => table[k].s \in Carrier
      BY ConstAssumption DEF TypeOK, Live, Entry
    <2> QED BY <1>4, <2>1 DEF EntryInv, Live
  <1>6. TombInv'
    BY DEF TombInv
  <1>7. DrainInv'
    <2> SUFFICES ASSUME NEW t \in Carrier
                 PROVE  /\ st'[t] \in {"ended", "exited"} => Has(t)' \/ t \in draining'
                        /\ reg'[t] = "tomb" => t \in draining'
      BY DEF DrainInv
    <2>1. CASE t = s
      BY <1>2, <2>1 DEF Has
    <2>2. CASE t # s
      BY <1>2, <1>4, <2>2 DEF DrainInv
    <2> QED BY <2>1, <2>2
  <1>8. CloseInv'
    BY <1>2 DEF CloseInv, Unheld
  <1> QED BY <1>1, <1>3, <1>5, <1>6, <1>7, <1>8

\* A session that has its entry ends: its Registry call is due.
LEMMA EndsIInv ==
    ASSUME IInv, NEW s \in Carrier, st[s] \in {"pending", "open"}, End(s),
           UNCHANGED <<hello, pc, table, tombs, draining, join, lnClosed, rc>>,
           posted' \in [Carrier -> SUBSET Cmds],
           \A t \in Carrier \ {s} : posted'[t] = posted[t]
    PROVE  IInv'
  <1>1. draining' \subseteq Carrier /\ Has(s)
    BY DEF IInv, TypeOK, Has
  <1> QED BY <1>1, Acts, ZenonT(30) DEF End

\* A step of a handshake that was begun, and creates no session
LEMMA Walks ==
    ASSUME IInv, NEW c \in Carrier, pc[c] \in Before \ {"none"},
           \E x \in Before \cup {"done"} : Step(c, x),
           UNCHANGED <<hello, st, reg, table, tombs, posted, draining, join, lnClosed, rc>>
    PROVE  IInv'
  <1>1. PICK x \in Before \cup {"done"} : pc' = [pc EXCEPT ![c] = x]
    BY ZenonT(30) DEF Step
  <1>2. rc \notin {"joined", "closed"}
    BY DEF IInv, CloseInv, Unheld, Before
  <1> QED BY <1>1, <1>2, GoesOn, ZenonT(30)

LEMMA BeginIInv ==
    ASSUME IInv, NEW c \in Carrier, BeginHandshake(c)
    PROVE  IInv'
  <1> DEFINE x == IF lnClosed THEN "done" ELSE "begun"
  <1>1. pc' = [pc EXCEPT ![c] = x] /\ pc[c] = "none"
    BY DEF BeginHandshake, Answer, Step
  <1>2. UNCHANGED <<hello, st, reg, table, tombs, posted, draining, join, lnClosed, rc>>
    BY DEF BeginHandshake, tableVars, lnVars, sessVars, closeVars
  <1>3. rc \in {"joined", "closed"} => x = "done"
    BY DEF IInv, CloseInv, Told
  <1>4. x \in Before \cup {"done"} /\ pc[c] \in Before
    BY <1>1 DEF Before
  <1> HIDE DEF x
  <1> QED BY <1>1, <1>2, <1>3, <1>4, GoesOn, ZenonT(30)

LEMMA WalksIInv ==
    ASSUME IInv, NEW c \in Carrier,
           \/ StartHandshake(c) \/ ReadHello(c) \/ Release(c) \/ AdmitView(c) \/ Lookup(c)
           \/ ReserveUnit(c) \/ ReserveSlot(c) \/ Attach(c) \/ AdmitSessionless(c)
    PROVE  IInv'
  <1> USE Walks
  <1> USE DEF tableVars, lnVars, sessVars, closeVars, Answer, Before
  <1>1. CASE StartHandshake(c)
    BY <1>1 DEF StartHandshake
  <1>2. CASE ReadHello(c)
    BY <1>2 DEF ReadHello
  <1>3. CASE Release(c)
    BY <1>3 DEF Release
  <1>4. CASE AdmitView(c)
    BY <1>4 DEF AdmitView
  <1>5. CASE Lookup(c)
    BY <1>5 DEF Lookup, Route, RepeatVerdict
  <1>6. CASE ReserveUnit(c)
    BY <1>6 DEF ReserveUnit
  <1>7. CASE ReserveSlot(c)
    BY <1>7 DEF ReserveSlot
  <1>8. CASE Attach(c)
    BY <1>8 DEF Attach
  <1>9. CASE AdmitSessionless(c)
    BY <1>9 DEF AdmitSessionless
  <1> QED BY <1>1, <1>2, <1>3, <1>4, <1>5, <1>6, <1>7, <1>8, <1>9

\* NewPending and insertOrGet: the winner has its session in the table at once.
LEMMA InsertIInv ==
    ASSUME IInv, NEW c \in Carrier, Insert(c)
    PROVE  IInv'
  <1> DEFINE k == hello[c].key
  <1>1. pc[c] = "insert" /\ UNCHANGED <<hello, tombs, lnClosed, posted, reg, rc, draining, join>>
    BY DEF Insert, closeVars
  <1>2. CASE table[k] # None
    <2>1. UNCHANGED <<table, st>> /\ \E x \in Before \cup {"done"} : Step(c, x)
      BY <1>2 DEF Insert, Route, RepeatVerdict, Answer, Before
    <2> QED BY <1>1, <2>1, Walks DEF Before
  <1>3. CASE table[k] = None
    <2>1. /\ table' = [table EXCEPT ![k] = [s |-> c, tomb |-> FALSE]]
          /\ st' = [st EXCEPT ![c] = "new"] /\ pc' = [pc EXCEPT ![c] = "bind"]
      BY <1>3 DEF Insert, Step
    <2>2. k \in Key
      BY DEF IInv, TypeOK, Hello
    <2> USE DEF IInv
    <2>3. TypeOK'
      BY <1>1, <2>1, <2>2 DEF TypeOK, PC, State, Entry
    <2>4. \A t \in Carrier : /\ st'[t] = IF t = c THEN "new" ELSE st[t]
                             /\ pc'[t] = IF t = c THEN "bind" ELSE pc[t]
      BY <2>1 DEF TypeOK
    <2>5. \A i \in Key : table'[i] = IF i = k THEN [s |-> c, tomb |-> FALSE] ELSE table[i]
      BY <2>1 DEF TypeOK
    <2>6. st[c] = "none" /\ reg[c] = "none"
      BY <1>1 DEF StageInv, Before, TypeOK
    <2>7. StageInv'
      BY <1>1, <2>4, <2>6 DEF StageInv, Before
    <2>8. ~ Has(c) /\ Has(c)' /\ \A t \in Carrier \ {c} : Has(t)' <=> Has(t)
      BY <1>1, <2>4, <2>6 DEF Has
    <2>9. EntryInv'
      <3>1. \A t \in Carrier : Has(t)' => table'[hello'[t].key] = [s |-> t, tomb |-> FALSE]
        <4> SUFFICES ASSUME NEW t \in Carrier, Has(t)'
                     PROVE  table'[hello'[t].key] = [s |-> t, tomb |-> FALSE]
          OBVIOUS
        <4>1. CASE t = c
          BY <1>1, <2>2, <2>5, <4>1, ZenonT(30)
        <4>2. CASE t # c
          <5>1. Has(t) /\ hello[t].key \in Key
            BY <2>8, <4>2 DEF TypeOK, Hello
          <5>2. table[hello[t].key] = [s |-> t, tomb |-> FALSE]
            BY <5>1 DEF EntryInv
          <5>3. hello[t].key # k
            BY <1>3, <5>2, EntryIsSome, ZenonT(30)
          <5> QED BY <1>1, <2>5, <5>1, <5>2, <5>3
        <4> QED BY <4>1, <4>2
      <3>2. \A i \in Key : Live(i)' => (Has(table[i].s) /\ hello[table[i].s].key = i)'
        <4> SUFFICES ASSUME NEW i \in Key, Live(i)'
                     PROVE  (Has(table[i].s) /\ hello[table[i].s].key = i)'
          OBVIOUS
        <4>1. CASE i = k
          <5>1. table'[i].s = c
            BY <2>5, <4>1
          <5> QED BY <1>1, <2>4, <4>1, <5>1 DEF Has
        <4>2. CASE i # k
          <5>1. table'[i] = table[i] /\ Live(i)
            BY <2>5, <4>2 DEF Live
          <5>2. table[i].s \in Carrier /\ Has(table[i].s) /\ hello[table[i].s].key = i
            BY <5>1, ConstAssumption DEF TypeOK, Live, Entry, EntryInv
          <5>3. table[i].s # c
            BY <2>8, <5>2
          <5> QED BY <1>1, <2>4, <5>1, <5>2, <5>3 DEF Has
        <4> QED BY <4>1, <4>2
      <3> QED BY <3>1, <3>2 DEF EntryInv
    <2>10. TombInv'
      <3>1. \A i \in DOMAIN tombs : tombs[i] \in Key
        BY DEF TypeOK
      <3>2. \A i \in DOMAIN tombs : tombs[i] # k
        BY <1>3 DEF TombInv
      <3> QED BY <1>1, <2>5, <3>1, <3>2 DEF TombInv
    <2>11. DrainInv'
      BY <1>1, <2>4, <2>8 DEF DrainInv
    <2>12. CloseInv'
      BY <1>1, <2>4 DEF CloseInv, Unheld, Told
    <2> QED BY <2>3, <2>7, <2>9, <2>10, <2>11, <2>12
  <1> QED BY <1>2, <1>3

\* The goroutine of a session that is in the table, up to its end
LEMMA Proceeds ==
    ASSUME IInv, NEW c \in Carrier, pc[c] \in {"bind", "start", "late", "enqueue"},
           NEW y \in {"start", "late", "enqueue", "done"}, NEW z \in State,
           pc' = [pc EXCEPT ![c] = y], st' = [st EXCEPT ![c] = z],
           z = st[c] \/ (st[c] = "new" /\ z = "pending"), z = "new" <=> y = "start",
           UNCHANGED <<hello, reg, table, tombs, draining, join, lnClosed, rc>>,
           posted' \in [Carrier -> SUBSET Cmds],
           \A t \in Carrier : posted[t] \subseteq posted'[t],
           rc \in Told => "shutdown" \in posted'[c] \/ pc[c] = "enqueue" \/ y \in {"start", "late"}
    PROVE  IInv'
  <1> USE DEF IInv
  <1>1. TypeOK'
    BY ZenonT(30) DEF TypeOK, PC
  <1>2. \A t \in Carrier : /\ st'[t] = IF t = c THEN z ELSE st[t]
                           /\ pc'[t] = IF t = c THEN y ELSE pc[t]
    BY DEF TypeOK
  <1>3. StageInv'
    BY <1>2 DEF StageInv, Before
  <1>4. \A t \in Carrier : Has(t)' <=> Has(t)
    BY <1>2 DEF Has
  <1>5. EntryInv'
    <2>1. \A k \in Key : Live(k) => table[k].s \in Carrier
      BY ConstAssumption DEF TypeOK, Live, Entry
    <2> QED BY <1>4, <2>1 DEF EntryInv, Live
  <1>6. TombInv'
    BY DEF TombInv
  <1>7. DrainInv'
    BY <1>2, <1>4 DEF DrainInv
  <1>8. CloseInv'
    <2>1. rc \notin {"joined", "closed"}
      BY DEF CloseInv, Unheld
    <2>2. ASSUME rc \in Told \ {"shut"}, NEW t \in Carrier, st'[t] \in {"new", "pending", "open"}
          PROVE  "shutdown" \in posted'[t] \/ pc'[t] \in {"bind", "start", "late"}
      <3>1. CASE t = c
        BY <1>2, <2>2, <3>1 DEF CloseInv
      <3>2. CASE t # c
        BY <1>2, <2>2, <3>2 DEF CloseInv
      <3> QED BY <3>1, <3>2
    <2> QED BY <2>1, <2>2 DEF CloseInv
  <1> QED BY <1>1, <1>3, <1>5, <1>6, <1>7, <1>8

LEMMA ProceedsIInv ==
    ASSUME IInv, NEW c \in Carrier, Bind(c) \/ Start(c) \/ LateShutdown(c) \/ Enqueue(c)
    PROVE  IInv'
  <1> USE DEF tableVars, lnVars, sessVars, closeVars, Step
  <1>0. /\ pc \in [Carrier -> PC] /\ st \in [Carrier -> State]
        /\ posted \in [Carrier -> SUBSET Cmds]
    BY DEF IInv, TypeOK
  <1>1. st = [st EXCEPT ![c] = st[c]] /\ st[c] \in State
    BY <1>0
  <1>2. st[c] = "new" <=> pc[c] \in {"bind", "start"}
    BY DEF IInv, StageInv
  <1>3. CASE Bind(c)
    BY <1>0, <1>1, <1>2, <1>3, Proceeds, ZenonT(30) DEF Bind
  <1>4. CASE Start(c)
    BY <1>0, <1>1, <1>2, <1>4, Proceeds, ZenonT(30) DEF Start, State
  <1>5. CASE LateShutdown(c)
    <2>1. /\ posted' \in [Carrier -> SUBSET Cmds] /\ \A t \in Carrier : posted[t] \subseteq posted'[t]
          /\ rc \in Told => "shutdown" \in posted'[c]
      BY <1>0, <1>5 DEF LateShutdown, Post, Closing, Told, Cmds
    <2> QED BY <1>0, <1>1, <1>2, <1>5, <2>1, Proceeds, ZenonT(30) DEF LateShutdown
  <1>6. CASE Enqueue(c)
    <2>1. posted' \in [Carrier -> SUBSET Cmds] /\ \A t \in Carrier : posted[t] \subseteq posted'[t]
      BY <1>0, <1>6 DEF Enqueue, Post, Cmds
    <2> QED BY <1>0, <1>1, <1>2, <1>6, <2>1, Proceeds, ZenonT(30) DEF Enqueue
  <1> QED BY <1>3, <1>4, <1>5, <1>6

\* A pending session decides, an open one ends, an ended one makes its Registry calls.
LEMMA ActorIInv ==
    ASSUME IInv, NEW s \in Carrier,
           \/ NoteEnded(s) \/ LeavePending(s) \/ Exit(s) \/ PendingDue(s)
           \/ Confirm(s) \/ Reject(s) \/ Ends(s)
    PROVE  IInv'
  <1> USE DEF hsVars, tableVars, lnVars, sessVars, closeVars
  <1>0. /\ st \in [Carrier -> State] /\ posted \in [Carrier -> SUBSET Cmds]
        /\ reg \in [Carrier -> {"none", "opened", "note", "tomb", "leave"}]
        /\ draining \subseteq Carrier
    BY DEF IInv, TypeOK
  <1>1. /\ st = [st EXCEPT ![s] = st[s]] /\ reg = [reg EXCEPT ![s] = reg[s]]
        /\ draining \cup {s} \subseteq Carrier
    BY <1>0
  <1>2. /\ reg[s] = "opened" => st[s] = "open"
        /\ reg[s] \in {"note", "tomb", "leave"} => st[s] = "ended"
    BY ZenonT(30) DEF IInv, StageInv
  <1>3. st[s] \in {"ended", "exited"} => reg[s] \in {"note", "tomb"} \/ s \in draining
    BY ZenonT(30) DEF IInv, DrainInv, Has
  <1>4. CASE NoteEnded(s)
    BY <1>0, <1>1, <1>2, <1>3, <1>4, Acts, ZenonT(30) DEF NoteEnded, Has
  <1>5. CASE LeavePending(s)
    BY <1>0, <1>1, <1>2, <1>3, <1>5, Acts, ZenonT(30) DEF LeavePending, Has
  <1>6. CASE Exit(s)
    BY <1>0, <1>1, <1>2, <1>3, <1>6, Acts, ZenonT(30) DEF Exit, Runs, Has
  <1>7. CASE PendingDue(s)
    BY <1>0, <1>7, EndsIInv DEF PendingDue, Withdrawn, RefusePending
  <1>8. CASE Reject(s)
    BY <1>0, <1>8, EndsIInv DEF Reject, Withdrawn, RefusePending
  <1>9. CASE Ends(s)
    BY <1>0, <1>9, EndsIInv DEF Ends
  <1>10. CASE Confirm(s)
    <2>1. CASE End(s)
      BY <1>0, <1>10, <2>1, EndsIInv DEF Confirm
    <2>2. CASE st' = [st EXCEPT ![s] = "open"] /\ reg' = [reg EXCEPT ![s] = "opened"]
      BY <1>0, <1>10, <2>2, Acts, ZenonT(30) DEF Confirm, Has
    <2> QED BY <1>10, <2>1, <2>2 DEF Confirm, Withdrawn, RefusePending
  <1> QED BY <1>4, <1>5, <1>6, <1>7, <1>8, <1>9, <1>10

\* onRefuseLocked, onShutdownLocked: only an ended session loses the shutdown
LEMMA CommandIInv ==
    ASSUME IInv, NEW s \in Carrier, NEW cmd \in {"refuse", "away", "shutdown"}, OnCommand(s, cmd)
    PROVE  IInv'
  <1> USE DEF tableVars, lnVars, closeVars
  <1>1. /\ UNCHANGED <<hello, pc, table, tombs, draining, join, lnClosed, rc>>
        /\ posted' = [posted EXCEPT ![s] = @ \ {cmd}]
    BY DEF OnCommand
  <1>2. /\ posted' \in [Carrier -> SUBSET Cmds] /\ \A t \in Carrier \ {s} : posted'[t] = posted[t]
        /\ posted'[s] = posted[s] \ {cmd}
    BY <1>1 DEF IInv, TypeOK
  <1>3. CASE st[s] \in {"pending", "open"} /\ End(s)
    BY <1>1, <1>2, <1>3, EndsIInv
  <1>4. CASE UNCHANGED <<st, reg>> /\ (st[s] \in {"new", "pending", "open"} => cmd # "shutdown")
    BY <1>1, <1>2, <1>4, StandsStill
  <1>5. \/ st[s] \in {"pending", "open"} /\ End(s)
        \/ UNCHANGED <<st, reg>> /\ (st[s] \in {"new", "pending", "open"} => cmd # "shutdown")
    BY DEF OnCommand, Runs, Withdrawn, RefusePending
  <1> QED BY <1>3, <1>4, <1>5

\* Steps of a carrier, of the dialer and of the application
LEMMA StillIInv ==
    ASSUME IInv,
           \/ \E c \in Carrier : ProbeDone(c)
           \/ \E s, c \in Carrier : OnAdopt(s, c) \/ LaneDies(s, c)
           \/ \E s \in Carrier : DialerWithdraws(s)
           \/ Accept
    PROVE  IInv'
  <1> USE DEF hsVars, tableVars, lnVars, sessVars, closeVars
  <1>0. posted \in [Carrier -> SUBSET Cmds]
    BY DEF IInv, TypeOK
  <1>1. ASSUME NEW c \in Carrier, ProbeDone(c) PROVE IInv'
    BY <1>0, <1>1, StandsStill DEF ProbeDone
  <1>2. ASSUME NEW s \in Carrier, NEW c \in Carrier, OnAdopt(s, c) PROVE IInv'
    BY <1>0, <1>2, StandsStill DEF OnAdopt
  <1>3. ASSUME NEW s \in Carrier, NEW c \in Carrier, LaneDies(s, c) PROVE IInv'
    BY <1>0, <1>3, StandsStill DEF LaneDies
  <1>4. ASSUME NEW s \in Carrier, DialerWithdraws(s) PROVE IInv'
    <2>1. /\ posted' \in [Carrier -> SUBSET Cmds]
          /\ \A t \in Carrier : "shutdown" \in posted[t] => "shutdown" \in posted'[t]
      BY <1>0, <1>4 DEF DialerWithdraws, Post, Cmds
    <2> QED BY <1>4, <2>1, StandsStill, ZenonT(30) DEF DialerWithdraws
  <1>5. CASE Accept
    BY <1>0, <1>5, StandsStill DEF Accept
  <1> QED BY <1>1, <1>2, <1>3, <1>4, <1>5

\* The sessions of the table are those that have their entry.
LEMMA LiveHas == IInv => LiveSessions = {s \in Carrier : Has(s)}
  <1> SUFFICES ASSUME IInv PROVE LiveSessions = {s \in Carrier : Has(s)}
    OBVIOUS
  <1>1. ASSUME NEW s \in Carrier, Has(s) PROVE s \in LiveSessions
    <2>1. hello[s].key \in Key /\ table[hello[s].key] = [s |-> s, tomb |-> FALSE]
      BY <1>1 DEF IInv, TypeOK, Hello, EntryInv
    <2>2. Live(hello[s].key) /\ table[hello[s].key].s = s
      <3>1. [s |-> s, tomb |-> FALSE] # None
        BY EntryIsSome, Zenon
      <3> QED BY <2>1, <3>1 DEF Live
    <2> QED BY <2>1, <2>2 DEF LiveSessions
  <1>2. ASSUME NEW s \in LiveSessions PROVE s \in Carrier /\ Has(s)
    <2>1. PICK k \in Key : Live(k) /\ s = table[k].s
      BY <1>2 DEF LiveSessions
    <2>2. table[k].s \in Carrier
      BY <2>1, ConstAssumption DEF IInv, TypeOK, Live, Entry
    <2>3. Has(table[k].s)
      BY <2>1 DEF IInv, EntryInv
    <2> QED BY <2>1, <2>2, <2>3
  <1> QED BY <1>1, <1>2

\* Listener.Close and the steps of Runtime.Close
LEMMA CloseIInv ==
    ASSUME IInv, ListenerClose \/ CloseBegins \/ CloseStep
    PROVE  IInv'
  <1> USE DEF hsVars, tableVars, lnVars, sessVars
  <1>0. UNCHANGED <<hello, pc, st, reg, table, tombs, draining>>
    BY DEF ListenerClose, CloseBegins, CloseStep, CloseShuts, CloseTells, CloseDrains, CloseJoins,
           CloseReturns, closeVars
  <1>1. StageInv' /\ EntryInv' /\ TombInv' /\ DrainInv'
    BY <1>0, ZenonT(30) DEF IInv, StageInv, EntryInv, TombInv, DrainInv, Has, Live
  <1>2. LiveSessions = {s \in Carrier : Has(s)}
    BY LiveHas
  <1> SUFFICES TypeOK' /\ CloseInv'
    BY <1>1 DEF IInv
  <1> USE DEF IInv
  <1>4. CASE ListenerClose
    <2>1. rc = "run" /\ rc' = rc /\ join' = join /\ lnClosed' = TRUE
      BY <1>4, ZenonT(30) DEF ListenerClose, closeVars
    <2>2. posted' \in [Carrier -> SUBSET Cmds]
      BY <1>4 DEF ListenerClose, TypeOK, Cmds
    <2> QED BY <1>0, <2>1, <2>2 DEF TypeOK, CloseInv, Told
  <1>5. CASE CloseBegins
    <2>1. rc' = "closing" /\ UNCHANGED <<join, lnClosed, posted>>
      BY <1>5 DEF CloseBegins
    <2> QED BY <1>0, <2>1 DEF TypeOK, CloseInv, Told
  <1>6. CASE CloseShuts
    <2>1. rc' = "shut" /\ lnClosed' = TRUE /\ UNCHANGED <<join, posted>>
      BY <1>6 DEF CloseShuts
    <2> QED BY <1>0, <2>1 DEF TypeOK, CloseInv, Told
  <1>7. CASE CloseTells
    <2>1. rc = "shut" /\ rc' = "told" /\ UNCHANGED <<join, lnClosed>>
      BY <1>7 DEF CloseTells
    <2>2. /\ posted' \in [Carrier -> SUBSET Cmds]
          /\ \A s \in Carrier : Has(s) => "shutdown" \in posted'[s]
      BY <1>2, <1>7 DEF CloseTells, TypeOK, Cmds
    <2>3. \A s \in Carrier : st[s] \in {"new", "pending", "open"} => "shutdown" \in posted'[s]
      BY <2>2 DEF Has
    <2> QED BY <1>0, <2>1, <2>2, <2>3 DEF TypeOK, CloseInv, Told
  <1>8. CASE CloseDrains
    <2>1. rc = "told" /\ rc' = "drained" /\ UNCHANGED <<join, lnClosed, posted>>
      BY <1>8 DEF CloseDrains
    <2> QED BY <1>0, <2>1 DEF TypeOK, CloseInv, Told
  <1>9. CASE CloseJoins
    <2>1. /\ rc = "drained" /\ \A c \in Carrier : Unheld(c)
          /\ rc' = "joined" /\ join' = LiveSessions \cup draining /\ UNCHANGED <<lnClosed, posted>>
      BY <1>9 DEF CloseJoins
    <2>2. TypeOK'
      BY <1>0, <1>2, <2>1 DEF TypeOK, Told
    <2>3. \A s \in Carrier : st[s] # "none" => s \in join'
      BY <1>2, <2>1 DEF TypeOK, State, DrainInv, Has
    <2>4. \A c \in Carrier : Unheld(c)'
      BY <1>0, <2>1 DEF Unheld
    <2> QED BY <1>0, <2>1, <2>2, <2>3, <2>4 DEF CloseInv, Told
  <1>10. CASE CloseReturns
    <2>1. /\ rc = "joined" /\ rc' = "closed" /\ UNCHANGED <<join, lnClosed, posted>>
          /\ \A s \in join : st[s] = "exited"
      BY <1>10 DEF CloseReturns
    <2>2. \A c \in Carrier : Unheld(c)'
      BY <1>0, <2>1 DEF CloseInv, Unheld
    <2> QED BY <1>0, <2>1, <2>2 DEF TypeOK, CloseInv, Told
  <1> QED BY <1>4, <1>5, <1>6, <1>7, <1>8, <1>9, <1>10 DEF CloseStep

-----------------------------------------------------------------------------
(* The tombstones.                                                         *)

LEMMA ConcatFacts ==
    ASSUME NEW S, NEW a \in Seq(S), NEW b \in Seq(S)
    PROVE  /\ a \o b \in Seq(S) /\ Len(a \o b) = Len(a) + Len(b)
           /\ \A j \in 1 .. Len(a) + Len(b) : (a \o b)[j] = IF j <= Len(a) THEN a[j] ELSE b[j - Len(a)]
  OBVIOUS

LEMMA RemoveAtFacts ==
    ASSUME NEW S, NEW q \in Seq(S), NEW i \in DOMAIN q
    PROVE  LET u == SubSeq(q, 1, i - 1) \o SubSeq(q, i + 1, Len(q))
           IN  /\ u \in Seq(S) /\ Len(u) = Len(q) - 1
               /\ \A j \in 1 .. Len(q) - 1 : u[j] = IF j < i THEN q[j] ELSE q[j + 1]
  <1>1. i \in 1 .. Len(q)
    OBVIOUS
  <1> DEFINE a == SubSeq(q, 1, i - 1)
             b == SubSeq(q, i + 1, Len(q))
  <1>2. a \in Seq(S) /\ Len(a) = i - 1 /\ \A j \in 1 .. i - 1 : a[j] = q[j]
    BY <1>1
  <1>3. b \in Seq(S) /\ Len(b) = Len(q) - i /\ \A j \in 1 .. Len(q) - i : b[j] = q[j + i]
    BY <1>1
  <1> HIDE DEF a, b
  <1> DEFINE w == a \o b
  <1>5. /\ w \in Seq(S) /\ Len(w) = Len(q) - 1
        /\ \A j \in 1 .. Len(q) - 1 : w[j] = IF j <= i - 1 THEN a[j] ELSE b[j - (i - 1)]
    <2>1. /\ w \in Seq(S) /\ Len(w) = Len(a) + Len(b)
          /\ \A j \in 1 .. Len(a) + Len(b) : w[j] = IF j <= Len(a) THEN a[j] ELSE b[j - Len(a)]
      BY <1>2, <1>3, ConcatFacts, ZenonT(30)
    <2>2. Len(a) + Len(b) = Len(q) - 1
      BY <1>1, <1>2, <1>3
    <2> HIDE DEF w
    <2> QED BY <1>2, <2>1, <2>2
  <1> HIDE DEF w
  <1>6. \A j \in 1 .. Len(q) - 1 : w[j] = IF j < i THEN q[j] ELSE q[j + 1]
    <2> SUFFICES ASSUME NEW j \in 1 .. Len(q) - 1
                 PROVE  w[j] = IF j < i THEN q[j] ELSE q[j + 1]
      OBVIOUS
    <2>0. Len(q) \in Nat /\ i \in Nat /\ j \in Nat
      BY <1>1
    <2>1. CASE j < i
      <3>1. j <= i - 1 /\ j \in 1 .. i - 1
        BY <1>1, <2>0, <2>1
      <3> QED BY <1>2, <1>5, <2>1, <3>1
    <2>2. CASE ~ (j < i)
      <3>1. j - (i - 1) \in 1 .. Len(q) - i /\ (j - (i - 1)) + i = j + 1 /\ ~ (j <= i - 1)
        BY <1>1, <2>0, <2>2
      <3>2. w[j] = b[j - (i - 1)]
        BY <1>5, <3>1
      <3>3. b[j - (i - 1)] = q[(j - (i - 1)) + i]
        BY <1>3, <3>1
      <3> QED BY <2>2, <3>1, <3>2, <3>3
    <2> QED BY <2>1, <2>2
  <1> QED BY <1>5, <1>6, Zenon DEF w, a, b

\* tombIndex.removeLocked takes the key's one tombstone from the index.
LEMMA UnlinkFacts ==
    ASSUME NEW S, NEW q \in Seq(S), NEW k,
           \A i, j \in DOMAIN q : q[i] = q[j] => i = j
    PROVE  LET u == Unlink(q, k)
           IN  /\ u \in Seq(S)
               /\ \A i \in DOMAIN u : u[i] # k /\ \E j \in DOMAIN q : u[i] = q[j]
               /\ \A i, j \in DOMAIN u : u[i] = u[j] => i = j
  <1>1. CASE \E i \in DOMAIN q : q[i] = k
    <2> DEFINE n == CHOOSE i \in DOMAIN q : q[i] = k
    <2>1. n \in DOMAIN q /\ q[n] = k
      BY <1>1
    <2> DEFINE u == SubSeq(q, 1, n - 1) \o SubSeq(q, n + 1, Len(q))
    <2>2. Unlink(q, k) = u
      BY <1>1, Zenon DEF Unlink
    <2> HIDE DEF n
    <2>3. /\ u \in Seq(S) /\ Len(u) = Len(q) - 1
          /\ \A j \in 1 .. Len(q) - 1 : u[j] = IF j < n THEN q[j] ELSE q[j + 1]
      BY <2>1, RemoveAtFacts, ZenonT(30)
    <2> HIDE DEF u
    <2>4. DOMAIN u = 1 .. Len(q) - 1 /\ DOMAIN q = 1 .. Len(q) /\ Len(q) \in Nat
      BY <2>3
    <2> DEFINE was(i) == IF i < n THEN i ELSE i + 1
    <2>5. \A i \in DOMAIN u : was(i) \in DOMAIN q /\ was(i) # n /\ u[i] = q[was(i)]
      BY <2>1, <2>3, <2>4
    <2>6. \A i, j \in DOMAIN u : was(i) = was(j) => i = j
      BY <2>1, <2>4
    <2> HIDE DEF was
    <2>7. \A i \in DOMAIN u : u[i] # k /\ \E j \in DOMAIN q : u[i] = q[j]
      BY <2>1, <2>5
    <2>8. \A i, j \in DOMAIN u : u[i] = u[j] => i = j
      BY <2>5, <2>6
    <2> QED BY <2>2, <2>3, <2>7, <2>8, Zenon
  <1>2. CASE ~ \E i \in DOMAIN q : q[i] = k
    BY <1>2 DEF Unlink
  <1> QED BY <1>1, <1>2

\* A change of the table that keeps the entries of the sessions that have one after it
LEMMA TableSteps ==
    ASSUME IInv, UNCHANGED <<hello, pc, st, posted, draining, join, lnClosed, rc>>,
           table' \in [Key -> Entry \cup {None}], tombs' \in Seq(Key),
           reg' \in [Carrier -> {"none", "opened", "note", "tomb", "leave"}],
           \A t \in Carrier : reg'[t] = reg[t] \/ (reg[t] = "tomb" /\ reg'[t] = "leave"),
           \A t \in Carrier : Has(t)' => table'[hello[t].key] = table[hello[t].key],
           \A k \in Key : Live(k)' => Live(k) /\ table'[k] = table[k] /\ Has(table[k].s)',
           TombInv'
    PROVE  IInv'
  <1> USE DEF IInv
  <1>1. TypeOK'
    BY DEF TypeOK
  <1>3. StageInv'
    BY DEF StageInv
  <1>4. EntryInv'
    <2>1. \A t \in Carrier : Has(t)' => Has(t)
      BY DEF Has
    <2>2. \A t \in Carrier : Has(t)' => table'[hello'[t].key] = [s |-> t, tomb |-> FALSE]
      BY <2>1, ZenonT(30) DEF EntryInv
    <2>3. \A k \in Key : Live(k)' => (Has(table[k].s) /\ hello[table[k].s].key = k)'
      BY DEF EntryInv
    <2> QED BY <2>2, <2>3, ZenonT(30) DEF EntryInv
  <1>5. DrainInv'
    BY ZenonT(30) DEF DrainInv, Has
  <1>6. CloseInv'
    BY DEF CloseInv, Unheld
  <1> QED BY <1>1, <1>3, <1>4, <1>5, <1>6

LEMMA ExpireIInv ==
    ASSUME IInv, NEW k \in Key, Expire(k)
    PROVE  IInv'
  <1> USE DEF hsVars, lnVars, sessVars, closeVars
  <1>1. /\ table[k] # None /\ table[k].tomb /\ UNCHANGED <<hello, pc, st, reg, posted, draining, join, lnClosed, rc>>
        /\ table' = [table EXCEPT ![k] = None] /\ tombs' = Unlink(tombs, k)
    BY DEF Expire
  <1>2. table' \in [Key -> Entry \cup {None}] /\ \A i \in Key : table'[i] = IF i = k THEN None ELSE table[i]
    BY <1>1 DEF IInv, TypeOK
  <1>3. tombs \in Seq(Key) /\ \A i, j \in DOMAIN tombs : tombs[i] = tombs[j] => i = j
    BY DEF IInv, TypeOK, TombInv
  <1>4. /\ tombs' \in Seq(Key)
        /\ \A i \in DOMAIN tombs' : tombs'[i] # k /\ \E j \in DOMAIN tombs : tombs'[i] = tombs[j]
        /\ \A i, j \in DOMAIN tombs' : tombs'[i] = tombs'[j] => i = j
    <2> DEFINE u == Unlink(tombs, k)
    <2>1. /\ u \in Seq(Key)
          /\ \A i \in DOMAIN u : u[i] # k /\ \E j \in DOMAIN tombs : u[i] = tombs[j]
          /\ \A i, j \in DOMAIN u : u[i] = u[j] => i = j
      BY <1>3, UnlinkFacts, Zenon
    <2>2. tombs' = u
      BY <1>1
    <2> HIDE DEF u
    <2> QED BY <2>1, <2>2, Zenon
  <1>5. TombInv'
    <2> SUFFICES ASSUME NEW i \in DOMAIN tombs'
                 PROVE  table'[tombs'[i]] # None /\ table'[tombs'[i]].tomb
      BY <1>4 DEF TombInv
    <2>1. PICK j \in DOMAIN tombs : tombs'[i] = tombs[j]
      BY <1>4
    <2>2. tombs[j] \in Key /\ tombs[j] # k
      BY <1>3, <1>4, <2>1
    <2>3. table'[tombs[j]] = table[tombs[j]]
      BY <1>2, <2>2
    <2> QED BY <2>1, <2>3 DEF IInv, TombInv
  <1>6. ASSUME NEW t \in Carrier, Has(t)' PROVE table'[hello[t].key] = table[hello[t].key]
    <2>1. Has(t) /\ hello[t].key \in Key
      BY <1>1, <1>6 DEF Has, IInv, TypeOK, Hello
    <2>2. table[hello[t].key] = [s |-> t, tomb |-> FALSE]
      BY <2>1 DEF IInv, EntryInv
    <2>3. hello[t].key # k
      BY <1>1, <2>2
    <2> QED BY <1>2, <2>1, <2>3
  <1>7. ASSUME NEW i \in Key, Live(i)' PROVE Live(i) /\ table'[i] = table[i] /\ Has(table[i].s)'
    <2>1. table'[i] = table[i] /\ Live(i)
      BY <1>2, <1>7 DEF Live
    <2>2. Has(table[i].s)
      BY <2>1 DEF IInv, EntryInv
    <2> QED BY <1>1, <2>1, <2>2 DEF Has
  <1>8. reg' \in [Carrier -> {"none", "opened", "note", "tomb", "leave"}]
    BY <1>1 DEF IInv, TypeOK
  <1> QED BY <1>1, <1>2, <1>4, <1>5, <1>6, <1>7, <1>8, TableSteps, ZenonT(30)

\* sessionTable.ended: the session's entry becomes its tombstone; the oldest tombstone may go.
LEMMA TableEndedIInv ==
    ASSUME IInv, NEW s \in Carrier, TableEnded(s)
    PROVE  IInv'
  <1> USE DEF hsVars, lnVars, closeVars
  <1> DEFINE k == hello[s].key
             all == Append(tombs, k)
             over == Len(all) > 2 * MaxSessions
  <1>1. /\ reg[s] = "tomb" /\ UNCHANGED <<hello, pc, st, posted, draining, join, lnClosed, rc>>
        /\ reg' = [reg EXCEPT ![s] = "leave"] /\ tombs' = IF over THEN Tail(all) ELSE all
        /\ table' = [i \in Key |-> IF i = k THEN [s |-> s, tomb |-> TRUE]
                                   ELSE IF over /\ i = Head(all) THEN None ELSE table[i]]
    BY DEF TableEnded
  <1>2. /\ reg' \in [Carrier -> {"none", "opened", "note", "tomb", "leave"}]
        /\ \A t \in Carrier : reg'[t] = IF t = s THEN "leave" ELSE reg[t]
    BY <1>1, ZenonT(30) DEF IInv, TypeOK
  <1>3. st[s] = "ended" /\ Has(s) /\ k \in Key /\ table[k] = [s |-> s, tomb |-> FALSE]
    BY <1>1, ZenonT(30) DEF IInv, StageInv, Has, EntryInv, TypeOK, Hello
  <1>4. tombs \in Seq(Key) /\ table \in [Key -> Entry \cup {None}] /\ MaxSessions \in Nat \ {0}
    BY ConstAssumption DEF IInv, TypeOK
  <1>5. \A i \in DOMAIN tombs : tombs[i] \in Key /\ tombs[i] # k
    <2>1. \A i \in DOMAIN tombs : tombs[i] \in Key
      BY <1>4
    <2>2. \A i \in DOMAIN tombs : table[tombs[i]].tomb
      BY DEF IInv, TombInv
    <2>3. ~table[k].tomb
      <3> DEFINE e == table[k]
      <3>1. e = [s |-> s, tomb |-> FALSE]
        BY <1>3, Zenon
      <3> HIDE DEF e
      <3>2. e.tomb = FALSE
        BY <3>1
      <3> QED BY <3>2, Zenon DEF e
    <2>4. ASSUME NEW i \in DOMAIN tombs, tombs[i] = k PROVE FALSE
      <3>1. table[k].tomb
        BY <2>2, <2>4
      <3> QED BY <2>3, <3>1
    <2> HIDE DEF k
    <2> QED BY <2>1, <2>4
  <1>6. /\ all \in Seq(Key) /\ Len(all) = Len(tombs) + 1 /\ all[Len(all)] = k
        /\ \A i \in DOMAIN tombs : all[i] = tombs[i]
        /\ DOMAIN tombs = 1 .. Len(tombs) /\ DOMAIN all = 1 .. Len(tombs) + 1 /\ Len(tombs) \in Nat
    BY <1>3, <1>4
  <1>7. \A i \in DOMAIN all : i \in DOMAIN tombs \/ (i = Len(all) /\ all[i] = k)
    <2>1. all[Len(all)] = k /\ Len(all) = Len(tombs) + 1 /\ Len(tombs) \in Nat
      BY <1>6, Zenon
    <2>2. \A i \in 1 .. Len(tombs) + 1 : i \in 1 .. Len(tombs) \/ i = Len(tombs) + 1
      BY <2>1
    <2> HIDE DEF all, k
    <2> QED BY <1>6, <2>1, <2>2
  <1>8. over => all # <<>> /\ Head(all) = all[1] /\ 1 \in DOMAIN tombs
    BY <1>4, <1>6
  <1> HIDE DEF all, k
  <1>9. \A i, j \in DOMAIN all : all[i] = all[j] => i = j
    BY <1>5, <1>6, <1>7 DEF IInv, TombInv
  <1>10. \A i \in Key : table'[i] = IF i = k THEN [s |-> s, tomb |-> TRUE]
                                    ELSE IF over /\ i = Head(all) THEN None ELSE table[i]
    BY <1>1
  <1>11. table' \in [Key -> Entry \cup {None}]
    BY <1>1, <1>4 DEF Entry
  <1>12. \A i \in DOMAIN all : (over => i # 1) => table'[all[i]] # None /\ table'[all[i]].tomb
    <2> SUFFICES ASSUME NEW i \in DOMAIN all, over => i # 1
                 PROVE  table'[all[i]] # None /\ table'[all[i]].tomb
      OBVIOUS
    <2>1. CASE all[i] = k
      <3>1. [s |-> s, tomb |-> TRUE] # None
        BY EntryIsSome, Zenon
      <3> QED BY <1>3, <1>10, <2>1, <3>1
    <2>2. CASE all[i] # k
      <3>1. i \in DOMAIN tombs /\ all[i] = tombs[i] /\ tombs[i] \in Key
        BY <1>5, <1>6, <1>7, <2>2
      <3>2. over => all[i] # Head(all)
        BY <1>6, <1>8, <1>9
      <3>3. table'[tombs[i]] = table[tombs[i]]
        BY <1>10, <2>2, <3>1, <3>2
      <3> QED BY <3>1, <3>3 DEF IInv, TombInv
    <2> QED BY <2>1, <2>2
  <1>13. tombs' \in Seq(Key) /\ TombInv'
    <2>1. CASE ~ over
      BY <1>1, <1>6, <1>9, <1>12, <2>1, ZenonT(30) DEF TombInv
    <2>2. CASE over
      <3>1. /\ tombs' \in Seq(Key) /\ DOMAIN tombs' = 1 .. Len(tombs)
            /\ \A i \in DOMAIN tombs' : i + 1 \in DOMAIN all /\ i + 1 # 1 /\ tombs'[i] = all[i + 1]
        BY <1>1, <1>6, <1>8, <2>2
      <3>2. \A i, j \in DOMAIN tombs' : tombs'[i] = tombs'[j] => i = j
        BY <1>6, <1>9, <3>1
      <3>3. \A i \in DOMAIN tombs' : table'[tombs'[i]] # None /\ table'[tombs'[i]].tomb
        BY <1>12, <3>1
      <3> QED BY <3>1, <3>2, <3>3 DEF TombInv
    <2> QED BY <2>1, <2>2
  <1> HIDE DEF over
  <1>14. over => Head(all) \in Key /\ table[Head(all)].tomb
    BY <1>5, <1>6, <1>8 DEF IInv, TombInv
  <1>15. ASSUME NEW t \in Carrier, Has(t)' PROVE table'[hello[t].key] = table[hello[t].key]
    <2>1. t # s /\ Has(t) /\ hello[t].key \in Key
      BY <1>1, <1>2, <1>3, <1>15, ZenonT(30) DEF Has, IInv, TypeOK, Hello
    <2>2. table[hello[t].key] = [s |-> t, tomb |-> FALSE]
      BY <2>1 DEF IInv, EntryInv
    <2>3. hello[t].key # k /\ (over => hello[t].key # Head(all))
      BY <1>3, <1>14, <2>1, <2>2
    <2> QED BY <1>10, <2>1, <2>3
  <1>16. ASSUME NEW i \in Key, Live(i)' PROVE Live(i) /\ table'[i] = table[i] /\ Has(table[i].s)'
    <2>1. i # k /\ table'[i] = table[i] /\ Live(i)
      BY <1>10, <1>16 DEF Live
    <2>2. table[i].s \in Carrier /\ Has(table[i].s) /\ hello[table[i].s].key = i
      BY <2>1, ConstAssumption DEF IInv, TypeOK, Entry, EntryInv, Live
    <2>3. table[i].s # s
      BY <2>1, <2>2 DEF k
    <2> QED BY <1>1, <1>2, <2>1, <2>2, <2>3 DEF Has
  <1> QED BY <1>1, <1>2, <1>11, <1>13, <1>15, <1>16, TableSteps, ZenonT(30)

-----------------------------------------------------------------------------
(* The theorem.                                                            *)

LEMMA NextIInv == IInv /\ [Next]_vars => IInv'
  <1> SUFFICES ASSUME IInv, [Next]_vars PROVE IInv'
    OBVIOUS
  <1>1. CASE UNCHANGED vars
    BY <1>1, ZenonT(30) DEF vars, hsVars, tableVars, lnVars, sessVars, closeVars, IInv, TypeOK, StageInv, EntryInv,
                TombInv, DrainInv, CloseInv, Has, Live, Unheld
  <1>2. ASSUME NEW c \in Carrier, BeginHandshake(c) \/ HandshakeStep(c) \/ ProbeDone(c) PROVE IInv'
    BY <1>2, BeginIInv, WalksIInv, InsertIInv, ProceedsIInv, StillIInv, Zenon DEF HandshakeStep
  <1>3. ASSUME NEW s \in Carrier,
               ActorStep(s) \/ Confirm(s) \/ Reject(s) \/ Ends(s) \/ DialerWithdraws(s)
        PROVE  IInv'
    BY <1>3, ActorIInv, TableEndedIInv, CommandIInv, StillIInv, Zenon DEF ActorStep
  <1>4. ASSUME NEW s \in Carrier, NEW c \in Carrier, LaneDies(s, c) PROVE IInv'
    BY <1>4, StillIInv, Zenon
  <1>5. ASSUME NEW k \in Key, Expire(k) PROVE IInv'
    BY <1>5, ExpireIInv, Zenon
  <1>6. CASE Accept \/ ListenerClose \/ CloseBegins \/ CloseStep
    BY <1>6, StillIInv, CloseIInv, Zenon
  <1> QED BY <1>1, <1>2, <1>3, <1>4, <1>5, <1>6, Zenon DEF Next

LEMMA Invariance == Spec => []IInv
  BY InitIInv, NextIInv, PTL DEF Spec

\* Runtime.Close returns only after every session ended, and from its joins on every
\* session that goes on was told: for all carriers, plans and limits.
THEOREM CloseMissesNoneHolds == Spec => []CloseMissesNone
  <1>1. IInv => CloseMissesNone
    BY DEF IInv, TypeOK, State, StageInv, CloseInv, Unheld, Told, CloseMissesNone
  <1> QED BY <1>1, Invariance, PTL
=============================================================================
