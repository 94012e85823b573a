-------------------------- MODULE ActorParkProofs --------------------------
(***************************************************************************)
(* Machine-checked theorems about ActorPark, for any sets of carriers,     *)
(* commands and goroutines.                                                *)
(***************************************************************************)
EXTENDS ActorPark, TLAPS

\* The word and the goroutines: OneActor, and a goroutine in exit has already
\* stored exited in the state word.
WordInv ==
    /\ OneActor
    /\ \A g \in Gor : gor[g] = "exit" => word = "exited"

\* The mailbox: what is queued was not handed over yet, a batch exists only
\* within a step, queued adopts are still counted in adopting, the mailbox
\* closes after the word and refuses only once closed.
BoxInv ==
    /\ \A c \in Cmd : c \in cmds \cup refused => taken[c] = 0
    /\ \A c \in batch : taken[c] = 1
    /\ batch # {} => \E g \in Gor : gor[g] = "handle"
    /\ (cmds \cup batch) \cap Adopt \subseteq adopting
    /\ (discarded \cup refused) \cap Adopt = {}
    /\ mclosed => word = "exited" /\ cmds = {}
    /\ refused # {} => mclosed

\* The end: a step that decides has just refreshed adoptsLeft, and an exited
\* actor left nothing announced, attached or unjoined.
EndInv ==
    /\ \A g \in Gor : gor[g] = "decide" /\ ending => adoptsLeft = adopting
    /\ word = "exited" => ending /\ adopting = {} /\ lanes = {} /\ gone = {}

\* The carriers: one that was handed to the actor is in a batch, a lane, in
\* gone, or joined.
HeldInv ==
    /\ \A k \in Conn \ Adopt : k \in lanes \cup gone \cup done
    /\ \A k \in Adopt : taken[k] = 1 => k \in batch \cup lanes \cup gone \cup done

IInv == TypeOK /\ WordInv /\ BoxInv /\ EndInv /\ HeldInv

\* The initial states satisfy the inductive invariant.
LEMMA InitIInv == Init => IInv
  <1> SUFFICES ASSUME Init PROVE IInv
    OBVIOUS
  <1> USE ConstAssumption DEF Init
  <1>1. TypeOK
    <2>1. ring \in [Ringer -> RingPC] /\ gor \in [Gor -> GorPC] /\ taken \in [Cmd -> 0..1]
      BY DEF RingPC, GorPC
    <2>2. /\ lanes \subseteq Conn /\ word \in Word
          /\ joined \in Conn \cup {None} /\ readerWait \in Conn \cup {None}
      BY DEF Word
    <2>3. /\ bell \in BOOLEAN /\ published \in BOOLEAN /\ mclosed \in BOOLEAN
          /\ awaits \in BOOLEAN /\ ending \in BOOLEAN /\ timer \in BOOLEAN
      BY Zenon
    <2> QED BY <2>1, <2>2, <2>3 DEF TypeOK
  <1>2. WordInv
    BY DEF WordInv, OneActor
  <1>3. BoxInv
    BY DEF BoxInv
  <1>4. EndInv
    BY DEF EndInv
  <1>5. HeldInv
    BY DEF HeldInv, Cmd
  <1> QED BY <1>1, <1>2, <1>3, <1>4, <1>5 DEF IInv

\* Every step of a caller (Start, Join, post, a carrier, the timer) and every
\* half of a ring preserves it.
LEMMA CallerIInv ==
    ASSUME IInv,
           Start \/ DoneSent \/ TimerFires \/ (\E r \in Ringer : Ring(r))
             \/ (\E k \in Adopt : Announce(k)) \/ (\E c \in Cmd : Post(c))
             \/ (\E k \in Conn : ConnDies(k) \/ ConnDone(k))
    PROVE  IInv'
  <1> USE ConstAssumption
          DEF IInv, TypeOK, WordInv, OneActor, BoxInv, EndInv, HeldInv,
              Cmd, Ringer, Word, RingPC, GorPC,
              wordVars, boxVars, connVars, waitVars, endVars
  <1>1. CASE Start
    BY <1>1 DEF Start
  <1>2. CASE DoneSent
    BY <1>2 DEF DoneSent
  <1>3. CASE TimerFires
    <2>1. TypeOK'
      BY <1>3, ZenonT(30) DEF TimerFires, StartRing
    <2>2. WordInv'
      BY <1>3 DEF TimerFires, StartRing
    <2>3. BoxInv'
      BY <1>3 DEF TimerFires, StartRing
    <2>4. EndInv'
      BY <1>3 DEF TimerFires, StartRing
    <2>5. HeldInv'
      BY <1>3 DEF TimerFires, StartRing
    <2> QED BY <2>1, <2>2, <2>3, <2>4, <2>5
  <1>4. ASSUME NEW r \in Ringer, RingBell(r) PROVE IInv'
    BY <1>4 DEF RingBell
  <1>5. ASSUME NEW r \in Ringer, Kick(r) PROVE IInv'
    BY <1>5 DEF Kick
  <1>6. ASSUME NEW k \in Adopt, Announce(k) PROVE IInv'
    BY <1>6 DEF Announce
  <1>7. ASSUME NEW c \in Cmd, Post(c) PROVE IInv'
    BY <1>7 DEF Post, StartRing
  <1>8. ASSUME NEW k \in Conn, ConnDies(k) PROVE IInv'
    BY <1>8 DEF ConnDies, StartRing
  <1>9. ASSUME NEW k \in Conn, ConnDone(k) PROVE IInv'
    BY <1>9 DEF ConnDone, StartRing
  <1> QED BY <1>1, <1>2, <1>3, <1>4, <1>5, <1>6, <1>7, <1>8, <1>9, ZenonT(30) DEF Ring

\* Every step of the goroutine preserves it.
LEMMA RunIInv ==
    ASSUME IInv, NEW g \in Gor, Run(g)
    PROVE  IInv'
  <1> USE ConstAssumption
          DEF IInv, TypeOK, WordInv, OneActor, BoxInv, EndInv, HeldInv, Go,
              Cmd, Ringer, Word, RingPC, GorPC,
              wordVars, boxVars, connVars, waitVars, endVars
  <1>1. CASE Top(g)
    BY <1>1 DEF Top
  <1>2. CASE TakeToken(g)
    <2>1. TypeOK'
      BY <1>2, ZenonT(30) DEF TakeToken
    <2>2. WordInv'
      BY <1>2 DEF TakeToken
    <2>3. BoxInv'
      BY <1>2 DEF TakeToken
    <2>4. EndInv'
      BY <1>2 DEF TakeToken
    <2>5. HeldInv'
      BY <1>2 DEF TakeToken
    <2> QED BY <2>1, <2>2, <2>3, <2>4, <2>5
  <1>3. CASE Drain(g)
    BY <1>3 DEF Drain, Take
  <1>4. CASE Handle(g)
    <2>1. TypeOK'
      BY <1>4 DEF Handle
    <2>2. WordInv'
      BY <1>4 DEF Handle
    <2>3. BoxInv'
      BY <1>4 DEF Handle
    <2>4. EndInv'
      BY <1>4 DEF Handle
    <2>5. HeldInv'
      BY <1>4 DEF Handle
    <2> QED BY <2>1, <2>2, <2>3, <2>4, <2>5
  <1>5. CASE Act(g)
    BY <1>5 DEF Act
  <1>6. CASE Decide(g)
    <2>1. TypeOK'
      <3>1. timer' \in BOOLEAN
        BY <1>6, Zenon DEF Decide
      <3>2. /\ word' \in Word /\ gor' \in [Gor -> GorPC]
            /\ toReg' \subseteq Conn /\ joined' \in Conn \cup {None}
        BY <1>6 DEF Decide, Quiet, Registers
      <3> QED BY <3>1, <3>2, <1>6 DEF Decide
    <2>2. WordInv'
      BY <1>6 DEF Decide, Quiet, Registers
    <2>3. BoxInv'
      BY <1>6 DEF Decide, Quiet, Registers
    <2>4. EndInv'
      BY <1>6 DEF Decide, Quiet, Registers
    <2>5. HeldInv'
      BY <1>6 DEF Decide, Quiet, Registers
    <2> QED BY <2>1, <2>2, <2>3, <2>4, <2>5
  <1>7. CASE Wake(g)
    <2>1. TypeOK'
      BY <1>7, ZenonT(30) DEF Wake
    <2>2. WordInv'
      BY <1>7 DEF Wake
    <2>3. BoxInv'
      BY <1>7 DEF Wake
    <2>4. EndInv'
      BY <1>7 DEF Wake
    <2>5. HeldInv'
      BY <1>7 DEF Wake
    <2> QED BY <2>1, <2>2, <2>3, <2>4, <2>5
  <1>8. CASE Register(g)
    BY <1>8 DEF Register
  <1>9. CASE Registered(g)
    BY <1>9 DEF Registered
  <1>10. CASE ParkCAS(g)
    BY <1>10 DEF ParkCAS
  <1>11. CASE Exit(g)
    <2>1. TypeOK'
      <3>1. mclosed' \in BOOLEAN /\ timer' \in BOOLEAN
        BY <1>11, Zenon DEF Exit
      <3>2. taken' \in [Cmd -> 0..1]
        BY <1>11 DEF Exit, Take
      <3>3. gor' \in [Gor -> GorPC]
        BY <1>11 DEF Exit
      <3> QED BY <3>1, <3>2, <3>3, <1>11 DEF Exit
    <2>2. WordInv'
      BY <1>11 DEF Exit, Take
    <2>3. BoxInv'
      BY <1>11 DEF Exit, Take
    <2>4. EndInv'
      BY <1>11 DEF Exit, Take
    <2>5. HeldInv'
      BY <1>11 DEF Exit, Take
    <2> QED BY <2>1, <2>2, <2>3, <2>4, <2>5
  <1> QED BY <1>1, <1>2, <1>3, <1>4, <1>5, <1>6, <1>7, <1>8, <1>9, <1>10, <1>11, ZenonT(30) DEF Run

\* IInv is an invariant of the actor.
THEOREM Invariance == Spec => []IInv
  <1>1. Init => IInv
    BY InitIInv
  <1>2. IInv /\ [Next]_vars => IInv'
    <2> SUFFICES ASSUME IInv, [Next]_vars PROVE IInv'
      OBVIOUS
    <2>1. CASE Next
      BY <2>1, CallerIInv, RunIInv DEF Next
    <2>2. CASE UNCHANGED vars
      BY <2>2 DEF IInv, TypeOK, WordInv, OneActor, BoxInv, EndInv, HeldInv, vars, wordVars, boxVars, connVars, waitVars, endVars, Unseen
    <2> QED BY <2>1, <2>2
  <1> QED BY <1>1, <1>2, PTL DEF Spec

\* park.go: one step runs at a time per session, for any number of kicks.
THEOREM OneActorHolds == Spec => []OneActor
  <1>1. IInv => OneActor
    BY DEF IInv, WordInv
  <1> QED BY <1>1, Invariance, PTL

\* mailbox.go: each command is handed to the actor at most once, and an adopt
\* is never refused or left to the final drain.
THEOREM HandedOnceHolds == Spec => []HandedOnce
  <1>1. IInv => HandedOnce
    BY DEF IInv, TypeOK, WordInv, OneActor, BoxInv, EndInv, HeldInv, HandedOnce
  <1> QED BY <1>1, Invariance, PTL

\* actor.go: no carrier handed to the actor outlives Session.Done.
THEOREM ExitJoinedHolds == Spec => []ExitJoined
  <1>1. IInv => ExitJoined
    BY ConstAssumption DEF IInv, TypeOK, WordInv, OneActor, BoxInv, EndInv, HeldInv, ExitJoined, Cmd
  <1> QED BY <1>1, Invariance, PTL

\* The types of the actor's state, with a command handed over at most once.
THEOREM TypesHold == Spec => []TypeOK
  <1>1. IInv => TypeOK
    BY DEF IInv
  <1> QED BY <1>1, Invariance, PTL
-----------------------------------------------------------------------------
(* No lost wake-up                                                         *)

\* The parts of a step before its Act, and "some goroutine is in S".
Early == {"top", "bell", "drain", "handle", "act"}
In(S) == \E g \in Gor : gor[g] \in S

\* A step will follow whatever the doorbell says (or none, after the exit).
Kicked == word \in {"again", "exited"} \/ ~published \/ ring[<<"start", "start">>] # "no"

\* A queued command: its token is to be left, lies in the bell, or was taken
\* by a step that has not drained yet; and its kick likewise.
CmdInv ==
    \A c \in cmds :
      /\ ring[<<"post", c>>] = "bell" \/ bell \/ word = "exited" \/ In({"top", "bell", "drain"})
      /\ ring[<<"post", c>>] # "no" \/ Kicked \/ In({"top", "bell", "drain"})

\* The same for a dead lane that a step would reap.
DeathInv ==
    \A k \in (lanes \cap dead) \ done :
      ~AwaitReader(k) => /\ ring[<<"death", k>>] = "bell" \/ bell \/ In(Early)
                         /\ ring[<<"death", k>>] # "no" \/ Kicked \/ In(Early)

\* A dead lane whose reader is awaited, and a carrier of gone, are watched:
\* a step will look at them, or park registers them, or has registered them.
WatchInv ==
    /\ done \subseteq dead
    /\ \A k \in lanes \cap dead :
         \/ ring[<<"death", k>>] # "no" \/ Kicked
         \/ In(Early \cup {"wait"})
         \/ In({"decide"}) /\ readerWait # None
         \/ In({"register"}) /\ k \in toReg \cup onDone
         \/ (In({"cas"}) \/ word = "parked") /\ k \in onDone
    /\ \A k \in gone : \/ k \in onDone \/ In(Early \cup {"decide", "wait"})
                       \/ In({"register"}) /\ k \in toReg

\* A carrier joined since: its ring is under way, or the actor is awake.
DoneInv ==
    \A k \in (lanes \cup gone) \cap done :
      \/ ring[<<"death", k>>] # "no" \/ ring[<<"done", k>>] # "no" \/ Kicked
      \/ In(Early \cup {"decide", "wait"})
      \/ In({"register"}) /\ k \in toReg

WakeInv == CmdInv /\ DeathInv /\ WatchInv /\ DoneInv

\* The initial states satisfy it: nothing is queued, dead or gone.
LEMMA InitWake == Init => WakeInv
  BY DEF Init, WakeInv, CmdInv, DeathInv, WatchInv, DoneInv

\* The rings that the invariant speaks of.
LEMMA Rings ==
    /\ \A c \in Cmd : <<"post", c>> \in Ringer
    /\ \A k \in Conn : <<"death", k>> \in Ringer /\ <<"done", k>> \in Ringer
    /\ <<"start", "start">> \in Ringer /\ <<"timer", "timer">> \in Ringer
  BY DEF Ringer

\* Every step of a caller and every half of a ring preserves it: a ring once
\* begun goes on, and its kick finds a step that will follow.
LEMMA CallerWake ==
    ASSUME IInv, WakeInv,
           Start \/ DoneSent \/ TimerFires \/ (\E r \in Ringer : Ring(r))
             \/ (\E k \in Adopt : Announce(k)) \/ (\E c \in Cmd : Post(c))
             \/ (\E k \in Conn : ConnDies(k) \/ ConnDone(k))
    PROVE  WakeInv'
  <1>0. /\ ring \in [Ringer -> RingPC] /\ gor \in [Gor -> GorPC] /\ word \in Word
        /\ cmds \subseteq Cmd /\ lanes \subseteq Conn /\ gone \subseteq Conn
    BY DEF IInv, TypeOK
  <1> USE Rings, <1>0 DEF wordVars, boxVars, connVars, waitVars, endVars
  <1>1. CASE Start
    <2>1. /\ \A c \in Cmd : ring'[<<"post", c>>] = ring[<<"post", c>>]
          /\ \A k \in Conn : ring'[<<"death", k>>] = ring[<<"death", k>>]
      BY <1>1 DEF Start
    <2>2. Kicked'
      BY <1>1 DEF Start, Kicked
    <2>5. CmdInv'
      BY <1>1, <2>1, <2>2, ZenonT(30) DEF Start, In, WakeInv, CmdInv
    <2>6. DeathInv'
      BY <1>1, <2>1, <2>2 DEF Start, In, WakeInv, DeathInv, AwaitReader
    <2>7. WatchInv'
      BY <1>1, <2>1, <2>2 DEF Start, In, WakeInv, WatchInv
    <2>8. DoneInv'
      BY <1>1, <2>1, <2>2 DEF Start, In, WakeInv, DoneInv
    <2> QED BY <2>5, <2>6, <2>7, <2>8 DEF WakeInv
  <1>2. CASE DoneSent
    <2>5. CmdInv'
      BY <1>2, ZenonT(30) DEF DoneSent, In, Kicked, WakeInv, CmdInv
    <2>6. DeathInv'
      BY <1>2 DEF DoneSent, In, Kicked, WakeInv, DeathInv, AwaitReader
    <2>7. WatchInv'
      BY <1>2 DEF DoneSent, In, Kicked, WakeInv, WatchInv
    <2>8. DoneInv'
      BY <1>2, ZenonT(30) DEF DoneSent, In, Kicked, WakeInv, DoneInv
    <2> QED BY <2>5, <2>6, <2>7, <2>8 DEF WakeInv
  <1>3. CASE TimerFires
    <2>1. \A r \in Ringer : (ring[r] = "bell" => ring'[r] = "bell") /\ (ring[r] # "no" => ring'[r] # "no")
      BY <1>3 DEF TimerFires, StartRing, RingPC
    <2>5. CmdInv'
      BY <1>3, <2>1, ZenonT(30) DEF TimerFires, In, Kicked, WakeInv, CmdInv
    <2>6. DeathInv'
      BY <1>3, <2>1, ZenonT(30) DEF TimerFires, In, Kicked, WakeInv, DeathInv, AwaitReader
    <2>7. WatchInv'
      BY <1>3, <2>1, ZenonT(30) DEF TimerFires, In, Kicked, WakeInv, WatchInv
    <2>8. DoneInv'
      BY <1>3, <2>1, ZenonT(30) DEF TimerFires, In, Kicked, WakeInv, DoneInv
    <2> QED BY <2>5, <2>6, <2>7, <2>8 DEF WakeInv
  <1>4. ASSUME NEW p \in Ringer, RingBell(p) PROVE WakeInv'
    <2>1. \A r \in Ringer : ring[r] # "no" => ring'[r] # "no"
      BY <1>4 DEF RingBell, RingPC
    <2>2. bell'
      BY <1>4 DEF RingBell
    <2>5. CmdInv'
      BY <1>4, <2>1, <2>2, ZenonT(30) DEF RingBell, In, Kicked, WakeInv, CmdInv
    <2>6. DeathInv'
      BY <1>4, <2>1, <2>2 DEF RingBell, In, Kicked, WakeInv, DeathInv, AwaitReader
    <2>7. WatchInv'
      BY <1>4, <2>1, <2>2 DEF RingBell, In, Kicked, WakeInv, WatchInv
    <2>8. DoneInv'
      BY <1>4, <2>1, <2>2, ZenonT(30) DEF RingBell, In, Kicked, WakeInv, DoneInv
    <2> QED BY <2>5, <2>6, <2>7, <2>8 DEF WakeInv
  <1>5. ASSUME NEW p \in Ringer, Kick(p) PROVE WakeInv'
    <2>1. \A r \in Ringer : ring[r] = "bell" => ring'[r] = "bell"
      BY <1>5 DEF Kick, RingPC
    <2>2. Kicked' \/ In({"top"})'
      BY <1>5 DEF Kick, Kicked, In, Word, GorPC
    <2>3. \A h \in Gor : gor[h] # "idle" => gor'[h] = gor[h]
      BY <1>5 DEF Kick, GorPC
    <2>4. word = "exited" => word' = "exited"
      BY <1>5 DEF Kick
    <2>5. CmdInv'
      BY <1>5, <2>1, <2>2, <2>3, <2>4, ZenonT(30) DEF Kick, In, Early, WakeInv, CmdInv
    <2>6. DeathInv'
      BY <1>5, <2>1, <2>2, <2>3, <2>4 DEF Kick, In, Early, WakeInv, DeathInv, AwaitReader
    <2>7. WatchInv'
      BY <1>5, <2>1, <2>2, <2>3, <2>4 DEF Kick, In, Early, WakeInv, WatchInv
    <2>8. DoneInv'
      BY <1>5, <2>1, <2>2, <2>3, <2>4, ZenonT(30) DEF Kick, In, Early, WakeInv, DoneInv
    <2> QED BY <2>5, <2>6, <2>7, <2>8 DEF WakeInv
  <1>6. ASSUME NEW k \in Adopt, Announce(k) PROVE WakeInv'
    <2>5. CmdInv'
      BY <1>6, ZenonT(30) DEF Announce, In, Kicked, WakeInv, CmdInv
    <2>6. DeathInv'
      BY <1>6 DEF Announce, In, Kicked, WakeInv, DeathInv, AwaitReader
    <2>7. WatchInv'
      BY <1>6 DEF Announce, In, Kicked, WakeInv, WatchInv
    <2>8. DoneInv'
      BY <1>6, ZenonT(30) DEF Announce, In, Kicked, WakeInv, DoneInv
    <2> QED BY <2>5, <2>6, <2>7, <2>8 DEF WakeInv
  <1>7. ASSUME NEW c \in Cmd, Post(c) PROVE WakeInv'
    <2>1. \A r \in Ringer : (ring[r] = "bell" => ring'[r] = "bell") /\ (ring[r] # "no" => ring'[r] # "no")
      BY <1>7 DEF Post, StartRing, RingPC
    <2>2. cmds' # cmds => cmds' = cmds \cup {c} /\ ring'[<<"post", c>>] = "bell"
      BY <1>7 DEF Post, StartRing
    <2>5. CmdInv'
      BY <1>7, <2>1, <2>2, ZenonT(30) DEF Post, In, Kicked, WakeInv, CmdInv
    <2>6. DeathInv'
      BY <1>7, <2>1, <2>2, ZenonT(30) DEF Post, In, Kicked, WakeInv, DeathInv, AwaitReader
    <2>7. WatchInv'
      BY <1>7, <2>1, <2>2, ZenonT(30) DEF Post, In, Kicked, WakeInv, WatchInv
    <2>8. DoneInv'
      BY <1>7, <2>1, <2>2, ZenonT(30) DEF Post, In, Kicked, WakeInv, DoneInv
    <2> QED BY <2>5, <2>6, <2>7, <2>8 DEF WakeInv
  <1>8. ASSUME NEW k \in Conn, ConnDies(k) PROVE WakeInv'
    <2>1. \A r \in Ringer : (ring[r] = "bell" => ring'[r] = "bell") /\ (ring[r] # "no" => ring'[r] # "no")
      BY <1>8 DEF ConnDies, StartRing, RingPC
    <2>2. ring'[<<"death", k>>] = "bell"
      BY <1>8, ZenonT(30) DEF ConnDies, StartRing
    <2>5. CmdInv'
      BY <1>8, <2>1, <2>2, ZenonT(30) DEF ConnDies, In, Kicked, WakeInv, CmdInv
    <2>6. DeathInv'
      BY <1>8, <2>1, <2>2, ZenonT(30) DEF ConnDies, In, Kicked, WakeInv, DeathInv, AwaitReader
    <2>7. WatchInv'
      BY <1>8, <2>1, <2>2, ZenonT(30) DEF ConnDies, In, Kicked, WakeInv, WatchInv
    <2>8. DoneInv'
      BY <1>8, <2>1, <2>2, ZenonT(30) DEF ConnDies, In, Kicked, WakeInv, DoneInv
    <2> QED BY <2>5, <2>6, <2>7, <2>8 DEF WakeInv
  <1>9. ASSUME NEW k \in Conn, ConnDone(k) PROVE WakeInv'
    <2>1. \A r \in Ringer : (ring[r] = "bell" => ring'[r] = "bell") /\ (ring[r] # "no" => ring'[r] # "no")
      BY <1>9 DEF ConnDone, StartRing, RingPC
    <2>2. k \in onDone => ring'[<<"done", k>>] = "bell"
      BY <1>9, ZenonT(30) DEF ConnDone, StartRing
    <2>5. CmdInv'
      BY <1>9, <2>1, <2>2, ZenonT(30) DEF ConnDone, In, Early, Kicked, WakeInv, CmdInv
    <2>6. DeathInv'
      BY <1>9, <2>1, <2>2, ZenonT(30) DEF ConnDone, In, Early, Kicked, WakeInv, DeathInv, AwaitReader
    <2>7. WatchInv'
      BY <1>9, <2>1, <2>2, ZenonT(30) DEF ConnDone, In, Early, Kicked, WakeInv, WatchInv
    <2>8. DoneInv'
      <3> SUFFICES ASSUME NEW j \in (lanes \cup gone) \cap (done \cup {k})
                   PROVE  \/ ring'[<<"death", j>>] # "no" \/ ring'[<<"done", j>>] # "no" \/ Kicked
                          \/ In(Early \cup {"decide", "wait"})
                          \/ In({"register"}) /\ j \in toReg
        BY <1>9, <2>1, ZenonT(30) DEF ConnDone, DoneInv, In, Kicked
      <3>1. CASE j \in done
        BY <3>1, <2>1, ZenonT(30) DEF WakeInv, DoneInv
      <3>2. CASE j = k /\ k \in onDone
        BY <3>2, <2>2
      <3>3. CASE j = k /\ k \in lanes /\ k \notin onDone
        BY <1>9, <3>3, <2>1 DEF ConnDone, WakeInv, WatchInv, In, Early
      <3>4. CASE j = k /\ k \in gone /\ k \notin onDone
        BY <1>9, <3>4 DEF ConnDone, WakeInv, WatchInv, In, Early
      <3> QED BY <3>1, <3>2, <3>3, <3>4
    <2> QED BY <2>5, <2>6, <2>7, <2>8 DEF WakeInv
  <1> QED BY <1>1, <1>2, <1>3, <1>4, <1>5, <1>6, <1>7, <1>8, <1>9 DEF Ring

\* Every step of the goroutine preserves it.
LEMMA RunWake ==
    ASSUME IInv, WakeInv, IInv', NEW g \in Gor, Run(g)
    PROVE  WakeInv'
  <1>0. /\ ring \in [Ringer -> RingPC] /\ gor \in [Gor -> GorPC] /\ word \in Word
        /\ cmds \subseteq Cmd /\ lanes \subseteq Conn /\ gone \subseteq Conn
    BY DEF IInv, TypeOK
  <1> USE Rings, <1>0 DEF wordVars, boxVars, connVars, waitVars, endVars
  <1> DEFINE Moves(from, to) ==
               /\ gor[g] = from /\ gor'[g] = to
               /\ \A h \in Gor \ {g} : gor[h] = "idle" /\ gor'[h] = "idle"
  <1>1. CASE Top(g)
    <2>1. Moves("top", "bell")
      BY <1>1 DEF Top, Go, IInv, WordInv, OneActor, GorPC
    <2>5. CmdInv'
      BY <1>1, <2>1, ZenonT(30) DEF Top, In, Kicked, Early, WakeInv, CmdInv
    <2>6. DeathInv'
      BY <1>1, <2>1 DEF Top, In, Kicked, Early, WakeInv, DeathInv, AwaitReader
    <2>7. WatchInv'
      BY <1>1, <2>1 DEF Top, In, Kicked, Early, WakeInv, WatchInv
    <2>8. DoneInv'
      BY <1>1, <2>1, ZenonT(30) DEF Top, In, Kicked, Early, WakeInv, DoneInv
    <2> QED BY <2>5, <2>6, <2>7, <2>8 DEF WakeInv
  <1>2. CASE TakeToken(g)
    <2>1. Moves("bell", "drain")
      BY <1>2 DEF TakeToken, Go, IInv, WordInv, OneActor, GorPC
    <2>5. CmdInv'
      BY <1>2, <2>1, ZenonT(30) DEF TakeToken, In, Kicked, Early, WakeInv, CmdInv
    <2>6. DeathInv'
      BY <1>2, <2>1 DEF TakeToken, In, Kicked, Early, WakeInv, DeathInv, AwaitReader
    <2>7. WatchInv'
      BY <1>2, <2>1 DEF TakeToken, In, Kicked, Early, WakeInv, WatchInv
    <2>8. DoneInv'
      BY <1>2, <2>1, ZenonT(30) DEF TakeToken, In, Kicked, Early, WakeInv, DoneInv
    <2> QED BY <2>5, <2>6, <2>7, <2>8 DEF WakeInv
  <1>3. CASE Drain(g)
    <2>1. Moves("drain", "handle")
      BY <1>3 DEF Drain, Go, IInv, WordInv, OneActor, GorPC
    <2>5. CmdInv'
      BY <1>3, <2>1, ZenonT(30) DEF Drain, In, Kicked, Early, WakeInv, CmdInv
    <2>6. DeathInv'
      BY <1>3, <2>1 DEF Drain, In, Kicked, Early, WakeInv, DeathInv, AwaitReader
    <2>7. WatchInv'
      BY <1>3, <2>1 DEF Drain, In, Kicked, Early, WakeInv, WatchInv
    <2>8. DoneInv'
      BY <1>3, <2>1, ZenonT(30) DEF Drain, In, Kicked, Early, WakeInv, DoneInv
    <2> QED BY <2>5, <2>6, <2>7, <2>8 DEF WakeInv
  <1>4. CASE Handle(g)
    <2>1. Moves("handle", "act")
      BY <1>4 DEF Handle, Go, IInv, WordInv, OneActor, GorPC
    <2>5. CmdInv'
      BY <1>4, <2>1, ZenonT(30) DEF Handle, In, Kicked, Early, WakeInv, CmdInv
    <2>6. DeathInv'
      BY <1>4, <2>1 DEF Handle, In, Kicked, Early, WakeInv, DeathInv, AwaitReader
    <2>7. WatchInv'
      BY <1>4, <2>1 DEF Handle, In, Kicked, Early, WakeInv, WatchInv
    <2>8. DoneInv'
      BY <1>4, <2>1, ZenonT(30) DEF Handle, In, Kicked, Early, WakeInv, DoneInv
    <2> QED BY <2>5, <2>6, <2>7, <2>8 DEF WakeInv
  <1>5. CASE Act(g)
    <2>1. Moves("act", "decide")
      BY <1>5 DEF Act, Go, IInv, WordInv, OneActor, GorPC
    <2>5. CmdInv'
      BY <1>5, <2>1, ZenonT(30) DEF Act, In, Kicked, Early, WakeInv, CmdInv
    <2>6. DeathInv'
      BY <1>5, <2>1 DEF Act, In, Kicked, Early, WakeInv, DeathInv, AwaitReader
    <2>7. WatchInv'
      <3>1. In({"decide"})' /\ In(Early \cup {"decide", "wait"})'
        BY <2>1 DEF In
      <3>2. lanes' \cap dead' # {} => readerWait' # None
        BY <1>5, ConstAssumption DEF Act
      <3>3. (done \subseteq dead)'
        BY <1>5 DEF Act, WakeInv, WatchInv
      <3> QED BY <3>1, <3>2, <3>3 DEF WatchInv
    <2>8. DoneInv'
      BY <1>5, <2>1, ZenonT(30) DEF Act, In, Kicked, Early, WakeInv, DoneInv
    <2> QED BY <2>5, <2>6, <2>7, <2>8 DEF WakeInv
  <1>6. CASE Wake(g)
    <2>1. Moves("wait", "top")
      BY <1>6 DEF Wake, Go, IInv, WordInv, OneActor, GorPC
    <2>5. CmdInv'
      BY <1>6, <2>1, ZenonT(30) DEF Wake, In, Kicked, Early, WakeInv, CmdInv
    <2>6. DeathInv'
      BY <1>6, <2>1 DEF Wake, In, Kicked, Early, WakeInv, DeathInv, AwaitReader
    <2>7. WatchInv'
      BY <1>6, <2>1 DEF Wake, In, Kicked, Early, WakeInv, WatchInv
    <2>8. DoneInv'
      BY <1>6, <2>1, ZenonT(30) DEF Wake, In, Kicked, Early, WakeInv, DoneInv
    <2> QED BY <2>5, <2>6, <2>7, <2>8 DEF WakeInv
  <1>7. CASE Registered(g)
    <2>1. Moves("register", "cas")
      BY <1>7 DEF Registered, Go, IInv, WordInv, OneActor, GorPC
    <2>5. CmdInv'
      BY <1>7, <2>1, ZenonT(30) DEF Registered, In, Kicked, Early, WakeInv, CmdInv
    <2>6. DeathInv'
      BY <1>7, <2>1 DEF Registered, In, Kicked, Early, WakeInv, DeathInv, AwaitReader
    <2>7. WatchInv'
      BY <1>7, <2>1 DEF Registered, In, Kicked, Early, WakeInv, WatchInv
    <2>8. DoneInv'
      BY <1>7, <2>1, ZenonT(30) DEF Registered, In, Kicked, Early, WakeInv, DoneInv
    <2> QED BY <2>5, <2>6, <2>7, <2>8 DEF WakeInv
  <1>8. CASE Exit(g)
    <2>1. Moves("exit", "idle")
      BY <1>8 DEF Exit, Go, IInv, WordInv, OneActor, GorPC
    <2>5. CmdInv'
      BY <1>8, <2>1, ZenonT(30) DEF IInv, EndInv, WordInv, Exit, In, Kicked, Early, WakeInv, CmdInv
    <2>6. DeathInv'
      BY <1>8, <2>1 DEF IInv, EndInv, WordInv, Exit, In, Kicked, Early, WakeInv, DeathInv, AwaitReader
    <2>7. WatchInv'
      BY <1>8, <2>1, ZenonT(30) DEF IInv, EndInv, WordInv, Exit, In, Kicked, Early, WakeInv, WatchInv
    <2>8. DoneInv'
      BY <1>8, <2>1, ZenonT(30) DEF IInv, EndInv, WordInv, Exit, In, Kicked, Early, WakeInv, DoneInv
    <2> QED BY <2>5, <2>6, <2>7, <2>8 DEF WakeInv
  <1>9. CASE Decide(g)
    <2>0. UNCHANGED <<bell, published, ring, boxVars, connVars, endVars>>
      BY <1>9 DEF Decide
    <2>1. ASSUME Moves("decide", "exit"), word' = "exited", lanes = {}, gone = {} PROVE WakeInv'
      <3>1. CmdInv'
        BY <2>0, <2>1 DEF In, Kicked, Early, WakeInv, CmdInv
      <3>2. DeathInv'
        BY <2>0, <2>1 DEF In, Kicked, Early, WakeInv, DeathInv
      <3>3. WatchInv'
        BY <2>0, <2>1 DEF In, Kicked, Early, WakeInv, WatchInv
      <3>4. DoneInv'
        BY <2>0, <2>1 DEF In, Kicked, Early, WakeInv, DoneInv
      <3> QED BY <3>1, <3>2, <3>3, <3>4 DEF WakeInv
    <2>2. ASSUME Moves("decide", "top"), word = "again" PROVE WakeInv'
      <3>1. CmdInv'
        BY <2>0, <2>2, ZenonT(30) DEF In, Kicked, Early, WakeInv, CmdInv
      <3>2. DeathInv'
        BY <2>0, <2>2 DEF In, Kicked, Early, WakeInv, DeathInv
      <3>3. WatchInv'
        BY <2>0, <2>2 DEF In, Kicked, Early, WakeInv, WatchInv
      <3>4. DoneInv'
        BY <2>0, <2>2, ZenonT(30) DEF In, Kicked, Early, WakeInv, DoneInv
      <3> QED BY <3>1, <3>2, <3>3, <3>4 DEF WakeInv
    <2>3. ASSUME Moves("decide", "wait"), UNCHANGED word PROVE WakeInv'
      <3>1. CmdInv'
        BY <2>0, <2>3, ZenonT(30) DEF In, Kicked, Early, WakeInv, CmdInv
      <3>2. DeathInv'
        BY <2>0, <2>3 DEF In, Kicked, Early, WakeInv, DeathInv, AwaitReader
      <3>3. WatchInv'
        BY <2>0, <2>3 DEF In, Kicked, Early, WakeInv, WatchInv
      <3>4. DoneInv'
        BY <2>0, <2>3, ZenonT(30) DEF In, Kicked, Early, WakeInv, DoneInv
      <3> QED BY <3>1, <3>2, <3>3, <3>4 DEF WakeInv
    <2>4. ASSUME Moves("decide", "register"), toReg' = Registers, UNCHANGED <<word, onDone, readerWait>>
          PROVE  WakeInv'
      <3>2. CmdInv'
        BY <2>4, <2>0, ZenonT(30) DEF In, Kicked, WakeInv, CmdInv
      <3>3. DeathInv'
        BY <2>4, <2>0 DEF In, Kicked, Early, WakeInv, DeathInv, AwaitReader
      <3>4. WatchInv'
        BY <2>4, <2>0 DEF In, Kicked, Early, Registers, WakeInv, WatchInv
      <3>5. DoneInv'
        <4>1. ASSUME NEW k \in gone PROVE In({"register"})' /\ k \in toReg'
          BY <2>4, <4>1 DEF In, Registers
        <4>2. ASSUME NEW k \in lanes \cap done
              PROVE  \/ ring[<<"death", k>>] # "no" \/ Kicked
                     \/ In({"register"})' /\ k \in toReg'
          <5>1. \/ ring[<<"death", k>>] # "no" \/ Kicked
                \/ readerWait # None
            BY <2>4, <4>2 DEF IInv, WordInv, OneActor, In, Early, WakeInv, WatchInv
          <5> QED BY <2>4, <4>2, <5>1 DEF In, Registers, WakeInv, WatchInv
        <4>3. Kicked' = Kicked
          BY <2>4, <2>0 DEF Kicked
        <4> QED BY <2>0, <4>1, <4>2, <4>3, ZenonT(30) DEF DoneInv
      <3> QED BY <3>2, <3>3, <3>4, <3>5 DEF WakeInv
    <2>5. ASSUME NEW to \in GorPC, Go(g, "decide", to) PROVE Moves("decide", to)
      BY <2>5 DEF Go, IInv, WordInv, OneActor, GorPC
    <2>6. {"exit", "top", "wait", "register"} \subseteq GorPC
      BY DEF GorPC
    <2> HIDE DEF Moves
    <2>7. CASE Quiet /\ Go(g, "decide", "exit") /\ word' = "exited"
      BY <2>1, <2>5, <2>6, <2>7 DEF Quiet
    <2>8. CASE word = "again" /\ Go(g, "decide", "top")
      BY <2>2, <2>5, <2>6, <2>8
    <2>9. CASE Go(g, "decide", "wait") /\ UNCHANGED word
      BY <2>3, <2>5, <2>6, <2>9
    <2>10. CASE Go(g, "decide", "register") /\ toReg' = Registers /\ UNCHANGED <<word, onDone, readerWait>>
      BY <2>4, <2>5, <2>6, <2>10
    <2> QED BY <1>9, <2>7, <2>8, <2>9, <2>10 DEF Decide
  <1>10. CASE Register(g)
    <2>1. /\ gor[g] = "register" /\ \A h \in Gor \ {g} : gor[h] = "idle"
          /\ word # "parked" /\ UNCHANGED gor
      BY <1>10 DEF Register, IInv, WordInv, OneActor
    <2>2. PICK j \in toReg : /\ toReg' = toReg \ {j} /\ onDone' = onDone \cup {j}
                             /\ bell' = (bell \/ j \in done)
                             /\ word' = IF j \in done THEN "again" ELSE word
      BY <1>10 DEF Register
    <2>3. (bell => bell') /\ (Kicked => Kicked') /\ (j \in done => Kicked')
      BY <1>10, <2>2, ZenonT(30) DEF Register, Kicked
    <2>4. UNCHANGED <<ring, boxVars, connVars, endVars, readerWait>>
      BY <1>10 DEF Register
    <2>5. CmdInv'
      <3>1. In({"top", "bell", "drain"}) => In({"top", "bell", "drain"})'
        BY <2>1 DEF In
      <3>2. (word = "exited" => word' = "exited") /\ cmds' = cmds /\ ring' = ring
        BY <2>1, <2>4 DEF IInv, WordInv, OneActor
      <3> QED BY <2>3, <3>1, <3>2, ZenonT(30) DEF WakeInv, CmdInv
    <2>6. DeathInv'
      BY <2>1, <2>3, <2>4 DEF In, WakeInv, DeathInv, AwaitReader
    <2>7. WatchInv'
      BY <2>1, <2>2, <2>3, <2>4 DEF In, Early, WakeInv, WatchInv
    <2>8. DoneInv'
      BY <2>1, <2>2, <2>3, <2>4, ZenonT(30) DEF In, Early, WakeInv, DoneInv
    <2> QED BY <2>5, <2>6, <2>7, <2>8 DEF WakeInv
  <1>11. CASE ParkCAS(g)
    <2>1. CASE word = "running" /\ word' = "parked" /\ Go(g, "cas", "idle")
      <3>1. Moves("cas", "idle")
        BY <2>1 DEF Go, IInv, WordInv, OneActor, GorPC
      <3>2. CmdInv'
        BY <1>11, <2>1, <3>1, ZenonT(30) DEF ParkCAS, In, Kicked, WakeInv, CmdInv
      <3>3. DeathInv'
        BY <1>11, <2>1, <3>1 DEF ParkCAS, In, Kicked, Early, WakeInv, DeathInv, AwaitReader
      <3>4. WatchInv'
        BY <1>11, <2>1, <3>1 DEF ParkCAS, In, Kicked, Early, WakeInv, WatchInv
      <3>5. DoneInv'
        BY <1>11, <2>1, <3>1, ZenonT(30) DEF ParkCAS, In, Kicked, Early, WakeInv, DoneInv
      <3> QED BY <3>2, <3>3, <3>4, <3>5 DEF WakeInv
    <2>2. CASE word # "running" /\ UNCHANGED word /\ Go(g, "cas", "top")
      <3>1. Moves("cas", "top")
        BY <2>2 DEF Go, IInv, WordInv, OneActor, GorPC
      <3> QED
        BY <1>11, <2>2, <3>1, ZenonT(30) DEF ParkCAS, In, Kicked, Early, WakeInv, CmdInv, DeathInv, AwaitReader, WatchInv, DoneInv
    <2> QED BY <1>11, <2>1, <2>2 DEF ParkCAS
  <1> QED BY <1>1, <1>2, <1>3, <1>4, <1>5, <1>6, <1>7, <1>8, <1>9, <1>10, <1>11 DEF Run

\* park.go: a kick that comes at any moment between the actor's last look and
\* its park, wait or exit is never lost.
THEOREM NoLostWakeupHolds == Spec => []NoLostWakeup
  <1>1. Init => WakeInv
    BY InitWake
  <1>2. IInv /\ WakeInv /\ IInv' /\ [Next]_vars => WakeInv'
    <2> SUFFICES ASSUME IInv, WakeInv, IInv', [Next]_vars PROVE WakeInv'
      OBVIOUS
    <2>1. CASE Next
      BY <2>1, CallerWake, RunWake, Zenon DEF Next
    <2>2. CASE UNCHANGED vars
      BY <2>2, ZenonT(30) DEF WakeInv, CmdInv, DeathInv, WatchInv, DoneInv, AwaitReader, Early, In, Kicked,
                  vars, wordVars, boxVars, connVars, waitVars, endVars
    <2> QED BY <2>1, <2>2
  <1>3. IInv /\ WakeInv => NoLostWakeup
    <2> SUFFICES ASSUME IInv, WakeInv PROVE NoLostWakeup
      OBVIOUS
    <2> USE DEF IInv, TypeOK, WordInv, OneActor, WakeInv, Early, In, NoRing, Ringer
    <2>1. ASSUME word = "parked", published, NoRing PROVE cmds = {} /\ Unseen = {}
      <3>1. ~Kicked /\ \A g \in Gor : gor[g] = "idle"
        BY <2>1 DEF Kicked
      <3>2. cmds = {}
        BY <2>1, <3>1, ZenonT(30) DEF CmdInv
      <3>3. Unseen = {}
        <4> SUFFICES ASSUME NEW k \in Unseen PROVE FALSE
          OBVIOUS
        <4>1. k \in Conn /\ ring[<<"death", k>>] = "no" /\ ring[<<"done", k>>] = "no"
          BY <2>1, Rings DEF Unseen
        <4>2. CASE k \in done
          BY <4>1, <4>2, <3>1 DEF DoneInv, Unseen
        <4>3. CASE k \notin done
          BY <4>1, <4>3, <3>1 DEF DeathInv, Unseen
        <4> QED BY <4>2, <4>3
      <3> QED BY <3>2, <3>3
    <2>2. ASSUME NEW g \in Gor, gor[g] = "wait", ~bell, NoRing PROVE cmds = {} /\ Unseen \subseteq done
      <3>1. \A h \in Gor : gor[h] \in {"idle", "wait"}
        BY <2>2
      <3>2. cmds = {}
        BY <2>2, <3>1, ZenonT(30) DEF CmdInv
      <3>3. Unseen \subseteq done
        BY <2>2, <3>1, ZenonT(30) DEF DeathInv, Unseen
      <3> QED BY <3>2, <3>3
    <2> QED BY <2>1, <2>2 DEF NoLostWakeup
  <1> QED BY <1>1, <1>2, <1>3, Invariance, PTL DEF Spec
=============================================================================
