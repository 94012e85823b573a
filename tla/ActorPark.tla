----------------------------- MODULE ActorPark -----------------------------
(***************************************************************************)
(* The on-demand actor of a session (internal/session park.go, actor.go,   *)
(* mailbox.go).  One atomic state word hands the actor from goroutine to   *)
(* goroutine; a cap-1 doorbell and a mutex-guarded mailbox wake it.  Every *)
(* wake-up is a ring: leave the token, then kick the state word; other     *)
(* rings and the actor may run between the two halves.  A kick is a        *)
(* load/compare-and-swap loop whose effect is that of its last             *)
(* compare-and-swap, or of the load that finds nothing to do: one step.    *)
(*                                                                         *)
(* Carriers are the objects whose facts the actor re-reads: a lane whose   *)
(* carrier recorded its death is reaped into gone, and leaves gone once    *)
(* the carrier's goroutines are joined (its Done closed).                  *)
(***************************************************************************)
EXTENDS Naturals, FiniteSets

CONSTANTS Conn,   \* carriers
          Adopt,  \* the carriers that reach the session in an adopt command
          Reply,  \* commands that only want an answer (confirm, reject)
          Gor,    \* goroutines that may execute run
          None

ASSUME ConstAssumption ==
    /\ Adopt \subseteq Conn
    /\ Reply \cap Conn = {}
    /\ "shutdown" \notin Conn \cup Reply
    /\ None \notin Conn

\* An adopt command is named by the carrier it owns.
Cmd == Adopt \cup Reply \cup {"shutdown"}

\* The concurrent activities that ring the doorbell, and the parts of a ring.
Ringer == ({"post"} \X Cmd) \cup ({"death", "done"} \X Conn)
              \cup {<<"timer", "timer">>, <<"start", "start">>}
RingPC == {"no", "bell", "kick"}

Word == {"parked", "running", "again", "exited"}
GorPC == {"idle", "top", "bell", "drain", "handle", "act", "decide", "wait",
          "register", "cas", "exit"}

VARIABLES word,       \* actor.state
          bell,       \* mailbox.bell holds its token
          published,  \* mailbox.actor # nil
          ring,       \* how far each ring is
          gor,        \* where each goroutine is in run
          cmds,       \* mailbox.cmds
          mclosed,    \* mailbox.closed
          batch,      \* actor.cmds: drained and not yet handled
          taken,      \* how often each command was handed to the actor
          discarded,  \* commands the exit's final drain cleaned up
          refused,    \* commands whose post returned false
          adopting,   \* ctl.adopting: the adopts announced and not yet handled
          lanes, gone, dead, done,
          onDone,     \* carriers with the doorbell registered by OnDone
          toReg,      \* carriers the parking goroutine still has to register
          joined,     \* the carrier of gone whose join the loop waits for
          awaits,     \* our DONE was sent and the peer's is outstanding
          readerWait, \* actor.readerWait
          ending, adoptsLeft,
          timer       \* the runtime timer is armed

wordVars == <<word, bell, published, ring, gor>>
boxVars == <<cmds, mclosed, batch, taken, discarded, refused>>
connVars == <<lanes, gone, dead, done>>
waitVars == <<onDone, toReg, joined, readerWait, timer>>
endVars == <<awaits, ending, adoptsLeft, adopting>>
vars == <<wordVars, boxVars, connVars, waitVars, endVars>>

Init ==
    /\ word = "parked" /\ bell = FALSE /\ published = FALSE
    /\ ring = [r \in Ringer |-> "no"] /\ gor = [g \in Gor |-> "idle"]
    /\ cmds = {} /\ mclosed = FALSE /\ batch = {}
    /\ taken = [c \in Cmd |-> 0] /\ discarded = {} /\ refused = {}
    /\ lanes = Conn \ Adopt /\ gone = {} /\ dead = {} /\ done = {}
    /\ onDone = {} /\ toReg = {} /\ joined = None /\ readerWait = None /\ timer = FALSE
    /\ awaits = FALSE /\ ending = FALSE /\ adoptsLeft = {} /\ adopting = {}

-----------------------------------------------------------------------------
(* Ringing: mailbox.ring and actor.kick *)

StartRing(r) == ring' = [ring EXCEPT ![r] = "bell"]

RingBell(r) ==
    /\ ring[r] = "bell"
    /\ bell' = TRUE
    /\ ring' = [ring EXCEPT ![r] = "kick"]
    /\ UNCHANGED <<word, published, gor, boxVars, connVars, waitVars, endVars>>

\* Variant for checking the properties: a kick that starts a goroutine for an
\* actor that already owes a step.
Kick_StartsTwice(r) ==
    /\ ring[r] = "kick"
    /\ ring' = [ring EXCEPT ![r] = "no"]
    /\ \/ /\ published /\ word \in {"parked", "again"}
          /\ word' = "running"
          /\ \E g \in Gor : gor[g] = "idle" /\ gor' = [gor EXCEPT ![g] = "top"]
       \/ published /\ word = "running" /\ word' = "again" /\ UNCHANGED gor
       \/ (~published \/ word = "exited") /\ UNCHANGED <<word, gor>>
    /\ UNCHANGED <<bell, published, boxVars, connVars, waitVars, endVars>>

\* kick of the published actor: parked starts a goroutine, running asks for
\* one more step, again and exited need nothing.
Kick(r) ==
    /\ ring[r] = "kick"
    /\ ring' = [ring EXCEPT ![r] = "no"]
    /\ \/ /\ published /\ word = "parked"
          /\ word' = "running"
          /\ \E g \in Gor : gor[g] = "idle" /\ gor' = [gor EXCEPT ![g] = "top"]
       \/ published /\ word = "running" /\ word' = "again" /\ UNCHANGED gor
       \/ (~published \/ word \in {"again", "exited"}) /\ UNCHANGED <<word, gor>>
    /\ UNCHANGED <<bell, published, boxVars, connVars, waitVars, endVars>>

-----------------------------------------------------------------------------
(* The callers *)

\* Session.Start: publish the actor, then kick it (no token).
Start ==
    /\ ~published
    /\ published' = TRUE
    /\ ring' = [ring EXCEPT ![<<"start", "start">>] = "kick"]
    /\ UNCHANGED <<word, bell, gor, boxVars, connVars, waitVars, endVars>>

\* Join and AttachOpenEarly count the adopt under the session lock and refuse
\* once the session ended; the post follows outside the lock.
Announce(k) ==
    /\ ~ending
    /\ k \notin adopting /\ taken[k] = 0
    /\ adopting' = adopting \cup {k}
    /\ UNCHANGED <<wordVars, boxVars, connVars, waitVars, awaits, ending, adoptsLeft>>

\* mailbox.post, once for each command.
Post(c) ==
    /\ c \in Adopt => c \in adopting
    /\ c \notin cmds \cup refused /\ taken[c] = 0
    /\ \/ mclosed /\ refused' = refused \cup {c} /\ UNCHANGED <<cmds, ring>>
       \/ ~mclosed /\ cmds' = cmds \cup {c} /\ StartRing(<<"post", c>>) /\ UNCHANGED refused
    /\ UNCHANGED <<word, bell, published, gor, mclosed, batch, taken, discarded,
                   connVars, waitVars, endVars>>

\* A carrier records its death, then rings the session's doorbell.
ConnDies(k) ==
    /\ k \in lanes \ dead
    /\ dead' = dead \cup {k}
    /\ StartRing(<<"death", k>>)
    /\ UNCHANGED <<word, bell, published, gor, boxVars, lanes, gone, done, waitVars, endVars>>

\* The goroutines of an ended carrier are joined: Done closes and the doorbell
\* registered by OnDone, if any, rings once.
ConnDone(k) ==
    /\ k \in dead \ done
    /\ done' = done \cup {k}
    /\ IF k \in onDone THEN StartRing(<<"done", k>>) ELSE UNCHANGED ring
    /\ UNCHANGED <<word, bell, published, gor, boxVars, lanes, gone, dead, waitVars, endVars>>

\* Fill placed our DONE while the peer's is outstanding.
DoneSent ==
    /\ ~awaits /\ ~ending
    /\ awaits' = TRUE
    /\ UNCHANGED <<wordVars, boxVars, connVars, waitVars, ending, adoptsLeft, adopting>>

\* The runtime timer's callback is the doorbell's ring.
TimerFires ==
    /\ timer /\ ring[<<"timer", "timer">>] = "no"
    /\ timer' = FALSE
    /\ StartRing(<<"timer", "timer">>)
    /\ UNCHANGED <<word, bell, published, gor, boxVars, connVars, endVars,
                   onDone, toReg, joined, readerWait>>

-----------------------------------------------------------------------------
(* The goroutine: actor.run *)

Go(g, from, to) == gor[g] = from /\ gor' = [gor EXCEPT ![g] = to]

Top(g) ==
    /\ Go(g, "top", "bell")
    /\ word' = "running"
    /\ UNCHANGED <<bell, published, ring, boxVars, connVars, waitVars, endVars>>

TakeToken(g) ==
    /\ Go(g, "bell", "drain")
    /\ bell' = FALSE
    /\ UNCHANGED <<word, published, ring, boxVars, connVars, waitVars, endVars>>

Take(C) == taken' = [c \in Cmd |-> IF c \in C THEN taken[c] + 1 ELSE taken[c]]

Drain(g) ==
    /\ Go(g, "drain", "handle")
    /\ batch' = cmds /\ cmds' = {} /\ Take(cmds)
    /\ UNCHANGED <<word, bell, published, ring, mclosed, discarded, refused,
                   connVars, waitVars, endVars>>

\* The commands of a step, one critical section: an adopt becomes a lane, or,
\* once the session ended, is answered and its carrier closed without becoming
\* one.  The adopts of the batch that arrived before the shutdown are early.
Handle(g) ==
    /\ Go(g, "handle", "act")
    /\ batch' = {}
    /\ ending' = (ending \/ "shutdown" \in batch)
    /\ \E early \in SUBSET (batch \cap Adopt) :
         LET late == (batch \cap Adopt) \ early IN
         /\ ending => early = {}
         /\ ~ending' => late = {}
         /\ lanes' = lanes \cup early
         /\ gone' = gone \cup late
         /\ dead' = dead \cup late
    /\ adopting' = adopting \ batch
    /\ adoptsLeft' = IF ending' THEN adopting' ELSE adoptsLeft
    /\ UNCHANGED <<word, bell, published, ring, cmds, mclosed, taken, discarded, refused,
                   done, waitVars, awaits>>

\* awaitReaderLocked: the death step waits for the carrier's reader.
AwaitReader(k) == ~ending /\ awaits /\ k \notin done

\* reapDead and pruneGoneLocked: the ended lanes go to gone, the joined
\* carriers leave it; endingLocked refreshes adoptsLeft.
Act(g) ==
    /\ Go(g, "act", "decide")
    /\ LET reaped == {k \in lanes \cap dead : ~AwaitReader(k)}
           waits == (lanes \cap dead) \ reaped IN
         /\ lanes' = lanes \ reaped
         /\ gone' = (gone \cup reaped) \ done
         /\ IF waits = {} THEN readerWait' = None ELSE readerWait' \in waits
    /\ adoptsLeft' = IF ending THEN adopting ELSE adoptsLeft
    /\ UNCHANGED <<word, bell, published, ring, boxVars, dead, done,
                   onDone, toReg, joined, timer, awaits, ending, adopting>>

\* Variants: quiet without the adopts, and an exit that joins no carrier.
Quiet_NoAdopts == lanes = {} /\ gone = {}
Quiet_NoJoin == lanes = {} /\ adoptsLeft = {}

\* quiet, and no carrier left to join.
Quiet == lanes = {} /\ adoptsLeft = {} /\ gone = {}

\* Variant: park without OnDone on the carriers of gone.
Registers_NoGone == IF readerWait # None THEN lanes \cap dead ELSE {}

\* park registers the doorbell on the carriers of gone and, while a death step
\* awaits a reader, on the ended lanes.
Registers == gone \cup (IF readerWait # None THEN lanes \cap dead ELSE {})

\* The decision after a step: exit, one more step for a kick, a wait within
\* the linger (the timer then also runs), or park, with the timer armed for a
\* deadline only.
Decide(g) ==
    /\ \/ /\ ending /\ Quiet
          /\ Go(g, "decide", "exit") /\ word' = "exited"
          /\ UNCHANGED waitVars
       \/ /\ ~(ending /\ Quiet) /\ word = "again"
          /\ Go(g, "decide", "top") /\ word' = "running"
          /\ UNCHANGED waitVars
       \/ /\ ~(ending /\ Quiet) /\ word # "again"
          /\ Go(g, "decide", "wait")
          /\ timer' = TRUE
          /\ IF gone = {} THEN joined' = None ELSE joined' \in gone
          /\ UNCHANGED <<word, onDone, toReg, readerWait>>
       \/ /\ ~(ending /\ Quiet) /\ word # "again"
          /\ Go(g, "decide", "register")
          /\ timer' \in BOOLEAN
          /\ toReg' = Registers
          /\ UNCHANGED <<word, onDone, joined, readerWait>>
    /\ UNCHANGED <<bell, published, ring, boxVars, connVars, endVars>>

\* The select at the end of the loop.
Wake(g) ==
    /\ Go(g, "wait", "top")
    /\ \/ bell /\ bell' = FALSE
       \/ {joined, readerWait} \cap done # {} /\ UNCHANGED bell
    /\ joined' = None /\ readerWait' = None
    /\ UNCHANGED <<word, published, ring, boxVars, connVars, endVars, onDone, toReg, timer>>

\* OnDone on a carrier whose Done already closed rings at once.
Register(g) ==
    /\ gor[g] = "register"
    /\ \E k \in toReg :
         /\ toReg' = toReg \ {k}
         /\ onDone' = onDone \cup {k}
         /\ bell' = (bell \/ k \in done)
         /\ word' = IF k \in done THEN "again" ELSE word
    /\ UNCHANGED <<gor, published, ring, boxVars, connVars, endVars, joined, readerWait, timer>>

Registered(g) ==
    /\ toReg = {} /\ Go(g, "register", "cas")
    /\ UNCHANGED <<word, bell, published, ring, boxVars, connVars, waitVars, endVars>>

\* Variant: park stores parked whatever the word is.
ParkCAS_Store(g) ==
    /\ word' = "parked" /\ Go(g, "cas", "idle")
    /\ UNCHANGED <<bell, published, ring, boxVars, connVars, waitVars, endVars>>

\* The compare-and-swap of park fails when a kick arrived since the step began.
ParkCAS(g) ==
    /\ \/ word = "running" /\ word' = "parked" /\ Go(g, "cas", "idle")
       \/ word # "running" /\ UNCHANGED word /\ Go(g, "cas", "top")
    /\ UNCHANGED <<bell, published, ring, boxVars, connVars, waitVars, endVars>>

\* exit: the final drain closes the mailbox and discards what is left.
Exit(g) ==
    /\ Go(g, "exit", "idle")
    /\ mclosed' = TRUE /\ cmds' = {} /\ Take(cmds)
    /\ discarded' = discarded \cup cmds
    /\ timer' = FALSE
    /\ UNCHANGED <<word, bell, published, ring, batch, refused, connVars, endVars,
                   onDone, toReg, joined, readerWait>>

Run(g) ==
    \/ Top(g) \/ TakeToken(g) \/ Drain(g) \/ Handle(g) \/ Act(g) \/ Decide(g)
    \/ Wake(g) \/ Register(g) \/ Registered(g) \/ ParkCAS(g) \/ Exit(g)

Ring(r) == RingBell(r) \/ Kick(r)

Next ==
    \/ Start \/ DoneSent \/ TimerFires
    \/ \E r \in Ringer : Ring(r)
    \/ \E k \in Adopt : Announce(k)
    \/ \E c \in Cmd : Post(c)
    \/ \E k \in Conn : ConnDies(k) \/ ConnDone(k)
    \/ \E g \in Gor : Run(g)

\* The runtime schedules every goroutine, and the goroutines of an ended
\* carrier are joined.  An ended session retires its lanes and kills at closeBy
\* those that still live.  Nobody else has to post, and no carrier has to die.
Fairness ==
    /\ WF_vars(Start) /\ WF_vars(TimerFires)
    /\ \A r \in Ringer : WF_vars(Ring(r))
    /\ \A k \in Adopt : WF_vars(Post(k))
    /\ \A k \in Conn : WF_vars(ConnDone(k)) /\ WF_vars(ending /\ ConnDies(k))
    /\ \A g \in Gor : WF_vars(Run(g))

Spec == Init /\ [][Next]_vars
FairSpec == Spec /\ Fairness

-----------------------------------------------------------------------------
(* Properties *)

TypeOK ==
    /\ word \in Word /\ bell \in BOOLEAN /\ published \in BOOLEAN
    /\ ring \in [Ringer -> RingPC] /\ gor \in [Gor -> GorPC]
    /\ cmds \subseteq Cmd /\ batch \subseteq Cmd /\ mclosed \in BOOLEAN
    /\ taken \in [Cmd -> 0..1] /\ discarded \subseteq Cmd /\ refused \subseteq Cmd
    /\ adopting \subseteq Adopt /\ adoptsLeft \subseteq Adopt
    /\ lanes \subseteq Conn /\ gone \subseteq Conn /\ dead \subseteq Conn
    /\ done \subseteq Conn /\ onDone \subseteq Conn /\ toReg \subseteq Conn
    /\ joined \in Conn \cup {None} /\ readerWait \in Conn \cup {None}
    /\ awaits \in BOOLEAN /\ ending \in BOOLEAN /\ timer \in BOOLEAN

\* park.go: "Only the goroutine that moved the word from parked to running runs
\* steps, so one step runs at a time per session"; a parked actor has no
\* goroutine, an exited one none that still runs steps.
OneActor ==
    /\ \A g, h \in Gor : gor[g] # "idle" /\ gor[h] # "idle" => g = h
    /\ word = "parked" => \A g \in Gor : gor[g] = "idle"
    /\ word = "exited" => \A g \in Gor : gor[g] \in {"idle", "exit"}

\* Nothing the actor has to look at is ever left behind an actor that sleeps: a
\* parked actor with no ring under way has an empty mailbox, no dead lane it
\* would reap and no joined carrier in gone; a waiting one without a token has
\* an empty mailbox too, and what it has not seen is a carrier joined later.
Unseen == {k \in lanes \cap dead : ~AwaitReader(k)} \cup (gone \cap done)
NoRing == \A r \in Ringer : ring[r] = "no"
NoLostWakeup ==
    /\ word = "parked" /\ published /\ NoRing => cmds = {} /\ Unseen = {}
    /\ \A g \in Gor : gor[g] = "wait" /\ ~bell /\ NoRing => cmds = {} /\ Unseen \subseteq done

\* mailbox.go: every posted command is handed to the actor exactly once or
\* refused; an adopt, which owns a carrier, is never refused by the mailbox nor
\* left to the exit's final drain (actor.go, adoptsLeft).
HandedOnce ==
    /\ \A c \in Cmd : taken[c] <= 1 /\ (c \in cmds \cup refused => taken[c] = 0)
    /\ (discarded \cup refused) \cap Adopt = {}
    /\ mclosed => cmds = {} /\ batch = {}

\* actor.go: the actor exits only once every carrier it was handed is joined,
\* so none of their goroutines outlives Session.Done.
ExitJoined ==
    mclosed => /\ lanes \cup gone = {}
               /\ \A k \in Conn : (k \in Adopt => taken[k] = 1) => k \in done

\* A session whose end was decided exits (Session.Done closes).
EndsExits == ending ~> mclosed

\* A command in the mailbox is taken by the actor.
PostedTaken == \A c \in Cmd : (c \in cmds) ~> (taken[c] = 1)
=============================================================================
