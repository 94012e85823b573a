---------------------------- MODULE DepthReader ----------------------------
(***************************************************************************)
(* The adaptive receive depth of a datagram carrier's reader               *)
(* (internal/carrier/dgread.go) over the four-state word of                *)
(* internal/udpsocket's Reader (conn.go), and the idle-release timer that  *)
(* takes the extra read slots of a parked reader back.                     *)
(*                                                                         *)
(* At depth k > 1 the reader lends the socket a pooled header with k - 1   *)
(* slots.  While the read is parked nobody owns them: the read callback    *)
(* takes them back by CAS when it wakes, or the timer does, returns the    *)
(* slots and the charge, and wakes the read with a deadline of now; the    *)
(* reader pools the header itself once it sees the release complete.       *)
(* The reader, the timer's goroutine, the socket and the carrier's death   *)
(* interleave; one step is one access to what they share.                  *)
(***************************************************************************)
EXTENDS Integers, Sequences, FiniteSets, FiniteSetsExt

CONSTANTS HdrCap,     \* the headers' capacities, a function of the headers
          DepthMax,   \* the configured MaxBatch
          DepthPlans  \* [bursts, may]: the datagrams that arrive together, and the
                      \* troubles, of "dies", "plain", "refuse", "stalls"

VARIABLES dplan,   \* what happens to the socket; never changes
          word,    \* Reader.word: the state and the count of parks
          lent,    \* Reader.b
          relHdr,  \* OwnedUDP.relHdr
          hdrs,    \* each header: its depth, slots held, charge, generation
          pooled,  \* how many times each header is in the pool
          rd,      \* the reader goroutine
          tmr,     \* the timer: armed to fire, and its goroutine
          flag,    \* the atomics they share: armed, lastSeq, relGen, relHdrGen, woke
          sock,    \* the socket: datagrams queued and still to come, deadline, mode
          dying    \* the carrier's death record

dVars == <<dplan, word, lent, relHdr, hdrs, pooled, rd, tmr, flag, sock, dying>>

Hdr == DOMAIN HdrCap
NoHdr == 0
Free == [k |-> 1, slots |-> 0, charged |-> FALSE, gen |-> 0]

DInit == /\ dplan \in DepthPlans
         /\ word = [st |-> "idle", parks |-> 0]
         /\ lent = NoHdr /\ relHdr = NoHdr
         /\ hdrs = [h \in Hdr |-> Free]
         /\ pooled = [h \in Hdr |-> 1]
         /\ rd = [pc |-> "top", hdr |-> NoHdr, stale |-> NoHdr, gen |-> 0,
                  extras |-> FALSE, cur |-> NoHdr, n |-> 0, parks |-> 0]
         /\ tmr = [pc |-> "none", set |-> FALSE, seq |-> 0, b |-> NoHdr, ended |-> FALSE]
         /\ flag = [armed |-> FALSE, lastSeq |-> 0, relGen |-> 0, relHdrGen |-> 0, woke |-> FALSE]
         /\ sock = [q |-> 0, left |-> dplan.bursts, deadline |-> FALSE, plain |-> FALSE]
         /\ dying = FALSE

-----------------------------------------------------------------------------
(* The Reader's word                                                       *)

Held == word.st = "held"
Holding == word.st \in {"held", "parked"}
Parked(w) == [st |-> "parked", parks |-> w.parks + 1]

\* unpark: the reader takes the extras back unless the release has them
Unparked == IF word.st = "parked" THEN [word EXCEPT !.st = "held"] ELSE word

\* depthMax
Depth == IF sock.plain THEN 1 ELSE DepthMax

\* putRead, with releaseSlots: the header is free and in the pool once more
Put(h) == /\ hdrs' = [hdrs EXCEPT ![h] = Free]
          /\ pooled' = [pooled EXCEPT ![h] = @ + 1]

\* collect: the stale header goes back once the release that took it completed
Collectable(s) == s # NoHdr /\ flag.relGen = hdrs[s].gen

-----------------------------------------------------------------------------
(* The reader goroutine: dgReadDepth, readDepth, ReadBatch, doRead         *)

\* The extras go back before a read that cannot use them: shrink(1)
ReadTopShrinks ==
    /\ rd.pc = "top" /\ rd.hdr # NoHdr /\ Depth < 2
    /\ word' = IF Held THEN [word EXCEPT !.st = "idle"] ELSE word
    /\ lent' = IF Held THEN NoHdr ELSE lent
    /\ relHdr' = IF Held THEN NoHdr ELSE relHdr
    /\ Put(rd.hdr)
    /\ rd' = [rd EXCEPT !.hdr = NoHdr]
    /\ UNCHANGED <<dplan, tmr, flag, sock, dying>>

ReadTop ==
    /\ rd.pc = "top" /\ (rd.hdr = NoHdr \/ Depth >= 2)
    /\ rd' = [rd EXCEPT !.pc = IF sock.plain THEN "plain" ELSE "call", !.extras = Held,
                        !.cur = NoHdr, !.n = 0, !.parks = word.parks]
    /\ UNCHANGED <<dplan, word, lent, relHdr, hdrs, pooled, tmr, flag, sock, dying>>

\* RawConn.Read: a passed deadline ends the read
ReadDeadline ==
    /\ rd.pc \in {"call", "wait", "plainWait"} /\ sock.deadline
    /\ rd' = [rd EXCEPT !.pc = "back", !.n = -1]
    /\ UNCHANGED <<dplan, word, lent, relHdr, hdrs, pooled, tmr, flag, sock, dying>>

\* doRead: through the extras if the reader still has them, else one
\* datagram through the fixed header; nothing queued: it parks and waits
DoRead ==
    /\ rd.pc = "call" /\ ~sock.deadline
    /\ LET w == IF rd.extras THEN Unparked ELSE word
           b == IF rd.extras /\ w.st = "held" THEN lent ELSE NoHdr
           n == IF b = NoHdr THEN 1 ELSE Min({sock.q, hdrs[b].k})
       IN  IF sock.q > 0
             THEN /\ word' = w
                  /\ sock' = [sock EXCEPT !.q = @ - n]
                  /\ rd' = [rd EXCEPT !.pc = "back", !.cur = b, !.n = n]
             ELSE /\ word' = IF b = NoHdr THEN w ELSE Parked(w)
                  /\ rd' = [rd EXCEPT !.pc = "wait", !.cur = b]
                  /\ UNCHANGED sock
    /\ UNCHANGED <<dplan, lent, relHdr, hdrs, pooled, tmr, flag, dying>>

\* The netpoller wakes the read
Polled ==
    /\ rd.pc = "wait" /\ sock.q > 0
    /\ rd' = [rd EXCEPT !.pc = "call"]
    /\ UNCHANGED <<dplan, word, lent, relHdr, hdrs, pooled, tmr, flag, sock, dying>>

\* endRead: the batch call is refused for good; the socket reads plainly
Denied ==
    /\ rd.pc = "call" /\ "plain" \in dplan.may /\ ~sock.plain /\ ~sock.deadline
    /\ sock' = [sock EXCEPT !.plain = TRUE]
    /\ word' = IF rd.extras THEN Unparked ELSE word
    /\ rd' = [rd EXCEPT !.pc = "plain"]
    /\ UNCHANGED <<dplan, lent, relHdr, hdrs, pooled, tmr, flag, dying>>

\* The writer's batch call is refused: the mode of the shared socket changes
WriterFallsBack ==
    /\ "plain" \in dplan.may /\ ~sock.plain
    /\ sock' = [sock EXCEPT !.plain = TRUE]
    /\ UNCHANGED <<dplan, word, lent, relHdr, hdrs, pooled, rd, tmr, flag, dying>>

\* readPlain: held extras count as parked while the plain read blocks
PlainStart ==
    /\ rd.pc = "plain"
    /\ word' = IF Held THEN Parked(word) ELSE word
    /\ rd' = [rd EXCEPT !.pc = "plainWait", !.cur = NoHdr]
    /\ UNCHANGED <<dplan, lent, relHdr, hdrs, pooled, tmr, flag, sock, dying>>

PlainRead ==
    /\ rd.pc = "plainWait" /\ sock.q > 0 /\ ~sock.deadline
    /\ sock' = [sock EXCEPT !.q = @ - 1]
    /\ rd' = [rd EXCEPT !.pc = "back", !.n = 1]
    /\ UNCHANGED <<dplan, word, lent, relHdr, hdrs, pooled, tmr, flag, dying>>

\* The read returned: the reader takes the extras back, or finds that the
\* release has them; then its header is stale
ReadBack ==
    /\ rd.pc = "back"
    /\ LET w    == Unparked
           gone == rd.hdr # NoHdr /\ w.st # "held"
       IN  /\ word' = w
           /\ rd' = [rd EXCEPT !.pc = IF rd.n < 0 THEN "error" ELSE "results",
                               !.stale = IF gone THEN rd.hdr ELSE @,
                               !.hdr = IF gone THEN NoHdr ELSE @]
    /\ UNCHANGED <<dplan, lent, relHdr, hdrs, pooled, tmr, flag, sock, dying>>

\* The datagrams are handled, in the message array of the call's header;
\* a dead carrier's reader exits
Results ==
    /\ rd.pc = "results"
    /\ rd' = [rd EXCEPT !.pc = IF dying THEN "exit" ELSE "collect"]
    /\ UNCHANGED <<dplan, word, lent, relHdr, hdrs, pooled, tmr, flag, sock, dying>>

\* collect, after the results or the error
Collect ==
    /\ rd.pc \in {"collect", "error"}
    /\ rd' = [rd EXCEPT !.pc = IF rd.pc = "error" THEN "woken" ELSE "adapt", !.cur = NoHdr,
                        !.stale = IF Collectable(@) THEN NoHdr ELSE @]
    /\ IF Collectable(rd.stale) THEN Put(rd.stale) ELSE UNCHANGED <<hdrs, pooled>>
    /\ UNCHANGED <<dplan, word, lent, relHdr, tmr, flag, sock, dying>>

\* woke.Swap
Woken(f) == f.woke

\* A deadline: the idle release's wake, or the end of the carrier (readFailed)
AfterDeadline ==
    /\ rd.pc = "woken"
    /\ rd' = [rd EXCEPT !.pc = IF Woken(flag) THEN "clear" ELSE "failed"]
    /\ flag' = [flag EXCEPT !.woke = FALSE]
    /\ UNCHANGED <<dplan, word, lent, relHdr, hdrs, pooled, tmr, sock, dying>>

ClearDeadline ==
    /\ rd.pc = "clear"
    /\ sock' = [sock EXCEPT !.deadline = FALSE]
    /\ rd' = [rd EXCEPT !.pc = "alive"]
    /\ UNCHANGED <<dplan, word, lent, relHdr, hdrs, pooled, tmr, flag, dying>>

\* The carrier's death is looked at after the deadline was cleared
CheckDying ==
    /\ rd.pc \in {"alive", "failed"}
    /\ rd' = [rd EXCEPT !.pc = IF dying \/ rd.pc = "failed" THEN "exit" ELSE "top"]
    /\ UNCHANGED <<dplan, word, lent, relHdr, hdrs, pooled, tmr, flag, sock, dying>>

Class(k) == CHOOSE c \in {HdrCap[h] : h \in Hdr} : c >= k /\ \A h \in Hdr : HdrCap[h] >= k => c <= HdrCap[h]

\* grow to nk: the new slots, and a larger header when the held one is too
\* small; the budget may refuse the slots, the Reader the lend
Grow(nk) ==
    LET h == rd.hdr
        fits == IF h = NoHdr THEN FALSE ELSE HdrCap[h] >= nk
    IN  \/ /\ "refuse" \in dplan.may          \* everything taken for the growth goes back
           /\ rd' = [rd EXCEPT !.pc = "top"]
           /\ UNCHANGED <<word, lent, relHdr, hdrs, pooled>>
        \/ /\ fits
           /\ hdrs' = [hdrs EXCEPT ![h].k = nk, ![h].slots = nk - 1]
           /\ rd' = [rd EXCEPT !.pc = "top"]
           /\ UNCHANGED <<word, lent, relHdr, pooled>>
        \/ /\ ~fits /\ word.st = "releasing"
           /\ rd' = [rd EXCEPT !.pc = "top"]
           /\ UNCHANGED <<word, lent, relHdr, hdrs, pooled>>
        \/ /\ ~fits /\ word.st \in {"idle", "held"}
           /\ \E new \in {x \in Hdr : pooled[x] > 0 /\ HdrCap[x] = Class(nk)} :
                /\ \A x \in Hdr : x < new /\ HdrCap[x] = Class(nk) => pooled[x] = 0
                /\ hdrs' = [x \in Hdr |->
                     IF x = new THEN [k |-> nk, slots |-> nk - 1, charged |-> TRUE, gen |-> rd.gen + 1]
                     ELSE IF x \in {h, rd.stale} THEN Free ELSE hdrs[x]]
                /\ pooled' = [x \in Hdr |->
                     IF x = new THEN pooled[x] - 1
                     ELSE IF x \in {h, rd.stale} THEN pooled[x] + 1 ELSE pooled[x]]
                /\ word' = [word EXCEPT !.st = "held"]
                /\ lent' = new /\ relHdr' = new
                /\ rd' = [rd EXCEPT !.pc = "arm", !.hdr = new, !.stale = NoHdr, !.gen = @ + 1]

\* shrink to nk
Shrink(nk) ==
    LET h == rd.hdr
    IN  /\ rd' = [rd EXCEPT !.pc = "top", !.hdr = IF nk > 1 THEN h ELSE NoHdr]
        /\ IF nk > 1
             THEN /\ hdrs' = [hdrs EXCEPT ![h].k = nk, ![h].slots = nk - 1]
                  /\ UNCHANGED <<word, lent, relHdr, pooled>>
             ELSE /\ Put(h)
                  /\ word' = IF Held THEN [word EXCEPT !.st = "idle"] ELSE word
                  /\ lent' = IF Held THEN NoHdr ELSE lent
                  /\ relHdr' = IF Held THEN NoHdr ELSE relHdr

\* dgAdapt
Adapt ==
    /\ rd.pc = "adapt"
    /\ LET k      == IF rd.hdr = NoHdr THEN 1 ELSE hdrs[rd.hdr].k
           parked == word.parks # rd.parks
       IN  IF k > Depth THEN Shrink(Depth)
           ELSE IF rd.n >= k /\ k < Depth THEN Grow(Min({2 * k, Depth}))
           ELSE IF parked /\ 4 * rd.n < k THEN Shrink(k \div 2)
           ELSE /\ rd' = [rd EXCEPT !.pc = "top"]
                /\ UNCHANGED <<word, lent, relHdr, hdrs, pooled>>
    /\ UNCHANGED <<dplan, tmr, flag, sock, dying>>

\* arm
Arm ==
    /\ rd.pc = "arm"
    /\ IF flag.armed THEN UNCHANGED <<flag, tmr>>
       ELSE /\ flag' = [flag EXCEPT !.armed = TRUE, !.lastSeq = word.parks]
            /\ tmr' = [tmr EXCEPT !.set = TRUE]
    /\ rd' = [rd EXCEPT !.pc = "top"]
    /\ UNCHANGED <<dplan, word, lent, relHdr, hdrs, pooled, sock, dying>>

\* endDepth, first part: it waits for a firing in progress (relMu), then no
\* firing follows
EndDepth ==
    /\ rd.pc = "exit" /\ tmr.pc = "none"
    /\ tmr' = [tmr EXCEPT !.ended = TRUE, !.set = FALSE]
    /\ rd' = [rd EXCEPT !.pc = "drain"]
    /\ UNCHANGED <<dplan, word, lent, relHdr, hdrs, pooled, flag, sock, dying>>

\* endDepth, second part: what the reader still holds goes back; then partDone
Drain ==
    /\ rd.pc = "drain"
    /\ LET back == {h \in Hdr : h = rd.hdr \/ (h = rd.stale /\ Collectable(h))}
       IN  /\ hdrs' = [h \in Hdr |-> IF h \in back THEN Free ELSE hdrs[h]]
           /\ pooled' = [h \in Hdr |-> IF h \in back THEN pooled[h] + 1 ELSE pooled[h]]
    /\ word' = IF Held THEN [word EXCEPT !.st = "idle"] ELSE word
    /\ lent' = IF Held THEN NoHdr ELSE lent
    /\ relHdr' = IF Held THEN NoHdr ELSE relHdr
    /\ rd' = [rd EXCEPT !.pc = "done", !.hdr = NoHdr, !.stale = NoHdr, !.cur = NoHdr]
    /\ UNCHANGED <<dplan, tmr, flag, sock, dying>>

-----------------------------------------------------------------------------
(* The timer's goroutine: idleFire, TryRelease, releaseHdr                 *)

Rearmed == [tmr EXCEPT !.pc = "none", !.set = TRUE]

\* idleFire.  Two firings are a period apart (a second): unless the reader
\* stalls that long, it has answered the wake of the release before
Fires ==
    /\ tmr.pc = "none" /\ tmr.set /\ ~tmr.ended
    /\ flag.woke => "stalls" \in dplan.may
    /\ IF ~Holding
         THEN tmr' = [tmr EXCEPT !.pc = "disarm", !.set = FALSE] /\ UNCHANGED flag
         ELSE IF word.parks # flag.lastSeq
           THEN flag' = [flag EXCEPT !.lastSeq = word.parks] /\ tmr' = Rearmed
           ELSE /\ flag' = [flag EXCEPT !.relHdrGen = 0]
                /\ tmr' = [tmr EXCEPT !.pc = "try", !.set = FALSE, !.seq = word.parks]
    /\ UNCHANGED <<dplan, word, lent, relHdr, hdrs, pooled, rd, sock, dying>>

\* A release that does not look at the state again
CanTake_AnyState == word.parks = tmr.seq /\ Holding

\* The CAS of TryRelease: still parked, and not parked again since
CanTake == word = [st |-> "parked", parks |-> tmr.seq]

TryRelease ==
    /\ tmr.pc = "try"
    /\ IF CanTake
         THEN /\ word' = [word EXCEPT !.st = "releasing"]
              /\ tmr' = [tmr EXCEPT !.pc = "release", !.b = lent]
              /\ lent' = NoHdr
         ELSE tmr' = Rearmed /\ UNCHANGED <<word, lent>>
    /\ UNCHANGED <<dplan, relHdr, hdrs, pooled, rd, flag, sock, dying>>

\* releaseExtras, releaseHdr: the slots and the charge go back
ReleaseHdr ==
    /\ tmr.pc = "release"
    /\ IF relHdr = tmr.b
         THEN /\ hdrs' = [hdrs EXCEPT ![tmr.b].slots = 0, ![tmr.b].charged = FALSE]
              /\ flag' = [flag EXCEPT !.relHdrGen = hdrs[tmr.b].gen]
              /\ relHdr' = NoHdr
         ELSE UNCHANGED <<hdrs, flag, relHdr>>
    /\ tmr' = [tmr EXCEPT !.pc = "idle"]
    /\ UNCHANGED <<dplan, word, lent, pooled, rd, sock, dying>>

ReleaseDone ==
    /\ tmr.pc = "idle"
    /\ word' = [word EXCEPT !.st = "idle"]
    /\ tmr' = [tmr EXCEPT !.pc = "gen", !.b = NoHdr]
    /\ UNCHANGED <<dplan, lent, relHdr, hdrs, pooled, rd, flag, sock, dying>>

\* idleFire after a release: the generation is published, then the read is
\* woken
Publish ==
    /\ tmr.pc \in {"gen", "woke"}
    /\ flag' = IF tmr.pc = "gen" THEN [flag EXCEPT !.relGen = flag.relHdrGen]
                                 ELSE [flag EXCEPT !.woke = TRUE]
    /\ tmr' = [tmr EXCEPT !.pc = IF tmr.pc = "gen" THEN "woke" ELSE "wake"]
    /\ UNCHANGED <<dplan, word, lent, relHdr, hdrs, pooled, rd, sock, dying>>

SetDeadline ==
    /\ tmr.pc = "wake"
    /\ sock' = [sock EXCEPT !.deadline = TRUE]
    /\ tmr' = [tmr EXCEPT !.pc = "disarm"]
    /\ UNCHANGED <<dplan, word, lent, relHdr, hdrs, pooled, rd, flag, dying>>

Disarm ==
    /\ tmr.pc = "disarm"
    /\ flag' = [flag EXCEPT !.armed = FALSE]
    /\ tmr' = [tmr EXCEPT !.pc = "again"]
    /\ UNCHANGED <<dplan, word, lent, relHdr, hdrs, pooled, rd, sock, dying>>

\* The reader may have lent a header meanwhile and found the timer armed
ArmAgain ==
    /\ tmr.pc = "again"
    /\ IF Holding /\ ~flag.armed
         THEN flag' = [flag EXCEPT !.armed = TRUE, !.lastSeq = word.parks] /\ tmr' = Rearmed
         ELSE tmr' = [tmr EXCEPT !.pc = "none"] /\ UNCHANGED flag
    /\ UNCHANGED <<dplan, word, lent, relHdr, hdrs, pooled, rd, sock, dying>>

-----------------------------------------------------------------------------
(* The socket and the carrier                                              *)

Arrive ==
    /\ sock.left # <<>>
    /\ sock' = [sock EXCEPT !.left = Tail(@), !.q = @ + Head(sock.left)]
    /\ UNCHANGED <<dplan, word, lent, relHdr, hdrs, pooled, rd, tmr, flag, dying>>

\* setDeath, and then the closer's deadline
Dies ==
    /\ "dies" \in dplan.may /\ ~dying /\ rd.pc # "done"
    /\ dying' = TRUE
    /\ UNCHANGED <<dplan, word, lent, relHdr, hdrs, pooled, rd, tmr, flag, sock>>

CloserDeadline ==
    /\ dying /\ ~sock.deadline /\ rd.pc # "done"
    /\ sock' = [sock EXCEPT !.deadline = TRUE]
    /\ UNCHANGED <<dplan, word, lent, relHdr, hdrs, pooled, rd, tmr, flag, dying>>

DNext == \/ ReadTopShrinks \/ ReadTop \/ ReadDeadline \/ DoRead \/ Polled \/ Denied
         \/ WriterFallsBack \/ PlainStart \/ PlainRead \/ ReadBack \/ Results \/ Collect
         \/ AfterDeadline \/ ClearDeadline \/ CheckDying \/ Adapt \/ Arm \/ EndDepth \/ Drain
         \/ Fires \/ TryRelease \/ ReleaseHdr \/ ReleaseDone \/ Publish \/ SetDeadline
         \/ Disarm \/ ArmAgain \/ Arrive \/ Dies \/ CloserDeadline

DSpec == DInit /\ [][DNext]_dVars

-----------------------------------------------------------------------------
\* A header has one owner: it is in the pool at most once, and then nothing
\* refers to it — not the reader, not the socket, not a release in progress,
\* not the results being handled.  A header whose slots are charged is one
\* the socket was lent or the timer is releasing; and when the reader is
\* done nothing is charged and no release is under way.
ExtrasOwned ==
    /\ \A h \in Hdr :
         /\ pooled[h] <= 1
         /\ pooled[h] = 1 => h \notin {rd.hdr, rd.stale, rd.cur, lent, relHdr, tmr.b}
         /\ hdrs[h].slots > 0 => h = lent \/ h = tmr.b
    /\ rd.pc = "done" => tmr.pc = "none" /\ ~tmr.set /\ \A h \in Hdr : ~hdrs[h].charged

\* The idle release never ends a carrier: a deadline the reader takes for a
\* failure is a closer's, the carrier is already dying.
WakeNeverKills == rd.pc = "failed" => dying

=============================================================================
