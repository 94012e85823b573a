----------------------------- MODULE OpenOnce -----------------------------
(***************************************************************************)
(* What admission promises a dialer about its OPENs, whatever carriers,    *)
(* duplicates, closing Listeners and ending sessions do: a session decides *)
(* once, and every carrier that is answered in its name hears that         *)
(* decision.  Admission is shown to implement this specification.          *)
(***************************************************************************)
EXTENDS Naturals

CONSTANTS Carrier, None

VARIABLES
    verdict,  \* verdict[s]: what session s decided, "none" before it did
    over,     \* the sessions that opened and ended again
    to,       \* to[c]: the session OPEN carrier c was handed to, or None
    ans       \* ans[c]: how carrier c was answered, "none" so far

Refusals == {"REJECTED", "CAPACITY", "GOING_AWAY", "UNKNOWN"}

\* Answers that concern the carrier alone and decide nothing about the session
Plain == {"cut", "FULL", "BAD", "AWAY"}

Init ==
    /\ verdict = [s \in Carrier |-> "none"] /\ over = {}
    /\ to = [c \in Carrier |-> None] /\ ans = [c \in Carrier |-> "none"]

\* Session s decides v and tells some of the carriers that wait for it.  Only a
\* withdrawn session's carriers may be closed without an answer.
Decide(s, v) ==
    /\ verdict[s] = "none" /\ verdict' = [verdict EXCEPT ![s] = v]
    /\ \E told \in SUBSET {c \in Carrier : to[c] = s /\ ans[c] = "none"},
         word \in {v} \cup (IF v = "UNKNOWN" THEN {"cut"} ELSE {}) :
           ans' = [c \in Carrier |-> IF c \in told THEN word ELSE ans[c]]
    /\ UNCHANGED <<over, to>>

Finish(s) ==
    /\ verdict[s] = "OK" /\ s \notin over /\ over' = over \cup {s}
    /\ UNCHANGED <<verdict, to>>
    /\ ans' \in {ans} \cup {[ans EXCEPT ![c] = "cut"] : c \in {d \in Carrier : ans[d] = "none"}}

\* Carrier c is handed to session s, if it was not yet, and may be answered for it
Hand(c, s) ==
    /\ ans[c] = "none" /\ to[c] \in {None, s} /\ to' = [to EXCEPT ![c] = s]
    /\ ans' \in {ans} \cup
          {[ans EXCEPT ![c] = a] : a \in Plain \cup
             (IF verdict[s] = "none" THEN {} ELSE
              IF verdict[s] # "OK" THEN {verdict[s]} ELSE
              IF s \in over THEN {"UNKNOWN"} ELSE {"OK"})}
    /\ UNCHANGED <<verdict, over>>

Refuse(c) ==
    /\ ans[c] = "none" /\ \E a \in Plain : ans' = [ans EXCEPT ![c] = a]
    /\ UNCHANGED <<verdict, over, to>>

Next ==
    \/ \E s \in Carrier, v \in Refusals \cup {"OK"} : Decide(s, v)
    \/ \E s \in Carrier : Finish(s)
    \/ \E c, s \in Carrier : Hand(c, s)
    \/ \E c \in Carrier : Refuse(c)

Spec == Init /\ [][Next]_<<verdict, over, to, ans>>

=============================================================================
