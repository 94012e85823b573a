------------------------------ MODULE MCStream ------------------------------
(***************************************************************************)
(* Stream on small instances.  A behaviour runs one variant (`which'): the *)
(* dialer sends on a fragile first lane, as the constants say; the passive *)
(* side sends, follows the dialer's switches and its second lane breaks;   *)
(* or bond routing with out-of-order bytes dropped at recvLimit.           *)
(***************************************************************************)
EXTENDS Stream

CONSTANT Variants

VARIABLE which

Passive == INSTANCE Stream WITH SenderDials <- FALSE, Fragile <- Lane \ {First}, Windows <- {W}, MayClose <- FALSE, FwdMax <- 1
Bonded == INSTANCE Stream WITH Bond <- TRUE, Fragile <- {}, MayDrop <- TRUE, FwdMax <- 2

MCInit == which \in Variants /\ Init

MCNext ==
    /\ which' = which
    /\ \/ which = "dialer" /\ Next
       \/ which = "passive" /\ Passive!Next
       \/ which = "bond" /\ Bonded!Next

MCSpec == MCInit /\ [][MCNext]_<<which, vars>>

\* Stream's Fairness, of the variant that runs
MCFairness ==
    /\ WF_vars(WriteCommit)
    /\ WF_vars(\E k \in 1..OffsetLimit : Read(k))
    /\ \A l \in Lane :
           /\ WF_vars(IF which = "bond" THEN Bonded!SenderFill(l) ELSE SenderFill(l))
           /\ WF_vars(IF which = "bond" THEN Bonded!ReceiverFill(l) ELSE ReceiverFill(l))
           /\ WF_vars(IF which = "bond" THEN Bonded!Recv(l) ELSE Recv(l))
    /\ WF_vars(IF which = "bond" THEN Bonded!Actors ELSE Actors)

MCFairSpec == MCSpec /\ MCFairness

=============================================================================
