---- MODULE MCActorPark ----
(* ActorPark on one carrier that arrives in an adopt and the shutdown, with  *)
(* two goroutine slots, so that a second actor would be seen.               *)
EXTENDS ActorPark, TLC

GorSymmetry == Permutations(Gor)
====
