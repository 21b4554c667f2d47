----------------------- MODULE MCProduceNotification -----------------------
(***************************************************************************)
(* Instances of ProduceNotification for TLC.                               *)
(***************************************************************************)
EXTENDS ProduceNotification, TLC

CONSTANTS summary, old, w1, w2, production

(* One environment. *)
OneNotice == {summary}
OneHome == [n \in OneNotice |-> production]
TwoWorkers == {w1, w2}
OneEnv == [w \in TwoWorkers |-> production]

(* Two notices that one worker claims together, one of them older than the *)
(* column runtime_environment.                                             *)
TwoNotices == {summary, old}
TwoHomes == [n \in TwoNotices |-> IF n = old THEN NoEnvironment ELSE production]

Symmetry == Permutations(TwoWorkers)
=============================================================================
