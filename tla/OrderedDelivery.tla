--------------------------- MODULE OrderedDelivery ---------------------------
(***************************************************************************)
(* What the ordered webhook queue promises to the code it drives, without  *)
(* workers, leases, tokens or clocks.  The events of a source are handed   *)
(* out in the order of their LINE timestamps among those that have         *)
(* arrived; an event may be handed out again until it is done, is done at  *)
(* most once, and may be dropped, after which it is never handed out.      *)
(***************************************************************************)
EXTENDS Naturals

CONSTANTS Events, Source, Stamp

VARIABLES
    phase,      \* "unseen", "waiting", "taken", "done" or "dropped"
    arrival,    \* rank of arrival, the tie-break between equal timestamps
    arrived     \* the next rank

vars == <<phase, arrival, arrived>>

Unsettled == {e \in Events : phase[e] \in {"waiting", "taken"}}

Earlier(a, b) ==
    /\ Source[a] = Source[b]
    /\ \/ Stamp[a] < Stamp[b]
       \/ Stamp[a] = Stamp[b] /\ arrival[a] < arrival[b]

Dropping(D) == [e \in Events |-> IF e \in D THEN "dropped" ELSE phase[e]]

Init ==
    /\ phase = [e \in Events |-> "unseen"]
    /\ arrival = [e \in Events |-> 0]
    /\ arrived = 1

(* Events arrive together, each after all that arrived before. *)
Arrive(S) ==
    /\ \A e \in S : phase[e] = "unseen"
    /\ phase' = [e \in Events |-> IF e \in S THEN "waiting" ELSE phase[e]]
    /\ arrived' \in Nat /\ arrived' >= arrived
    /\ arrival' \in [Events -> Nat]
    /\ \A e \in Events : IF e \in S THEN arrival'[e] \in arrived..(arrived' - 1)
                                    ELSE arrival'[e] = arrival[e]

(* An event is handed out, or handed out again, when every earlier event   *)
(* of its source is settled; expired events may be dropped on the way.     *)
Take(e, D) ==
    /\ D \subseteq Unsettled
    /\ e \in Unsettled \ D
    /\ \A f \in Unsettled \ D : ~Earlier(f, e)
    /\ phase' = [Dropping(D) EXCEPT ![e] = "taken"]
    /\ UNCHANGED <<arrival, arrived>>

GiveBack(e) ==
    /\ phase[e] = "taken"
    /\ phase' = [phase EXCEPT ![e] = "waiting"]
    /\ UNCHANGED <<arrival, arrived>>

Finish(e) ==
    /\ phase[e] = "taken"
    /\ phase' = [phase EXCEPT ![e] = "done"]
    /\ UNCHANGED <<arrival, arrived>>

Drop(D) ==
    /\ D \subseteq Unsettled
    /\ phase' = Dropping(D)
    /\ UNCHANGED <<arrival, arrived>>

Next ==
    \/ \E S \in SUBSET Events : Arrive(S)
    \/ \E e \in Events : (\E D \in SUBSET Events : Take(e, D)) \/ GiveBack(e) \/ Finish(e)
    \/ \E D \in SUBSET Events : Drop(D)

Spec == Init /\ [][Next]_vars
=============================================================================
