---------------------------- MODULE SlipCollection ----------------------------
(***************************************************************************)
(* What the slip sessions of a source promise about the images they count, *)
(* without the queue, LINE times, attempts, leases and retries.  Sessions  *)
(* are opened one after the other, closed, and counted once they are       *)
(* claimed.  An image belongs to one session at most, for good; it is in   *)
(* the total only if it was stored while its session was open, and a       *)
(* summary is complete only after a count that found none missing.         *)
(***************************************************************************)
CONSTANTS
    Images, Sessions,
    NoSession       \* the session of an image that has none yet

VARIABLES
    phase,  \* of each session
    place,  \* of each image: its session, and whether it is in the total,
            \* out of it, still owed to it or too late for it
    tally   \* what the last count of a session found

vars == <<phase, place, tally>>

At(b, is) == [of |-> b, is |-> is]
Free == At(NoSession, "free")
Places == [of : Sessions, is : {"owed", "in", "out", "late"}] \cup {Free}

Taking == {"collecting", "closing"}

InTotal(b) == {i \in Images : place[i] = At(b, "in")}
Missing(b) == {i \in Images : place[i] \in {At(b, "owed"), At(b, "late")}}

Init ==
    /\ phase = [b \in Sessions |-> "none"]
    /\ place = [i \in Images |-> Free]
    /\ tally = [b \in Sessions |-> "no"]

(* Where an image may go: to a session that exists, if it has none; and on *)
(* from being owed to it, into the total only while the session takes      *)
(* images and into lateness only when it does not.                         *)
MayGo(i, p) ==
    /\ place[i] \in {Free, At(p.of, "owed")}
    /\ p.of \in Sessions /\ phase[p.of] # "none"
    /\ p.is = "in" => place[i] # Free /\ phase[p.of] \in Taking
    /\ p.is = "late" => phase[p.of] \notin Taking

Settle ==
    /\ UNCHANGED <<phase, tally>>
    /\ place' \in [Images -> Places]
    /\ \A i \in Images : place'[i] = place[i] \/ MayGo(i, place'[i])

(* A session takes with it images that have none. *)
Open(b) ==
    /\ phase[b] = "none" /\ \A c \in Sessions : phase[c] # "collecting"
    /\ phase' = [phase EXCEPT ![b] = "collecting"]
    /\ \E S \in SUBSET {i \in Images : place[i] = Free} :
          place' = [i \in Images |-> IF i \in S THEN At(b, "owed") ELSE place[i]]
    /\ UNCHANGED tally

Stop(b) ==
    /\ phase[b] = "collecting"
    /\ \E p \in {"closing", "cancelled"} : phase' = [phase EXCEPT ![b] = p]
    /\ UNCHANGED <<place, tally>>

(* The total of a session that is claimed is what it is. *)
Claim(b) ==
    /\ phase[b] \in Taking
    /\ phase' = [phase EXCEPT ![b] = "processing"]
    /\ place' \in [Images -> Places]
    /\ \A i \in Images :
         \/ place'[i] = place[i]
         \/ place'[i] \in {At(b, "owed"), At(b, "out")} /\ MayGo(i, place'[i])
    /\ UNCHANGED tally

Count(b) ==
    /\ phase[b] = "processing"
    /\ tally' = [tally EXCEPT ![b] = IF Missing(b) = {} THEN "whole" ELSE "short"]
    /\ UNCHANGED <<phase, place>>

Finish(b) ==
    /\ phase[b] = "processing" /\ tally[b] # "no"
    /\ \E p \in {"completed", "review_needed", "failed"} :
          /\ p # "failed" => InTotal(b) # {}
          /\ p = "completed" => tally[b] = "whole"
          /\ phase' = [phase EXCEPT ![b] = p]
    /\ UNCHANGED <<place, tally>>

Next ==
    \/ Settle
    \/ \E b \in Sessions : Open(b) \/ Stop(b) \/ Claim(b) \/ Count(b) \/ Finish(b)

Spec == Init /\ [][Next]_vars
===============================================================================
