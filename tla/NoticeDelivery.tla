--------------------------- MODULE NoticeDelivery ---------------------------
(***************************************************************************)
(* What the notification outbox promises of the notice of a finalized      *)
(* session, without workers, attempts, leases or retries.  A notice is     *)
(* asked for when its session is finalized and whenever an operator wants  *)
(* it again.  What was asked for reaches the chat at most once; a notice   *)
(* is called sent only when the last thing asked for did reach it, and a   *)
(* notice that is sent or given up on stays so until it is asked for anew. *)
(***************************************************************************)
EXTENDS Naturals

CONSTANTS Notices, Requests

VARIABLES
    verdict,    \* "none", "open", "sent" or "dropped"
    asked,      \* the number of the last request for the notice
    copies      \* how often each request has reached the chat

vars == <<verdict, asked, copies>>

Init ==
    /\ verdict = [n \in Notices |-> "none"]
    /\ asked = [n \in Notices |-> 0]
    /\ copies = [n \in Notices |-> [q \in Requests |-> 0]]

(* The first request has the number 0. *)
Ask(n) ==
    /\ verdict[n] = "none"
    /\ verdict' = [verdict EXCEPT ![n] = "open"]
    /\ UNCHANGED <<asked, copies>>

AskAgain(n) ==
    /\ verdict[n] # "none"
    /\ verdict' = [verdict EXCEPT ![n] = "open"]
    /\ asked' = [asked EXCEPT ![n] = @ + 1]
    /\ UNCHANGED copies

(* A request reaches the chat, the last one or one asked for before it. *)
Reach(n, q) ==
    /\ verdict[n] # "none" /\ q <= asked[n]
    /\ copies[n][q] = 0
    /\ copies' = [copies EXCEPT ![n][q] = 1]
    /\ UNCHANGED <<verdict, asked>>

Settle(n) ==
    /\ verdict[n] = "open"
    /\ \/ copies[n][asked[n]] = 1 /\ verdict' = [verdict EXCEPT ![n] = "sent"]
       \/ verdict' = [verdict EXCEPT ![n] = "dropped"]
    /\ UNCHANGED <<asked, copies>>

Next ==
    \E n \in Notices : \/ Ask(n) \/ AskAgain(n) \/ Settle(n)
                       \/ \E q \in Requests : Reach(n, q)

Spec == Init /\ [][Next]_vars
=============================================================================
