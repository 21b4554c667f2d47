---------------------------- MODULE ListKeeping ----------------------------
(***************************************************************************)
(* What the capture of produce lists promises to the sender of a chat,     *)
(* without the queue, deferred messages, revisions, attempts and holds.    *)
(* A header begins a list and takes the later items of the list before it  *)
(* along; items come in until the closing message and, as far as they are  *)
(* older, after it.  A list is closed only if it could be saved as it is;  *)
(* it is saved whole up to its closing message, once, and only if it is    *)
(* clean or was agreed to word by word, or it ends.                        *)
(***************************************************************************)
EXTENDS Naturals, FiniteSets

CONSTANTS
    Messages,       \* as points in time
    Scripts         \* what the messages may be

VARIABLES
    script,     \* what each message is
    number,     \* of the list; the first is 1
    stage,      \* "none", "open", "closed", "saved" or "ended"
    head,       \* the list's header
    taken,      \* the items it has
    cut,        \* its closing message
    due,        \* the number of items that message announced
    saved,      \* what was saved of it
    seen,       \* which documents of which lists the sender was shown, by what
    agreed      \* to which of them the sender agreed, by which message

list == <<number, stage, head, taken, cut, due, saved>>
vars == <<script, list, seen, agreed>>

Nobody == 0         \* no message
Items == {e \in Messages : script[e] \in {"item", "risky", "bad"}}
Clean(D) == \A e \in D : script[e] # "bad"
Doubtful(D) == \E e \in D : script[e] = "risky"

(* The document may be saved as the present list's. *)
Sound(D) ==
    /\ Clean(D)
    /\ Doubtful(D) => \E a \in agreed : a.gen = number /\ a.doc = D

Init ==
    /\ script \in Scripts
    /\ number = 0 /\ stage = "none"
    /\ head = Nobody /\ taken = {} /\ cut = Nobody /\ due = 0 /\ saved = {}
    /\ seen = {} /\ agreed = {}

(* The items that lie behind the new header go with it, others may. *)
Begin(h) ==
    /\ script[h] = "opener" /\ h # head
    /\ number' = number + 1 /\ stage' = "open"
    /\ head' = h /\ cut' = Nobody /\ due' = 0 /\ saved' = {}
    /\ taken' \in SUBSET {e \in Items : h < e}
    /\ {e \in taken : h < e} \subseteq taken'
    /\ UNCHANGED <<script, seen, agreed>>

TakeIn(S) ==
    /\ stage \in {"open", "closed"}
    /\ \A e \in S : head < e /\ (stage = "closed" => e < cut)
    /\ taken' = taken \cup S
    /\ UNCHANGED <<script, number, stage, head, cut, due, saved, seen, agreed>>

Close(c) ==
    /\ stage = "open" /\ script[c] = "close"
    /\ Sound(taken)
    /\ stage' = "closed" /\ cut' = c /\ due' \in Nat
    /\ UNCHANGED <<script, number, head, taken, saved, seen, agreed>>

(* A document is shown by a closing message or by the system itself. *)
Show(g, D, m) ==
    /\ D \subseteq Items
    /\ m = Nobody \/ script[m] = "close"
    /\ seen' = seen \cup {[gen |-> g, doc |-> D, by |-> m]}
    /\ UNCHANGED <<script, list, agreed>>

(* It is agreed to once, by another closing message, and not when the list *)
(* is over.                                                                *)
Agree(g, D, m) ==
    /\ script[m] = "close"
    /\ g = number => stage \in {"open", "closed"}
    /\ \E d \in seen : d.gen = g /\ d.doc = D /\ d.by # m
    /\ ~\E a \in agreed : a.gen = g /\ a.doc = D
    /\ agreed' = agreed \cup {[gen |-> g, doc |-> D, by |-> m]}
    /\ UNCHANGED <<script, list, seen>>

Save ==
    LET D == {e \in taken : e < cut} IN
    /\ stage = "closed" /\ head < cut
    /\ D # {} /\ Cardinality(D) >= due /\ Sound(D)
    /\ stage' = "saved" /\ saved' = D
    /\ UNCHANGED <<script, number, head, taken, cut, due, seen, agreed>>

End ==
    /\ stage \in {"open", "closed"}
    /\ stage' = "ended"
    /\ UNCHANGED <<script, number, head, taken, cut, due, saved, seen, agreed>>

Next ==
    \/ \E m \in Messages : Begin(m) \/ Close(m)
    \/ \E S \in SUBSET Items : TakeIn(S)
    \/ \E g \in 1..number, D \in SUBSET Items, m \in Messages \cup {Nobody} : Show(g, D, m)
    \/ \E g \in 1..number, D \in SUBSET Items, m \in Messages : Agree(g, D, m)
    \/ Save \/ End

Spec == Init /\ [][Next]_vars
=============================================================================
