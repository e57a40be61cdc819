----------------------------- MODULE AtLeastOnce -----------------------------
(***************************************************************************)
(* What the queues promise about each job that is added: everybody it is   *)
(* for is dealt with before it counts as completed, and nobody else is.  A *)
(* job of a queue that is sure to be served does not stay open forever: it *)
(* is completed or given up.                                               *)
(***************************************************************************)
CONSTANTS Jobs,     \* jobs of a queue
          Entries   \* whom they may be for

VARIABLES wanted,   \* wanted[j]: whom job j is for; {}: not added yet
          tried,    \* tried[j]: who was dealt with, at least once
          outcome,  \* outcome[j]: "open", "completed" or "givenUp"
          served    \* jobs whose queue is sure to be served

vars == <<wanted, tried, outcome, served>>

Init ==
    /\ wanted = [j \in Jobs |-> {}]
    /\ tried = [j \in Jobs |-> {}]
    /\ outcome = [j \in Jobs |-> "open"]
    /\ served = {}

Open(j) == wanted[j] # {} /\ outcome[j] = "open"

Ask(j, entries) ==
    /\ wanted[j] = {}
    /\ entries # {}
    /\ wanted' = [wanted EXCEPT ![j] = entries]
    /\ served' \in {served, served \cup {j}}
    /\ UNCHANGED <<tried, outcome>>

Try(j, entries) ==
    /\ Open(j)
    /\ entries \subseteq wanted[j]
    /\ tried' = [tried EXCEPT ![j] = @ \cup entries]
    /\ UNCHANGED <<wanted, outcome, served>>

Complete(j) ==
    /\ Open(j)
    /\ tried[j] = wanted[j]
    /\ outcome' = [outcome EXCEPT ![j] = "completed"]
    /\ UNCHANGED <<wanted, tried, served>>

GiveUp(j) ==
    /\ Open(j)
    /\ outcome' = [outcome EXCEPT ![j] = "givenUp"]
    /\ UNCHANGED <<wanted, tried, served>>

Settle(j) == Complete(j) \/ GiveUp(j)

Next ==
    \E j \in Jobs :
        \/ \E entries \in SUBSET Entries : Ask(j, entries) \/ Try(j, entries)
        \/ Settle(j)

Spec == Init /\ [][Next]_vars /\ \A j \in Jobs : WF_vars(j \in served /\ Settle(j))
=============================================================================
