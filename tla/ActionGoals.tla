------------------------------ MODULE ActionGoals ------------------------------
(***************************************************************************)
(* What a client of one action promises to the program that uses it: goals *)
(* are sent one after the other, each takes the place of the one before;   *)
(* a goal ends once; and its end is reported once, while it is the current *)
(* goal, as what it was or as lost.                                        *)
(***************************************************************************)
EXTENDS Naturals

CONSTANT MaxGoals   \* bound: how many goals are sent

VARIABLES
  current,   \* the goal sent last, 0 before the first
  outcome,   \* how each goal ended
  reported   \* what was reported of it

Goals    == 1..MaxGoals
Terminal == {"RECALLED", "REJECTED", "PREEMPTED", "ABORTED", "SUCCEEDED", "LOST"}

Init ==
  /\ current = 0
  /\ outcome = [g \in Goals |-> "open"]
  /\ reported = [g \in Goals |-> "none"]

Send ==
  /\ current < MaxGoals
  /\ current' = current + 1
  /\ UNCHANGED <<outcome, reported>>

End(s) ==
  /\ current # 0
  /\ outcome[current] = "open"
  /\ outcome' = [outcome EXCEPT ![current] = s]
  /\ UNCHANGED <<current, reported>>

Report ==
  /\ current # 0
  /\ outcome[current] # "open"
  /\ reported[current] = "none"
  /\ \E s \in {outcome[current], "LOST"} :
       reported' = [reported EXCEPT ![current] = s]
  /\ UNCHANGED <<current, outcome>>

Next ==
  \/ Send
  \/ \E s \in Terminal : End(s)
  \/ Report

Spec == Init /\ [][Next]_<<current, outcome, reported>>

=============================================================================
