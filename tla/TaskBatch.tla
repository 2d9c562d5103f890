------------------------------- MODULE TaskBatch -------------------------------
(***************************************************************************)
(* What a stage promises its caller about the tasks it runs in the         *)
(* background, whatever the tasks are: they are begun in the order they    *)
(* were submitted, one at a time and each at most once; none is begun      *)
(* after the batch was stopped; and the verdict is given once, when no     *)
(* task is active and none will ever be begun again.                       *)
(***************************************************************************)
EXTENDS Naturals

CONSTANT N

VARIABLES
  waiting,   \* submitted, not begun
  active,    \* the task in progress, 0 if none
  stopping,  \* no further task may begin
  verdict    \* "none", or what the stage returned

vars == <<waiting, active, stopping, verdict>>

Task == 1 .. N

Init ==
  /\ waiting = {}
  /\ active = 0
  /\ stopping = FALSE
  /\ verdict = "none"

Submit ==
  /\ verdict = "none"
  /\ \E t \in Task :
       /\ \A u \in waiting : u < t
       /\ waiting' = waiting \cup {t}
  /\ UNCHANGED <<active, stopping, verdict>>

Begin ==
  /\ verdict = "none"
  /\ ~stopping
  /\ active = 0
  /\ \E t \in waiting :
       /\ \A u \in waiting : t <= u
       /\ waiting' = waiting \ {t}
       /\ active' = t
  /\ UNCHANGED <<stopping, verdict>>

End ==
  /\ active # 0
  /\ active' = 0
  /\ UNCHANGED <<waiting, stopping, verdict>>

Stop ==
  /\ verdict = "none"
  /\ stopping' = TRUE
  /\ UNCHANGED <<waiting, active, verdict>>

Decide ==
  /\ verdict = "none"
  /\ active = 0
  /\ verdict' \in {"true", "false"}
  /\ UNCHANGED <<waiting, active, stopping>>

Next == Submit \/ Begin \/ End \/ Stop \/ Decide

Spec == Init /\ [][Next]_vars

=============================================================================
