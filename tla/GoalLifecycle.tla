---------------------------- MODULE GoalLifecycle ----------------------------
(***************************************************************************)
(* What an action server promises the clients of its goals: a goal is      *)
(* accepted or rejected once, an accepted goal may be asked to cancel, and *)
(* it ends exactly once, as canceled only if a cancel was asked for.       *)
(* rclcpp_action throws at a handler that breaks these rules.              *)
(***************************************************************************)
CONSTANT Goals

VARIABLE handle     \* the state of the server's goal handle of each goal

Running  == {"executing", "canceling"}
Outcomes == {"succeeded", "aborted", "canceled"}
States   == {"unsent", "rejected"} \cup Running \cup Outcomes

\* The ends rclcpp_action lets a handle in state s come to.
MayEnd(s, outcome) == /\ s \in Running
                      /\ outcome \in Outcomes
                      /\ outcome = "canceled" => s = "canceling"

Move(g, s) == handle' = [handle EXCEPT ![g] = s]

Decide(g) == /\ handle[g] = "unsent"
             /\ Move(g, "executing") \/ Move(g, "rejected")
RequestCancel(g) == handle[g] = "executing" /\ Move(g, "canceling")
End(g) == \E o \in Outcomes : MayEnd(handle[g], o) /\ Move(g, o)

Init == handle = [g \in Goals |-> "unsent"]
Next == \E g \in Goals : Decide(g) \/ RequestCancel(g) \/ End(g)
Spec == Init /\ [][Next]_handle

=============================================================================
