---------------------------- MODULE SendService ----------------------------
(***************************************************************************)
(* What write() on /dev/tosmac promises: a call that returns success sent  *)
(* its packet, one that returns an error did not, and every call returns.  *)
(***************************************************************************)
CONSTANT Writers
VARIABLES
  outcome,   \* of each writer's last call: "none", "pending", "ok", "EFAULT"
  aired      \* the writers whose pending packet has been on the air

vars == << outcome, aired >>

Init == /\ outcome = [w \in Writers |-> "none"]
        /\ aired = {}

Submit(w) == /\ outcome[w] # "pending"
             /\ outcome' = [outcome EXCEPT ![w] = "pending"]
             /\ UNCHANGED aired

Air(w) == /\ outcome[w] = "pending"
          /\ aired' = aired \cup {w}
          /\ UNCHANGED outcome

Succeed(w) == /\ outcome[w] = "pending" /\ w \in aired
              /\ outcome' = [outcome EXCEPT ![w] = "ok"]
              /\ aired' = aired \ {w}

Fail(w) == /\ outcome[w] = "pending" /\ w \notin aired
           /\ outcome' = [outcome EXCEPT ![w] = "EFAULT"]
           /\ UNCHANGED aired

Next == \E w \in Writers : Submit(w) \/ Air(w) \/ Succeed(w) \/ Fail(w)

Safety == Init /\ [][Next]_vars

Spec == /\ Safety
        /\ \A w \in Writers : WF_vars(Succeed(w) \/ Fail(w))
=============================================================================
