----------------------------- MODULE CallContract -----------------------------
(***************************************************************************)
(* What one call of the Porkbun client promises its caller: the write it   *)
(* stands for happens at most once, and success is only reported after it  *)
(* has happened.  An error promises nothing: the write may have happened   *)
(* before it, or happen after it.                                          *)
(***************************************************************************)
CONSTANT Calls

VARIABLES applied,  \* how often the write of each call has happened
          result    \* what each call has returned

Results == {"none", "ok", "error"}

Init == /\ applied = [c \in Calls |-> 0]
        /\ result = [c \in Calls |-> "none"]

Apply(c) == /\ applied[c] = 0
            /\ applied' = [applied EXCEPT ![c] = 1]
            /\ UNCHANGED result

Return(c, r) == /\ result[c] = "none"
                /\ r = "ok" => applied[c] = 1
                /\ result' = [result EXCEPT ![c] = r]
                /\ UNCHANGED applied

Next == \E c \in Calls : Apply(c) \/ \E r \in Results \ {"none"} : Return(c, r)

Spec == Init /\ [][Next]_<<applied, result>>
==============================================================================
