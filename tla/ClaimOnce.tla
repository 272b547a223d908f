------------------------------ MODULE ClaimOnce ------------------------------
(***************************************************************************)
(* What the control of secondary submissions promises: a key is spent      *)
(* once, for ever, and at most one request is posted for it, and only      *)
(* after it was spent.  Spending a key without ever posting is allowed.    *)
(***************************************************************************)
EXTENDS Naturals

CONSTANT Keys

VARIABLES
  spent,    \* keys that are spent
  posts     \* number of requests posted for each key

Init == spent = {} /\ posts = [k \in Keys |-> 0]

Spend(k) ==
  /\ k \notin spent
  /\ spent' = spent \cup {k}
  /\ UNCHANGED posts

Post(k) ==
  /\ k \in spent /\ posts[k] = 0
  /\ posts' = [posts EXCEPT ![k] = 1]
  /\ UNCHANGED spent

Next == \E k \in Keys : Spend(k) \/ Post(k)

Spec == Init /\ [][Next]_<<spent, posts>>
=============================================================================
