------------------------------ MODULE MCSignup ------------------------------
(* Signup with one mailbox per browser. *)
EXTENDS Signup, TLC

CONSTANTS ann, bob, a, b

MCOwned == [p \in Browsers |-> IF p = ann THEN {a} ELSE {b}]
\* Exchanging the two users together with their mailboxes changes nothing.
MCUsers ==
  {f \in Permutations({ann, bob, a, b}) : {f[ann], f[bob]} = {ann, bob} /\ (f[ann] = ann <=> f[a] = a)}
MCSymmetry == MCUsers \cup Permutations(Slots)
MCPasswords == [len : {7, 8, 20, 21}, kinds : SUBSET {"alpha", "digit", "spec"}]
=============================================================================
