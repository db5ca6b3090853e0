------------------------------- MODULE MCSignIn --------------------------------
(* An instance of SignIn for TLC: an invitation, another for the same      *)
(* address, a seed of it, and an account created from the command line;    *)
(* the tab is opened over accounts where one or both rows exist.           *)
EXTENDS SignIn, TLC

CONSTANTS ann, bob, i1, i2, s1, c1, k1, k2

Emails2 == {ann, bob}
Operations4 == {i1, i2, s1, c1}
Asked4 == [o \in Operations4 |->
              [kind |-> CASE o = s1 -> "seed" [] o = c1 -> "create" [] OTHER -> "invite",
               email |-> IF o = c1 THEN bob ELSE ann]]
Calls2 == {k1, k2}
Made2 == [pools |-> {[e \in Emails2 |-> IF e = ann THEN i1 ELSE c1]},
          rows |-> {[e \in Emails2 |-> IF e = ann THEN i1 ELSE s] : s \in {c1, NoSub}}]
CallSymmetry == Permutations(Calls2)
================================================================================
