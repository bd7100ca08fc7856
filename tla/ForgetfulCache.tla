---------------------------- MODULE ForgetfulCache ---------------------------
(***************************************************************************)
(* What a cache with a time to live promises, whatever its capacity and    *)
(* whatever it does to keep to it: an entry lasts TTL ticks from the moment*)
(* it is loaded and not a tick longer, and may be forgotten at any time.   *)
(* DirOps takes its caches to be like this.                                *)
(***************************************************************************)
EXTENDS Integers

CONSTANTS Keys, TTL

VARIABLES
  left,  \* for each key the ticks left of its entry, 0 if there is none
  age    \* and the ticks since it was loaded, up to TTL

vars == <<left, age>>

Init ==
  /\ left = [k \in Keys |-> 0]
  /\ age = [k \in Keys |-> TTL]

Kept(j) == left'[j] \in {0, left[j]}

Load(k) ==
  /\ left' \in [Keys -> 0..TTL]
  /\ left'[k] \in {0, TTL}
  /\ \A j \in Keys \ {k} : Kept(j)
  /\ age' = [age EXCEPT ![k] = 0]

Forget ==
  /\ left' \in [Keys -> 0..TTL]
  /\ \A j \in Keys : Kept(j)
  /\ UNCHANGED age

Age ==
  /\ left' = [k \in Keys |-> IF left[k] > 0 THEN left[k] - 1 ELSE 0]
  /\ age' = [k \in Keys |-> IF age[k] < TTL THEN age[k] + 1 ELSE TTL]

Next == (\E k \in Keys : Load(k)) \/ Forget \/ Age

Spec == Init /\ [][Next]_vars
=============================================================================
