--------------------------- MODULE CategoryBreaker ---------------------------
(***************************************************************************)
(* What the per-category kill switch promises, without positions, fills or *)
(* settlements: each category counts its consecutive losses and is tripped *)
(* in the very step in which the count reaches the limit.  A tripped       *)
(* category stays tripped until everything is cleared (the daily reset, or *)
(* a restart of the process).                                              *)
(***************************************************************************)
EXTENDS Integers

CONSTANTS
    Categories,
    HaltLimit    \* halt_on_consecutive_losses; 0 disables the switch

VARIABLES
    losses,      \* consecutive losses of each category
    tripped      \* the halted categories

vars == <<losses, tripped>>

Clear ==
    /\ losses' = [c \in Categories |-> 0]
    /\ tripped' = {}

Win(c) ==
    /\ losses' = [losses EXCEPT ![c] = 0]
    /\ UNCHANGED tripped

Loss(c) ==
    /\ losses' = [losses EXCEPT ![c] = @ + 1]
    /\ tripped' = IF HaltLimit > 0 /\ losses[c] + 1 >= HaltLimit
                    THEN tripped \cup {c}
                    ELSE tripped

Init ==
    /\ losses = [c \in Categories |-> 0]
    /\ tripped = {}

Next == Clear \/ \E c \in Categories : Win(c) \/ Loss(c)

Spec == Init /\ [][Next]_vars
==============================================================================
