--------------------------- MODULE CommandRegister ---------------------------
(***************************************************************************)
(* What an idempotency key promises whoever sends a command under it: the  *)
(* command has one fate, applied or refused, decided once and for all, and *)
(* every answer reports that fate, however often the command was sent.     *)
(***************************************************************************)
CONSTANT Key

VARIABLES fate,  \* what has become of the command of each key
          told   \* what its sender was told
vars == <<fate, told>>

Fate == {"OPEN", "SAVED", "REFUSED"}

TypeOK == fate \in [Key -> Fate] /\ told \in [Key -> Fate]

Init ==
    /\ fate = [k \in Key |-> "OPEN"]
    /\ told = [k \in Key |-> "OPEN"]

Decide(k) ==
    /\ fate[k] = "OPEN"
    /\ \E f \in Fate \ {"OPEN"} : fate' = [fate EXCEPT ![k] = f]
    /\ UNCHANGED told

Tell(k) ==
    /\ fate[k] # "OPEN"
    /\ told' = [told EXCEPT ![k] = fate[k]]
    /\ UNCHANGED fate

Next == \E k \in Key : Decide(k) \/ Tell(k)
Spec == Init /\ [][Next]_vars
=============================================================================
