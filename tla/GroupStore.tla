---------------------------- MODULE GroupStore ----------------------------
(***************************************************************************)
(* What people may expect of the place where their groups are kept,        *)
(* whichever table that is at the moment: one value per row, changed only  *)
(* by a write that rests on the value before it.  There is no action for   *)
(* moving the rows to another table: a move must not be visible.           *)
(***************************************************************************)
EXTENDS Naturals

CONSTANT Row      \* what is kept: accounts, claims, groups, memberships

VARIABLE store    \* store[row] counts the writes the row has seen

Init == store = [row \in Row |-> 0]

Write(row) == store' = [store EXCEPT ![row] = @ + 1]

Next == \E row \in Row : Write(row)

Spec == Init /\ [][Next]_store

===========================================================================
