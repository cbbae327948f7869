----------------------- MODULE MCPartitionMigration -----------------------
(***************************************************************************)
(* An account, a claim and a group: two preparing rows, one header.        *)
(***************************************************************************)
EXTENDS PartitionMigration, TLC

CONSTANTS account, group, o1, o2, w1, w2, s1, s2

Rows == {account, group}
Cut == <<{account}, {group}>>
Operators == {o1, o2}
Writers == {w1}
Servers == {s1, s2}

Names == Permutations(Operators) \cup Permutations(Writers) \cup Permutations(Servers)
===========================================================================
