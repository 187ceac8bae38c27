----------------------------- MODULE MCHistory -----------------------------
(* Values for the constants of History. *)
EXTENDS History, TLC

CONSTANTS c1, c2, n1, n2, n3, t1, t2

TwoClients == {c1, c2}
Computers  == {n1, n2, n3}
TwoTasks   == {t1, t2}
AllOnOne   == [t \in {t1, t2} |-> c1]

\* Names are compared with one another and no more, and so are tasks, which all
\* run on one client.
Alike == Permutations(Computers) \cup Permutations(TwoTasks)
=============================================================================
