--------------------------- MODULE MCOneTimeLinks ---------------------------
EXTENDS OneTimeLinks, TLC

CONSTANTS e1, e2, n1, n2

FirstAccount == [name |-> n1, email |-> e1, by |-> None, turn |-> 0]

\* The pages are alike; the first account and the first invite tell the others
\* apart.
Symmetry == Permutations(Pages)

\* What is left out, for the size of the run: resets are asked for while the
\* admin only loads his first list; links are opened, and expire, while no other
\* admin acts, no lost call goes on, and no later list is loaded; there is one
\* call of others at a time, and a list that overlapped a call meets no third.
FirstList == {c \in calls : c.kind = "list" /\ c.no = 0}
Lists == {c \in calls : c.kind = "list"}
Apart ==
  /\ (\E r \in Resets : reset[r].email # None) => calls = FirstList
  /\ (expired # {} \/ \E p \in Pages : page[p].at # "closed") =>
       foreign = {} /\ calls = Own /\ Lists = FirstList
  /\ Cardinality(calls \ Own) <= 1
  /\ tangled => Cardinality(calls) <= 2
=============================================================================
