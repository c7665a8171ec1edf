---------------------------- MODULE MCAdminPage ----------------------------
EXTENDS AdminPage, TLC

\* Rooms, bots and tokens are alike.
Symmetry == Permutations(Rooms) \cup Permutations(Bots) \cup Permutations(Tokens)

\* The settings and the other tables share nothing but the tabs: a behaviour
\* is about the ones or about the others. Nor do the bots and the order of the
\* audit log: entries out of the order of their commits come with rooms only.
Apart ==
  /\ \/ posts = {} /\ loaded = {} /\ \A f \in Forms : stored[f] = <<>>
     \/ calls = {} /\ Len(log) = FirstLog /\ picking = None /\ expanded = None
  /\ \/ \A i, j \in DOMAIN log : i < j => log[i] > log[j]
     \/ listed = {} /\ \A c \in calls : c.kind \notin {"bots", "create"}
=============================================================================
