------------------------------- MODULE Outbox -------------------------------
(***************************************************************************)
(* What a writer may expect of the messages that leave the composer: each  *)
(* is handed over once and ends once. Where it goes meanwhile is not said. *)
(***************************************************************************)
CONSTANT Messages
VARIABLES handed, ended

Init == handed = {} /\ ended = {}

\* A new message is handed over, or lost on the spot.
Hand(m) ==
  /\ m \notin handed \cup ended
  /\ \/ handed' = handed \cup {m} /\ UNCHANGED ended
     \/ ended' = ended \cup {m} /\ UNCHANGED handed

\* Some of the messages under way end.
End == \E M \in SUBSET handed :
  /\ M # {}
  /\ handed' = handed \ M /\ ended' = ended \cup M

Next == (\E m \in Messages : Hand(m)) \/ End

Spec == Init /\ [][Next]_<<handed, ended>> /\ WF_<<handed, ended>>(End)
=============================================================================
