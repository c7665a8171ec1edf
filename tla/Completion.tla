----------------------------- MODULE Completion -----------------------------
(***************************************************************************)
(* Which dropdown the composer offers: the scan for an "@name", "#room" or *)
(* ":emoji" token that ends at the cursor, and the list it is matched with *)
(* (frontend/src/components/Composer.tsx).  A text is a sequence of        *)
(* characters; offsets count the characters to their left, as in the code. *)
(***************************************************************************)
EXTENDS Integers, Sequences

CONSTANTS
  Char,         \* the characters a text is made of
  Word,         \* those \w stands for
  MentionSafe,  \* [a-zA-Z0-9_.-]
  EmojiSafe,    \* [a-zA-Z0-9_+-]
  NoQuery

\* No trigger is itself a character of a token.
ASSUME CompletionAssumption ==
  /\ Word \subseteq MentionSafe \cap EmojiSafe
  /\ MentionSafe \cup EmojiSafe \cup {"@", "#", ":"} \subseteq Char
  /\ {"@", "#", ":"} \cap (MentionSafe \cup EmojiSafe) = {}

Triggers == {"@", "#", ":"}

Safe(k) == IF k = ":" THEN EmojiSafe ELSE MentionSafe

\* The characters between two offsets, which may lie beyond the text
\* (JavaScript's slice).
Slice(text, i, j) == SubSeq(text, i + 1, IF j < Len(text) THEN j ELSE Len(text))

\* k is the last character left of the cursor that no token of trigger t holds.
StopsAt(text, cursor, t, k) ==
  /\ k \in 1..cursor
  /\ text[k] \notin Safe(t)
  /\ \A j \in (k + 1)..cursor : text[j] \in Safe(t)

\* Mutant: the emoji scan stops at nothing but its own trigger.
OpensAtAnywhere(text, cursor, t, k) ==
  /\ k \in 1..cursor
  /\ text[k] = t
  /\ k = 1 \/ text[k - 1] \notin Word

\* A token of trigger t starts at k and ends at the cursor.
OpensAt(text, cursor, t, k) ==
  /\ StopsAt(text, cursor, t, k)
  /\ text[k] = t
  /\ k = 1 \/ text[k - 1] \notin Word

\* selectionStart is an offset, or 0 where there is none.
Opens(text, cursor, t) == cursor \in Nat /\ \E k \in 1..cursor : OpensAt(text, cursor, t, k)

\* detectTriggerQuery and detectEmojiQuery: where the token starts and ends,
\* and its text without the trigger.
Detect(text, cursor, t) ==
  IF Opens(text, cursor, t)
  THEN LET k == CHOOSE k \in 1..cursor : OpensAt(text, cursor, t, k)
       IN [start |-> k - 1, end |-> cursor, text |-> Slice(text, k, cursor)]
  ELSE NoQuery
=============================================================================
