------------------------------- MODULE Editor -------------------------------
(***************************************************************************)
(* The text box of the composer (frontend/src/components/Composer.tsx):    *)
(* typing, moving the cursor, the three completion dropdowns, the emoji    *)
(* picker and the formatting toolbar.                                      *)
(*                                                                         *)
(* A handler that replaces the text moves the cursor only in the next      *)
(* animation frame, and the selection event that looks for a token again   *)
(* comes later still: both are steps of their own.                         *)
(***************************************************************************)
EXTENDS Completion, TextFormat, Rendering

CONSTANTS
  Typed,      \* the characters the keyboard has here
  Offers,     \* per trigger, what its list holds at most, in its order
  Inserted,   \* per trigger, the text an item is completed to
  Emoji,      \* what the emoji picker inserts
  NoFrame,
  MaxText     \* bound on the length of a text

\* What is typed, picked, completed and put by the toolbar is characters.
ASSUME EditorAssumption ==
  /\ MaxText \in Nat
  /\ Typed \cup Emoji \cup ToolbarChars \subseteq Char
  /\ Offers \in [Triggers -> Seq(Seq(Char))]
  /\ \A t \in Triggers : \A k \in DOMAIN Offers[t] : Inserted[t][Offers[t][k]] \in Seq(Char)

VARIABLES
  value,      \* the text
  cursor,     \* its selection [start, end]
  query,      \* mentionQuery, roomQuery, emojiQuery
  active,     \* the highlighted item of each dropdown
  list,       \* members, rooms, emoji known at the moment
  frame,      \* the selection to be set in the next animation frame
  unread      \* the selection has changed and its event has not come yet

vars == <<value, cursor, query, active, list, frame, unread>>

Selection(s, e) == [start |-> s, end |-> e]
Selections(n) == {sel \in [start : 0..n, end : 0..n] : sel.start <= sel.end}
Closed == [t \in Triggers |-> NoQuery]

\* The list's items that begin with what was typed, by their place in it.
Fits(q, item) == Len(q.text) <= Len(item) /\ Slice(item, 0, Len(q.text)) = q.text
Matches(t) == {k \in DOMAIN list[t] : query[t] # NoQuery /\ Fits(query[t], list[t][k])}
Showing(t) == Matches(t) # {}

Init ==
  /\ value = <<>> /\ cursor = Selection(0, 0)
  /\ query = Closed /\ active = [t \in Triggers |-> 0]
  /\ list = Offers /\ frame = NoFrame /\ unread = FALSE

\* Looks for the three kinds of token anew and highlights the first items.
DetectAll(text, at) ==
  /\ query' = [t \in Triggers |-> Detect(text, at, t)]
  /\ active' = [t \in Triggers |-> 0]

\* onChange: the selection is replaced by a character, or deleted.
Change(text, at) ==
  /\ Len(text) <= MaxText
  /\ value' = text /\ cursor' = Selection(at, at)
  /\ DetectAll(text, at)
  /\ UNCHANGED <<list, frame, unread>>

Type(c) == Change(Slice(value, 0, cursor.start) \o <<c>> \o Rest(value, cursor.end), cursor.start + 1)

Backspace ==
  LET from == IF cursor.start = cursor.end THEN cursor.start - 1 ELSE cursor.start
  IN from >= 0 /\ Change(Slice(value, 0, from) \o Rest(value, cursor.end), from)

\* handleSelectionChange, for a click or an arrow key.
Select(sel) ==
  /\ sel \in Selections(Len(value))
  /\ sel # cursor
  /\ cursor' = sel
  /\ DetectAll(value, sel.start)
  /\ unread' = FALSE
  /\ UNCHANGED <<value, list, frame>>

\* Mutant: only the mention is looked for again.
SelectEventMention ==
  /\ unread
  /\ unread' = FALSE
  /\ query' = [query EXCEPT !["@"] = Detect(value, cursor.start, "@")]
  /\ UNCHANGED <<value, cursor, active, list, frame>>

\* The same for a selection the code has set.
SelectEvent ==
  /\ unread
  /\ unread' = FALSE
  /\ DetectAll(value, cursor.start)
  /\ UNCHANGED <<value, cursor, list, frame>>

\* requestAnimationFrame: setSelectionRange, which keeps within the text.
Frame ==
  /\ frame # NoFrame
  /\ cursor' = Selection(Least(frame.start, Len(value)), Least(frame.end, Len(value)))
  /\ frame' = NoFrame
  /\ unread' = TRUE
  /\ UNCHANGED <<value, query, active, list>>

\* setValue(text), which leaves the cursor at the end until the frame.  A
\* frame lasts 16 ms: nobody presses two buttons in one.
Replace(text, sel) ==
  /\ frame = NoFrame
  /\ Len(text) <= MaxText
  /\ value' = text
  /\ cursor' = Selection(Len(text), Len(text))
  /\ frame' = sel
  /\ unread' = TRUE

\* ArrowDown and ArrowUp, and the mouse over an item.
Highlight(t, i) ==
  /\ Showing(t)
  /\ i \in 0..(Cardinality(Matches(t)) - 1) /\ i # active[t]
  /\ active' = [active EXCEPT ![t] = i]
  /\ UNCHANGED <<value, cursor, query, list, frame, unread>>

\* selectMention, selectRoomReference, selectEmojiShortcode, by key or click.
Choose(t, k) ==
  /\ k \in Matches(t)
  /\ LET q == query[t]
         text == Inserted[t][list[t][k]] \o <<" ">>
     IN Replace(Slice(value, 0, q.start) \o text \o Rest(value, q.end),
                Selection(q.start + Len(text), q.start + Len(text)))
  /\ query' = [query EXCEPT ![t] = NoQuery]
  /\ UNCHANGED <<active, list>>

\* Escape.
Dismiss(t) ==
  /\ Showing(t)
  /\ query' = [query EXCEPT ![t] = NoQuery]
  /\ UNCHANGED <<value, cursor, active, list, frame, unread>>

\* applyFormatAction.
ReplaceBy(r) == Replace(r.value, Selection(r.start, r.end))
Format(a) ==
  /\ ReplaceBy(ApplyFormat(State(value, cursor.start, cursor.end), a))
  /\ UNCHANGED <<query, active, list>>

\* insertEmoji, the picker's onPick.
InsertEmoji(g) ==
  /\ Replace(Slice(value, 0, cursor.start) \o <<g>> \o Rest(value, cursor.end),
             Selection(cursor.start + 1, cursor.start + 1))
  /\ UNCHANGED <<query, active, list>>

\* handleSend, as far as the text goes: Enter with no dropdown showing.
Send ==
  /\ \A t \in Triggers : ~Showing(t)
  /\ ~IsBlank(value)
  /\ value' = <<>> /\ cursor' = Selection(0, 0)
  /\ query' = Closed
  /\ UNCHANGED <<active, list, frame, unread>>

\* The last member, room or emoji of a list goes, or comes.
ListChange(t) ==
  /\ Offers[t] # <<>>
  /\ list' = [list EXCEPT ![t] = IF @ = Offers[t] THEN Cut(@, 0, Len(@) - 1) ELSE Offers[t]]
  /\ UNCHANGED <<value, cursor, query, active, frame, unread>>

Next ==
  \/ \E c \in Typed : Type(c)
  \/ Backspace
  \/ \E sel \in Selections(MaxText) : Select(sel)
  \/ SelectEvent
  \/ Frame
  \/ \E t \in Triggers : \E k \in DOMAIN Offers[t] : Highlight(t, k - 1) \/ Choose(t, k)
  \/ \E t \in Triggers : Dismiss(t) \/ ListChange(t)
  \/ \E a \in Actions : Format(a)
  \/ \E g \in Emoji : InsertEmoji(g)
  \/ Send

Spec == Init /\ [][Next]_vars

(***************************************************************************)
(* Properties                                                              *)
(***************************************************************************)

\* Every variable has its type; the selection lies within the text.
TypeOK ==
  /\ value \in Seq(Char)
  /\ Len(value) <= MaxText
  /\ cursor \in Selections(Len(value))
  /\ \A t \in Triggers : query[t] = NoQuery \/ query[t].start < query[t].end
  /\ frame = NoFrame \/ frame.start \in 0..frame.end
  /\ unread \in BOOLEAN

\* At most one dropdown is open.  handleKeyDown asks for mentions, rooms and
\* emoji in this order and never sends while one shows: with two open, a key
\* would act on one the user is not looking at.  It rests on the characters of
\* a token, which differ between "@" and ":".
AtMostOneDropdown ==
  \A t, u \in Triggers : query[t] # NoQuery /\ query[u] # NoQuery => t = u

\* Once the selection has settled, an open dropdown belongs to the token left
\* of the cursor: completing it replaces that token and nothing else.
QueryIsCurrent ==
  ~unread /\ frame = NoFrame =>
    \A t \in Triggers : query[t] # NoQuery => query[t] = Detect(value, cursor.start, t)

\* Every text with every selection is at rest in some state; what is said of
\* the transforms alone is asked there only.
AtRest ==
  /\ frame = NoFrame /\ ~unread /\ list = Offers
  /\ query = [t \in Triggers |-> Detect(value, cursor.start, t)]
  /\ active = [t \in Triggers |-> 0]

\* "Keep the affected lines selected so the same button toggles it back off":
\* a button that marked lines without a mark restores the text when pressed
\* again.
LineMarksToggle ==
  LET t == State(value, cursor.start, cursor.end)
      plain == \A i \in DOMAIN Lines(t), k \in {"quote", "bullet", "ordered", "heading"} :
                 MarkLength(k, Lines(t)[i]) = 0
  IN AtRest /\ plain => \A a \in {b \in Actions : b.kind \in {"prefix", "heading"}} :
                LET once == ApplyFormat(t, a)
                IN once.value # value => ApplyFormat(once, a).value = value

\* "applying twice restores the original": an inline marker put around a
\* selection comes off again, whatever marker characters stand next to it.
InlineMarksToggle ==
  LET t == State(value, cursor.start, cursor.end)
  IN AtRest /\ ~IsBlank(Slice(value, cursor.start, cursor.end)) =>
       \A m \in InlineMarkers :
         LET once == ApplyInline(t, m)
         IN Len(once.value) > Len(value) => ApplyInline(once, m).value = value

\* What the inline buttons make of the text, and what the code buttons do.
Formatted(actions) == {ApplyFormat(State(value, cursor.start, cursor.end), a).value : a \in actions}
Inline == {a \in Actions : a.kind = "inline"}
Code == {a \in Actions : a.kind = "codeBlock" \/ (a.kind = "inline" /\ a.marker = <<Tick>>)}

\* "Kept in sync with mention_service.py's equivalent server-side skip logic,
\* which decides who actually gets notified": outside fences the reader sees
\* as mentions, after all seven passes, exactly the members the server
\* notifies, and as references the rooms it stores.
ReferencesAgree ==
  AtRest /\ HasName(value) =>
    \A v \in {w \in Formatted(Inline) : ~HasFence(w)} : \A shown \in {Render(v)} :
      MembersShown(shown) = Mentioned(v) /\ RoomsShown(shown) = Referenced(v)

\* "Someone pasting code shouldn't get it silently turned into an emoji": what
\* the user marks as code, in a span or a block, is shown as it was written,
\* through all seven passes.
CodeIsShownAsWritten ==
  AtRest => \A v \in Formatted(Code) : CodeOf(Render(v)) = CodeOf(v)
=============================================================================
