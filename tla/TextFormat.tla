----------------------------- MODULE TextFormat -----------------------------
(***************************************************************************)
(* The text transforms behind the formatting toolbar                       *)
(* (frontend/src/lib/markdownFormat.ts).  A text state is a text with a    *)
(* selection; every transform takes one and returns one.  A whole address  *)
(* and a placeholder are one character each.                               *)
(***************************************************************************)
EXTENDS Integers, SequencesExt

Newline == "\n"
Blank == {" ", Newline}
Address == "https://"
Tick == "tick"             \* the character of inline code and fences
Digits == <<"0", "1", "2", "3", "4", "5", "6", "7", "8", "9">>

State(v, s, e) == [value |-> v, start |-> s, end |-> e]
Cut(v, i, j) == SubSeq(v, i + 1, j)
Rest(v, i) == Cut(v, i, Len(v))
Least(a, b) == IF a < b THEN a ELSE b
Times(c, n) == [i \in 1..n |-> c]

\* How many characters of C a text begins with, ends with.
Before(k, v) == IF k = 0 THEN Len(v) ELSE k - 1
Lead(v, C) == Before(SelectInSeq(v, LAMBDA c : c \notin C), v)
Trail(v, C) == Len(v) - SelectLastInSeq(v, LAMBDA c : c \notin C)
IsBlank(v) == Lead(v, Blank) = Len(v)
Begins(v, m) == Len(v) >= Len(m) /\ Cut(v, 0, Len(m)) = m
FirstBreak(v) == SelectInSeq(v, LAMBDA c : c = Newline)
LastBreak(v) == SelectLastInSeq(v, LAMBDA c : c = Newline)

\* A number in decimal.
Numeral(n) ==
  LET from[k \in 0..n] ==
        (IF k < 10 THEN <<>> ELSE from[k \div 10]) \o <<Digits[(k % 10) + 1]>>
  IN from[n]

(***************************************************************************)
(* Inline markers: bold, italic, strikethrough, subscript, code, ...       *)
(***************************************************************************)

\* Whether a run of marker characters includes this marker: three asterisks
\* are bold and italic.
HasMarker(m, run) ==
  CASE Len(m) = 2 -> run >= 2
    [] Len(m) = 1 /\ m[1] \in {"*", "~"} -> run % 2 = 1
    [] OTHER -> run >= 1

\* The selection includes its markers; its markers are just outside it.
WrapsInside(t, m) ==
  LET sel == Cut(t.value, t.start, t.end)
      lead == Lead(sel, {m[1]})
      run == Least(lead, Least(Trail(sel, {m[1]}), Len(sel) - lead))
  IN run > 0 /\ HasMarker(m, run) /\ Len(sel) > 2 * Len(m)

WrapsOutside(t, m) ==
  LET sel == Cut(t.value, t.start, t.end)
      run == Least(Trail(Cut(t.value, 0, t.start), {m[1]}), Lead(Rest(t.value, t.end), {m[1]}))
  IN /\ Lead(sel, Blank) = 0 /\ Trail(sel, Blank) = 0
     /\ run > 0 /\ HasMarker(m, run)

\* Mutant: the markers go around the blanks of the selection too.
ApplyInlineAsSelected(t, m) ==
  LET v == t.value
      n == Len(m)
  IN IF WrapsOutside(t, m)
     THEN State(Cut(v, 0, t.start - n) \o Cut(v, t.start, t.end) \o Rest(v, t.end + n), t.start - n, t.end - n)
     ELSE State(Cut(v, 0, t.start) \o m \o Cut(v, t.start, t.end) \o m \o Rest(v, t.end), t.start + n, t.end + n)

ApplyInline(t, m) ==
  LET v == t.value
      n == Len(m)
      sel == Cut(v, t.start, t.end)
      inner == Cut(sel, n, Len(sel) - n)
      s == t.start + Lead(sel, Blank)
      e == t.end - Trail(sel, Blank)
  IN CASE WrapsInside(t, m) ->
            State(Cut(v, 0, t.start) \o inner \o Rest(v, t.end), t.start, t.start + Len(inner))
       [] ~WrapsInside(t, m) /\ WrapsOutside(t, m) ->
            State(Cut(v, 0, t.start - n) \o sel \o Rest(v, t.end + n), t.start - n, t.end - n)
       [] ~WrapsInside(t, m) /\ ~WrapsOutside(t, m) /\ IsBlank(sel) ->
            State(Cut(v, 0, t.start) \o m \o m \o Rest(v, t.start), t.start + n, t.start + n)
       [] OTHER ->
            State(Cut(v, 0, s) \o m \o Cut(v, s, e) \o m \o Rest(v, e), s + n, e + n)

(***************************************************************************)
(* Line prefixes: quotes, lists, headings                                  *)
(***************************************************************************)

\* The whole lines a selection touches; one that ends right after a line
\* break does not touch the line that follows.
LineStart(t) == LastBreak(Cut(t.value, 0, t.start))
LineEnd(t) ==
  LET e == IF t.end > t.start /\ t.value[t.end] = Newline THEN t.end - 1 ELSE t.end
      next == FirstBreak(Rest(t.value, e))
  IN IF next = 0 THEN Len(t.value) ELSE e + next - 1

\* split and join
SplitLines(v) ==
  LET from[i \in 0..Len(v)] ==
        LET rest == Rest(v, i)
            k == FirstBreak(rest)
        IN IF k = 0 THEN <<rest>> ELSE <<Cut(rest, 0, k - 1)>> \o from[i + k]
  IN from[0]
JoinLines(ls) ==
  LET from[i \in DOMAIN ls] ==
        IF i = Len(ls) THEN ls[i] ELSE ls[i] \o <<Newline>> \o from[i + 1]
  IN from[1]
Lines(t) == SplitLines(Cut(t.value, LineStart(t), LineEnd(t)))

\* Mutant: the selection stays where it was.
TransformLinesInPlace(t, ls) ==
  LET text == Cut(t.value, 0, LineStart(t)) \o JoinLines(ls) \o Rest(t.value, LineEnd(t))
  IN State(text, Least(t.start, Len(text)), Least(t.end, Len(text)))

\* Puts ls in the place of the touched lines and keeps them selected, or the
\* cursor at its distance from the end of the text.
TransformLines(t, ls) ==
  LET first == LineStart(t)
      block == JoinLines(ls)
      grown == Len(block) - (LineEnd(t) - first)
      cursor == IF t.start + grown < first THEN first ELSE t.start + grown
      text == Cut(t.value, 0, first) \o block \o Rest(t.value, LineEnd(t))
  IN IF t.start = t.end THEN State(text, cursor, cursor)
     ELSE State(text, first, first + Len(block))

\* The length of the mark a line has of this kind, 0 for none.
MarkLength(kind, line) ==
  CASE kind = "quote"   -> IF Begins(line, <<">", " ">>) THEN 2 ELSE 0
    [] kind = "bullet"  -> IF Begins(line, <<"-", " ">>) THEN 2 ELSE 0
    [] kind = "ordered" -> LET n == Lead(line, ToSet(Digits))
                           IN IF n > 0 /\ Begins(Rest(line, n), <<".", " ">>) THEN n + 2 ELSE 0
    [] OTHER -> LET level == Lead(line, {"#"})
                IN IF level \in 1..6 /\ Begins(Rest(line, level), <<" ">>) THEN level + 1 ELSE 0

\* Blank lines of a selection of several are paragraph breaks, not items.
Skipped(ls, i) == Len(ls) > 1 /\ ls[i] = <<>>
Targets(ls) == {i \in DOMAIN ls : ~Skipped(ls, i)}

ApplyPrefix(t, kind) ==
  LET ls == Lines(t)
      has(i) == MarkLength(kind, ls[i]) > 0
      strip(i) == Rest(ls[i], MarkLength(kind, ls[i]))
      mark(i) == CASE kind = "quote" -> <<">", " ">>
                   [] kind = "bullet" -> <<"-", " ">>
                   [] OTHER -> Numeral(Cardinality({j \in Targets(ls) : j <= i})) \o <<".", " ">>
      off == Targets(ls) # {} /\ \A i \in Targets(ls) : has(i)
  IN TransformLines(t, [i \in DOMAIN ls |->
       IF Skipped(ls, i) THEN ls[i] ELSE IF off THEN strip(i) ELSE mark(i) \o strip(i)])

ApplyHeading(t, level) ==
  LET ls == Lines(t)
      mark == Times("#", level) \o <<" ">>
      has(i) == Begins(ls[i], mark)
      off == Targets(ls) # {} /\ \A i \in Targets(ls) : has(i)
  IN TransformLines(t, [i \in DOMAIN ls |->
       IF Skipped(ls, i) THEN ls[i]
       ELSE IF off THEN Rest(ls[i], level + 1)
       ELSE mark \o Rest(ls[i], MarkLength("heading", ls[i]))])

(***************************************************************************)
(* Code blocks and links                                                   *)
(***************************************************************************)

ApplyCodeBlock(t) ==
  LET before == Cut(t.value, 0, t.start)
      after == Rest(t.value, t.end)
      whole == Cut(t.value, t.start, t.end)
      sel == IF whole # <<>> /\ Last(whole) = Newline THEN Front(whole) ELSE whole
      lead == IF before # <<>> /\ Last(before) # Newline THEN <<Newline>> ELSE <<>>
      trail == IF after # <<>> /\ after[1] # Newline THEN <<Newline>> ELSE <<>>
      inner == Len(before) + Len(lead) + 4
  IN State(before \o lead \o Times(Tick, 3) \o <<Newline>> \o sel
             \o <<Newline>> \o Times(Tick, 3) \o trail \o after, inner, inner + Len(sel))

ApplyLink(t) ==
  LET sel == Cut(t.value, t.start, t.end)
      put(text, s, e) == State(Cut(t.value, 0, t.start) \o text \o Rest(t.value, t.end), s, e)
  IN CASE sel = <<Address>> -> put(<<"[", "]", "(", Address, ")">>, t.start + 1, t.start + 1)
       [] sel = <<>> -> put(<<"[", "link text", "]", "(", "url", ")">>, t.start + 1, t.start + 2)
       [] OTHER -> put(<<"[">> \o sel \o <<"]", "(", "url", ")">>,
                       t.start + Len(sel) + 3, t.start + Len(sel) + 4)

\* What the buttons put into a text.
ToolbarChars == ToSet(Digits) \cup Blank
  \cup {"*", "~", Tick, "^", ">", "-", ".", "#", "[", "]", "(", ")", Address, "url", "link text"}

\* The buttons of the toolbar and what each does.
InlineMarkers == {<<"*", "*">>, <<"*">>, <<"~", "~">>, <<"~">>, <<Tick>>, <<"^">>}
Actions == [kind : {"inline"}, marker : InlineMarkers]
             \cup [kind : {"prefix"}, prefix : {"quote", "bullet", "ordered"}]
             \cup [kind : {"heading"}, level : 1..3]
             \cup [kind : {"codeBlock", "link"}]

ApplyFormat(t, a) ==
  CASE a.kind = "inline" -> ApplyInline(t, a.marker)
    [] a.kind = "prefix" -> ApplyPrefix(t, a.prefix)
    [] a.kind = "heading" -> ApplyHeading(t, a.level)
    [] a.kind = "codeBlock" -> ApplyCodeBlock(t)
    [] a.kind = "link" -> ApplyLink(t)
=============================================================================
