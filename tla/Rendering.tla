------------------------------ MODULE Rendering ------------------------------
(***************************************************************************)
(* What becomes of a message's text when it is shown                       *)
(* (frontend/src/components/MessageContent.tsx): seven passes, each over   *)
(* the output of the one before it, put links in the place of mentions,    *)
(* room references, emoji, sub- and superscripts, and leave code alone.    *)
(* The server looks for mentions and room references in the same text with *)
(* its own idea of what is code (services/mention_service.py).             *)
(***************************************************************************)
EXTENDS Completion, TextFormat

CONSTANTS
  Members,      \* the usernames of the room's members
  RoomId,       \* the ids of the viewer's rooms, by name
  BuiltIn,      \* the glyphs of the built-in emoji, by name
  CustomEmoji,  \* the names of the installation's own emoji
  Glyphs        \* the pictographs

\* What a pass puts in the place of a name, and the names themselves, hold no
\* tick and no blank: names are [a-zA-Z0-9_.+-], ids are UUIDs.
ASSUME RenderingAssumption ==
  /\ Glyphs \cup {BuiltIn[n] : n \in DOMAIN BuiltIn} \subseteq Char
  /\ (MentionSafe \cup EmojiSafe \cup Glyphs \cup {BuiltIn[n] : n \in DOMAIN BuiltIn})
       \cap ({Tick} \cup Blank) = {}
  /\ \A n \in DOMAIN RoomId : RoomId[n] \in Seq(MentionSafe)

(***************************************************************************)
(* What is code                                                            *)
(***************************************************************************)

IsFence(line) ==
  LET n == Lead(line, Blank) IN Slice(line, n, n + 3) = Times(Tick, 3)

\* A line is left alone when it opens, closes or is within a fence.
Fenced(ls, i) ==
  IsFence(ls[i]) \/ Cardinality({j \in 1..(i - 1) : IsFence(ls[j])}) % 2 = 1

FirstTick(v) == SelectInSeq(v, LAMBDA c : c = Tick)

\* The length of the code span a text begins with, 0 for none: `+[^`]*`+, which
\* a run of two or more ticks matches by itself.
SpanLength(v) ==
  LET open == Lead(v, {Tick})
      rest == Rest(v, open)
      close == FirstTick(rest)
  IN CASE open > 0 /\ close > 0 -> open + close - 1 + Lead(Rest(rest, close - 1), {Tick})
       [] open > 1 /\ close = 0 -> open
       [] OTHER -> 0

\* Where the first code span starts; a line cut at its spans, of which every
\* second part is one.
FirstSpan(v) == SelectInSeq([k \in DOMAIN v |-> SpanLength(Rest(v, k - 1))], LAMBDA n : n > 0)
Parts(line) ==
  LET from[i \in 0..Len(line)] ==
        LET rest == Rest(line, i)
            k == FirstSpan(rest)
            end == k - 1 + SpanLength(Rest(rest, k - 1))
        IN IF k = 0 THEN <<rest>>
           ELSE <<Cut(rest, 0, k - 1), Cut(rest, k - 1, end)>> \o from[i + end]
  IN from[0]

\* The skeleton that every pass shares.
Odd(parts, Convert(_)) ==
  FlattenSeq([k \in DOMAIN parts |-> IF k % 2 = 1 THEN Convert(parts[k]) ELSE parts[k]])
Unfenced(ls, Convert(_)) ==
  JoinLines([i \in DOMAIN ls |-> IF Fenced(ls, i) THEN ls[i] ELSE Odd(Parts(ls[i]), Convert)])
OutsideCode(v, Convert(_)) == Unfenced(SplitLines(v), Convert)

(***************************************************************************)
(* The passes                                                              *)
(***************************************************************************)

\* String.replace with a global pattern: Match is the length of the match that
\* starts at an index, 0 for none; put is what stands there afterwards.
Replaced(part, match, put) ==
  LET from[i \in 1..(Len(part) + 1)] ==
        IF i > Len(part) THEN <<>>
        ELSE put[i] \o from[IF match[i] = 0 THEN i + 1 ELSE i + match[i]]
  IN from[1]
Substitute(part, Match(_, _), With(_)) ==
  LET match == [i \in DOMAIN part |-> Match(part, i)]
  IN Replaced(part, match, [i \in DOMAIN part |->
       IF match[i] = 0 THEN <<part[i]>> ELSE With(SubSeq(part, i, i + match[i] - 1))])

Link(label, kind, rest) == <<"[">> \o label \o <<"]", "(", kind, ":">> \o rest \o <<")">>

\* @name, #name
TokenAt(part, i, t) ==
  LET name == Lead(Rest(part, i), MentionSafe)
  IN IF i <= Len(part) /\ part[i] = t /\ name > 0 THEN 1 + name ELSE 0

\* :name:
ShortcodeAt(part, i, safe) ==
  LET name == Lead(Rest(part, i), safe)
  IN IF i <= Len(part) /\ part[i] = ":" /\ name > 0 /\ Slice(part, i + name, i + name + 1) = <<":">>
     THEN name + 2 ELSE 0

MentionAt(part, i) == TokenAt(part, i, "@")
ReferenceAt(part, i) == TokenAt(part, i, "#")
EmojiAt(part, i) == ShortcodeAt(part, i, EmojiSafe)
CustomAt(part, i) == ShortcodeAt(part, i, EmojiSafe \ {"+"})
GlyphAt(part, i) == IF i <= Len(part) /\ part[i] \in Glyphs THEN 1 ELSE 0

\* c...c with no blank and no c inside; a subscript's tildes are not doubled.
ScriptAt(part, i, c) ==
  LET inner == Rest(part, i)
      stop == SelectInSeq(inner, LAMBDA x : x \in Blank \cup {c})
      doubled == c = "~" /\ ((i > 1 /\ part[i - 1] = c) \/ Slice(inner, stop, stop + 1) = <<c>>)
  IN IF i <= Len(part) /\ part[i] = c /\ stop > 1 /\ inner[stop] = c /\ ~doubled THEN stop + 1 ELSE 0

SubAt(part, i) == ScriptAt(part, i, "~")
SupAt(part, i) == ScriptAt(part, i, "^")

MentionLink(m) == IF Tail(m) \in Members THEN Link(m, "mention", Tail(m)) ELSE m
ReferenceLink(m) == IF Tail(m) \in DOMAIN RoomId THEN Link(m, "room", RoomId[Tail(m)]) ELSE m
EmojiGlyph(m) == IF Tail(Front(m)) \in DOMAIN BuiltIn THEN <<BuiltIn[Tail(Front(m))]>> ELSE m
CustomLink(m) == IF Tail(Front(m)) \in CustomEmoji THEN Link(m, "emoji", Tail(Front(m))) ELSE m
GlyphLink(m) == Link(m, "glyph", <<>>)
SubLink(m) == Link(Tail(Front(m)), "sub", <<>>)
SupLink(m) == Link(Tail(Front(m)), "sup", <<>>)

\* Mutant: code is not skipped.
HighlightMentionsAnywhere(v) == Substitute(v, MentionAt, MentionLink)

HighlightMentions(v) == OutsideCode(v, LAMBDA part : Substitute(part, MentionAt, MentionLink))
HighlightRoomReferences(v) == OutsideCode(v, LAMBDA part : Substitute(part, ReferenceAt, ReferenceLink))
ConvertShortcodes(v) == OutsideCode(v, LAMBDA part : Substitute(part, EmojiAt, EmojiGlyph))
ConvertCustomEmoji(v) == OutsideCode(v, LAMBDA part : Substitute(part, CustomAt, CustomLink))

\* Mutant: code spans are skipped, fences are not.
WrapEmojiGlyphsInFences(v) ==
  LET ls == SplitLines(v)
  IN JoinLines([i \in DOMAIN ls |->
       Odd(Parts(ls[i]), LAMBDA part : Substitute(part, GlyphAt, GlyphLink))])

WrapEmojiGlyphs(v) == OutsideCode(v, LAMBDA part : Substitute(part, GlyphAt, GlyphLink))

ConvertSubSuperscript(v) ==
  OutsideCode(v, LAMBDA part : Substitute(Substitute(part, SubAt, SubLink), SupAt, SupLink))

\* A heading's "{#id}" is taken off its line (and kept as the heading's anchor).
WithoutHeadingId(line) ==
  LET level == Lead(line, {"#"})
      text == Cut(line, 0, Len(line) - Trail(line, Blank))
      opens == SelectLastInSeq(text, LAMBDA c : c = "{")
      id == Slice(text, opens + 1, Len(text) - 1)
  IN IF /\ level \in 1..6 /\ Len(line) > level /\ line[level + 1] \in Blank
        /\ opens > level + 1 /\ Last(text) = "}"
        /\ Len(id) > 0 /\ Slice(text, opens, opens + 1) = <<"#">> /\ ToSet(id) \subseteq MentionSafe \ {"."}
     THEN LET head == Cut(text, 0, opens - 1)
              bare == Cut(head, 0, Len(head) - Trail(head, Blank))
          IN IF Len(bare) = level THEN head ELSE bare
     ELSE line

ExtractHeadingIds(v) ==
  LET ls == SplitLines(v)
  IN JoinLines([i \in DOMAIN ls |-> IF Fenced(ls, i) THEN ls[i] ELSE WithoutHeadingId(ls[i])])

\* A single line break is made a hard one by two blanks; the line that closes
\* a fence gets them too.
PreserveLineBreaks(v) ==
  LET ls == SplitLines(v)
      within(i) == Cardinality({j \in 1..i : IsFence(ls[j])}) % 2 = 1
  IN JoinLines([i \in DOMAIN ls |->
       IF within(i) \/ i = Len(ls) \/ ls[i] = <<>> \/ ls[i + 1] = <<>> THEN ls[i]
       ELSE ls[i] \o <<" ", " ">>])

Render(v) ==
  PreserveLineBreaks(ExtractHeadingIds(ConvertSubSuperscript(
    WrapEmojiGlyphs(ConvertCustomEmoji(ConvertShortcodes(
      HighlightRoomReferences(HighlightMentions(v))))))))

(***************************************************************************)
(* The server's side                                                       *)
(***************************************************************************)

\* strip_code_spans: a fenced line is kept as it is.
StripCodeSpans(v) ==
  LET ls == SplitLines(v)
      strip(line) == LET parts == Parts(line)
                     IN FlattenSeq([k \in DOMAIN parts |->
                          IF k % 2 = 1 THEN parts[k] ELSE Times(" ", Len(parts[k]))])
  IN JoinLines([i \in DOMAIN ls |-> IF Fenced(ls, i) THEN ls[i] ELSE strip(ls[i])])

NamesAfter(t, v) == {Slice(v, i, i - 1 + TokenAt(v, i, t)) : i \in {j \in 1..Len(v) : TokenAt(v, j, t) > 0}}

\* extract_mentioned_user_ids, extract_referenced_room_ids
Mentioned(v) == NamesAfter("@", StripCodeSpans(v)) \cap Members
Referenced(v) == NamesAfter("#", StripCodeSpans(v)) \cap DOMAIN RoomId

(***************************************************************************)
(* What properties are stated about                                        *)
(***************************************************************************)

Includes(v, part) == \E i \in 0..(Len(v) - Len(part)) : Cut(v, i, i + Len(part)) = part

\* The members and rooms the reader sees as links.
MembersShown(shown) == {n \in Members : Includes(shown, MentionLink(<<"@">> \o n))}
RoomsShown(shown) == {n \in DOMAIN RoomId : Includes(shown, ReferenceLink(<<"#">> \o n))}

HasName(v) == NamesAfter("@", v) \cup NamesAfter("#", v) # {}
HasFence(v) == \E line \in ToSet(SplitLines(v)) : IsFence(line)

\* The code of a text, in its order: the lines within fences, and the spans.
CodeOf(v) ==
  LET ls == SplitLines(v)
      spans(line) == [k \in 1..(Len(Parts(line)) \div 2) |-> Parts(line)[2 * k]]
  IN FlattenSeq([i \in DOMAIN ls |->
       CASE IsFence(ls[i]) -> <<>>
         [] ~IsFence(ls[i]) /\ Fenced(ls, i) -> <<ls[i]>>
         [] OTHER -> spans(ls[i])])
=============================================================================
