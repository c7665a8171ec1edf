------------------------------ MODULE Profile ------------------------------
(***************************************************************************)
(* How the application looks to a user: the profile dialog and its theme   *)
(* editor (frontend/src/components/ProfileModal.tsx, ThemeBuilderModal.tsx)*)
(* over the user record of context/AuthContext.tsx, whose effects paint    *)
(* the page (lib/theme.ts), and the part of the API they call (api/auth.ts,*)
(* api/customThemes.ts; backend routers/auth.py, custom_themes.py,         *)
(* services/custom_theme_service.py, schemas/user.py).                     *)
(*                                                                         *)
(* A choice is painted at once, persisted afterwards, and undone from the  *)
(* user record its handler closed over when that fails. Every answer is a  *)
(* whole user record, which replaces the page's. Calls are served and      *)
(* answered in any order; the editor is modal for the mouse only.          *)
(***************************************************************************)
EXTENDS Naturals, FiniteSets

CONSTANTS
  Themes,      \* the custom themes there can be
  FirstThemes, \* those there are at first
  None,
  MaxActs,     \* bound on what the user asks for
  MaxBreaks    \* bound on the calls the network breaks

Presets == {"dark", "light"}
Sizes == {"normal", "large"}
Faces == {"plain", "edited"}   \* display name, avatar, emoji size
\* A custom palette: the colours a theme was created with, or edited ones.
Palettes == Themes \X {1, 2}
Looks == Palettes \cup (Presets \X {0})
UserRecords == [theme : Presets \cup {"custom"}, active : Palettes \cup {None},
          size : Sizes, face : Faces]

ASSUME ProfileAssumption ==
  FirstThemes \subseteq Themes /\ None \notin Themes \cup Palettes

VARIABLES
  row,        \* the server's user: theme, kept theme, text size, the rest
  palette,    \* the server's custom themes: their palette or None
  user,       \* the page's user record
  screen,     \* what applyTheme and applyTextScale did last
  swatches,   \* customThemes
  editing,    \* editingThemeId
  draft,      \* editColorsDraft
  calls,      \* the calls under way
  wish,       \* history: the last choice of a setting, None when a call about
              \* it failed or met another
  overlapped, \* history: a call was made while another was under way
  failed,     \* history: a call failed
  lost,       \* history: an answer was lost
  hasty,      \* history: a theme was chosen, deleted or opened over an open editor,
              \* deleted or opened over an unanswered call, or coloured on the
              \* page over a save that was begun before the page wore it
  fell,       \* history: a theme was deleted that was kept, not worn
  made, breaks

server == <<row, palette>>
page == <<user, screen, swatches, editing, draft>>
history == <<wish, overlapped, failed, lost, hasty, fell>>
profileVars == <<server, page, calls, history, made, breaks>>

\* UserRead: the custom theme is there while it is worn only.
View(r, p) == [theme |-> r.theme, size |-> r.size, face |-> r.face,
               active |-> IF r.theme = "custom" THEN p[r.kept] ELSE None]

\* applyTheme and applyTextScale of a user record.
Look(u) == IF u.theme = "custom" /\ u.active # None THEN u.active ELSE <<u.theme, 0>>

\* Whether t is the theme the page believes worn.
Wears(u, t) == u.active # None /\ u.active[1] = t

Ask(k, x, p, then) ==
  [id |-> CHOOSE n \in 0 .. Cardinality(calls) : \A c \in calls : c.id # n,
   kind |-> k, arg |-> x, colors |-> p,
   was |-> IF k \in {"face", "me"} THEN None ELSE user,
   over |-> IF k = "delete" THEN editing ELSE None,
   then |-> then, stage |-> "sent", got |-> None]

ProfileInit ==
  /\ row = [theme |-> "dark", kept |-> None, size |-> "normal", face |-> "plain"]
  /\ palette = [t \in Themes |-> IF t \in FirstThemes THEN <<t, 1>> ELSE None]
  /\ user = View(row, palette)
  /\ screen = [look |-> Look(user), size |-> user.size]
  /\ swatches = [t \in Themes |-> None]
  /\ editing = None /\ draft = None
  /\ calls = {[id |-> 0, kind |-> "list", arg |-> None, colors |-> None, was |-> None,
               over |-> None, then |-> FALSE, stage |-> "sent", got |-> None]}
  /\ wish = [size |-> "normal", face |-> "plain"]
  /\ overlapped = FALSE /\ failed = FALSE /\ lost = FALSE
  /\ hasty = FALSE /\ fell = FALSE
  /\ made = 0 /\ breaks = 0

(***************************************************************************)
(* The user                                                                *)
(***************************************************************************)

Others == {c \in calls : c.kind # "list"}

\* The choice x of setting k.
Wish(k, x) ==
  wish' = [wish EXCEPT ![k] = IF \E c \in calls : c.kind = k THEN None ELSE x]

\* A theme is chosen, deleted or edited over the calls "rest".
Haste(rest) == hasty' = (hasty \/ editing # None \/ rest # {})

\* A handler makes a call.
Start(k, x, p) ==
  /\ made < MaxActs /\ made' = made + 1
  /\ calls' = calls \cup {Ask(k, x, p, FALSE)}
  /\ overlapped' = (overlapped \/ Others # {})
  /\ UNCHANGED <<server, failed, lost, fell, breaks>>

\* handleSelectPreset.
SelectPreset(p) ==
  /\ screen' = [screen EXCEPT !.look = <<p, 0>>]
  /\ Start("preset", p, None) /\ Haste({})
  /\ UNCHANGED <<wish, user, swatches, editing, draft>>

\* handleSelectTextScale.
SelectSize(s) ==
  /\ screen' = [screen EXCEPT !.size = s]
  /\ Wish("size", s)
  /\ Start("size", s, None) /\ UNCHANGED hasty
  /\ UNCHANGED <<user, swatches, editing, draft>>

\* handleSaveName, handleFileSelected, handleRemoveAvatar, handleSelectEmojiScale.
SaveFace(f) ==
  /\ Wish("face", f)
  /\ Start("face", f, None) /\ UNCHANGED hasty
  /\ UNCHANGED page

\* handleActivateCustomTheme, with the colours of the swatch.
Activate(t) ==
  /\ swatches[t] # None
  /\ screen' = [screen EXCEPT !.look = swatches[t]]
  /\ Start("activate", t, None) /\ Haste({})
  /\ UNCHANGED <<wish, user, swatches, editing, draft>>

\* handleCreateCustomTheme up to its first await.
Create == Start("create", None, None) /\ Haste({}) /\ UNCHANGED <<page, wish>>

\* handleDeleteCustomTheme, confirmed.
Delete(t) ==
  /\ swatches[t] # None
  /\ Start("delete", t, None) /\ Haste(Others)
  /\ UNCHANGED <<page, wish>>

\* openEditor.
Open(t, colors) == editing' = t /\ draft' = colors
OpenEditor(t) ==
  /\ swatches[t] # None /\ editing # t
  /\ Open(t, swatches[t])
  /\ Haste(calls)
  /\ UNCHANGED <<server, user, screen, swatches, calls, wish, overlapped,
                 failed, lost, fell, made, breaks>>

\* closeEditor: the preview of the theme worn goes back to what is saved.
CloseEditor ==
  /\ editing # None
  /\ screen' = IF Wears(user, editing) THEN [screen EXCEPT !.look = Look(user)] ELSE screen
  /\ editing' = None
  /\ UNCHANGED <<server, user, swatches, draft, calls, history, made, breaks>>

\* handleEditColorChange: seen on the page when this theme is worn.
PickColour ==
  /\ editing # None /\ swatches[editing] # None
  /\ \E n \in {1, 2} \ {draft[2]} : draft' = <<editing, n>>
  /\ screen' = IF Wears(user, editing) THEN [screen EXCEPT !.look = draft'] ELSE screen
  /\ hasty' = (hasty \/ /\ Wears(user, editing)
                        /\ \E c \in calls : c.kind = "edit" /\ ~Wears(c.was, c.arg))
  /\ UNCHANGED <<server, user, swatches, editing, calls, wish, overlapped, failed,
                 lost, fell, made, breaks>>

\* handleSaveThemeEdit; the button is disabled while it saves.
SaveEdit ==
  /\ editing # None /\ swatches[editing] # None
  /\ ~\E c \in calls : c.kind = "edit"
  /\ Start("edit", editing, draft) /\ UNCHANGED hasty
  /\ UNCHANGED <<page, wish>>

(***************************************************************************)
(* The server                                                              *)
(***************************************************************************)

Exists(t) == palette[t] # None
Allowed(c) ==
  CASE c.kind = "create" -> \E t \in Themes : ~Exists(t)
    [] c.kind \in {"activate", "delete", "edit"} -> Exists(c.arg)
    [] OTHER -> TRUE

\* Mutant: a save sends the whole profile the page has.
WrittenWhole(c) ==
  LET all == [row EXCEPT !.size = c.was.size, !.face = c.was.face]
  IN CASE c.kind = "preset" -> [all EXCEPT !.theme = c.arg]
       [] c.kind = "size" -> [all EXCEPT !.size = c.arg]
       [] c.kind = "face" -> [row EXCEPT !.face = c.arg]
       [] OTHER -> row

\* update_profile applies the fields of the request, activate_custom_theme
\* and delete_custom_theme both columns of the theme. The preset of a delete
\* is there whether the theme was worn or only kept.
Written(c) ==
  CASE c.kind = "preset" -> [row EXCEPT !.theme = c.arg]
    [] c.kind = "size" -> [row EXCEPT !.size = c.arg]
    [] c.kind = "face" -> [row EXCEPT !.face = c.arg]
    [] c.kind = "activate" -> [row EXCEPT !.theme = "custom", !.kept = c.arg]
    [] c.kind = "delete" /\ row.kept = c.arg -> [row EXCEPT !.theme = "dark", !.kept = None]
    [] OTHER -> row

\* A call is served.
Serve(c) ==
  /\ c \in calls /\ c.stage = "sent"
  /\ \E new \in IF c.kind = "create" /\ Allowed(c) THEN {t \in Themes : ~Exists(t)}
                ELSE {None} :
       LET r == IF Allowed(c) THEN Written(c) ELSE row
           p == IF ~Allowed(c) THEN palette
                ELSE CASE c.kind = "create" -> [palette EXCEPT ![new] = <<new, 1>>]
                       [] c.kind = "edit" -> [palette EXCEPT ![c.arg] = c.colors]
                       [] c.kind = "delete" -> [palette EXCEPT ![c.arg] = None]
                       [] OTHER -> palette
           answer == IF ~Allowed(c) THEN None
                     ELSE CASE c.kind = "list" -> p
                            [] c.kind = "create" -> p[new]
                            [] c.kind \in {"delete", "edit"} -> None
                            [] OTHER -> View(r, p)
       IN /\ row' = r /\ palette' = p
          /\ calls' = (calls \ {c}) \cup
               {[c EXCEPT !.stage = IF Allowed(c) THEN "ok" ELSE "failed", !.got = answer]}
          /\ fell' = (fell \/ (r.theme # row.theme /\ row.theme # "custom" /\ c.kind = "delete"))
          /\ failed' = (failed \/ ~Allowed(c))
  /\ UNCHANGED <<page, wish, overlapped, lost, hasty, made, breaks>>

\* The network breaks a call, on its way there or on its way back.
Break(c) ==
  /\ c \in calls /\ c.stage # "failed" /\ breaks < MaxBreaks
  /\ calls' = (calls \ {c}) \cup {[c EXCEPT !.stage = "failed", !.got = None]}
  /\ breaks' = breaks + 1
  /\ failed' = TRUE /\ lost' = (lost \/ c.stage = "ok" \/ c.kind = "me")
  /\ wish' = [k \in {"size", "face"} |-> IF k = c.kind THEN None ELSE wish[k]]
  /\ UNCHANGED <<server, page, overlapped, hasty, fell, made>>

(***************************************************************************)
(* Answers                                                                 *)
(***************************************************************************)

Take(c, k) == c \in calls /\ c.kind \in k /\ c.stage # "sent"
Drop(c) == calls' = calls \ {c}

\* updateUser and the effects on the theme, by value, its palette, by object
\* (a new one with every answer), and the text size. The theme may also be
\* painted whatever was there.
SetUser(u, anew) ==
  /\ user' = u
  /\ screen' = [look |-> IF anew \/ u.theme # user.theme \/ u.active # None \/ user.active # None
                         THEN Look(u) ELSE screen.look,
                size |-> IF u.size # user.size THEN u.size ELSE screen.size]

Listed(c) ==
  /\ Take(c, {"list"}) /\ Drop(c)
  /\ swatches' = IF c.stage = "ok" THEN c.got ELSE swatches
  /\ UNCHANGED <<server, user, screen, editing, draft, history, made, breaks>>

\* Mutant: what was painted at once stays when it could not be saved.
ChosenForGood(c) ==
  /\ Take(c, {"preset", "size", "face", "me"}) /\ Drop(c)
  /\ IF c.stage = "ok" THEN SetUser(c.got, c.kind = "me") ELSE UNCHANGED <<user, screen>>
  /\ UNCHANGED <<server, swatches, editing, draft, history, made, breaks>>

\* The answer to a choice; a failed one goes back to what its handler knew.
Chosen(c) ==
  /\ Take(c, {"preset", "size", "face", "me"}) /\ Drop(c)
  /\ IF c.stage = "ok" THEN SetUser(c.got, c.kind = "me")
     ELSE /\ screen' = CASE c.kind = "preset" -> [screen EXCEPT !.look = Look(c.was)]
                         [] c.kind = "size" -> [screen EXCEPT !.size = c.was.size]
                         [] OTHER -> screen
          /\ UNCHANGED user
  /\ UNCHANGED <<server, swatches, editing, draft, history, made, breaks>>

\* The same for a custom theme; a new one is then opened, come what may.
Activated(c) ==
  /\ Take(c, {"activate"}) /\ Drop(c)
  /\ IF c.stage = "ok" THEN SetUser(c.got, FALSE)
     ELSE screen' = [screen EXCEPT !.look = Look(c.was)] /\ UNCHANGED user
  /\ IF c.then THEN Open(c.arg, <<c.arg, 1>>) /\ Haste(calls \ {c})
     ELSE UNCHANGED <<editing, draft, hasty>>
  /\ UNCHANGED <<server, swatches, wish, overlapped, failed, lost, fell, made, breaks>>

\* handleCreateCustomTheme goes on to activate the new theme, with the user
\* it closed over.
Created(c) ==
  /\ Take(c, {"create"})
  /\ IF c.stage = "failed" THEN Drop(c) /\ UNCHANGED <<screen, swatches>>
     ELSE /\ swatches' = [swatches EXCEPT ![c.got[1]] = c.got]
          /\ screen' = [screen EXCEPT !.look = c.got]
          /\ calls' = (calls \ {c}) \cup
                        {[Ask("activate", c.got[1], None, TRUE) EXCEPT !.was = c.was]}
  /\ UNCHANGED <<server, user, editing, draft, history, made, breaks>>

\* Mutant: the page guesses that it is back on the dark theme only.
DeletedUnseen(c) ==
  /\ Take(c, {"delete"})
  /\ swatches' = IF c.stage = "ok" THEN [swatches EXCEPT ![c.arg] = None] ELSE swatches
  /\ editing' = IF c.stage = "ok" /\ c.over = c.arg THEN None ELSE editing
  /\ Drop(c)
  /\ UNCHANGED <<server, user, screen, draft, history, made, breaks>>

\* handleDeleteCustomTheme asks for the user anew when it was worn.
Deleted(c) ==
  /\ Take(c, {"delete"})
  /\ IF c.stage = "failed" THEN Drop(c) /\ UNCHANGED <<swatches, editing>>
     ELSE /\ swatches' = [swatches EXCEPT ![c.arg] = None]
          /\ editing' = IF c.over = c.arg THEN None ELSE editing
          /\ calls' = (calls \ {c}) \cup
                        {a \in {Ask("me", None, None, FALSE)} : Wears(c.was, c.arg)}
  /\ UNCHANGED <<server, user, screen, draft, history, made, breaks>>

\* handleSaveThemeEdit: the user it closed over, with the new palette.
Edited(c) ==
  /\ Take(c, {"edit"}) /\ Drop(c)
  /\ IF c.stage = "failed" THEN UNCHANGED <<user, screen, swatches, editing>>
     ELSE /\ swatches' = [swatches EXCEPT ![c.arg] = IF @ = None THEN None ELSE c.colors]
          /\ editing' = None
          /\ IF Wears(c.was, c.arg) THEN SetUser([c.was EXCEPT !.active = c.colors], FALSE)
             ELSE UNCHANGED <<user, screen>>
  /\ UNCHANGED <<server, draft, history, made, breaks>>

Answer(c) ==
  Listed(c) \/ Chosen(c) \/ Activated(c) \/ Created(c) \/ Deleted(c) \/ Edited(c)

ProfileNext ==
  \/ \E p \in Presets : SelectPreset(p)
  \/ \E s \in Sizes : SelectSize(s)
  \/ \E f \in Faces \ {user.face} : SaveFace(f)
  \/ \E t \in Themes : Activate(t) \/ Delete(t) \/ OpenEditor(t)
  \/ Create \/ CloseEditor \/ PickColour \/ SaveEdit
  \/ \E c \in calls : Serve(c) \/ Break(c) \/ Answer(c)

ProfileSpec == ProfileInit /\ [][ProfileNext]_profileVars

(***************************************************************************)
(* Properties                                                              *)
(***************************************************************************)

\* Every variable has its type; a custom theme worn is one that exists.
ProfileTypeOK ==
  /\ row \in [theme : Presets \cup {"custom"}, kept : Themes \cup {None},
              size : Sizes, face : Faces]
  /\ palette \in [Themes -> Palettes \cup {None}]
  /\ user \in UserRecords
  /\ screen \in [look : Looks, size : Sizes]
  /\ swatches \in [Themes -> Palettes \cup {None}]
  /\ editing \in Themes \cup {None} /\ draft \in Palettes \cup {None}
  /\ row.theme = "custom" => row.kept # None
  /\ row.kept # None => palette[row.kept] # None

AtRest == calls = {} /\ editing = None

\* What was painted ahead is what the page's user record says once everything
\* is answered, whatever the order: previews, roll-backs and effects leave
\* nothing behind. Excepted are a roll-back while another call was under way,
\* and what the variable hasty records.
ScreenIsUsers ==
  (AtRest /\ ~hasty /\ ~(overlapped /\ failed)) =>
    screen = [look |-> Look(user), size |-> user.size]

\* One call at a time and no lost answer: the page's user is the server's.
\* Deleting a theme that is kept but not worn is the exception (fell): the
\* server falls back to a preset then too, and the page does not.
UserIsServers ==
  (AtRest /\ ~overlapped /\ ~lost /\ ~fell) => user = View(row, palette)

\* Different settings can be saved at the same time: each ends up at the last
\* choice, no call takes the others' back with it.
ChoicesStick ==
  calls = {} => \A k \in {"size", "face"} : wish[k] \in {None, row[k]}
=============================================================================
