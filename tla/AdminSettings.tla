--------------------------- MODULE AdminSettings ---------------------------
(***************************************************************************)
(* The settings tab of the admin page (frontend/src/pages/AdminPage.tsx)   *)
(* over the two tables it edits (backend services/smtp_settings_service.py *)
(* and upload_settings_service.py). Each table is meant to hold a single   *)
(* row; the service that finds none adds one, and nothing stops two of     *)
(* them. AdminPage extends this module with the other tabs.                *)
(***************************************************************************)
EXTENDS Integers, FiniteSets, Sequences

CONSTANTS
  None,
  Typed,      \* what an admin may write into a form
  MaxActs,    \* bound on the clicks of the page
  MaxOthers,  \* bound on what other users do
  MaxBreaks   \* bound on the calls that fail

Forms == {"smtp", "upload"}
Factory == [smtp |-> "empty", upload |-> "default"]

ASSUME AdminSettingsAssumption ==
  None \notin Typed \cup {"empty", "default"} /\ {"empty", "default"} \cap Typed = {}

Values == Typed \cup {"empty", "default"}

VARIABLES
  stored,     \* the rows of smtp_settings and upload_settings, oldest first
  current,    \* smtpSettings, uploadSettings
  loaded,     \* smtpLoaded, uploadLoaded
  field,      \* what the form shows
  saving,     \* smtpSaving, uploadSaving
  testing,    \* smtpTestBusy
  posts,      \* the calls of the tab under way
  kept,       \* history: forms whose last change was made here
  muddled,    \* history: forms with an answer that may be older
  edited,     \* history: forms typed into since they were saved or loaded
  made, others, breaks

forms == <<current, loaded, field, saving, testing>>
traces == <<kept, muddled, edited>>
counts == <<made, others, breaks>>
settings == <<stored, forms, posts, traces>>

SettingsInit ==
  /\ stored = [f \in Forms |-> <<>>]
  /\ current = [f \in Forms |-> None] /\ loaded = {}
  /\ field = Factory
  /\ saving = {} /\ testing = FALSE /\ posts = {}
  /\ kept = {} /\ muddled = {} /\ edited = {}

Act == made < MaxActs /\ made' = made + 1 /\ UNCHANGED <<others, breaks>>

\* A call about form f; "row" is the row of the table it works on, "seen"
\* what that row said.
Post(k, f) ==
  [id |-> CHOOSE n \in 0 .. Cardinality(posts) : \A p \in posts : p.id # n,
   kind |-> k, form |-> f, value |-> field[f],
   row |-> 0, seen |-> None, got |-> None, stage |-> "sent"]

\* The calls S are made. Where one about the same form is under way, either
\* may be answered last.
PostAll(S) ==
  /\ posts' = posts \cup S
  /\ muddled' = muddled \cup {p.form : p \in {q \in S : \E o \in posts : o.form = q.form}}

LoadAll == PostAll({Post("load", f) : f \in Forms})

(***************************************************************************)
(* The admin                                                               *)
(***************************************************************************)

\* The inputs, shown once the settings were loaded.
Type(f) ==
  /\ f \in loaded /\ Act
  /\ \E v \in Typed \ {field[f]} : field' = [field EXCEPT ![f] = v]
  /\ edited' = edited \cup {f}
  /\ UNCHANGED <<stored, current, loaded, saving, testing, posts, kept, muddled>>

\* A form is submitted once it is loaded, not while it saves, and not with a
\* required field left empty.
Submittable(f) == f \in loaded \ saving /\ field[f] # "empty"

\* handleSaveSmtpSettings, handleSaveUploadSettings, up to the await.
Save(f) ==
  /\ Submittable(f) /\ Act
  /\ saving' = saving \cup {f}
  /\ edited' = edited \ {f}
  /\ PostAll({Post("save", f)})
  /\ UNCHANGED <<stored, current, loaded, field, testing, kept>>

\* handleSendTestEmail.
SendTest ==
  /\ "smtp" \in loaded /\ ~testing /\ current["smtp"] # None /\ Act
  /\ testing' = TRUE
  /\ PostAll({Post("test", "smtp")})
  /\ UNCHANGED <<stored, current, loaded, field, saving, kept, edited>>

(***************************************************************************)
(* The services                                                            *)
(***************************************************************************)

\* get_smtp_settings, get_upload_settings: "limit 1", without an order.
ReadRow(p) ==
  /\ p \in posts /\ p.stage = "sent"
  /\ \E n \in IF stored[p.form] = <<>> THEN {0} ELSE DOMAIN stored[p.form] :
       posts' = (posts \ {p}) \cup
         {[p EXCEPT !.stage = "read", !.row = n,
                    !.seen = IF n = 0 THEN None ELSE stored[p.form][n]]}
  /\ UNCHANGED <<stored, forms, traces, counts>>

\* What a call leaves in the table: upsert_smtp_settings and
\* update_upload_settings add a row if they found none and write what differs
\* from what they read; get_upload_settings adds the default.
Written(p) ==
  LET f == p.form
  IN CASE p.row = 0 /\ p.kind = "save" -> [stored EXCEPT ![f] = Append(@, p.value)]
       [] p.row = 0 /\ p.kind = "load" /\ f = "upload" ->
            [stored EXCEPT ![f] = Append(@, Factory[f])]
       [] p.row # 0 /\ p.kind = "save" /\ p.value # p.seen ->
            [stored EXCEPT ![f][p.row] = p.value]
       [] OTHER -> stored

\* The call is committed and answered from its row; without settings no test
\* email goes out. (SMTP settings are one value; their password, which is
\* never sent back, is left out.)
WriteRow(p) ==
  /\ p \in posts /\ p.stage = "read"
  /\ stored' = Written(p)
  /\ kept' = IF p.kind = "save" THEN kept \cup {p.form} ELSE kept
  /\ LET rows == stored'[p.form]
         answer == IF p.row # 0 THEN rows[p.row]
                   ELSE IF rows = stored[p.form] THEN None ELSE rows[Len(rows)]
     IN posts' = (posts \ {p}) \cup
          {[p EXCEPT !.stage = IF p.kind = "test" /\ p.row = 0 THEN "failed" ELSE "ok",
                     !.got = answer]}
  /\ UNCHANGED <<forms, muddled, edited, counts>>

\* A call is refused, or broken on its way there or back.
BreakPost(p) ==
  /\ p \in posts /\ p.stage # "failed" /\ breaks < MaxBreaks
  /\ breaks' = breaks + 1
  /\ posts' = (posts \ {p}) \cup {[p EXCEPT !.stage = "failed"]}
  /\ muddled' = muddled \cup {p.form}
  /\ UNCHANGED <<stored, forms, kept, edited, made, others>>

\* Elsewhere: another user's page asks for the limit on uploads (routers/
\* uploads.py), or another admin saves.
OtherUser ==
  /\ others < MaxOthers /\ others' = others + 1
  /\ \E f \in Forms :
       /\ stored' \in {[stored EXCEPT ![f][n] = v] : n \in DOMAIN stored[f], v \in Typed}
             \cup {[stored EXCEPT ![f] = <<v>>] :
                     v \in IF stored[f] # <<>> THEN {}
                           ELSE IF f = "upload" THEN Typed \cup {Factory[f]} ELSE Typed}
       /\ stored' # stored
       /\ kept' = kept \ {f}
       /\ muddled' = muddled \cup {p.form : p \in {q \in posts : q.form = f}}
  /\ UNCHANGED <<forms, posts, edited, made, breaks>>

(***************************************************************************)
(* Answers                                                                 *)
(***************************************************************************)

Done(p, k) == p \in posts /\ p.kind = k /\ p.stage \in {"ok", "failed"} /\ posts' = posts \ {p}

\* loadSmtpSettings, loadUploadSettings: what was typed meanwhile is replaced,
\* but by no SMTP settings where there are none yet.
SettingsLoaded(p) ==
  /\ Done(p, "load")
  /\ IF p.stage = "ok"
     THEN /\ current' = [current EXCEPT ![p.form] = p.got]
          /\ loaded' = loaded \cup {p.form}
          /\ field' = IF p.got = None THEN field ELSE [field EXCEPT ![p.form] = p.got]
          /\ edited' = IF p.got = None THEN edited ELSE edited \ {p.form}
     ELSE UNCHANGED <<current, loaded, field, edited>>
  /\ UNCHANGED <<stored, saving, testing, kept, muddled, counts>>

\* The upload form takes the answer, the SMTP form stays as it is.
SettingsSaved(p) ==
  /\ Done(p, "save")
  /\ saving' = saving \ {p.form}
  /\ IF p.stage = "ok"
     THEN /\ current' = [current EXCEPT ![p.form] = p.got]
          /\ field' = IF p.form = "upload" THEN [field EXCEPT !["upload"] = p.got] ELSE field
          /\ edited' = IF p.form = "upload" THEN edited \ {"upload"} ELSE edited
     ELSE UNCHANGED <<current, field, edited>>
  /\ UNCHANGED <<stored, loaded, testing, kept, muddled, counts>>

TestSent(p) ==
  /\ Done(p, "test")
  /\ testing' = FALSE
  /\ UNCHANGED <<stored, current, loaded, field, saving, traces, counts>>

\* What the calls of the tab carry.
SettingsPost(p) ==
  /\ p = [id |-> p.id, kind |-> p.kind, form |-> p.form, value |-> p.value,
          row |-> p.row, seen |-> p.seen, got |-> p.got, stage |-> p.stage]
  /\ p.kind \in {"load", "save", "test"} /\ p.form \in Forms /\ p.value \in Values
  /\ p.row \in Nat /\ {p.seen, p.got} \subseteq Values \cup {None}
  /\ p.stage \in {"sent", "read", "ok", "failed"}
  /\ p.stage = "read" /\ p.row # 0 => p.row \in DOMAIN stored[p.form]
  /\ p.kind = "save" /\ p.stage = "ok" => p.got # None

\* Every variable has its type.
SettingsTypeOK ==
  /\ stored \in [Forms -> Seq(Values)]
  /\ current \in [Forms -> Values \cup {None}] /\ field \in [Forms -> Values]
  /\ loaded \subseteq Forms /\ saving \subseteq Forms /\ testing \in BOOLEAN
  /\ \A p \in posts : SettingsPost(p)
  /\ kept \subseteq Forms /\ muddled \subseteq Forms /\ edited \subseteq Forms

\* Once all is answered the forms say what every reader of the settings gets,
\* if this page saved them last and its calls did not overlap: what was saved
\* is in the only row. What was not typed since stands in the form, too.
SettingsShown ==
  posts = {} => \A f \in kept \ muddled :
    /\ {stored[f][n] : n \in DOMAIN stored[f]} = {current[f]}
    /\ f \notin edited => field[f] = current[f]
=============================================================================
