----------------------------- MODULE AdminDialogs ---------------------------
(***************************************************************************)
(* The dialogs of the administration in which what belongs to a row of a   *)
(* table is edited: a press of the row's button asks for what there is,    *)
(* the answer fills the dialog, and its submit saves what stands in it     *)
(* under the row.  An open dialog covers the table; it can be closed       *)
(* before it is filled, and what comes then is filled in all the same.     *)
(* group.js, Roles.js, link.js, sensitive.js, auser.js, resourceTree.js.   *)
(***************************************************************************)
EXTENDS Integers, Sequences, SequencesExt

CONSTANTS
  Rows,        \* of the table
  MaxOpens     \* bound: how often a dialog is asked for

ASSUME OpensAreCounted == MaxOpens \in Nat

\* When the dialog is shown, whether it is emptied by then, whether an answer
\* replaces what is in it, whether the filling takes a second request, for
\* which row that one is, and which row the submit names.
Dialog == [shows |-> "click", clears |-> FALSE, replaces |-> TRUE,
           second |-> "none", names |-> "click"]
CheckList == [Dialog EXCEPT !.clears = TRUE, !.replaces = FALSE]

compile          == [Dialog EXCEPT !.shows = "answer", !.names = "loaded"]
group            == [Dialog EXCEPT !.shows = "answer"]
role_updata      == Dialog
\* The id that is saved was loaded; the word that goes with it, to tell whether
\* it was changed, is that of the row pressed last.
sensitive_updata == [Dialog EXCEPT !.names = "loaded"]
\* The parents of a resource are asked for by the answer, for its own row.
update_link      == [Dialog EXCEPT !.second = "own"]
\* The users of a role: which of them have it is asked for by the answer, for
\* the row of the last press.
butn             == [Dialog EXCEPT !.second = "last"]
\* Mutant: the list of another account stays.
addgroupKeeps    == [CheckList EXCEPT !.clears = FALSE, !.names = "first"]
addgroup         == [CheckList EXCEPT !.names = "first"]
addrole          == [CheckList EXCEPT !.names = "first"]
getResource      == [CheckList EXCEPT !.second = "own"]

Dialogs ==
  [compile |-> compile, group |-> group, role_updata |-> role_updata,
   sensitive_updata |-> sensitive_updata, update_link |-> update_link,
   butn |-> butn, addgroup |-> addgroup, addrole |-> addrole,
   getResource |-> getResource]

VARIABLES
  dialog,     \* which it is
  visible,    \* it is shown
  clicked,    \* the row whose button was pressed last
  filled,     \* the rows whose data is in the dialog, in order
  ticked,     \* the rows whose second answer is
  loading,    \* the requests that are not answered
  opens,      \* how many were made by a press
  saved,      \* what was submitted last
  blurred     \* history: a row's button was pressed while another's data was
              \* on its way, or a request failed, since one was pressed with
              \* nothing on its way

dialogVars == <<dialog, visible, clicked, filled, ticked, loading, opens,
                saved, blurred>>

NoRow == "none"
NoSave == [row |-> NoRow, last |-> NoRow, filled |-> <<>>, ticked |-> {}, hasty |-> TRUE]
Is == Dialogs[dialog]

DialogTypeOK ==
  /\ dialog \in DOMAIN Dialogs
  /\ visible \in BOOLEAN /\ blurred \in BOOLEAN
  /\ clicked \in Rows \cup {NoRow}
  /\ filled \in Seq(Rows) /\ ticked \subseteq Rows
  /\ loading \subseteq [row : Rows, stage : 1..2, no : 1..MaxOpens]
  /\ opens \in 0..MaxOpens
  /\ saved = NoSave \/
     saved \in [row : Rows, last : Rows, filled : Seq(Rows), ticked : SUBSET Rows,
                hasty : BOOLEAN]

DialogInit ==
  /\ dialog \in DOMAIN Dialogs
  /\ visible = FALSE /\ clicked = NoRow
  /\ filled = <<>> /\ ticked = {}
  /\ loading = {} /\ opens = 0
  /\ saved = NoSave /\ blurred = FALSE

OpenDialog(r) ==
  /\ ~visible /\ opens < MaxOpens
  /\ opens' = opens + 1
  /\ clicked' = r
  /\ visible' = (Is.shows = "click")
  /\ filled' = IF Is.clears THEN <<>> ELSE filled
  /\ ticked' = IF Is.clears THEN {} ELSE ticked
  /\ loading' = loading \cup {[row |-> r, stage |-> 1, no |-> opens + 1]}
  /\ blurred' = (loading # {})
  /\ UNCHANGED <<dialog, saved>>

CloseDialog ==
  /\ visible /\ visible' = FALSE
  /\ UNCHANGED <<dialog, clicked, filled, ticked, loading, opens, saved, blurred>>

Fill(c) ==
  LET next == [c EXCEPT !.stage = 2,
                        !.row = IF Is.second = "last" THEN clicked ELSE c.row]
  IN /\ c \in loading /\ c.stage = 1
     /\ loading' = (loading \ {c}) \cup (IF Is.second = "none" THEN {} ELSE {next})
     /\ visible' = (visible \/ Is.shows = "answer")
     /\ filled' = Append(IF Is.replaces THEN <<>> ELSE filled, c.row)
     /\ ticked' = IF Is.second = "last" THEN {} ELSE ticked
     /\ UNCHANGED <<dialog, clicked, opens, saved, blurred>>

\* link.js replaces the parents, the others add their ticks.
Tick(c) ==
  /\ c \in loading /\ c.stage = 2
  /\ loading' = loading \ {c}
  /\ ticked' = (IF dialog = "update_link" THEN {} ELSE ticked) \cup {c.row}
  /\ UNCHANGED <<dialog, visible, clicked, filled, opens, saved, blurred>>

\* Nothing is filled in, or nothing is heard of the request.  link.js asks for
\* the parents of a resource that was not found as well.
FillFails(c, told) ==
  /\ c \in loading
  /\ loading' = (loading \ {c}) \cup
       (IF told /\ dialog = "update_link" /\ c.stage = 1
        THEN {[c EXCEPT !.stage = 2]} ELSE {})
  /\ blurred' = TRUE
  /\ UNCHANGED <<dialog, visible, clicked, filled, ticked, opens, saved>>

Named ==
  CASE Is.names = "click"  -> clicked
    [] Is.names = "first"  -> Head(filled)
    [] Is.names = "loaded" -> Last(filled)

\* The submit takes the dialog as it stands, without a row to name in vain; some
\* close it.
SubmitDialog ==
  /\ visible
  /\ Is.names = "click" \/ filled # <<>>
  /\ saved' = [row |-> Named, last |-> clicked, filled |-> filled, ticked |-> ticked,
               hasty |-> blurred \/ loading # {}]
  /\ visible' \in {visible, FALSE}
  /\ UNCHANGED <<dialog, clicked, filled, ticked, loading, opens, blurred>>

DialogNext ==
  \/ \E r \in Rows : OpenDialog(r)
  \/ CloseDialog \/ SubmitDialog
  \/ \E c \in loading :
       Fill(c) \/ Tick(c) \/ \E told \in BOOLEAN : FillFails(c, told)

DialogSpec == DialogInit /\ [][DialogNext]_dialogVars

------------------------------------------------------------------------------
\* What is saved under a row is what was loaded for it, and for no other row,
\* whatever was opened, closed and saved before.  Only the dialogs that name
\* the row they loaded stand haste: the others must have their answers, and no
\* other row's on its way.  Without haste it is also the row pressed last,
\* whose word sensitive.js sends along.
SavedIsOfRow ==
  saved # NoSave /\ (saved.hasty => Is.names = "loaded")
    => /\ saved.filled = <<saved.row>>
       /\ Is.second # "none" => saved.ticked = {saved.row}
       /\ saved.hasty \/ saved.last = saved.row
==============================================================================
