----------------------------- MODULE LabelSearch ----------------------------
(***************************************************************************)
(* The search by labels, appsearch.js.  A submit sends two requests, for   *)
(* the labels of all types but some and for those of the others, whose     *)
(* answers gather the labels in one area and share three flags; a label    *)
(* that is clicked asks for its rows, a page at a time.  The query, the    *)
(* label and the scrollId are variables of the page, read again at each    *)
(* press.                                                                  *)
(***************************************************************************)
EXTENDS Browser

CONSTANTS
  Labels,       \* a label, with its index and its type
  FullLabels    \* the full pages of rows there are for a label

ASSUME LabelAssumption == FullLabels \in [Labels -> Nat]

VARIABLES
  query,        \* the submit its value is of; 0: none yet
  submitappOff, \* #submitapp is disabled
  flags,        \* flag1, flag2 and flag3 of each submit
  appresult,    \* the submits whose labels are in the area
  nothing,      \* the submits it says nothing was found of
  chosen,       \* the label, index and type
  appScrollId,  \* the rows it continues
  appresults,   \* the rows on show
  nextapp,      \* #nextapp is shown
  appAsking,    \* the requests that are not answered
  appMixed,     \* history: rows were asked for, or their query replaced, while
                \* rows were on their way, since a click found none on their way
  appStuck      \* history: what the code does not get over

labelOwn == <<query, submitappOff, flags, appresult, nothing, chosen, appScrollId,
              appresults, nextapp, appAsking, appMixed, appStuck>>
labelVars == <<browserVars, labelOwn>>

Submits == 1..MaxPresses
NoLabel == "none"
NoRows == [of |-> 0, label |-> NoLabel, page |-> 0]
RowsOf(n, l, p) == [of |-> n, label |-> l, page |-> p]
RowRefs == [of : Submits, label : Labels, page : Nat]
Parts == {"exclude", "include"}
NoFlags == [flag1 |-> FALSE, flag2 |-> FALSE, flag3 |-> FALSE]

LabelTypeOK ==
  /\ mask \in BOOLEAN /\ presses \in 0..MaxPresses
  /\ query \in 0..MaxPresses /\ submitappOff \in BOOLEAN
  /\ flags \in [Submits -> [flag1 : BOOLEAN, flag2 : BOOLEAN, flag3 : BOOLEAN]]
  /\ appresult \subseteq Submits /\ nothing \subseteq Submits
  /\ chosen \in Labels \cup {NoLabel}
  /\ appScrollId \in RowRefs \cup {NoRows} /\ appresults \subseteq RowRefs
  /\ nextapp \in BOOLEAN
  /\ appAsking \subseteq [part : Parts, of : Submits]
                \cup [part : {"rows"}, of : RowRefs, no : Submits]
  /\ appMixed \in BOOLEAN /\ appStuck \in BOOLEAN

LabelInit ==
  /\ BrowserInit
  /\ query = 0 /\ submitappOff = FALSE
  /\ flags = [n \in Submits |-> NoFlags]
  /\ appresult = {} /\ nothing = {}
  /\ chosen = NoLabel /\ appScrollId = NoRows /\ appresults = {}
  /\ nextapp = FALSE
  /\ appAsking = {}
  /\ appMixed = FALSE /\ appStuck = FALSE

AskingRows == {r \in appAsking : r.part = "rows"}

\* Mutant: the rows of the query before are left on show.
SubmitAppKeepsRows(how) ==
  /\ Reaches(how) /\ ~submitappOff
  /\ CountPress
  /\ mask' = TRUE /\ submitappOff' = TRUE
  /\ appresult' = {} /\ nothing' = {}
  /\ nextapp' = FALSE
  /\ query' = presses + 1
  /\ appAsking' = appAsking \cup [part : Parts, of : {presses + 1}]
  /\ appMixed' = (appMixed \/ AskingRows # {})
  /\ UNCHANGED <<flags, chosen, appScrollId, appresults, appStuck>>

\* #submitapp: both requests.
SubmitApp(how) ==
  /\ Reaches(how) /\ ~submitappOff
  /\ CountPress
  /\ mask' = TRUE /\ submitappOff' = TRUE
  /\ appresult' = {} /\ nothing' = {}
  /\ appresults' = {} /\ nextapp' = FALSE
  /\ query' = presses + 1
  /\ appAsking' = appAsking \cup [part : Parts, of : {presses + 1}]
  /\ appMixed' = (appMixed \/ AskingRows # {})
  /\ UNCHANGED <<flags, chosen, appScrollId, appStuck>>

\* An empty query is not asked about, with the mask up by then.
SubmitEmpty(how) ==
  /\ Reaches(how) /\ ~submitappOff
  /\ CountPress
  /\ mask' = TRUE /\ submitappOff' = TRUE
  /\ appresult' = {} /\ nothing' = {}
  /\ appresults' = {} /\ nextapp' = FALSE
  /\ query' = presses + 1
  /\ appMixed' = (appMixed \/ AskingRows # {})
  /\ appStuck' = TRUE
  /\ UNCHANGED <<flags, chosen, appScrollId, appAsking>>

\* The end of both success callbacks.
LabelsEnd(r, flag1, flag2, lowers) ==
  /\ appAsking' = appAsking \ {r}
  /\ submitappOff' = FALSE
  /\ mask' = (mask /\ ~lowers /\ ~flags[r.of].flag3)
  /\ flags' = [flags EXCEPT ![r.of] =
                 [flag1 |-> flag1, flag2 |-> flag2, flag3 |-> TRUE]]
  /\ UNCHANGED <<presses, query, chosen, appScrollId, appresults, nextapp, appMixed, appStuck>>

LabelsFound(r) ==
  /\ r.part \in Parts
  /\ LabelsEnd(r, flags[r.of].flag1, FALSE, TRUE)
  /\ appresult' = appresult \cup {r.of}
  /\ UNCHANGED nothing

\* Mutant: the second of two answers says so, whatever the first was.
LabelsMissingSecond(r) ==
  /\ r.part \in Parts
  /\ LabelsEnd(r, TRUE, TRUE, FALSE)
  /\ nothing' = IF flags[r.of].flag3 THEN nothing \cup {r.of} ELSE nothing
  /\ UNCHANGED appresult

\* No labels, or a failure: it is said by the second of two.
LabelsMissing(r) ==
  LET second == flags[r.of].flag1 /\ flags[r.of].flag2
  IN /\ r.part \in Parts
     /\ LabelsEnd(r, TRUE, TRUE, FALSE)
     /\ nothing' = IF second THEN nothing \cup {r.of} ELSE nothing
     /\ UNCHANGED appresult

\* Code 1 without data: the callback throws on the way.
LabelsNull(r) ==
  /\ r.part \in Parts
  /\ appAsking' = appAsking \ {r} /\ appStuck' = TRUE
  /\ UNCHANGED <<mask, presses, query, submitappOff, flags, appresult, nothing,
                 chosen, appScrollId, appresults, nextapp, appMixed>>

\* Mutant: the mask is left to the other answer.
LabelsFailSilently(r) ==
  /\ r.part \in Parts
  /\ appAsking' = appAsking \ {r}
  /\ appStuck' = (appStuck \/ (submitappOff /\ r.of = query /\ \A s \in appAsking \ {r} :
                           s.part \in Parts => s.of # r.of))
  /\ UNCHANGED <<mask, presses, query, submitappOff, flags, appresult, nothing,
                 chosen, appScrollId, appresults, nextapp, appMixed>>

\* An error: only a success enables the button.
LabelsFail(r) ==
  /\ r.part \in Parts
  /\ appAsking' = appAsking \ {r} /\ mask' = FALSE
  /\ appStuck' = (appStuck \/ (submitappOff /\ r.of = query /\ \A s \in appAsking \ {r} :
                           s.part \in Parts => s.of # r.of))
  /\ UNCHANGED <<presses, query, submitappOff, flags, appresult, nothing, chosen,
                 appScrollId, appresults, nextapp, appMixed>>

AskRows(ref) ==
  appAsking' = appAsking \cup {[part |-> "rows", of |-> ref, no |-> presses + 1]}

\* A label in the area: its rows from the start (scrollId "1").
ClickLabel(l, how) ==
  /\ appresult # {}
  /\ Reaches(how)
  /\ CountPress
  /\ mask' = TRUE
  /\ nextapp' = FALSE /\ appresults' = {}
  /\ chosen' = l /\ appScrollId' = NoRows
  /\ AskRows(RowsOf(query, l, 1))
  /\ appMixed' = (AskingRows # {})
  /\ UNCHANGED <<query, submitappOff, flags, appresult, nothing, appStuck>>

\* #nextapp: the query, the label and the scrollId as they are now.
NextApp(how) ==
  /\ nextapp
  /\ Reaches(how)
  /\ CountPress
  /\ mask' = TRUE
  /\ nextapp' = FALSE /\ appresults' = {}
  /\ AskRows(IF appScrollId = NoRows THEN RowsOf(query, chosen, 1) ELSE appScrollId)
  /\ appMixed' = (appMixed \/ AskingRows # {})
  /\ UNCHANGED <<query, submitappOff, flags, appresult, nothing, chosen, appScrollId, appStuck>>

RowsCame(r) ==
  /\ r.part = "rows"
  /\ appAsking' = appAsking \ {r} /\ mask' = FALSE
  /\ appScrollId' = [r.of EXCEPT !.page = @ + 1]
  /\ nextapp' = (r.of.page <= FullLabels[r.of.label])
  /\ appresults' = appresults \cup {r.of}
  /\ UNCHANGED <<presses, query, submitappOff, flags, appresult, nothing, chosen,
                 appMixed, appStuck>>

\* A failure is written in the rows' place; an error writes nothing.
RowsMissing(r) ==
  /\ r.part = "rows"
  /\ appAsking' = appAsking \ {r} /\ mask' = FALSE
  /\ UNCHANGED <<presses, query, submitappOff, flags, appresult, nothing, chosen,
                 appScrollId, appresults, nextapp, appMixed, appStuck>>

LabelsAnswered ==
  \E r \in appAsking :
    \/ LabelsFound(r) \/ LabelsMissing(r) \/ LabelsNull(r) \/ LabelsFail(r)
    \/ RowsCame(r) \/ RowsMissing(r)

LabelNext ==
  \/ \E how \in Ways :
       \/ SubmitApp(how) \/ SubmitEmpty(how) \/ NextApp(how)
       \/ \E l \in Labels : ClickLabel(l, how)
  \/ LabelsAnswered

LabelSpec == LabelInit /\ [][LabelNext]_labelVars
FairLabelSpec == LabelSpec /\ WF_labelVars(LabelsAnswered)

------------------------------------------------------------------------------
\* The rows on show are of the query and the label that were chosen last, and
\* the next page follows them, unless their request overlapped.
RowsAreOfLabel ==
  AskingRows = {} /\ ~appMixed =>
    \A rows \in appresults :
      /\ rows.of = query /\ rows.label = chosen
      /\ appScrollId = [rows EXCEPT !.page = @ + 1]

\* A submit of which labels were found is never said to have found nothing,
\* whichever of its two answers comes first and whatever else is on its way.
NothingOnlyOfNothing == nothing \cap appresult = {}

\* The mask comes down and the button is enabled again, whatever comes of the
\* two requests of a submit and of the rows, unless a query is empty, data are
\* not there, or both of a submit's requests fail.
LabelsRecover == (mask \/ submitappOff) ~> ((~mask /\ ~submitappOff) \/ appStuck)
==============================================================================
