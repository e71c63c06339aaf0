--------------------------- MODULE FrontEnd_proofs --------------------------
(***************************************************************************)
(* For any queries, rows, labels, lists and sizes of a page, and any       *)
(* number of presses: what is shown and saved belongs to what was asked    *)
(* last, on each page of the portal and the administration; and a tab that *)
(* has one of them open behaves as its specification says.                 *)
(***************************************************************************)
EXTENDS FrontEnd, QueryForms_proofs

USE PressesAreCounted

AtMostOne(S) == \A r, s \in S : r = s

------------------------------------------------------------------------------
\* The search by labels.  A request that is not answered yet; the two of a
\* submit differ in their part.
Pending(n) == {r \in appAsking : r.part \in Parts /\ r.of = n}


\* flag1 and flag2 together stand for one answer of two that found nothing.
FlagsTell ==
  \A n \in Submits :
    /\ n > presses => flags[n] = NoFlags /\ Pending(n) = {}
    /\ flags[n].flag1 /\ flags[n].flag2 => AtMostOne(Pending(n))
    /\ n \in nothing => Pending(n) = {} /\ n \notin appresult
    /\ n \in appresult =>
         /\ AtMostOne(Pending(n))
         /\ Pending(n) # {} => ~(flags[n].flag1 /\ flags[n].flag2)

\* Labels, rows and their requests come of a query and a label.
Chosen ==
  /\ appAsking # {} \/ appresult # {} \/ nextapp => query \in Submits
  /\ AskingRows # {} \/ nextapp => chosen \in Labels

\* Until requests for rows overlap, what is asked for and what is on show is
\* of the query and the label of the page.
OneLabel ==
  ~appMixed =>
    /\ AtMostOne(AskingRows)
    /\ \A r \in AskingRows :
         /\ r.of.of = query /\ r.of.label = chosen
         /\ appresults = {} /\ ~nextapp
    /\ nextapp => /\ appScrollId # NoRows
                  /\ appScrollId.of = query /\ appScrollId.label = chosen
    /\ \A rows_ \in appresults :
         /\ rows_.of = query /\ rows_.label = chosen
         /\ appScrollId = [rows_ EXCEPT !.page = @ + 1]

LabelInv == LabelTypeOK /\ FlagsTell /\ Chosen /\ OneLabel

LEMMA InitLabelInv == LabelInit => LabelInv
<1> SUFFICES ASSUME LabelInit PROVE LabelInv
  OBVIOUS
<1>1. /\ presses = 0 /\ query = 0 /\ appresult = {} /\ nothing = {}
      /\ chosen = NoLabel /\ appScrollId = NoRows /\ appresults = {}
      /\ nextapp = FALSE /\ appAsking = {}
      /\ flags = [n \in Submits |-> NoFlags]
  BY DEF LabelInit, BrowserInit
<1>2. /\ mask \in BOOLEAN /\ submitappOff \in BOOLEAN /\ nextapp \in BOOLEAN
      /\ appMixed \in BOOLEAN /\ appStuck \in BOOLEAN
  BY DEF LabelInit, BrowserInit
<1>3. flags \in [Submits -> [flag1 : BOOLEAN, flag2 : BOOLEAN, flag3 : BOOLEAN]]
  BY <1>1 DEF NoFlags
<1>4. LabelTypeOK
  BY <1>1, <1>2, <1>3 DEF LabelTypeOK
<1>5. AskingRows = {} /\ \A n \in Submits : Pending(n) = {} /\ ~flags[n].flag1
  BY <1>1 DEF AskingRows, Pending, NoFlags
<1>6. FlagsTell
  BY <1>1, <1>5 DEF FlagsTell, AtMostOne
<1>7. QED
  BY <1>1, <1>4, <1>5, <1>6 DEF LabelInv, Chosen, OneLabel, AtMostOne

\* A submit, asked or not.
LEMMA SubmitLabelStep ==
  ASSUME LabelInv, NEW how \in Ways, SubmitApp(how) \/ SubmitEmpty(how)
  PROVE  LabelInv'
<1> DEFINE two == [part : Parts, of : {presses + 1}]
<1>1. /\ presses < MaxPresses /\ presses' = presses + 1 /\ query' = presses + 1
      /\ mask' \in BOOLEAN /\ submitappOff' \in BOOLEAN /\ appStuck' \in BOOLEAN
      /\ appresult' = {} /\ nothing' = {} /\ appresults' = {} /\ nextapp' = FALSE
      /\ UNCHANGED <<flags, chosen, appScrollId>>
      /\ appMixed' = (appMixed \/ AskingRows # {})
      /\ appAsking' = appAsking \/ appAsking' = appAsking \cup two
  BY DEF SubmitApp, SubmitEmpty, CountPress, LabelInv, LabelTypeOK
<1>2. presses + 1 \in Submits
  BY <1>1 DEF LabelInv, LabelTypeOK, Submits
<1>3. LabelTypeOK'
  <2>1. two \subseteq [part : Parts, of : Submits]
    BY <1>2
  <2>2. appMixed' \in BOOLEAN
    BY <1>1
  <2>3. presses' \in 0..MaxPresses /\ query' \in 0..MaxPresses
    BY <1>1, <1>2 DEF Submits
  <2>4. appAsking' \subseteq [part : Parts, of : Submits]
                \cup [part : {"rows"}, of : RowRefs, no : Submits]
    BY <1>1, <2>1 DEF LabelInv, LabelTypeOK
  <2>5. QED
    BY <1>1, <2>2, <2>3, <2>4 DEF LabelInv, LabelTypeOK
<1>4. AskingRows' = AskingRows
  BY <1>1 DEF AskingRows, Parts
<1>5. \A n \in Submits : n # presses + 1 => Pending(n)' = Pending(n)
  BY <1>1 DEF Pending
<1>6. FlagsTell'
  <2> SUFFICES ASSUME NEW n \in Submits
               PROVE /\ n > presses' => flags[n] = NoFlags /\ Pending(n)' = {}
                     /\ flags[n].flag1 /\ flags[n].flag2 => AtMostOne(Pending(n)')
    BY <1>1 DEF FlagsTell, AtMostOne
  <2>1. CASE n = presses + 1
    <3>1. ~(n > presses') /\ n > presses
      BY <1>1, <2>1 DEF LabelInv, LabelTypeOK
    <3>2. flags[n] = NoFlags /\ ~NoFlags.flag1
      BY <3>1 DEF LabelInv, FlagsTell, NoFlags
    <3>3. QED
      BY <3>1, <3>2
  <2>2. CASE n # presses + 1
    <3>1. n > presses' => n > presses
      BY <1>1 DEF LabelInv, LabelTypeOK, Submits
    <3>2. QED
      BY <2>2, <3>1, <1>5 DEF LabelInv, FlagsTell
  <2>3. QED
    BY <2>1, <2>2
<1>7. Chosen'
  BY <1>1, <1>2, <1>4 DEF LabelInv, Chosen
<1>8. OneLabel'
  <2>1. CASE AskingRows # {}
    BY <2>1, <1>1 DEF OneLabel
  <2>2. CASE AskingRows = {}
    BY <2>2, <1>1, <1>4 DEF OneLabel, AtMostOne
  <2>3. QED
    BY <2>1, <2>2
<1>9. QED
  BY <1>3, <1>6, <1>7, <1>8 DEF LabelInv

\* An answer of one of the two requests of a submit.
LEMMA LabelsAnswerStep ==
  ASSUME LabelInv, NEW r \in appAsking,
         LabelsFound(r) \/ LabelsMissing(r) \/ LabelsNull(r) \/ LabelsFail(r)
  PROVE  LabelInv'
<1> DEFINE n == r.of
           FlagsOf == [flag1 : BOOLEAN, flag2 : BOOLEAN, flag3 : BOOLEAN]
<1>1. r.part \in Parts /\ r.part # "rows"
  BY DEF LabelsFound, LabelsMissing, LabelsNull, LabelsFail, Parts
<1>2. n \in Submits /\ r \in [part : Parts, of : Submits]
  BY <1>1 DEF LabelInv, LabelTypeOK
<1>3. /\ appAsking' = appAsking \ {r}
      /\ UNCHANGED <<presses, query, chosen, appScrollId, appresults, nextapp, appMixed>>
      /\ mask' \in BOOLEAN /\ submitappOff' \in BOOLEAN /\ appStuck' \in BOOLEAN
  BY DEF LabelsFound, LabelsMissing, LabelsNull, LabelsFail, LabelsEnd,
         LabelInv, LabelTypeOK
<1>4. /\ flags' \in [Submits -> FlagsOf]
      /\ \A m \in Submits \ {n} : flags'[m] = flags[m]
      /\ appresult' \in {appresult, appresult \cup {n}}
      /\ nothing' \in {nothing, nothing \cup {n}}
  <2>1. CASE LabelsNull(r) \/ LabelsFail(r)
    BY <2>1 DEF LabelsNull, LabelsFail, LabelInv, LabelTypeOK
  <2>2. CASE LabelsFound(r) \/ LabelsMissing(r)
    <3>1. PICK f1 \in BOOLEAN, f2 \in BOOLEAN :
            flags' = [flags EXCEPT ![n] = [flag1 |-> f1, flag2 |-> f2, flag3 |-> TRUE]]
      <4>1. flags[n].flag1 \in BOOLEAN
        BY <1>2 DEF LabelInv, LabelTypeOK
      <4>2. QED
        BY <2>2, <4>1 DEF LabelsFound, LabelsMissing, LabelsEnd
    <3>2. [flag1 |-> f1, flag2 |-> f2, flag3 |-> TRUE] \in FlagsOf
      OBVIOUS
    <3>3. /\ appresult' \in {appresult, appresult \cup {n}}
          /\ nothing' \in {nothing, nothing \cup {n}}
      BY <2>2 DEF LabelsFound, LabelsMissing
    <3>4. QED
      BY <1>2, <3>1, <3>2, <3>3 DEF LabelInv, LabelTypeOK
  <2>3. QED
    BY <2>1, <2>2
<1>5. LabelTypeOK'
  BY <1>2, <1>3, <1>4 DEF LabelInv, LabelTypeOK
<1>6. AskingRows' = AskingRows
  BY <1>1, <1>3 DEF AskingRows
<1>7. Chosen' /\ OneLabel'
  <2>1. query \in Submits
    BY DEF LabelInv, Chosen
  <2>2. QED
    BY <1>3, <1>6, <2>1 DEF LabelInv, Chosen, OneLabel
<1>8. Pending(n)' = Pending(n) \ {r} /\ r \in Pending(n)
  BY <1>1, <1>3 DEF Pending
<1>9. \A m \in Submits \ {n} : Pending(m)' = Pending(m)
  BY <1>3 DEF Pending
<1>10. AtMostOne(Pending(n)')
  <2>1. \A s \in Pending(n) : s \in [part : Parts, of : Submits] /\ s.of = n
    BY DEF Pending, LabelInv, LabelTypeOK, Parts
  <2>2. \A s, t \in Pending(n) : s.part = t.part => s = t
    BY <2>1
  <2>3. \A s \in Pending(n)' : s.part # r.part
    BY <1>8, <2>2
  <2>4. QED
    BY <1>1, <1>8, <2>1, <2>2, <2>3 DEF AtMostOne, Parts
<1>11. n \notin nothing /\ n <= presses
  BY <1>2, <1>8 DEF LabelInv, LabelTypeOK, FlagsTell, Submits
<1>12. FlagsTell'
  <2> SUFFICES ASSUME NEW m \in Submits
               PROVE /\ m > presses => flags'[m] = NoFlags /\ Pending(m)' = {}
                     /\ flags'[m].flag1 /\ flags'[m].flag2 => AtMostOne(Pending(m)')
                     /\ m \in nothing' => Pending(m)' = {} /\ m \notin appresult'
                     /\ m \in appresult' =>
                          /\ AtMostOne(Pending(m)')
                          /\ Pending(m)' # {} => ~(flags'[m].flag1 /\ flags'[m].flag2)
    BY <1>3 DEF FlagsTell
  <2>1. CASE m # n
    BY <2>1, <1>4, <1>9 DEF LabelInv, FlagsTell
  <2>2. CASE m = n
    <3>1. ~(m > presses)
      BY <1>11, <2>2 DEF LabelInv, LabelTypeOK, Submits
    <3>2. m \in nothing' => Pending(m)' = {} /\ m \notin appresult'
      <4> SUFFICES ASSUME m \in nothing' PROVE Pending(m)' = {} /\ m \notin appresult'
        OBVIOUS
      <4>1. /\ flags[n].flag1 /\ flags[n].flag2
            /\ appresult' = appresult
        BY <1>11, <2>2 DEF LabelsFound, LabelsMissing, LabelsNull, LabelsFail
      <4>2. AtMostOne(Pending(n)) /\ n \notin appresult
        BY <1>2, <1>8, <4>1 DEF LabelInv, FlagsTell
      <4>3. QED
        BY <1>8, <2>2, <4>1, <4>2 DEF AtMostOne
    <3>3. m \in appresult' /\ Pending(m)' # {}
            => ~(flags'[m].flag1 /\ flags'[m].flag2)
      <4>1. CASE LabelsFound(r)
        <5>1. flags'[n].flag2 = FALSE
          BY <1>2, <4>1 DEF LabelsFound, LabelsEnd, LabelInv, LabelTypeOK
        <5>2. QED
          BY <2>2, <5>1
      <4>2. CASE ~LabelsFound(r)
        <5>1. appresult' = appresult
          BY <4>2 DEF LabelsMissing, LabelsNull, LabelsFail
        <5>2. n \in appresult => Pending(n)' = {}
          BY <1>2, <1>8 DEF LabelInv, FlagsTell, AtMostOne
        <5>3. QED
          BY <2>2, <5>1, <5>2
      <4>3. QED
        BY <4>1, <4>2
    <3>4. QED
      BY <2>2, <1>10, <3>1, <3>2, <3>3
  <2>3. QED
    BY <2>1, <2>2
<1>13. QED
  BY <1>5, <1>7, <1>12 DEF LabelInv

\* A label is clicked, or the next rows are asked for.
LEMMA AskRowsStep ==
  ASSUME LabelInv, NEW how \in Ways,
         NextApp(how) \/ \E l \in Labels : ClickLabel(l, how)
  PROVE  LabelInv'
<1> DEFINE Ask(ref) == [part |-> "rows", of |-> ref, no |-> presses + 1]
<1>1. PICK ref :
        /\ appAsking' = appAsking \cup {Ask(ref)}
        /\ ref \in RowRefs
        /\ chosen' \in Labels /\ query \in Submits
        /\ ~appMixed' => /\ ref.of = query /\ ref.label = chosen'
                         /\ AskingRows = {}
        /\ appScrollId' \in {appScrollId, NoRows}
        /\ appMixed' \in BOOLEAN
  <2>1. CASE NextApp(how)
    <3> DEFINE ref == IF appScrollId = NoRows THEN RowsOf(query, chosen, 1) ELSE appScrollId
    <3>1. query \in Submits /\ chosen \in Labels
      BY <2>1 DEF NextApp, LabelInv, Chosen
    <3>2. ref \in RowRefs
      BY <3>1 DEF RowsOf, RowRefs, LabelInv, LabelTypeOK
    <3>3. appMixed' = (appMixed \/ AskingRows # {})
      BY <2>1 DEF NextApp
    <3>4. ~appMixed' => ref.of = query /\ ref.label = chosen
      BY <2>1, <3>3 DEF NextApp, LabelInv, OneLabel
    <3>5. QED
      BY <2>1, <3>1, <3>2, <3>3, <3>4 DEF NextApp, AskRows
  <2>2. CASE \E l \in Labels : ClickLabel(l, how)
    <3>1. PICK l \in Labels : ClickLabel(l, how)
      BY <2>2
    <3>2. query \in Submits
      BY <3>1 DEF ClickLabel, LabelInv, Chosen
    <3>3. /\ RowsOf(query, l, 1) \in RowRefs
          /\ RowsOf(query, l, 1).of = query /\ RowsOf(query, l, 1).label = l
      BY <3>2 DEF RowsOf, RowRefs
    <3>4. /\ appAsking' = appAsking \cup {Ask(RowsOf(query, l, 1))}
          /\ chosen' = l /\ appScrollId' = NoRows
          /\ appMixed' = (AskingRows # {})
      BY <3>1 DEF ClickLabel, AskRows
    <3>5. QED
      BY <3>2, <3>3, <3>4
  <2>3. QED
    BY <2>1, <2>2
<1>2. /\ presses < MaxPresses /\ presses' = presses + 1
      /\ mask' = TRUE /\ nextapp' = FALSE /\ appresults' = {}
      /\ UNCHANGED <<query, submitappOff, flags, appresult, nothing, appStuck>>
  BY DEF NextApp, ClickLabel, CountPress
<1>3. presses + 1 \in Submits /\ presses' \in 0..MaxPresses
  BY <1>2 DEF LabelInv, LabelTypeOK, Submits
<1>4. LabelTypeOK'
  <2>1. Ask(ref) \in [part : {"rows"}, of : RowRefs, no : Submits]
    BY <1>1, <1>3
  <2>2. appAsking' \subseteq [part : Parts, of : Submits]
                \cup [part : {"rows"}, of : RowRefs, no : Submits]
    BY <1>1, <2>1 DEF LabelInv, LabelTypeOK
  <2>3. QED
    BY <1>1, <1>2, <1>3, <2>2 DEF LabelInv, LabelTypeOK
<1>5. AskingRows' = AskingRows \cup {Ask(ref)} /\ \A n : Pending(n)' = Pending(n)
  BY <1>1 DEF AskingRows, Pending, Parts
<1>6. FlagsTell'
  <2>1. \A n \in Submits : n > presses' => n > presses
    BY <1>2 DEF LabelInv, LabelTypeOK, Submits
  <2>2. QED
    BY <1>2, <1>5, <2>1 DEF LabelInv, FlagsTell
<1>7. Chosen'
  BY <1>1, <1>2 DEF LabelInv, Chosen
<1>8. OneLabel'
  BY <1>1, <1>2, <1>5 DEF OneLabel, AtMostOne
<1>9. QED
  BY <1>4, <1>6, <1>7, <1>8 DEF LabelInv

\* Rows come, or do not.
LEMMA RowsAnswerStep ==
  ASSUME LabelInv, NEW r \in appAsking, RowsCame(r) \/ RowsMissing(r)
  PROVE  LabelInv'
<1>1. /\ r.part = "rows" /\ appAsking' = appAsking \ {r} /\ mask' = FALSE
      /\ UNCHANGED <<presses, query, submitappOff, flags, appresult, nothing,
                     chosen, appMixed, appStuck>>
  BY DEF RowsCame, RowsMissing
<1>2. r.of \in RowRefs /\ r \in AskingRows
  BY <1>1 DEF LabelInv, LabelTypeOK, AskingRows, Parts
<1>3. /\ query \in Submits /\ chosen \in Labels
  BY <1>2 DEF LabelInv, Chosen
<1>4. [r.of EXCEPT !.page = @ + 1] \in RowRefs
  BY <1>2 DEF RowRefs
<1>5. LabelTypeOK'
  <2>1. appAsking' \subseteq [part : Parts, of : Submits]
                \cup [part : {"rows"}, of : RowRefs, no : Submits]
    BY <1>1 DEF LabelInv, LabelTypeOK
  <2>2. /\ appScrollId' \in RowRefs \cup {NoRows}
        /\ appresults' \subseteq RowRefs
    <3>1. CASE RowsCame(r)
      BY <3>1, <1>2, <1>4 DEF RowsCame, LabelInv, LabelTypeOK
    <3>2. CASE RowsMissing(r)
      BY <3>2 DEF RowsMissing, LabelInv, LabelTypeOK
    <3>3. QED
      BY <3>1, <3>2
  <2>3. nextapp' \in BOOLEAN
    <3>1. CASE RowsCame(r)
      BY <3>1 DEF RowsCame
    <3>2. CASE RowsMissing(r)
      BY <3>2 DEF RowsMissing, LabelInv, LabelTypeOK
    <3>3. QED
      BY <3>1, <3>2
  <2>4. QED
    BY <1>1, <2>1, <2>2, <2>3 DEF LabelInv, LabelTypeOK
<1>6. \A n : Pending(n)' = Pending(n)
  BY <1>1 DEF Pending, Parts
<1>7. FlagsTell'
  BY <1>1, <1>6 DEF LabelInv, FlagsTell
<1>8. Chosen'
  BY <1>1, <1>3 DEF Chosen
<1>9. AskingRows' = AskingRows \ {r}
  BY <1>1 DEF AskingRows
<1>10. OneLabel'
  <2> SUFFICES ASSUME ~appMixed PROVE OneLabel'
    BY <1>1 DEF OneLabel
  <2>1. /\ AskingRows' = {} /\ r.of.of = query /\ r.of.label = chosen
        /\ appresults = {} /\ ~nextapp
    BY <1>2, <1>9 DEF LabelInv, OneLabel, AtMostOne
  <2>2. CASE RowsCame(r)
    <3>1. /\ appresults' = {r.of} /\ appScrollId' = [r.of EXCEPT !.page = @ + 1]
      BY <2>1, <2>2 DEF RowsCame
    <3>2. appScrollId' # NoRows /\ appScrollId'.of = query /\ appScrollId'.label = chosen
      BY <1>2, <1>3, <2>1, <3>1 DEF RowRefs, NoRows, Submits
    <3>3. QED
      BY <1>1, <2>1, <3>1, <3>2 DEF OneLabel, AtMostOne
  <2>3. CASE RowsMissing(r)
    BY <1>1, <2>1, <2>3 DEF RowsMissing, OneLabel, AtMostOne
  <2>4. QED
    BY <2>2, <2>3
<1>11. QED
  BY <1>5, <1>7, <1>8, <1>10 DEF LabelInv

LEMMA NextLabelInv == LabelInv /\ [LabelNext]_labelVars => LabelInv'
<1> SUFFICES ASSUME LabelInv, [LabelNext]_labelVars PROVE LabelInv'
  OBVIOUS
<1>1. CASE UNCHANGED labelVars
  BY <1>1 DEF labelVars, labelOwn, browserVars, LabelInv, LabelTypeOK, FlagsTell,
              Pending, Chosen, OneLabel, AskingRows
<1>2. CASE LabelNext
  BY <1>2, SubmitLabelStep, AskRowsStep, LabelsAnswerStep, RowsAnswerStep
  DEF LabelNext, LabelsAnswered
<1>3. QED
  BY <1>1, <1>2

LEMMA LabelInvHolds == LabelSpec => []LabelInv
BY InitLabelInv, NextLabelInv, PTL DEF LabelSpec

\* The rows on show are of the query and the label chosen last.
THEOREM LabelRowsHold == LabelSpec => []RowsAreOfLabel
<1>1. LabelInv => RowsAreOfLabel
  BY DEF LabelInv, OneLabel, RowsAreOfLabel
<1>2. QED
  BY <1>1, LabelInvHolds, PTL

\* The three flags tell which of two answers came first and found nothing.
THEOREM NothingHolds == LabelSpec => []NothingOnlyOfNothing
<1>1. LabelInv => NothingOnlyOfNothing
  BY DEF LabelInv, LabelTypeOK, FlagsTell, NothingOnlyOfNothing
<1>2. QED
  BY <1>1, LabelInvHolds, PTL
------------------------------------------------------------------------------
\* The search of the portal.  Where next pages are asked for from.
Tokens ==
  /\ scrollId \in PageRefs \/ (scrollId = NoPage /\ totalRowNum = 0 /\ resultNum = 0)
  /\ datadaFull => searchToken \in PageRefs

\* What is on its way from elasticsearch while no two requests overlap.
OneFetch ==
  ~mixed => /\ AtMostOne(FromElastic)
            /\ \A r \in FromElastic :
                 /\ r.service = "search2" => r.of = PageOf(sent, 1) /\ missed
                 /\ r.service = "search3" /\ ~missed => r.of = scrollId /\ resultsIndex = NoPage

\* What the page knows of the query once elasticsearch answered it.
Knows ==
  ~mixed /\ ~missed =>
    /\ sent \in Queries
    /\ scrollId \in PageRefs /\ scrollId.query = sent /\ scrollId.page >= 2
    /\ totalRowNum = Hits[sent] /\ resultNum = RowsOn(sent, scrollId.page - 1)
    /\ resultsIndex # NoPage =>
         resultsIndex.query = sent /\ scrollId = PageOf(sent, resultsIndex.page + 1)
    /\ Hits[sent] > (scrollId.page - 1) * RowsPerPage => nextIndex = "enabled"

PortalInv == PortalTypeOK /\ Tokens /\ OneFetch /\ Knows

LEMMA RestIsLess ==
  ASSUME NEW a \in Nat, NEW b \in Nat \ {0}
  PROVE  a % b \in 0..(b - 1)
OBVIOUS

LEMMA NothingOfZero == ASSUME NEW b \in Nat \ {0} PROVE 0 % b = 0
OBVIOUS

LEMMA RowsOnBounds ==
  ASSUME NEW q \in Queries, NEW p \in Nat
  PROVE  /\ RowsOn(q, p) \in 0..RowsPerPage
         /\ Hits[q] > p * RowsPerPage => RowsOn(q, p) = RowsPerPage
<1> DEFINE left == Hits[q] - (p - 1) * RowsPerPage
<1>1. /\ Hits[q] \in Nat /\ RowsPerPage \in Nat
      /\ p * RowsPerPage \in Int /\ (p - 1) * RowsPerPage = p * RowsPerPage - RowsPerPage
  BY PortalAssumption
<1>2. left \in Int /\ (Hits[q] > p * RowsPerPage => left > RowsPerPage)
  BY <1>1
<1>3. RowsOn(q, p) = IF left > RowsPerPage THEN RowsPerPage ELSE IF left < 0 THEN 0 ELSE left
  BY DEF RowsOn
<1>4. HIDE DEF left
<1>5. QED
  BY <1>1, <1>2, <1>3

\* As long as rows are left of the page before, they are asked for.
LEMMA MoreIsKnown ==
  ASSUME PortalInv, ~mixed, ~missed, Hits[sent] > (scrollId.page - 1) * RowsPerPage
  PROVE  MoreRows
<1>1. /\ sent \in Queries /\ scrollId.page \in Nat /\ scrollId.page - 1 \in Nat
      /\ totalRowNum = Hits[sent] /\ resultNum = RowsOn(sent, scrollId.page - 1)
  BY DEF PortalInv, Knows, PageRefs
<1>2. resultNum = RowsPerPage
  BY <1>1, RowsOnBounds
<1>3. Hits[sent] \in Nat /\ RowsPerPage \in Nat \ {0}
  BY <1>1, PortalAssumption
<1>4. totalRowNum % RowsPerPage \in 0..(RowsPerPage - 1)
  BY <1>1, <1>3, RestIsLess
<1>5. QED
  BY <1>2, <1>3, <1>4 DEF MoreRows

LEMMA InitPortalInv == PortalInit => PortalInv
<1> SUFFICES ASSUME PortalInit PROVE PortalInv
  OBVIOUS
<1>1. PortalTypeOK
  <2>1. 0 \in 0..MaxPresses /\ 0 \in 0..RowsPerPage
    BY PortalAssumption
  <2>2. QED
    BY <2>1 DEF PortalInit, BrowserInit, PortalTypeOK
<1>2. Tokens /\ OneFetch /\ Knows
  BY DEF PortalInit, Tokens, OneFetch, Knows, FromElastic, AtMostOne
<1>3. QED
  BY <1>1, <1>2 DEF PortalInv

LEMMA SubmitIndexStep ==
  ASSUME PortalInv, NEW q \in Queries, NEW how \in Ways, SubmitIndex(q, how)
  PROVE  PortalInv'
<1>1. /\ presses < MaxPresses /\ presses' = presses + 1
      /\ mask' = TRUE /\ submitIndexOff' = TRUE /\ nextIndex' = "hidden"
      /\ resultsIndex' = NoPage /\ sent' = q
      /\ asking' = asking \cup {Fetch("search1", PageOf(q, 1)), Fetch("search2", PageOf(q, 1))}
      /\ mixed' = (FromElastic # {}) /\ missed' = TRUE
      /\ UNCHANGED <<scrollId, totalRowNum, resultNum, searchToken, datadaFull, stuck>>
  BY DEF SubmitIndex, CountPress
<1>2. PageOf(q, 1) \in PageRefs
  BY DEF PageOf, PageRefs
<1>3. /\ Fetch("search1", PageOf(q, 1)) \in Fetches
      /\ Fetch("search2", PageOf(q, 1)) \in Fetches
  BY <1>2 DEF Fetch, Fetches, PortalInv, PortalTypeOK
<1>4. asking' \in SUBSET Fetches
  BY <1>1, <1>3 DEF PortalInv, PortalTypeOK
<1>5. PortalTypeOK'
  BY <1>1, <1>4 DEF PortalInv, PortalTypeOK
<1>6. Tokens'
  BY <1>1 DEF PortalInv, Tokens
<1>7. FromElastic' = FromElastic \cup {Fetch("search2", PageOf(q, 1))}
  BY <1>1 DEF FromElastic, Fetch
<1>8. OneFetch'
  <2>1. ~mixed' => FromElastic = {}
    BY <1>1, Zenon
  <2>2. QED
    BY <1>1, <1>7, <2>1 DEF OneFetch, AtMostOne, Fetch
<1>9. QED
  BY <1>1, <1>5, <1>6, <1>8 DEF PortalInv, Knows

LEMMA NextIndexStep ==
  ASSUME PortalInv, NEW how \in Ways, NextIndex(how)
  PROVE  PortalInv'
<1> DEFINE more == IF MoreRows THEN {Fetch("search3", scrollId)} ELSE {}
           also == IF datadaFull THEN {Fetch("search1", searchToken)} ELSE {}
<1>1. /\ presses < MaxPresses /\ presses' = presses + 1
      /\ mask' = TRUE /\ resultsIndex' = NoPage
      /\ asking' = asking \cup more \cup also
      /\ nextIndex' = IF MoreRows \/ datadaFull THEN "enabled" ELSE "hidden"
      /\ submitIndexOff' = (MoreRows \/ datadaFull)
      /\ mixed' = (mixed \/ (MoreRows /\ FromElastic # {}))
      /\ stuck' = (stuck \/ ~(MoreRows \/ datadaFull))
      /\ UNCHANGED <<sent, scrollId, totalRowNum, resultNum, searchToken, datadaFull, missed>>
  BY DEF NextIndex, CountPress
<1>2. MoreRows => scrollId \in PageRefs
  <2>1. 0 % RowsPerPage = 0
    BY NothingOfZero, PortalAssumption
  <2>2. QED
    BY <2>1 DEF MoreRows, PortalInv, Tokens
<1>3. more \subseteq Fetches /\ also \subseteq Fetches
  BY <1>2 DEF Fetch, Fetches, PortalInv, PortalTypeOK, Tokens
<1>4. MoreRows \in BOOLEAN /\ (MoreRows \/ datadaFull) \in BOOLEAN
  BY DEF MoreRows
<1>5. PortalTypeOK'
  <2>1. asking' \in SUBSET Fetches
    BY <1>1, <1>3 DEF PortalInv, PortalTypeOK
  <2>2. nextIndex' \in {"hidden", "disabled", "enabled"}
    BY <1>1
  <2>3. submitIndexOff' \in BOOLEAN /\ mixed' \in BOOLEAN /\ stuck' \in BOOLEAN
    BY <1>1
  <2>4. QED
    BY <1>1, <2>1, <2>2, <2>3 DEF PortalInv, PortalTypeOK
<1>6. Tokens'
  BY <1>1 DEF PortalInv, Tokens
<1>7. FromElastic' = FromElastic \cup more
  BY <1>1 DEF FromElastic, Fetch
<1>8. OneFetch'
  <2> SUFFICES ASSUME ~mixed' PROVE OneFetch'
    BY DEF OneFetch
  <2>1. ~mixed /\ (MoreRows => FromElastic = {})
    BY <1>1
  <2>2. CASE MoreRows
    BY <1>1, <1>7, <2>1, <2>2 DEF OneFetch, AtMostOne, Fetch
  <2>3. CASE ~MoreRows
    BY <1>1, <1>7, <2>1, <2>3 DEF PortalInv, OneFetch, AtMostOne
  <2>4. QED
    BY <2>2, <2>3
<1>9. Knows'
  <2> SUFFICES ASSUME ~mixed', ~missed' PROVE Knows'
    BY DEF Knows
  <2>1. ~mixed /\ ~missed
    BY <1>1
  <2>2. Hits[sent] > (scrollId.page - 1) * RowsPerPage => nextIndex' = "enabled"
    BY <1>1, <2>1, MoreIsKnown
  <2>3. QED
    BY <1>1, <2>1, <2>2 DEF PortalInv, Knows
<1>10. QED
  BY <1>5, <1>6, <1>8, <1>9 DEF PortalInv

\* An answer of datada, which elasticsearch's state does not depend on.
LEMMA Search1Step == ASSUME PortalInv, NEW r \in asking, Search1(r) PROVE PortalInv'
<1>1. /\ r.service = "search1" /\ asking' = asking \ {r}
      /\ mask' = FALSE /\ submitIndexOff' = FALSE
      /\ searchToken' = PageOf(r.of.query, r.of.page + 1)
      /\ datadaFull' = (r.of.page <= FullDatada[r.of.query])
      /\ nextIndex' = "enabled" \/ nextIndex' = nextIndex
      /\ UNCHANGED <<presses, sent, mixed, stuck, scrollId, totalRowNum, resultNum,
                     resultsIndex, missed>>
  BY DEF Search1, Answering
<1>2. PageOf(r.of.query, r.of.page + 1) \in PageRefs
  BY DEF PortalInv, PortalTypeOK, Fetches, PageRefs, PageOf
<1>3. FromElastic' = FromElastic
  BY <1>1 DEF FromElastic
<1>4. PortalTypeOK'
  <2>1. nextIndex' \in {"hidden", "disabled", "enabled"} /\ datadaFull' \in BOOLEAN
    BY <1>1 DEF PortalInv, PortalTypeOK
  <2>2. asking' \in SUBSET Fetches
    BY <1>1 DEF PortalInv, PortalTypeOK
  <2>3. QED
    BY <1>1, <1>2, <2>1, <2>2 DEF PortalInv, PortalTypeOK
<1>5. Tokens' /\ OneFetch'
  BY <1>1, <1>2, <1>3 DEF PortalInv, Tokens, OneFetch
<1>6. Knows'
  BY <1>1 DEF PortalInv, Knows
<1>7. QED
  BY <1>4, <1>5, <1>6 DEF PortalInv

\* The first page of a query.
LEMMA Search2Step == ASSUME PortalInv, NEW r \in asking, Search2(r) PROVE PortalInv'
<1>1. /\ r.service = "search2" /\ asking' = asking \ {r}
      /\ mask' = FALSE /\ submitIndexOff' = FALSE
      /\ scrollId' = PageOf(r.of.query, 2)
      /\ totalRowNum' = Hits[r.of.query] /\ resultNum' = RowsOn(r.of.query, 1)
      /\ nextIndex' = IF Hits[r.of.query] > RowsPerPage THEN "enabled" ELSE nextIndex
      /\ resultsIndex' = r.of /\ missed' = FALSE
      /\ UNCHANGED <<presses, sent, mixed, stuck, searchToken, datadaFull>>
  BY DEF Search2, Answering
<1>2. r.of \in PageRefs /\ r.of.query \in Queries /\ r \in FromElastic
  BY <1>1 DEF PortalInv, PortalTypeOK, Fetches, PageRefs, FromElastic
<1>3. /\ PageOf(r.of.query, 2) \in PageRefs
      /\ PageOf(r.of.query, 2).query = r.of.query /\ PageOf(r.of.query, 2).page = 2
  BY <1>2 DEF PageRefs, PageOf
<1>4. Hits[r.of.query] \in Nat /\ RowsOn(r.of.query, 1) \in 0..RowsPerPage
  BY <1>2, RowsOnBounds, PortalAssumption
<1>5. PortalTypeOK'
  <2>1. nextIndex' \in {"hidden", "disabled", "enabled"}
    BY <1>1 DEF PortalInv, PortalTypeOK
  <2>2. asking' \in SUBSET Fetches
    BY <1>1 DEF PortalInv, PortalTypeOK
  <2>3. QED
    BY <1>1, <1>2, <1>3, <1>4, <2>1, <2>2 DEF PortalInv, PortalTypeOK
<1>6. Tokens'
  BY <1>1, <1>3 DEF PortalInv, Tokens
<1>7. FromElastic' = FromElastic \ {r}
  BY <1>1 DEF FromElastic
<1>8. ~mixed => FromElastic' = {} /\ r.of = PageOf(sent, 1)
  BY <1>1, <1>2, <1>7 DEF PortalInv, OneFetch, AtMostOne
<1>9. OneFetch'
  BY <1>1, <1>8 DEF OneFetch, AtMostOne
<1>10. Knows'
  <2> SUFFICES ASSUME ~mixed PROVE Knows'
    BY <1>1 DEF Knows
  <2>1. r.of.query = sent /\ r.of.page = 1 /\ r.of = PageOf(sent, 1)
    BY <1>8 DEF PageOf
  <2>2. (scrollId'.page - 1) * RowsPerPage = RowsPerPage /\ scrollId'.page - 1 = 1
    BY <1>1, <1>3, PortalAssumption
  <2>3. scrollId' = PageOf(sent, r.of.page + 1)
    BY <1>1, <2>1
  <2>4. QED
    BY <1>1, <1>2, <1>3, <2>1, <2>2, <2>3 DEF Knows
<1>11. QED
  BY <1>5, <1>6, <1>9, <1>10 DEF PortalInv

\* A next page of it.
LEMMA Search3Step == ASSUME PortalInv, NEW r \in asking, Search3(r) PROVE PortalInv'
<1>1. /\ r.service = "search3" /\ asking' = asking \ {r}
      /\ mask' = FALSE /\ submitIndexOff' = FALSE
      /\ scrollId' = PageOf(r.of.query, r.of.page + 1)
      /\ resultNum' = RowsOn(r.of.query, r.of.page) /\ resultsIndex' = r.of
      /\ UNCHANGED <<presses, sent, mixed, stuck, totalRowNum, nextIndex, searchToken,
                     datadaFull, missed>>
  BY DEF Search3, Answering
<1>2. r.of \in PageRefs /\ r.of.query \in Queries /\ r.of.page \in Nat /\ r \in FromElastic
  BY <1>1 DEF PortalInv, PortalTypeOK, Fetches, PageRefs, FromElastic
<1>3. /\ scrollId' \in PageRefs
      /\ scrollId'.query = r.of.query /\ scrollId'.page = r.of.page + 1
  BY <1>1, <1>2 DEF PageRefs, PageOf
<1>4. RowsOn(r.of.query, r.of.page) \in 0..RowsPerPage
  BY <1>2, RowsOnBounds
<1>5. PortalTypeOK'
  <2>1. asking' \in SUBSET Fetches
    BY <1>1 DEF PortalInv, PortalTypeOK
  <2>2. QED
    BY <1>1, <1>2, <1>3, <1>4, <2>1 DEF PortalInv, PortalTypeOK
<1>6. Tokens'
  BY <1>1, <1>3 DEF PortalInv, Tokens
<1>7. FromElastic' = FromElastic \ {r}
  BY <1>1 DEF FromElastic
<1>8. OneFetch'
  BY <1>1, <1>2, <1>7 DEF PortalInv, OneFetch, AtMostOne
<1>9. Knows'
  <2> SUFFICES ASSUME ~mixed, ~missed PROVE Knows'
    BY <1>1 DEF Knows
  <2>1. r.of = scrollId /\ sent \in Queries /\ scrollId.query = sent /\ scrollId.page >= 2
    BY <1>1, <1>2 DEF PortalInv, OneFetch, Knows
  <2>2. /\ scrollId' = PageOf(sent, scrollId.page + 1) /\ resultsIndex' = scrollId
        /\ scrollId'.page - 1 = scrollId.page /\ scrollId'.page >= 2
        /\ resultNum' = RowsOn(sent, scrollId'.page - 1)
    BY <1>1, <1>2, <1>3, <2>1
  <2>3. scrollId.page * RowsPerPage >= (scrollId.page - 1) * RowsPerPage
    <3>1. RowsPerPage \in Nat /\ scrollId.page \in Nat
      BY <1>2, <2>1, PortalAssumption
    <3>2. (scrollId.page - 1) * RowsPerPage = scrollId.page * RowsPerPage - RowsPerPage
      BY <3>1
    <3>3. QED
      BY <3>1, <3>2
  <2>4. Hits[sent] > (scrollId'.page - 1) * RowsPerPage => nextIndex' = "enabled"
    <3>1. /\ scrollId.page * RowsPerPage \in Int /\ (scrollId.page - 1) * RowsPerPage \in Int
          /\ Hits[sent] \in Nat
      BY <1>2, <2>1, PortalAssumption
    <3>2. Hits[sent] > (scrollId.page - 1) * RowsPerPage => nextIndex = "enabled"
      BY DEF PortalInv, Knows
    <3>3. QED
      BY <1>1, <2>2, <2>3, <3>1, <3>2
  <2>5. totalRowNum' = Hits[sent]
    BY <1>1 DEF PortalInv, Knows
  <2>6. QED
    BY <1>1, <1>3, <2>1, <2>2, <2>4, <2>5 DEF Knows
<1>10. QED
  BY <1>5, <1>6, <1>8, <1>9 DEF PortalInv

\* Answers that bring no page.
LEMMA NoAnswerStep ==
  ASSUME PortalInv, NEW r \in asking, WithoutData(r) \/ Fails(r)
  PROVE  PortalInv'
<1>1. /\ asking' = asking \ {r}
      /\ mask' \in BOOLEAN /\ submitIndexOff' \in BOOLEAN /\ stuck' \in BOOLEAN
      /\ resultsIndex' = resultsIndex \/ resultsIndex' = NoPage
      /\ UNCHANGED <<presses, sent, mixed, scrollId, totalRowNum, resultNum, searchToken,
                     datadaFull, nextIndex, missed>>
  BY DEF WithoutData, Answering, Fails, PortalInv, PortalTypeOK
<1>2. FromElastic' = FromElastic \ {r}
  BY <1>1 DEF FromElastic
<1>3. asking' \in SUBSET Fetches
  BY <1>1 DEF PortalInv, PortalTypeOK
<1>4. PortalTypeOK'
  BY <1>1, <1>3 DEF PortalInv, PortalTypeOK
<1>5. Tokens' /\ Knows'
  BY <1>1 DEF PortalInv, Tokens, Knows
<1>6. OneFetch'
  BY <1>1, <1>2 DEF PortalInv, OneFetch, AtMostOne
<1>7. QED
  BY <1>4, <1>5, <1>6 DEF PortalInv

LEMMA NextPortalInv == PortalInv /\ [PortalNext]_portalVars => PortalInv'
<1> SUFFICES ASSUME PortalInv, [PortalNext]_portalVars PROVE PortalInv'
  OBVIOUS
<1>1. CASE UNCHANGED portalVars
  BY <1>1 DEF portalVars, portalOwn, browserVars, PortalInv, PortalTypeOK, Tokens,
              OneFetch, Knows, FromElastic
<1>2. CASE PortalNext
  BY <1>2, SubmitIndexStep, NextIndexStep, Search1Step, Search2Step, Search3Step,
     NoAnswerStep DEF PortalNext, PortalAnswered
<1>3. QED
  BY <1>1, <1>2

LEMMA PortalInvHolds == PortalSpec => []PortalInv
BY InitPortalInv, NextPortalInv, PTL DEF PortalSpec

\* The rows on show are of the query that was submitted, and the next page
\* follows them, whatever the queries, their rows and the size of a page.
THEOREM QueryRowsHold == PortalSpec => []RowsAreOfQuery
<1>1. PortalInv => RowsAreOfQuery
  BY DEF PortalInv, Knows, RowsAreOfQuery, Settled
<1>2. QED
  BY <1>1, PortalInvHolds, PTL

\* As long as rows are left, the next page is offered and asks for them: by the
\* size of the page before and the remainder of the total alone.
THEOREM NextIsOffered == PortalSpec => []NextOffered
<1>1. PortalInv => NextOffered
  <2> SUFFICES ASSUME PortalInv, Settled, resultsIndex # NoPage,
                      Hits[sent] > resultsIndex.page * RowsPerPage
               PROVE  nextIndex = "enabled" /\ MoreRows
    BY DEF NextOffered
  <2>1. /\ ~mixed /\ ~missed /\ scrollId = PageOf(sent, resultsIndex.page + 1)
        /\ resultsIndex \in PageRefs
    BY DEF PortalInv, PortalTypeOK, Knows, Settled
  <2>2. scrollId.page - 1 = resultsIndex.page
    BY <2>1 DEF PageOf, PageRefs
  <2>3. QED
    BY <2>1, <2>2, MoreIsKnown DEF PortalInv, Knows
<1>2. QED
  BY <1>1, PortalInvHolds, PTL
------------------------------------------------------------------------------
\* The paged tables.  What the invariant needs to know of a table.
KindOf(t, name) ==
  \/ t.keeps = "home" /\ t.compares = "number" /\ (t.appends => name = "auser")
  \/ t.keeps = "answer" /\ t.compares \in {"text", "equal"} /\ ~t.appends /\ name # "auser"

LEMMA TableKinds == \A t \in DOMAIN Tables : KindOf(Tables[t], t)
<1>1. DOMAIN Tables = {"logQuery", "keyDialog", "auser", "link", "accessControl",
                       "accessInterface", "sensitive", "accessUserInterface"}
  BY DEF Tables
<1>2. /\ KindOf(Tables["logQuery"], "logQuery") /\ KindOf(Tables["keyDialog"], "keyDialog")
      /\ KindOf(Tables["auser"], "auser")
  BY DEF Tables, KindOf, logQuery, keyDialog, auser, Counting
<1>3. /\ KindOf(Tables["link"], "link") /\ KindOf(Tables["accessControl"], "accessControl")
      /\ KindOf(Tables["accessInterface"], "accessInterface")
      /\ KindOf(Tables["sensitive"], "sensitive")
      /\ KindOf(Tables["accessUserInterface"], "accessUserInterface")
  BY DEF Tables, KindOf, link, accessControl, accessInterface, sensitive,
         accessUserInterface, Numbered
<1>4. QED
  BY <1>1, <1>2, <1>3

\* A table that counts, while nothing overlaps.
InCalm ==
  Counts /\ ~astray =>
    /\ AtMostOne(calls)
    /\ homepage <= PageCount[list]
    /\ \A c \in calls : c.of = PageIn(list, homepage)
    /\ calls = {} => rows = {PageIn(list, homepage)} /\ endpage = PageCount[list]
    /\ calls # {} /\ Tables[table].appends => rows = {}

\* A table that keeps the number of the last answer, at any time.
InAnyOrder ==
  ~Counts =>
    /\ \A c \in calls : c.of.list = list /\ c.of.page <= PageCount[list]
    /\ rows # {} => rows = {PageIn(list, lastpage)} /\ endpage = PageCount[list]
    /\ lastpage <= endpage /\ endpage <= PageCount[list]

TableInv == TableTypeOK /\ InCalm /\ InAnyOrder

LEMMA InitTableInv == TableInit => TableInv
<1> SUFFICES ASSUME TableInit PROVE TableInv
  OBVIOUS
<1>1. /\ table \in DOMAIN Tables /\ list \in Lists
      /\ homepage = 1 /\ lastpage = 1 /\ endpage = 1 /\ rows = {}
      /\ calls = {[of |-> PageIn(list, 1), no |-> 1]} /\ made = 1 /\ astray = FALSE
  BY DEF TableInit
<1>2. PageCount[list] \in 1..99 /\ MaxCalls \in Nat \ {0}
  BY <1>1, PagedAssumption
<1>3. PageIn(list, 1) \in PagesOf
  BY <1>1 DEF PageIn, PagesOf, Numbers
<1> DEFINE c == [of |-> PageIn(list, 1), no |-> 1]
<1>4. TableTypeOK
  <2>1. c \in [of : PagesOf, no : 1..MaxCalls]
    BY <1>2, <1>3
  <2>2. calls \subseteq [of : PagesOf, no : 1..MaxCalls]
    BY <1>1, <2>1
  <2>3. made \in 0..MaxCalls
    BY <1>1, <1>2
  <2>4. homepage \in Numbers /\ lastpage \in Numbers /\ endpage \in Numbers
    BY <1>1 DEF Numbers
  <2>5. QED
    BY <1>1, <2>2, <2>3, <2>4 DEF TableTypeOK
<1>5. InCalm
  <2>1. calls = {c} /\ c.of = PageIn(list, homepage) /\ homepage <= PageCount[list]
    BY <1>1, <1>2
  <2>2. QED
    BY <1>1, <2>1 DEF InCalm, AtMostOne
<1>6. InAnyOrder
  BY <1>1, <1>2 DEF InAnyOrder, PageIn
<1>7. QED
  BY <1>4, <1>5, <1>6 DEF TableInv

\* A table that counts goes back and forth between the first and last page.
LEMMA CountedPages ==
  ASSUME TableInv, Counts
  PROVE  /\ PageBefore \in Numbers /\ PageAfter \in Numbers
         /\ calls = {} /\ ~astray =>
              PageBefore <= PageCount[list] /\ PageAfter <= PageCount[list]
<1>1. homepage \in 1..99 /\ endpage \in 1..99 /\ Tables[table].compares = "number"
  BY TableKinds DEF TableInv, TableTypeOK, Numbers, KindOf, Counts
<1>2. AtEnd <=> homepage + 1 >= endpage
  BY <1>1 DEF AtEnd
<1>3. PageBefore = (IF homepage <= 2 THEN 1 ELSE homepage - 1)
  BY DEF PageBefore
<1>4. PageAfter = (IF homepage + 1 >= endpage THEN endpage ELSE homepage + 1)
  BY <1>2 DEF PageAfter
<1>5. calls = {} /\ ~astray => homepage <= PageCount[list] /\ endpage = PageCount[list]
  BY DEF TableInv, InCalm
<1>6. PageCount[list] \in 1..99
  BY PagedAssumption DEF TableInv, TableTypeOK
<1>7. QED
  BY <1>1, <1>3, <1>4, <1>5, <1>6 DEF Numbers

\* As text two numbers of one digit compare as numbers do, and none less
\* than itself.
LEMMA TextOfDigits ==
  ASSUME NEW a \in 1..99, NEW b \in 1..99, b < 10
  PROVE  a <= b => (TextAtLeast(a, b) <=> a >= b)
BY DEF TextAtLeast

LEMMA TextOfOne == ASSUME NEW a \in 1..99 PROVE TextAtLeast(a, a)
BY DEF TextAtLeast

\* The others stay within the pages of their list.
LEMMA NumberedPages ==
  ASSUME TableInv, ~Counts
  PROVE  /\ lastpage \in 1..PageCount[list] /\ endpage \in 1..PageCount[list]
         /\ PageCount[list] \in Numbers
         /\ PageBefore # 0 => PageBefore \in 1..PageCount[list]
         /\ PageAfter # 0 => PageAfter \in 1..PageCount[list]
<1>1. /\ lastpage \in 1..99 /\ endpage \in 1..99 /\ PageCount[list] \in 1..99
      /\ lastpage <= endpage /\ endpage <= PageCount[list]
      /\ Tables[table].compares \in {"text", "equal"}
  BY TableKinds, PagedAssumption
  DEF TableInv, TableTypeOK, InAnyOrder, Numbers, KindOf, Counts
<1>2. PageBefore = (IF lastpage = 1 THEN 0 ELSE lastpage - 1)
  BY DEF PageBefore
<1>3. PageAfter = IF AtEnd THEN 0 ELSE lastpage + 1
  BY DEF PageAfter
<1>4. lastpage = endpage => AtEnd
  BY <1>1, TextOfOne DEF AtEnd
<1>5. QED
  BY <1>1, <1>2, <1>3, <1>4 DEF Numbers

\* A page is asked for.
LEMMA LoadStep ==
  ASSUME TableInv,
         NEW l \in Lists, NEW p \in Numbers, NEW home \in Numbers, NEW empties \in BOOLEAN,
         Load(l, p, home, empties),
         table = "auser" => empties,
         Counts /\ p # 1 => /\ home = p
                            /\ calls = {} /\ ~astray => p <= PageCount[l],
         ~Counts => l = list /\ ~empties /\ p <= PageCount[list]
  PROVE  TableInv'
<1> DEFINE c == [of |-> PageIn(l, p), no |-> made + 1]
<1>1. /\ made < MaxCalls /\ made' = made + 1
      /\ calls' = calls \cup {c}
      /\ rows' = IF empties THEN {} ELSE rows
      /\ list' = l /\ homepage' = home
      /\ astray' = IF calls = {} /\ p = 1 THEN home # 1
                   ELSE astray \/ calls # {} \/ (p = 1 /\ home # 1)
      /\ UNCHANGED <<table, lastpage, endpage>>
  BY DEF Load
<1>2. /\ PageIn(l, p) \in PagesOf /\ PageCount[l] \in 1..99 /\ MaxCalls \in Nat
      /\ Counts' = Counts
  BY <1>1, PagedAssumption DEF PageIn, PagesOf, Counts
<1>3. made + 1 \in 1..MaxCalls
  BY <1>1, <1>2 DEF TableInv, TableTypeOK
<1>4. c \in [of : PagesOf, no : 1..MaxCalls]
  BY <1>2, <1>3
<1>5. TableTypeOK'
  <2>1. calls' \subseteq [of : PagesOf, no : 1..MaxCalls]
    BY <1>1, <1>4 DEF TableInv, TableTypeOK
  <2>2. rows' \subseteq PagesOf /\ made' \in 0..MaxCalls
    BY <1>1, <1>3 DEF TableInv, TableTypeOK
  <2>3. astray' \in BOOLEAN
    BY <1>1
  <2>4. QED
    BY <1>1, <2>1, <2>2, <2>3 DEF TableInv, TableTypeOK
<1>6. InCalm'
  <2> SUFFICES ASSUME Counts, ~astray' PROVE InCalm'
    BY <1>2 DEF InCalm
  <2>1. /\ calls = {}
        /\ home = p /\ home <= PageCount[l]
    <3>1. CASE calls = {} /\ p = 1
      <4>1. astray' = (home # 1)
        BY <1>1, <3>1
      <4>2. home = 1
        BY <4>1, Zenon
      <4>3. QED
        BY <1>2, <3>1, <4>2
    <3>2. CASE ~(calls = {} /\ p = 1)
      BY <1>1, <1>2, <3>2
    <3>3. QED
      BY <3>1, <3>2
  <2>2. calls' = {c} /\ c.of = PageIn(l, home)
    BY <1>1, <2>1
  <2>3. Tables[table].appends => rows' = {}
    BY <1>1, TableKinds DEF KindOf, TableInv, TableTypeOK
  <2>4. QED
    BY <1>1, <2>1, <2>2, <2>3 DEF InCalm, AtMostOne
<1>7. InAnyOrder'
  <2> SUFFICES ASSUME ~Counts PROVE InAnyOrder'
    BY <1>2 DEF InAnyOrder
  <2>1. c.of.list = list /\ c.of.page <= PageCount[list]
    BY DEF PageIn
  <2>2. QED
    BY <1>1, <2>1 DEF TableInv, InAnyOrder
<1>8. QED
  BY <1>5, <1>6, <1>7 DEF TableInv

LEMMA PressStepOfTable ==
  ASSUME TableInv, FirstPage \/ LastPage \/ NextPage \/ FinalPage \/ Reload
  PROVE  TableInv'
<1>1. PICK p \in Numbers :
        /\ LoadAt(p)
        /\ Counts /\ p # 1 /\ calls = {} /\ ~astray => p <= PageCount[list]
        /\ ~Counts => p <= PageCount[list]
  <2>1. list \in Lists /\ lastpage \in 1..99 /\ endpage \in 1..99 /\ PageCount[list] \in 1..99
    BY PagedAssumption DEF TableInv, TableTypeOK, Numbers
  <2>2. CASE FirstPage
    BY <2>1, <2>2 DEF FirstPage, Numbers
  <2>3. CASE LastPage
    <3>1. CASE Counts
      BY <2>3, <3>1, CountedPages DEF LastPage
    <3>2. CASE ~Counts
      BY <2>1, <2>3, <3>2, NumberedPages DEF LastPage, Numbers
    <3>3. QED
      BY <3>1, <3>2
  <2>4. CASE NextPage
    <3>1. CASE Counts
      BY <2>4, <3>1, CountedPages DEF NextPage
    <3>2. CASE ~Counts
      BY <2>1, <2>4, <3>2, NumberedPages DEF NextPage, Numbers
    <3>3. QED
      BY <3>1, <3>2
  <2>5. CASE FinalPage
    <3>1. Counts /\ calls = {} /\ ~astray => endpage = PageCount[list]
      BY DEF TableInv, InCalm
    <3>2. ~Counts => endpage <= PageCount[list]
      BY DEF TableInv, InAnyOrder
    <3>3. QED
      BY <2>1, <2>5, <3>1, <3>2 DEF FinalPage, Numbers
  <2>6. CASE Reload
    BY <2>1, <2>6, NumberedPages DEF Reload, Numbers
  <2>7. QED
    BY <2>2, <2>3, <2>4, <2>5, <2>6
<1>2. /\ list \in Lists /\ (IF Counts THEN p ELSE homepage) \in Numbers
      /\ (table = "auser") \in BOOLEAN
  BY DEF TableInv, TableTypeOK
<1>3. ~Counts => table # "auser"
  BY TableKinds DEF KindOf, Counts, TableInv, TableTypeOK
<1>4. QED
  BY <1>1, <1>2, <1>3, LoadStep DEF LoadAt

LEMMA OpenListStep ==
  ASSUME TableInv, NEW l \in Lists, NEW sets \in BOOLEAN, OpenList(l, sets)
  PROVE  TableInv'
<1>1. /\ Counts /\ Load(l, 1, IF sets THEN 1 ELSE homepage, table # "keyDialog")
  BY DEF OpenList
<1>2. /\ (IF sets THEN 1 ELSE homepage) \in Numbers /\ 1 \in Numbers
      /\ (table # "keyDialog") \in BOOLEAN
  BY DEF TableInv, TableTypeOK, Numbers
<1>3. QED
  BY <1>1, <1>2, LoadStep

\* A page comes.
LEMMA LoadedStep == ASSUME TableInv, NEW c \in calls, Loaded(c) PROVE TableInv'
<1>1. /\ calls' = calls \ {c} /\ endpage' = PageCount[c.of.list]
      /\ lastpage' = IF Counts THEN lastpage ELSE c.of.page
      /\ rows' = (IF Tables[table].appends THEN rows ELSE {}) \cup {c.of}
      /\ UNCHANGED <<table, list, homepage, made, astray>>
  BY DEF Loaded
<1>2. /\ c.of \in PagesOf /\ c.of.list \in Lists /\ c.of.page \in 1..99
      /\ PageCount[c.of.list] \in 1..99 /\ Counts' = Counts
  BY <1>1, PagedAssumption DEF TableInv, TableTypeOK, PagesOf, Numbers, Counts
<1>3. c.of = PageIn(c.of.list, c.of.page)
  BY <1>2 DEF PageIn, PagesOf
<1>4. TableTypeOK'
  <2>1. rows' \subseteq PagesOf
    BY <1>1, <1>2 DEF TableInv, TableTypeOK
  <2>2. calls' \subseteq [of : PagesOf, no : 1..MaxCalls]
    BY <1>1 DEF TableInv, TableTypeOK
  <2>3. lastpage' \in Numbers /\ endpage' \in Numbers
    BY <1>1, <1>2 DEF TableInv, TableTypeOK, Numbers
  <2>4. QED
    BY <1>1, <2>1, <2>2, <2>3 DEF TableInv, TableTypeOK
<1>5. InCalm'
  <2> SUFFICES ASSUME Counts, ~astray PROVE InCalm'
    BY <1>1, <1>2 DEF InCalm
  <2>1. /\ calls' = {} /\ c.of = PageIn(list, homepage) /\ homepage <= PageCount[list]
        /\ Tables[table].appends => rows = {}
    BY <1>1 DEF TableInv, InCalm, AtMostOne
  <2>2. c.of.list = list
    BY <2>1 DEF PageIn
  <2>3. QED
    BY <1>1, <2>1, <2>2 DEF InCalm, AtMostOne
<1>6. InAnyOrder'
  <2> SUFFICES ASSUME ~Counts PROVE InAnyOrder'
    BY <1>2 DEF InAnyOrder
  <2>1. /\ c.of.list = list /\ c.of.page <= PageCount[list]
        /\ \A b \in calls' : b.of.list = list /\ b.of.page <= PageCount[list]
    BY <1>1 DEF TableInv, InAnyOrder
  <2>2. ~Tables[table].appends
    BY TableKinds DEF KindOf, Counts, TableInv, TableTypeOK
  <2>3. rows' = {PageIn(list, c.of.page)} /\ lastpage' = c.of.page
    BY <1>1, <1>3, <2>1, <2>2
  <2>4. QED
    BY <1>1, <1>2, <2>1, <2>3 DEF InAnyOrder
<1>7. QED
  BY <1>4, <1>5, <1>6 DEF TableInv

LEMMA NotLoadedStep == ASSUME TableInv, NEW c \in calls, NotLoaded(c) PROVE TableInv'
<1>1. /\ calls' = calls \ {c} /\ astray' = TRUE
      /\ UNCHANGED <<table, list, homepage, lastpage, endpage, rows, made>>
  BY DEF NotLoaded
<1>2. QED
  BY <1>1 DEF TableInv, TableTypeOK, InCalm, InAnyOrder, Counts

LEMMA NextTableInv == TableInv /\ [TableNext]_tableVars => TableInv'
<1> SUFFICES ASSUME TableInv, [TableNext]_tableVars PROVE TableInv'
  OBVIOUS
<1>1. CASE UNCHANGED tableVars
  BY <1>1 DEF tableVars, TableInv, TableTypeOK, InCalm, InAnyOrder, Counts
<1>2. CASE TableNext
  BY <1>2, PressStepOfTable, OpenListStep, LoadedStep, NotLoadedStep DEF TableNext
<1>3. QED
  BY <1>1, <1>2

LEMMA TableInvHolds == TableSpec => []TableInv
BY InitTableInv, NextTableInv, PTL DEF TableSpec

\* From a page on show Next goes to the page after it, in every table, for any
\* lists of up to 99 pages; of the tables that compare as text, for those of
\* fewer than ten.
THEOREM NextFollowsRows == TableSpec => []NextFollows
<1>1. TableInv => NextFollows
  <2> SUFFICES ASSUME TableInv, Counts => calls = {} /\ ~astray, rows # {},
                      Tables[table].compares = "text" => PageCount[list] < 10
               PROVE  \E p \in 1..PageCount[list] :
                        /\ rows = {PageIn(list, p)}
                        /\ PageAfter = IF p < PageCount[list] THEN p + 1
                                       ELSE IF Counts THEN p ELSE 0
    BY DEF NextFollows
  <2>1. /\ homepage \in 1..99 /\ endpage \in 1..99 /\ lastpage \in 1..99
        /\ PageCount[list] \in 1..99
    BY PagedAssumption DEF TableInv, TableTypeOK, Numbers
  <2>2. CASE Counts
    <3>1. rows = {PageIn(list, homepage)} /\ endpage = PageCount[list] /\ homepage <= endpage
      BY <2>2 DEF TableInv, InCalm
    <3>2. AtEnd <=> homepage + 1 >= endpage
      BY <2>2, TableKinds DEF AtEnd, KindOf, Counts, TableInv, TableTypeOK
    <3>3. PageAfter = IF homepage < PageCount[list] THEN homepage + 1 ELSE homepage
      BY <2>1, <2>2, <3>1, <3>2 DEF PageAfter
    <3>4. QED
      BY <2>1, <2>2, <3>1, <3>3
  <2>3. CASE ~Counts
    <3>1. rows = {PageIn(list, lastpage)} /\ endpage = PageCount[list] /\ lastpage <= endpage
      BY <2>3 DEF TableInv, InAnyOrder
    <3>2. Tables[table].compares \in {"text", "equal"}
      BY <2>3, TableKinds DEF KindOf, Counts, TableInv, TableTypeOK
    <3>3. AtEnd <=> lastpage >= endpage
      <4>1. CASE Tables[table].compares = "text"
        BY <2>1, <3>1, <4>1, TextOfDigits DEF AtEnd
      <4>2. CASE Tables[table].compares = "equal"
        BY <2>1, <3>1, <4>2 DEF AtEnd
      <4>3. QED
        BY <3>2, <4>1, <4>2
    <3>4. PageAfter = IF lastpage < PageCount[list] THEN lastpage + 1 ELSE 0
      BY <2>1, <2>3, <3>1, <3>3 DEF PageAfter
    <3>5. QED
      BY <2>1, <2>3, <3>1, <3>4
  <2>4. QED
    BY <2>2, <2>3
<1>2. QED
  BY <1>1, TableInvHolds, PTL
------------------------------------------------------------------------------
\* The dialogs.  What the invariant needs to know of one.
StyleOf(t, name) ==
  /\ t.names \in {"click", "first", "loaded"}
  /\ t.second \in {"none", "own", "last"}
  /\ t.replaces \/ t.clears
  /\ t.second = "own" => t.clears \/ name = "update_link"
  /\ name = "update_link" => t.second = "own"
  /\ t.names = "loaded" => t.replaces /\ ~t.clears /\ t.second = "none"

LEMMA DialogStyles == \A d \in DOMAIN Dialogs : StyleOf(Dialogs[d], d)
<1>1. DOMAIN Dialogs = {"compile", "group", "role_updata", "sensitive_updata",
                        "update_link", "butn", "addgroup", "addrole", "getResource"}
  BY DEF Dialogs
<1>2. /\ StyleOf(Dialogs["compile"], "compile") /\ StyleOf(Dialogs["group"], "group")
      /\ StyleOf(Dialogs["role_updata"], "role_updata")
      /\ StyleOf(Dialogs["sensitive_updata"], "sensitive_updata")
  BY DEF Dialogs, StyleOf, compile, group, role_updata, sensitive_updata, Dialog
<1>3. /\ StyleOf(Dialogs["update_link"], "update_link") /\ StyleOf(Dialogs["butn"], "butn")
  BY DEF Dialogs, StyleOf, update_link, butn, Dialog
<1>4. /\ StyleOf(Dialogs["addgroup"], "addgroup") /\ StyleOf(Dialogs["addrole"], "addrole")
      /\ StyleOf(Dialogs["getResource"], "getResource")
  BY DEF Dialogs, StyleOf, addgroup, addrole, getResource, CheckList, Dialog
<1>5. QED
  BY <1>1, <1>2, <1>3, <1>4

\* A dialog is asked for by a row.
OfARow == visible \/ loading # {} => clicked \in Rows

\* One row's data at a time: what there is at each stage of it.
Unblurred ==
  ~blurred /\ clicked \in Rows /\ opens # 0 =>
    /\ AtMostOne(loading)
    /\ loading = {} => /\ filled = <<clicked>>
                       /\ Is.second # "none" => ticked = {clicked}
    /\ \A c \in loading :
         /\ c.row = clicked
         /\ Is.clears /\ c.stage = 1 => filled = <<>>
         /\ Is.clears => ticked = {}
         /\ c.stage = 2 => /\ Is.second # "none" /\ filled = <<clicked>>
                           /\ dialog # "update_link" => ticked = {}

\* A dialog that names the row it loaded holds one row's data.
Built == Is.names = "loaded" => filled = <<>> \/ \E r \in Rows : filled = <<r>>

DialogInv == /\ DialogTypeOK /\ OfARow /\ Unblurred /\ Built /\ SavedIsOfRow
             /\ opens = 0 => ~visible /\ loading = {}

LEMMA InitDialogInv == DialogInit => DialogInv
<1> SUFFICES ASSUME DialogInit PROVE DialogInv
  OBVIOUS
<1>1. /\ dialog \in DOMAIN Dialogs /\ visible = FALSE /\ clicked = NoRow
      /\ filled = <<>> /\ ticked = {} /\ loading = {} /\ opens = 0
      /\ saved = NoSave /\ blurred = FALSE
  BY DEF DialogInit
<1>2. 0 \in 0..MaxOpens
  BY OpensAreCounted
<1>3. DialogTypeOK
  <2>1. <<>> \in Seq(Rows) /\ {} \subseteq Rows
    OBVIOUS
  <2>2. QED
    BY <1>1, <1>2, <2>1 DEF DialogTypeOK
<1>4. OfARow /\ Unblurred /\ Built /\ SavedIsOfRow
  BY <1>1 DEF OfARow, Unblurred, Built, SavedIsOfRow
<1>5. QED
  BY <1>1, <1>3, <1>4 DEF DialogInv

LEMMA OpenDialogStep == ASSUME DialogInv, NEW r \in Rows, OpenDialog(r) PROVE DialogInv'
<1> DEFINE c == [row |-> r, stage |-> 1, no |-> opens + 1]
<1>1. /\ opens < MaxOpens /\ opens' = opens + 1 /\ clicked' = r
      /\ visible' = (Is.shows = "click")
      /\ filled' = IF Is.clears THEN <<>> ELSE filled
      /\ ticked' = IF Is.clears THEN {} ELSE ticked
      /\ loading' = loading \cup {c}
      /\ blurred' = (loading # {})
      /\ UNCHANGED <<dialog, saved>>
  BY DEF OpenDialog
<1>2. opens + 1 \in 1..MaxOpens /\ Is' = Is
  BY <1>1, OpensAreCounted DEF DialogInv, DialogTypeOK, Is
<1>3. DialogTypeOK'
  <2>1. c \in [row : Rows, stage : 1..2, no : 1..MaxOpens]
    BY <1>2
  <2>2. loading' \subseteq [row : Rows, stage : 1..2, no : 1..MaxOpens]
    BY <1>1, <2>1 DEF DialogInv, DialogTypeOK
  <2>3. visible' \in BOOLEAN /\ blurred' \in BOOLEAN
    BY <1>1
  <2>4. filled' \in Seq(Rows) /\ ticked' \subseteq Rows
    BY <1>1 DEF DialogInv, DialogTypeOK
  <2>5. opens' \in 0..MaxOpens /\ clicked' \in Rows
    BY <1>1, <1>2
  <2>6. QED
    BY <1>1, <2>2, <2>3, <2>4, <2>5 DEF DialogInv, DialogTypeOK
<1>4. OfARow'
  BY <1>1 DEF OfARow
<1>5. Unblurred'
  <2> SUFFICES ASSUME ~blurred' PROVE Unblurred'
    BY DEF Unblurred
  <2>1. loading = {}
    BY <1>1, Zenon
  <2>2. loading' = {c} /\ c.row = r /\ c.stage = 1
    BY <1>1, <2>1
  <2>3. Is.clears => filled' = <<>> /\ ticked' = {}
    BY <1>1
  <2> HIDE DEF c
  <2>4. QED
    BY <1>1, <1>2, <2>2, <2>3 DEF Unblurred, AtMostOne
<1>6. Built'
  BY <1>1, <1>2, DialogStyles DEF DialogInv, DialogTypeOK, Built, StyleOf, Is
<1>7. SavedIsOfRow'
  BY <1>1, <1>2 DEF DialogInv, SavedIsOfRow
<1>8. opens' # 0
  BY <1>2, <1>1
<1>9. QED
  BY <1>3, <1>4, <1>5, <1>6, <1>7, <1>8 DEF DialogInv

LEMMA CloseDialogStep == ASSUME DialogInv, CloseDialog PROVE DialogInv'
<1>1. /\ visible' = FALSE
      /\ UNCHANGED <<dialog, clicked, filled, ticked, loading, opens, saved, blurred>>
  BY DEF CloseDialog
<1>2. QED
  BY <1>1 DEF DialogInv, DialogTypeOK, OfARow, Unblurred, Built, SavedIsOfRow, Is

LEMMA AppendToNone == ASSUME NEW x PROVE Append(<<>>, x) = <<x>>
OBVIOUS

\* The first answer.
LEMMA FillStep == ASSUME DialogInv, NEW c \in loading, Fill(c) PROVE DialogInv'
<1> DEFINE next == [c EXCEPT !.stage = 2, !.row = IF Is.second = "last" THEN clicked ELSE c.row]
<1>1. /\ c.stage = 1
      /\ loading' = (loading \ {c}) \cup (IF Is.second = "none" THEN {} ELSE {next})
      /\ visible' = (visible \/ Is.shows = "answer")
      /\ filled' = Append(IF Is.replaces THEN <<>> ELSE filled, c.row)
      /\ ticked' = IF Is.second = "last" THEN {} ELSE ticked
      /\ UNCHANGED <<dialog, clicked, opens, saved, blurred>>
  BY DEF Fill
<1>2. /\ c \in [row : Rows, stage : 1..2, no : 1..MaxOpens] /\ c.row \in Rows
      /\ clicked \in Rows /\ opens # 0 /\ Is' = Is /\ StyleOf(Is, dialog)
  BY <1>1, DialogStyles DEF DialogInv, DialogTypeOK, OfARow, Is
<1>3. /\ next \in [row : Rows, stage : 1..2, no : 1..MaxOpens]
      /\ next.stage = 2 /\ next.row = IF Is.second = "last" THEN clicked ELSE c.row
  <2> DEFINE row == IF Is.second = "last" THEN clicked ELSE c.row
  <2>1. row \in Rows
    BY <1>2
  <2>2. next = [c EXCEPT !.stage = 2, !.row = row]
    OBVIOUS
  <2> HIDE DEF row
  <2>3. [c EXCEPT !.stage = 2, !.row = row]
          \in [row : Rows, stage : 1..2, no : 1..MaxOpens]
    <3>1. [c EXCEPT !.stage = 2] \in [row : Rows, stage : 1..2, no : 1..MaxOpens]
      BY <1>2
    <3>2. [[c EXCEPT !.stage = 2] EXCEPT !.row = row]
            \in [row : Rows, stage : 1..2, no : 1..MaxOpens]
      BY <2>1, <3>1
    <3>3. [c EXCEPT !.stage = 2, !.row = row] = [[c EXCEPT !.stage = 2] EXCEPT !.row = row]
      BY <1>2
    <3>4. QED
      BY <3>2, <3>3
  <2>4. next.stage = 2 /\ next.row = row
    BY <1>2, <2>2
  <2>5. QED
    BY <2>2, <2>3, <2>4 DEF row
<1> HIDE DEF next
<1>4. DialogTypeOK'
  <2>1. loading' \subseteq [row : Rows, stage : 1..2, no : 1..MaxOpens]
    BY <1>1, <1>3 DEF DialogInv, DialogTypeOK
  <2>2. filled' \in Seq(Rows)
    BY <1>1, <1>2 DEF DialogInv, DialogTypeOK
  <2>3. visible' \in BOOLEAN /\ ticked' \subseteq Rows
    BY <1>1 DEF DialogInv, DialogTypeOK
  <2>4. QED
    BY <1>1, <2>1, <2>2, <2>3 DEF DialogInv, DialogTypeOK
<1>5. OfARow'
  BY <1>1, <1>2 DEF OfARow
<1>6. Unblurred'
  <2> SUFFICES ASSUME ~blurred PROVE Unblurred'
    BY <1>1 DEF Unblurred
  <2>1. /\ loading = {c} /\ c.row = clicked
        /\ Is.clears => filled = <<>> /\ ticked = {}
    BY <1>1, <1>2 DEF DialogInv, Unblurred, AtMostOne
  <2>2. filled' = <<clicked>>
    <3>1. (IF Is.replaces THEN <<>> ELSE filled) = <<>>
      BY <1>2, <2>1 DEF StyleOf
    <3>2. filled' = Append(<<>>, c.row)
      BY <1>1, <3>1
    <3>3. QED
      BY <2>1, <3>2, AppendToNone
  <2>3. CASE Is.second = "none"
    <3>1. loading' = {}
      BY <1>1, <2>1, <2>3
    <3>2. QED
      BY <1>1, <1>2, <2>2, <2>3, <3>1 DEF Unblurred, AtMostOne
  <2>4. CASE Is.second # "none"
    <3>1. loading' = {next} /\ next.row = clicked /\ next.stage = 2
      BY <1>1, <1>3, <2>1, <2>4
    <3>2. dialog # "update_link" => ticked' = {}
      BY <1>1, <1>2, <2>1, <2>4 DEF StyleOf
    <3>3. Is.clears => ticked' = {}
      BY <1>1, <2>1
    <3>4. \A d \in loading' : /\ d.row = clicked /\ d.stage = 2
                              /\ Is.clears => ticked' = {}
                              /\ dialog # "update_link" => ticked' = {}
      BY <3>1, <3>2, <3>3
    <3>5. AtMostOne(loading)' /\ loading' # {}
      BY <3>1 DEF AtMostOne
    <3>6. clicked' = clicked /\ Is'.second # "none" /\ Is'.clears = Is.clears
          /\ dialog' = dialog
      BY <1>1, <1>2, <2>4
    <3>7. QED
      BY <2>2, <3>4, <3>5, <3>6 DEF Unblurred
  <2>5. QED
    BY <2>3, <2>4
<1>7. Built'
  <2> SUFFICES ASSUME Is.names = "loaded" PROVE Built'
    BY <1>2 DEF Built
  <2>1. filled' = Append(<<>>, c.row)
    BY <1>1, <1>2 DEF StyleOf
  <2>2. QED
    BY <1>2, <2>1, AppendToNone DEF Built
<1>8. SavedIsOfRow'
  BY <1>1, <1>2 DEF DialogInv, SavedIsOfRow
<1>9. QED
  BY <1>1, <1>2, <1>4, <1>5, <1>6, <1>7, <1>8 DEF DialogInv

\* The second.
LEMMA TickStep == ASSUME DialogInv, NEW c \in loading, Tick(c) PROVE DialogInv'
<1>1. /\ c.stage = 2 /\ loading' = loading \ {c}
      /\ ticked' = (IF dialog = "update_link" THEN {} ELSE ticked) \cup {c.row}
      /\ UNCHANGED <<dialog, visible, clicked, filled, opens, saved, blurred>>
  BY DEF Tick
<1>2. c.row \in Rows /\ clicked \in Rows /\ opens # 0 /\ Is' = Is
  BY <1>1 DEF DialogInv, DialogTypeOK, OfARow, Is
<1>3. DialogTypeOK'
  <2>1. /\ loading' \subseteq [row : Rows, stage : 1..2, no : 1..MaxOpens]
        /\ ticked' \subseteq Rows
    BY <1>1, <1>2 DEF DialogInv, DialogTypeOK
  <2>2. QED
    BY <1>1, <2>1 DEF DialogInv, DialogTypeOK
<1>4. Unblurred'
  <2> SUFFICES ASSUME ~blurred PROVE Unblurred'
    BY <1>1 DEF Unblurred
  <2>1. /\ loading' = {} /\ c.row = clicked /\ filled = <<clicked>>
        /\ dialog # "update_link" => ticked = {}
    BY <1>1, <1>2 DEF DialogInv, Unblurred, AtMostOne
  <2>2. ticked' = {clicked}
    BY <1>1, <2>1
  <2>3. QED
    BY <1>1, <2>1, <2>2 DEF Unblurred, AtMostOne
<1>5. OfARow' /\ Built' /\ SavedIsOfRow'
  BY <1>1, <1>2 DEF DialogInv, OfARow, Built, SavedIsOfRow
<1>6. QED
  BY <1>1, <1>2, <1>3, <1>4, <1>5 DEF DialogInv

LEMMA FillFailsStep ==
  ASSUME DialogInv, NEW c \in loading, NEW told \in BOOLEAN, FillFails(c, told)
  PROVE  DialogInv'
<1> DEFINE next == [c EXCEPT !.stage = 2]
<1>1. /\ loading' \subseteq loading \cup {next}
      /\ blurred' = TRUE
      /\ UNCHANGED <<dialog, visible, clicked, filled, ticked, opens, saved>>
  BY DEF FillFails
<1>2. /\ next \in [row : Rows, stage : 1..2, no : 1..MaxOpens]
      /\ clicked \in Rows /\ opens # 0 /\ Is' = Is
  BY <1>1 DEF DialogInv, DialogTypeOK, OfARow, Is
<1> HIDE DEF next
<1>3. DialogTypeOK'
  <2>1. loading' \subseteq [row : Rows, stage : 1..2, no : 1..MaxOpens]
    BY <1>1, <1>2 DEF DialogInv, DialogTypeOK
  <2>2. QED
    BY <1>1, <2>1 DEF DialogInv, DialogTypeOK
<1>4. OfARow' /\ Unblurred' /\ Built' /\ SavedIsOfRow'
  BY <1>1, <1>2 DEF DialogInv, OfARow, Unblurred, Built, SavedIsOfRow
<1>5. QED
  BY <1>1, <1>2, <1>3, <1>4 DEF DialogInv

LEMMA SubmitDialogStep == ASSUME DialogInv, SubmitDialog PROVE DialogInv'
<1>1. /\ visible
      /\ Is.names = "click" \/ filled # <<>>
      /\ saved' = [row |-> Named, last |-> clicked, filled |-> filled, ticked |-> ticked,
                   hasty |-> blurred \/ loading # {}]
      /\ visible' \in {visible, FALSE}
      /\ UNCHANGED <<dialog, clicked, filled, ticked, loading, opens, blurred>>
  BY DEF SubmitDialog
<1>2. /\ clicked \in Rows /\ opens # 0 /\ Is' = Is /\ StyleOf(Is, dialog)
  BY <1>1, DialogStyles DEF DialogInv, DialogTypeOK, OfARow, Is
<1>3. Named \in Rows
  <2>1. filled # <<>> => Head(filled) \in Rows /\ Last(filled) \in Rows
    BY DEF DialogInv, DialogTypeOK, Last
  <2>2. QED
    BY <1>1, <1>2, <2>1 DEF Named, StyleOf
<1>4. DialogTypeOK'
  <2>1. (blurred \/ loading # {}) \in BOOLEAN
    OBVIOUS
  <2>2. saved' \in [row : Rows, last : Rows, filled : Seq(Rows), ticked : SUBSET Rows,
                    hasty : BOOLEAN]
    BY <1>1, <1>2, <1>3, <2>1 DEF DialogInv, DialogTypeOK
  <2>3. QED
    BY <1>1, <2>2 DEF DialogInv, DialogTypeOK
<1>5. SavedIsOfRow'
  <2>1. /\ saved'.row = Named /\ saved'.last = clicked
        /\ saved'.filled = filled /\ saved'.ticked = ticked
    BY <1>1
  <2>2. saved'.hasty = (blurred \/ loading # {})
    BY <1>1
  <2>3. ASSUME ~saved'.hasty PROVE /\ filled = <<clicked>> /\ Named = clicked
                                   /\ Is.second # "none" => ticked = {clicked}
    <3>1. ~blurred /\ loading = {}
      BY <2>2, <2>3, Zenon
    <3>2. filled = <<clicked>> /\ (Is.second # "none" => ticked = {clicked})
      BY <1>2, <3>1 DEF DialogInv, Unblurred
    <3>3. Named = clicked
      BY <1>2, <3>2 DEF Named, StyleOf, Last
    <3>4. QED
      BY <3>2, <3>3
  <2>4. ASSUME Is.names = "loaded" PROVE filled = <<Named>> /\ Is.second = "none"
    <3>1. PICK r \in Rows : filled = <<r>>
      BY <1>1, <2>4 DEF DialogInv, Built
    <3>2. Named = r
      BY <2>4, <3>1 DEF Named, Last
    <3>3. QED
      BY <1>2, <2>4, <3>1, <3>2 DEF StyleOf
  <2>5. CASE saved'.hasty
    BY <1>2, <2>1, <2>4, <2>5 DEF SavedIsOfRow
  <2>6. CASE ~saved'.hasty
    BY <1>2, <2>1, <2>3, <2>6 DEF SavedIsOfRow
  <2>7. QED
    BY <2>5, <2>6
<1>6. OfARow' /\ Unblurred' /\ Built'
  BY <1>1, <1>2 DEF DialogInv, OfARow, Unblurred, Built
<1>7. QED
  BY <1>1, <1>2, <1>4, <1>5, <1>6 DEF DialogInv

LEMMA NextDialogInv == DialogInv /\ [DialogNext]_dialogVars => DialogInv'
<1> SUFFICES ASSUME DialogInv, [DialogNext]_dialogVars PROVE DialogInv'
  OBVIOUS
<1>1. CASE UNCHANGED dialogVars
  BY <1>1 DEF dialogVars, DialogInv, DialogTypeOK, OfARow, Unblurred, Built,
              SavedIsOfRow, Is
<1>2. CASE DialogNext
  BY <1>2, OpenDialogStep, CloseDialogStep, FillStep, TickStep, FillFailsStep,
     SubmitDialogStep DEF DialogNext
<1>3. QED
  BY <1>1, <1>2

LEMMA DialogInvHolds == DialogSpec => []DialogInv
BY InitDialogInv, NextDialogInv, PTL DEF DialogSpec

\* What is saved under a row is what was loaded for it, by any dialog if nothing
\* else was on its way, by two of them always; for any rows and
\* however often the dialogs are opened, closed and saved.
THEOREM SavedHolds == DialogSpec => []SavedIsOfRow
<1>1. DialogInv => SavedIsOfRow
  BY DEF DialogInv
<1>2. QED
  BY <1>1, DialogInvHolds, PTL
------------------------------------------------------------------------------
\* One tab.  The page that is open keeps its invariant; of the others only the
\* mask changes.
FrontInv ==
  /\ FrontEndTypeOK
  /\ site = "form" => Inv
  /\ site = "portal" => PortalInv
  /\ site = "labels" => LabelInv
  /\ site = "table" => TableInv
  /\ site = "dialog" => DialogInv

LEMMA InitFrontInv == FrontInit => FrontInv
<1> SUFFICES ASSUME FrontInit PROVE FrontInv
  OBVIOUS
<1>1. Inv /\ PortalInv /\ LabelInv /\ TableInv /\ DialogInv
  BY InitInv, InitPortalInv, InitLabelInv, InitTableInv, InitDialogInv DEF FrontInit
<1>2. site \in Sites
  BY DEF FrontInit
<1>3. QED
  BY <1>1, <1>2 DEF FrontInv, FrontEndTypeOK, Inv, PortalInv, LabelInv, TableInv, DialogInv

\* What is shared is typed by the page that is open.
SharedTypeOK == mask \in BOOLEAN /\ presses \in 0..MaxPresses

LEMMA FormTypeKept ==
  ASSUME FormTypeOK, UNCHANGED formOwn, SharedTypeOK' PROVE FormTypeOK'
BY DEF FormTypeOK, formOwn, SharedTypeOK

LEMMA PortalTypeKept ==
  ASSUME PortalTypeOK, UNCHANGED portalOwn, SharedTypeOK' PROVE PortalTypeOK'
BY DEF PortalTypeOK, portalOwn, SharedTypeOK

LEMMA LabelTypeKept ==
  ASSUME LabelTypeOK, UNCHANGED labelOwn, SharedTypeOK' PROVE LabelTypeOK'
BY DEF LabelTypeOK, labelOwn, SharedTypeOK

LEMMA TableTypeKept == ASSUME TableTypeOK, UNCHANGED tableVars PROVE TableTypeOK'
BY DEF TableTypeOK, tableVars

LEMMA DialogTypeKept == ASSUME DialogTypeOK, UNCHANGED dialogVars PROVE DialogTypeOK'
BY DEF DialogTypeOK, dialogVars

LEMMA NextFrontInv == FrontInv /\ [FrontNext]_frontVars => FrontInv'
<1> SUFFICES ASSUME FrontInv, [FrontNext]_frontVars PROVE FrontInv'
  OBVIOUS
<1>1. CASE UNCHANGED frontVars
  <2>1. /\ UNCHANGED <<site, formVars, portalVars, labelVars, tableVars, dialogVars>>
    BY <1>1 DEF frontVars, formVars, portalVars, labelVars
  <2>2. /\ site = "form" => Inv'
        /\ site = "portal" => PortalInv'
        /\ site = "labels" => LabelInv'
        /\ site = "table" => TableInv'
        /\ site = "dialog" => DialogInv'
    BY <2>1, NextInv, NextPortalInv, NextLabelInv, NextTableInv, NextDialogInv DEF FrontInv
  <2>3. SharedTypeOK'
    BY <1>1 DEF FrontInv, FrontEndTypeOK, FormTypeOK, SharedTypeOK, frontVars, browserVars
  <2>4. /\ FormTypeOK' /\ PortalTypeOK' /\ LabelTypeOK' /\ TableTypeOK' /\ DialogTypeOK'
    BY <1>1, <2>3, FormTypeKept, PortalTypeKept, LabelTypeKept, TableTypeKept,
       DialogTypeKept DEF FrontInv, FrontEndTypeOK, frontVars
  <2>5. QED
    BY <2>1, <2>2, <2>4 DEF FrontInv, FrontEndTypeOK
<1>2. CASE FormNext /\ OnForm
  <2>1. Inv' /\ site = "form" /\ site' = site
    BY <1>2, NextInv DEF FrontInv, OnForm
  <2>2. FormTypeOK' /\ SharedTypeOK'
    BY <2>1 DEF Inv, FormTypeOK, SharedTypeOK
  <2>3. PortalTypeOK' /\ LabelTypeOK' /\ TableTypeOK' /\ DialogTypeOK'
    BY <1>2, <2>2, PortalTypeKept, LabelTypeKept, TableTypeKept, DialogTypeKept
    DEF FrontInv, FrontEndTypeOK, OnForm
  <2>4. QED
    BY <2>1, <2>2, <2>3 DEF FrontInv, FrontEndTypeOK, Sites
<1>3. CASE PortalNext /\ OnPortal
  <2>1. PortalInv' /\ site = "portal" /\ site' = site
    BY <1>3, NextPortalInv DEF FrontInv, OnPortal
  <2>2. PortalTypeOK' /\ SharedTypeOK'
    BY <2>1 DEF PortalInv, PortalTypeOK, SharedTypeOK
  <2>3. FormTypeOK' /\ LabelTypeOK' /\ TableTypeOK' /\ DialogTypeOK'
    BY <1>3, <2>2, FormTypeKept, LabelTypeKept, TableTypeKept, DialogTypeKept
    DEF FrontInv, FrontEndTypeOK, OnPortal
  <2>4. QED
    BY <2>1, <2>2, <2>3 DEF FrontInv, FrontEndTypeOK, Sites
<1>4. CASE LabelNext /\ OnLabels
  <2>1. LabelInv' /\ site = "labels" /\ site' = site
    BY <1>4, NextLabelInv DEF FrontInv, OnLabels
  <2>2. LabelTypeOK' /\ SharedTypeOK'
    BY <2>1 DEF LabelInv, LabelTypeOK, SharedTypeOK
  <2>3. FormTypeOK' /\ PortalTypeOK' /\ TableTypeOK' /\ DialogTypeOK'
    BY <1>4, <2>2, FormTypeKept, PortalTypeKept, TableTypeKept, DialogTypeKept
    DEF FrontInv, FrontEndTypeOK, OnLabels
  <2>4. QED
    BY <2>1, <2>2, <2>3 DEF FrontInv, FrontEndTypeOK, Sites
<1>5. CASE TableNext /\ OnTable
  <2>1. TableInv' /\ site = "table" /\ site' = site
    BY <1>5, NextTableInv DEF FrontInv, OnTable
  <2>2. TableTypeOK' /\ SharedTypeOK'
    BY <1>5, <2>1
    DEF TableInv, FrontInv, FrontEndTypeOK, FormTypeOK, SharedTypeOK, OnTable, browserVars
  <2>3. FormTypeOK' /\ PortalTypeOK' /\ LabelTypeOK' /\ DialogTypeOK'
    BY <1>5, <2>2, FormTypeKept, PortalTypeKept, LabelTypeKept, DialogTypeKept
    DEF FrontInv, FrontEndTypeOK, OnTable
  <2>4. QED
    BY <2>1, <2>2, <2>3 DEF FrontInv, FrontEndTypeOK, Sites
<1>6. CASE DialogNext /\ OnDialog
  <2>1. DialogInv' /\ site = "dialog" /\ site' = site
    BY <1>6, NextDialogInv DEF FrontInv, OnDialog
  <2>2. DialogTypeOK' /\ SharedTypeOK'
    BY <1>6, <2>1
    DEF DialogInv, FrontInv, FrontEndTypeOK, FormTypeOK, SharedTypeOK, OnDialog, browserVars
  <2>3. FormTypeOK' /\ PortalTypeOK' /\ LabelTypeOK' /\ TableTypeOK'
    BY <1>6, <2>2, FormTypeKept, PortalTypeKept, LabelTypeKept, TableTypeKept
    DEF FrontInv, FrontEndTypeOK, OnDialog
  <2>4. QED
    BY <2>1, <2>2, <2>3 DEF FrontInv, FrontEndTypeOK, Sites
<1>7. QED
  BY <1>1, <1>2, <1>3, <1>4, <1>5, <1>6 DEF FrontNext

LEMMA FrontInvHolds == FrontSpec => []FrontInv
BY InitFrontInv, NextFrontInv, PTL DEF FrontSpec

\* The types of all pages, whichever is open.
THEOREM FrontTyping == FrontSpec => []FrontEndTypeOK
<1>1. FrontInv => FrontEndTypeOK
  BY DEF FrontInv
<1>2. QED
  BY <1>1, FrontInvHolds, PTL

\* A tab that has a page open does what the page's own specification says: what
\* is proved of a page is true of it in the front end.
THEOREM TabIsItsPage ==
  /\ FrontSpec /\ site = "form" => FormSpec
  /\ FrontSpec /\ site = "portal" => PortalSpec
  /\ FrontSpec /\ site = "labels" => LabelSpec
  /\ FrontSpec /\ site = "table" => TableSpec
  /\ FrontSpec /\ site = "dialog" => DialogSpec
<1>1. FrontInit => FormInit /\ PortalInit /\ LabelInit /\ TableInit /\ DialogInit
  BY DEF FrontInit
<1>2. [FrontNext]_frontVars /\ site = "form" => [FormNext]_formVars /\ (site = "form")'
  BY DEF FrontNext, OnForm, OnPortal, OnLabels, OnTable, OnDialog, frontVars, formVars
<1>3. [FrontNext]_frontVars /\ site = "portal" => [PortalNext]_portalVars /\ (site = "portal")'
  BY DEF FrontNext, OnForm, OnPortal, OnLabels, OnTable, OnDialog, frontVars, portalVars
<1>4. [FrontNext]_frontVars /\ site = "labels" => [LabelNext]_labelVars /\ (site = "labels")'
  BY DEF FrontNext, OnForm, OnPortal, OnLabels, OnTable, OnDialog, frontVars, labelVars
<1>5. [FrontNext]_frontVars /\ site = "table" => [TableNext]_tableVars /\ (site = "table")'
  BY DEF FrontNext, OnForm, OnPortal, OnLabels, OnTable, OnDialog, frontVars
<1>6. [FrontNext]_frontVars /\ site = "dialog" => [DialogNext]_dialogVars /\ (site = "dialog")'
  BY DEF FrontNext, OnForm, OnPortal, OnLabels, OnTable, OnDialog, frontVars
<1>7. FrontSpec /\ site = "form" => FormSpec
  BY <1>1, <1>2, PTL DEF FrontSpec, FormSpec
<1>8. FrontSpec /\ site = "portal" => PortalSpec
  BY <1>1, <1>3, PTL DEF FrontSpec, PortalSpec
<1>9. FrontSpec /\ site = "labels" => LabelSpec
  BY <1>1, <1>4, PTL DEF FrontSpec, LabelSpec
<1>10. FrontSpec /\ site = "table" => TableSpec
  BY <1>1, <1>5, PTL DEF FrontSpec, TableSpec
<1>11. FrontSpec /\ site = "dialog" => DialogSpec
  BY <1>1, <1>6, PTL DEF FrontSpec, DialogSpec
<1>12. QED
  BY <1>7, <1>8, <1>9, <1>10, <1>11

------------------------------------------------------------------------------
\* The pages that have a mask wait when it is up.  The portal: every press
\* that raises it asks, but that of Next on the last page.
PortalWaits == (mask \/ submitIndexOff) /\ asking = {} => stuck

LEMMA InitPortalWaits == PortalInit => PortalWaits
BY DEF PortalInit, BrowserInit, PortalWaits

LEMMA NextPortalWaits == PortalWaits /\ [PortalNext]_portalVars => PortalWaits'
<1> SUFFICES ASSUME PortalWaits, [PortalNext]_portalVars PROVE PortalWaits'
  OBVIOUS
<1>1. CASE UNCHANGED portalVars
  BY <1>1 DEF portalVars, portalOwn, browserVars, PortalWaits
<1>2. ASSUME NEW how \in Ways, NEW q \in Queries, SubmitIndex(q, how) PROVE PortalWaits'
  BY <1>2 DEF SubmitIndex, PortalWaits
<1>3. ASSUME NEW how \in Ways, NextIndex(how) PROVE PortalWaits'
  BY <1>3 DEF NextIndex, PortalWaits
<1>4. ASSUME NEW r \in asking, Search1(r) \/ Search2(r) \/ Search3(r) \/ WithoutData(r)
      PROVE  PortalWaits'
  BY <1>4 DEF Search1, Search2, Search3, WithoutData, Answering, PortalWaits
<1>5. ASSUME NEW r \in asking, Fails(r) PROVE PortalWaits'
  BY <1>5 DEF Fails, PortalWaits
<1>6. QED
  BY <1>1, <1>2, <1>3, <1>4, <1>5 DEF PortalNext, PortalAnswered

\* The search by labels: the first of two answers without labels leaves the
\* mask to the second, for which flag3 is set by then.  So of the requests on
\* their way one will lower the mask, and one of the submit enables its button.
Lowers(r) ==
  \/ r.part = "rows"
  \/ flags[r.of].flag3
  \/ \E s \in appAsking : s.part \in Parts /\ s.of = r.of /\ s # r

LabelAlive ==
  ~appStuck =>
    /\ mask => \E r \in appAsking : Lowers(r)
    /\ submitappOff => \E r \in appAsking : r.part \in Parts /\ r.of = query

LabelsWait == (mask \/ submitappOff) /\ appAsking = {} => appStuck

LEMMA InitLabelAlive == LabelInit => LabelAlive
BY DEF LabelInit, BrowserInit, LabelAlive

\* Of the requests on their way it is known what they are of.
LEMMA AskingIs ==
  ASSUME LabelTypeOK, NEW r \in appAsking
  PROVE  /\ r.part \in Parts => r = [part |-> r.part, of |-> r.of] /\ r.of \in Submits
         /\ r.part \notin Parts => r.part = "rows"
BY DEF LabelTypeOK, Parts

LEMMA SubmitAlive ==
  ASSUME LabelInv, NEW how \in Ways, SubmitApp(how) PROVE LabelAlive'
<1>1. PICK a \in appAsking', b \in appAsking' :
        /\ a.part \in Parts /\ b.part \in Parts /\ a # b
        /\ a.of = query' /\ b.of = query'
  <2>1. /\ [part |-> "exclude", of |-> presses + 1] \in appAsking'
        /\ [part |-> "include", of |-> presses + 1] \in appAsking'
        /\ query' = presses + 1
    BY DEF SubmitApp, Parts
  <2>2. [part |-> "exclude", of |-> presses + 1] # [part |-> "include", of |-> presses + 1]
    OBVIOUS
  <2>3. QED
    BY <2>1, <2>2 DEF Parts
<1>2. \E s \in appAsking' : s.part \in Parts /\ s.of = a.of /\ s # a
  BY <1>1
<1>3. Lowers(a)'
  BY <1>2 DEF Lowers
<1>4. QED
  BY <1>1, <1>3 DEF LabelAlive

LEMMA AskRowsAlive ==
  ASSUME LabelInv, LabelAlive, NEW how \in Ways,
         NextApp(how) \/ \E l \in Labels : ClickLabel(l, how)
  PROVE  LabelAlive'
<1>1. PICK ref : AskRows(ref)
  <2>1. CASE NextApp(how)
    BY <2>1 DEF NextApp
  <2>2. ASSUME NEW l \in Labels, ClickLabel(l, how) PROVE \E ref : AskRows(ref)
    BY <2>2 DEF ClickLabel
  <2>3. QED
    BY <2>1, <2>2
<1>2. PICK r \in appAsking' : r.part = "rows"
  <2>1. [part |-> "rows", of |-> ref, no |-> presses + 1] \in appAsking'
    BY <1>1 DEF AskRows
  <2>2. [part |-> "rows", of |-> ref, no |-> presses + 1].part = "rows"
    OBVIOUS
  <2>3. QED
    BY <2>1, <2>2
<1>3. Lowers(r)'
  BY <1>2 DEF Lowers
<1>4. appAsking \subseteq appAsking' /\ UNCHANGED <<submitappOff, query, appStuck>>
  BY <1>1 DEF NextApp, ClickLabel, AskRows
<1>5. QED
  BY <1>2, <1>3, <1>4 DEF LabelAlive

LEMMA RowsAlive ==
  ASSUME LabelInv, LabelAlive, NEW r \in appAsking, RowsCame(r) \/ RowsMissing(r)
  PROVE  LabelAlive'
<1>1. /\ ~mask' /\ appAsking' = appAsking \ {r} /\ r.part = "rows"
      /\ UNCHANGED <<submitappOff, query, appStuck>>
  BY DEF RowsCame, RowsMissing
<1>2. QED
  BY <1>1 DEF LabelAlive, Parts

LEMMA LabelsAlive ==
  ASSUME LabelInv, LabelAlive, NEW r \in appAsking, LabelsFound(r) \/ LabelsMissing(r)
  PROVE  LabelAlive'
<1>0. r.part \in Parts /\ ~submitappOff' /\ appAsking' = appAsking \ {r} /\ appStuck' = appStuck
  BY DEF LabelsFound, LabelsMissing, LabelsEnd
<1> SUFFICES ASSUME ~appStuck, mask' PROVE \E s \in appAsking' : Lowers(s)'
  BY <1>0 DEF LabelAlive
<1>1. /\ r.part \in Parts /\ mask /\ ~appStuck /\ ~flags[r.of].flag3
      /\ appAsking' = appAsking \ {r}
      /\ flags' = [flags EXCEPT ![r.of] = [flag1 |-> TRUE, flag2 |-> TRUE, flag3 |-> TRUE]]
  <2>1. CASE LabelsFound(r)
    BY <2>1 DEF LabelsFound, LabelsEnd
  <2>2. CASE LabelsMissing(r)
    BY <1>0, <2>2 DEF LabelsMissing, LabelsEnd
  <2>3. QED
    BY <2>1, <2>2
<1>2. flags \in [Submits -> [flag1 : BOOLEAN, flag2 : BOOLEAN, flag3 : BOOLEAN]]
  BY DEF LabelInv, LabelTypeOK
<1>3. r.of \in Submits
  BY <1>1, AskingIs DEF LabelInv
<1>4. PICK s \in appAsking : Lowers(s)
  BY <1>1 DEF LabelAlive
<1>5. flags'[r.of].flag3 /\ \A n \in Submits \ {r.of} : flags'[n] = flags[n]
  BY <1>1, <1>2, <1>3
<1>6. CASE s.part = "rows"
  BY <1>1, <1>4, <1>6 DEF Lowers, Parts
<1>7. CASE s.part \in Parts /\ flags[s.of].flag3
  <2>1. s \in appAsking' /\ s.of \in Submits /\ s.of # r.of
    BY <1>1, <1>7, AskingIs DEF LabelInv
  <2>2. flags'[s.of].flag3
    BY <1>5, <1>7, <2>1
  <2>3. QED
    BY <2>1, <2>2 DEF Lowers
<1>8. CASE s.part \in Parts /\ ~flags[s.of].flag3
  \* Both of a submit are on their way; if one of them is answered, the other
  \* will find flag3 set.
  <2>1. PICK q \in appAsking : q.part \in Parts /\ q.of = s.of /\ q # s
    BY <1>4, <1>8 DEF Lowers, Parts
  <2>2. CASE s = r \/ q = r
    <3>1. \E p \in appAsking' : p.of = r.of
      BY <1>1, <1>4, <2>1, <2>2
    <3>2. QED
      BY <1>5, <3>1 DEF Lowers
  <2>3. CASE s # r /\ q # r
    BY <1>1, <1>4, <2>1, <2>3 DEF Lowers
  <2>4. QED
    BY <2>2, <2>3
<1>9. QED
  BY <1>4, <1>6, <1>7, <1>8, AskingIs DEF LabelInv

LEMMA FailAlive ==
  ASSUME LabelInv, LabelAlive, NEW r \in appAsking, LabelsNull(r) \/ LabelsFail(r)
  PROVE  LabelAlive'
<1> SUFFICES ASSUME ~appStuck'
             PROVE  ~mask' /\ (submitappOff' => \E s \in appAsking' : s.part \in Parts /\ s.of = query')
  BY DEF LabelAlive
<1>1. /\ LabelsFail(r) /\ ~appStuck /\ ~mask' /\ appAsking' = appAsking \ {r}
      /\ submitappOff /\ r.of = query =>
           \E s \in appAsking \ {r} : s.part \in Parts /\ s.of = r.of
      /\ UNCHANGED <<submitappOff, query>>
  BY DEF LabelsNull, LabelsFail
<1>2. QED
  BY <1>1 DEF LabelAlive

LEMMA NextLabelAlive == LabelInv /\ LabelAlive /\ [LabelNext]_labelVars => LabelAlive'
<1> SUFFICES ASSUME LabelInv, LabelAlive, [LabelNext]_labelVars PROVE LabelAlive'
  OBVIOUS
<1>1. CASE UNCHANGED labelVars
  BY <1>1 DEF labelVars, labelOwn, browserVars, LabelAlive, Lowers
<1>2. ASSUME NEW how \in Ways, SubmitEmpty(how) PROVE LabelAlive'
  BY <1>2 DEF SubmitEmpty, LabelAlive
<1>3. QED
  BY <1>1, <1>2, SubmitAlive, AskRowsAlive, RowsAlive, LabelsAlive, FailAlive
  DEF LabelNext, LabelsAnswered

\* What the tab does with each page.
LEMMA PortalWaitsHolds == PortalSpec => []PortalWaits
BY InitPortalWaits, NextPortalWaits, PTL DEF PortalSpec

LEMMA LabelsWaitHolds == LabelSpec => []LabelsWait
<1>1. LabelAlive => LabelsWait
  BY DEF LabelAlive, LabelsWait
<1>2. QED
  BY <1>1, LabelInvHolds, InitLabelAlive, NextLabelAlive, PTL DEF LabelSpec

\* The page that is open waits for an answer whenever it cannot be used, or an
\* answer came that it is known not to get over.
OpenPageWaits ==
  /\ site = "form" => FormWaits
  /\ site = "portal" => PortalWaits
  /\ site = "labels" => LabelsWait

NoMaskOpen == site \notin {"form", "portal", "labels"}

\* No page is dead: of PageComesBack, this is what the code has to see to; the
\* rest is that the browser calls back.
THEOREM NoPageIsDead == FrontSpec => []OpenPageWaits
<1>1. [FrontNext]_frontVars /\ site = "form" => (site = "form")'
  BY DEF FrontNext, OnForm, OnPortal, OnLabels, OnTable, OnDialog, frontVars
<1>2. [FrontNext]_frontVars /\ site = "portal" => (site = "portal")'
  BY DEF FrontNext, OnForm, OnPortal, OnLabels, OnTable, OnDialog, frontVars
<1>3. [FrontNext]_frontVars /\ site = "labels" => (site = "labels")'
  BY DEF FrontNext, OnForm, OnPortal, OnLabels, OnTable, OnDialog, frontVars
<1>4. [FrontNext]_frontVars /\ NoMaskOpen => NoMaskOpen'
  BY DEF FrontNext, OnForm, OnPortal, OnLabels, OnTable, OnDialog, frontVars, NoMaskOpen
<1>5. /\ site = "form" /\ FormWaits => OpenPageWaits
      /\ site = "portal" /\ PortalWaits => OpenPageWaits
      /\ site = "labels" /\ LabelsWait => OpenPageWaits
      /\ NoMaskOpen => OpenPageWaits
      /\ site = "form" \/ site = "portal" \/ site = "labels" \/ NoMaskOpen
  BY DEF OpenPageWaits, NoMaskOpen
<1>6. FrontSpec /\ site = "form" => []OpenPageWaits
  BY <1>1, <1>5, TabIsItsPage, FormsWait, PTL DEF FrontSpec
<1>7. FrontSpec /\ site = "portal" => []OpenPageWaits
  BY <1>2, <1>5, TabIsItsPage, PortalWaitsHolds, PTL DEF FrontSpec
<1>8. FrontSpec /\ site = "labels" => []OpenPageWaits
  BY <1>3, <1>5, TabIsItsPage, LabelsWaitHolds, PTL DEF FrontSpec
<1>9. FrontSpec /\ NoMaskOpen => []OpenPageWaits
  BY <1>4, <1>5, PTL DEF FrontSpec
<1>10. QED
  BY <1>5, <1>6, <1>7, <1>8, <1>9, PTL
==============================================================================
