----------------------------- MODULE PagedTables ----------------------------
(***************************************************************************)
(* The tables that are read a page at a time, each with four buttons: the  *)
(* log of the portal and its dialog (log.js), and the tables of the        *)
(* administration: accounts (auser.js), resources (link.js), and those of  *)
(* accessControl.js, accessInterface.js, accessUserInterface.js and        *)
(* sensitive.js.  The first three count the page in the value of the       *)
(* button #homepage as it is asked for; the others keep what number the    *)
(* last answer gave.  No button is disabled while a page is on its way.    *)
(***************************************************************************)
EXTENDS Integers, FiniteSets

CONSTANTS
  Lists,       \* what can be opened in a table
  PageCount,   \* its pages
  MaxCalls     \* bound: how many pages are asked for

ASSUME PagedAssumption ==
  PageCount \in [Lists -> 1..99] /\ MaxCalls \in Nat \ {0}

\* Where a table keeps its page, how Next compares it with the last one,
\* whether opening a list sets the page to 1, and what an answer does.
Counting == [keeps |-> "home", compares |-> "number", appends |-> FALSE]
Numbered == [keeps |-> "answer", compares |-> "text", appends |-> FALSE]

logQuery            == Counting
keyDialog           == Counting
auser               == [Counting EXCEPT !.appends = TRUE]
link                == Numbered
accessControl       == Numbered
accessInterface     == Numbered
sensitive           == Numbered
accessUserInterface == [Numbered EXCEPT !.compares = "equal"]

Tables ==
  [logQuery |-> logQuery, keyDialog |-> keyDialog, auser |-> auser,
   link |-> link, accessControl |-> accessControl,
   accessInterface |-> accessInterface, sensitive |-> sensitive,
   accessUserInterface |-> accessUserInterface]

VARIABLES
  table,      \* the table of the page
  list,       \* what is open in it
  homepage,   \* the value of the button that counts
  lastpage,   \* the value that the answers set
  endpage,    \* the number of the last page, by the last answer
  rows,       \* the pages on show
  calls,      \* the pages that are on their way
  made,       \* how many were asked for
  astray      \* history: a page was asked for while another was on its way, a
              \* call failed, or a list was opened at another's homepage, since
              \* a first page was asked for with no other on its way

tableVars == <<table, list, homepage, lastpage, endpage, rows, calls, made,
               astray>>

Numbers == 1..99
PagesOf == [list : Lists, page : Numbers]

TableTypeOK ==
  /\ table \in DOMAIN Tables
  /\ list \in Lists
  /\ homepage \in Numbers /\ lastpage \in Numbers /\ endpage \in Numbers
  /\ rows \subseteq PagesOf
  /\ calls \subseteq [of : PagesOf, no : 1..MaxCalls]
  /\ made \in 0..MaxCalls
  /\ astray \in BOOLEAN

PageIn(l, p) == [list |-> l, page |-> p]
Counts == Tables[table].keeps = "home"

\* The page is loaded, and asks for the first page of its list.
TableInit ==
  /\ table \in DOMAIN Tables
  /\ list \in Lists
  /\ homepage = 1 /\ lastpage = 1 /\ endpage = 1
  /\ rows = {}
  /\ calls = {[of |-> PageIn(list, 1), no |-> 1]} /\ made = 1
  /\ astray = FALSE

\* loadPage, orderTime, accountPage, keypage, loadingAuser, showLinkAddress,
\* showAccess, findByPage, pagez.  loadingAuser empties the table first.
Load(l, p, home, empties) ==
  /\ made < MaxCalls /\ made' = made + 1
  /\ calls' = calls \cup {[of |-> PageIn(l, p), no |-> made + 1]}
  /\ rows' = IF empties THEN {} ELSE rows
  /\ list' = l /\ homepage' = home
  /\ astray' = IF calls = {} /\ p = 1 THEN home # 1
               ELSE astray \/ calls # {} \/ (p = 1 /\ home # 1)
  /\ UNCHANGED <<table, lastpage, endpage>>

LoadAt(p) == Load(list, p, IF Counts THEN p ELSE homepage, table = "auser")

\* As text "10" comes before "2".
FirstDigit(n) == IF n < 10 THEN n ELSE n \div 10
TextAtLeast(a, b) ==
  IF (a < 10) # (b < 10) /\ FirstDigit(a) # FirstDigit(b)
  THEN FirstDigit(a) > FirstDigit(b) ELSE a >= b

\* Mutant: before the first page there is one more.
PageBeforeToZero ==
  IF Counts THEN homepage - 1 ELSE IF lastpage = 1 THEN 0 ELSE lastpage - 1

\* The page before, and the page after: 0 where nothing is asked for.
PageBefore ==
  IF Counts THEN (IF homepage <= 2 THEN 1 ELSE homepage - 1)
  ELSE IF lastpage = 1 THEN 0 ELSE lastpage - 1

AtEnd ==
  CASE Tables[table].compares = "number" -> homepage + 1 >= endpage
    [] Tables[table].compares = "text"   -> TextAtLeast(lastpage, endpage)
    [] Tables[table].compares = "equal"  -> lastpage = endpage

PageAfter ==
  IF Counts THEN (IF AtEnd THEN endpage ELSE homepage + 1)
  ELSE IF AtEnd THEN 0 ELSE lastpage + 1

FirstPage  == LoadAt(1)
LastPage   == (Counts \/ PageBefore # 0) /\ LoadAt(PageBefore)
NextPage   == (Counts \/ PageAfter # 0) /\ LoadAt(PageAfter)
FinalPage  == LoadAt(endpage)

\* Another list in the same table, which the log empties first.  Of the tables
\* that count only the log's first list sets the page back.
OpenList(l, sets) ==
  /\ Counts
  /\ sets => table = "logQuery"
  /\ Load(l, 1, IF sets THEN 1 ELSE homepage, table # "keyDialog")

\* The page on show again, after a row of it was changed.
Reload == ~Counts /\ LoadAt(lastpage)

\* Mutant: what page it is is not kept.
LoadedUnnumbered(c) ==
  /\ c \in calls /\ calls' = calls \ {c}
  /\ endpage' = PageCount[c.of.list]
  /\ rows' = (IF Tables[table].appends THEN rows ELSE {}) \cup {c.of}
  /\ UNCHANGED <<table, list, homepage, lastpage, made, astray>>

Loaded(c) ==
  /\ c \in calls /\ calls' = calls \ {c}
  /\ endpage' = PageCount[c.of.list]
  /\ lastpage' = IF Counts THEN lastpage ELSE c.of.page
  /\ rows' = (IF Tables[table].appends THEN rows ELSE {}) \cup {c.of}
  /\ UNCHANGED <<table, list, homepage, made, astray>>

NotLoaded(c) ==
  /\ c \in calls /\ calls' = calls \ {c}
  /\ astray' = TRUE
  /\ UNCHANGED <<table, list, homepage, lastpage, endpage, rows, made>>

TableNext ==
  \/ FirstPage \/ LastPage \/ NextPage \/ FinalPage \/ Reload
  \/ \E l \in Lists, sets \in BOOLEAN : OpenList(l, sets)
  \/ \E c \in calls : Loaded(c) \/ NotLoaded(c)

TableSpec == TableInit /\ [][TableNext]_tableVars

------------------------------------------------------------------------------
\* From a page on show Next goes to the page after it, if there is one, unless
\* the last page was compared as text and has two digits.  The tables that
\* count need calm for it; those that keep the number of the last answer go
\* on from what they show, in whatever order the answers come.
NextFollows ==
  (Counts => calls = {} /\ ~astray) /\ rows # {}
    /\ (Tables[table].compares = "text" => PageCount[list] < 10)
  => \E p \in 1..PageCount[list] :
       /\ rows = {PageIn(list, p)}
       /\ PageAfter = IF p < PageCount[list] THEN p + 1
                      ELSE IF Counts THEN p ELSE 0
==============================================================================
