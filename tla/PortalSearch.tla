----------------------------- MODULE PortalSearch ---------------------------
(***************************************************************************)
(* The search of the portal's first page, index.js: one query of two       *)
(* services, elasticsearch (search2, and search3 for its next pages) and   *)
(* datada (search1), whose answers come in any order, and one button for   *)
(* the next page of both.  Elasticsearch numbers its pages by scrollId,    *)
(* datada by searchToken.  getJSON has no error callback here.             *)
(***************************************************************************)
EXTENDS Browser, FiniteSets

CONSTANTS
  Queries,       \* what is asked
  Hits,          \* the rows elasticsearch has for a query
  FullDatada,    \* the full pages datada has for a query
  RowsPerPage    \* rowNumPerPage, 40 in the code

ASSUME PortalAssumption ==
  /\ Hits \in [Queries -> Nat] /\ FullDatada \in [Queries -> Nat]
  /\ RowsPerPage \in Nat \ {0}

VARIABLES
  sent,            \* the query that was last submitted
  submitIndexOff,  \* #submitIndex is disabled
  nextIndex,       \* #nextIndex
  scrollId, totalRowNum, resultNum,  \* of elasticsearch
  searchToken, datadaFull,           \* of datada; datadaNum > 9
  resultsIndex,    \* the rows of elasticsearch on show
  asking,          \* the requests that are not answered
  mixed,           \* history: a request to elasticsearch was sent while
                   \* another waited, since a submit found none waiting
  missed,          \* history: elasticsearch did not answer the last submit
                   \* with data
  stuck            \* history: a request got no answer, or Next asked nothing

portalOwn == <<sent, submitIndexOff, nextIndex, scrollId, totalRowNum, resultNum,
               searchToken, datadaFull, resultsIndex, asking, mixed, missed,
               stuck>>
portalVars == <<browserVars, portalOwn>>

NoQuery == "none"
NoPage == [query |-> NoQuery, page |-> 0]
PageOf(q, p) == [query |-> q, page |-> p]
PageRefs == [query : Queries, page : Nat]

Fetches == [service : {"search1", "search2", "search3"}, of : PageRefs, no : Nat]

PortalTypeOK ==
  /\ mask \in BOOLEAN /\ presses \in 0..MaxPresses
  /\ sent \in Queries \cup {NoQuery}
  /\ submitIndexOff \in BOOLEAN /\ nextIndex \in {"hidden", "disabled", "enabled"}
  /\ scrollId \in PageRefs \cup {NoPage}
  /\ searchToken \in PageRefs \cup {NoPage}
  /\ totalRowNum \in Nat /\ resultNum \in 0..RowsPerPage
  /\ datadaFull \in BOOLEAN
  /\ resultsIndex \in PageRefs \cup {NoPage}
  /\ asking \in SUBSET Fetches
  /\ mixed \in BOOLEAN /\ missed \in BOOLEAN /\ stuck \in BOOLEAN

PortalInit ==
  /\ BrowserInit
  /\ sent = NoQuery /\ submitIndexOff = FALSE /\ nextIndex = "hidden"
  /\ scrollId = NoPage /\ totalRowNum = 0 /\ resultNum = 0
  /\ searchToken = NoPage /\ datadaFull = FALSE
  /\ resultsIndex = NoPage
  /\ asking = {}
  /\ mixed = FALSE /\ missed = TRUE /\ stuck = FALSE

\* The rows of a page, and what page a scrollId stands for.
RowsOn(q, p) ==
  LET left == Hits[q] - (p - 1) * RowsPerPage
  IN IF left > RowsPerPage THEN RowsPerPage ELSE IF left < 0 THEN 0 ELSE left

FromElastic == {r \in asking : r.service # "search1"}

Fetch(service, ref) == [service |-> service, of |-> ref, no |-> presses]

SubmitIndex(q, how) ==
  /\ Reaches(how) /\ ~submitIndexOff
  /\ CountPress
  /\ mask' = TRUE /\ submitIndexOff' = TRUE
  /\ nextIndex' = "hidden"
  /\ resultsIndex' = NoPage
  /\ sent' = q
  /\ asking' = asking \cup {Fetch("search1", PageOf(q, 1)), Fetch("search2", PageOf(q, 1))}
  /\ mixed' = (FromElastic # {})
  /\ missed' = TRUE
  /\ UNCHANGED <<scrollId, totalRowNum, resultNum, searchToken, datadaFull, stuck>>

\* Mutant: the size of the page is compared with a full one's.
MoreRowsIfFull == resultNum = RowsPerPage /\ totalRowNum % RowsPerPage = 0

\* Elasticsearch has pages left, by the size of the page it sent last.
MoreRows == resultNum # totalRowNum % RowsPerPage

\* #nextIndex: asks those that have more, or is hidden with the mask up.
NextIndex(how) ==
  /\ Reaches(how) /\ nextIndex = "enabled"
  /\ CountPress
  /\ mask' = TRUE
  /\ resultsIndex' = NoPage
  /\ asking' = asking
       \cup (IF MoreRows THEN {Fetch("search3", scrollId)} ELSE {})
       \cup (IF datadaFull THEN {Fetch("search1", searchToken)} ELSE {})
  /\ nextIndex' = IF MoreRows \/ datadaFull THEN "enabled" ELSE "hidden"
  /\ submitIndexOff' = (MoreRows \/ datadaFull)
  /\ mixed' = (mixed \/ (MoreRows /\ FromElastic # {}))
  /\ stuck' = (stuck \/ ~(MoreRows \/ datadaFull))
  /\ UNCHANGED <<sent, scrollId, totalRowNum, resultNum, searchToken,
                 datadaFull, missed>>

\* Mutant: the callback of a next page leaves the mask.
AnsweringFirst(r) ==
  /\ asking' = asking \ {r}
  /\ mask' = (mask /\ r.service = "search3") /\ submitIndexOff' = FALSE
  /\ UNCHANGED <<presses, sent, mixed, stuck>>

\* The last lines of each success callback.
Answering(r) ==
  /\ asking' = asking \ {r}
  /\ mask' = FALSE /\ submitIndexOff' = FALSE
  /\ UNCHANGED <<presses, sent, mixed, stuck>>

Search1(r) ==
  /\ r.service = "search1"
  /\ Answering(r)
  /\ searchToken' = PageOf(r.of.query, r.of.page + 1)
  /\ datadaFull' = (r.of.page <= FullDatada[r.of.query])
  /\ nextIndex' = IF datadaFull' THEN "enabled" ELSE nextIndex
  /\ UNCHANGED <<scrollId, totalRowNum, resultNum, resultsIndex, missed>>

\* Mutant: a scrollId that is there already is kept.
Search2KeepsScroll(r) ==
  /\ r.service = "search2"
  /\ Answering(r)
  /\ scrollId' = IF scrollId = NoPage THEN PageOf(r.of.query, 2) ELSE scrollId
  /\ totalRowNum' = Hits[r.of.query]
  /\ resultNum' = RowsOn(r.of.query, 1)
  /\ nextIndex' = IF Hits[r.of.query] > RowsPerPage THEN "enabled" ELSE nextIndex
  /\ resultsIndex' = r.of
  /\ missed' = FALSE
  /\ UNCHANGED <<searchToken, datadaFull>>

Search2(r) ==
  /\ r.service = "search2"
  /\ Answering(r)
  /\ scrollId' = PageOf(r.of.query, 2)
  /\ totalRowNum' = Hits[r.of.query]
  /\ resultNum' = RowsOn(r.of.query, 1)
  /\ nextIndex' = IF Hits[r.of.query] > RowsPerPage THEN "enabled" ELSE nextIndex
  /\ resultsIndex' = r.of
  /\ missed' = FALSE
  /\ UNCHANGED <<searchToken, datadaFull>>

Search3(r) ==
  /\ r.service = "search3"
  /\ Answering(r)
  /\ scrollId' = PageOf(r.of.query, r.of.page + 1)
  /\ resultNum' = RowsOn(r.of.query, r.of.page)
  /\ resultsIndex' = r.of
  /\ UNCHANGED <<totalRowNum, nextIndex, searchToken, datadaFull, missed>>

\* A result without data, or a failure's: only the area is written on.
WithoutData(r) ==
  /\ Answering(r)
  /\ resultsIndex' = IF r.service = "search1" THEN resultsIndex ELSE NoPage
  /\ UNCHANGED <<scrollId, totalRowNum, resultNum, searchToken, datadaFull,
                 nextIndex, missed>>

\* There is nobody to tell.
Fails(r) ==
  /\ asking' = asking \ {r} /\ stuck' = TRUE
  /\ UNCHANGED <<mask, presses, sent, submitIndexOff, nextIndex, scrollId,
                 totalRowNum, resultNum, searchToken, datadaFull, resultsIndex,
                 mixed, missed>>

PortalAnswered ==
  \E r \in asking :
    \/ Search1(r)
    \/ Search2(r)
    \/ Search3(r)
    \/ WithoutData(r)
    \/ Fails(r)

PortalNext ==
  \/ \E how \in Ways : (\E q \in Queries : SubmitIndex(q, how)) \/ NextIndex(how)
  \/ PortalAnswered

PortalSpec == PortalInit /\ [][PortalNext]_portalVars

\* The browser calls back, or not.
FairPortalSpec == PortalSpec /\ WF_portalVars(PortalAnswered)

------------------------------------------------------------------------------
\* Nothing of elasticsearch on its way, and the last submit was answered by it
\* before anything else was asked.
Settled == FromElastic = {} /\ ~mixed /\ ~missed

\* The rows on show are of the query that was submitted, and the next page
\* follows them, in whatever order the two services answer.
RowsAreOfQuery ==
  Settled /\ resultsIndex # NoPage
    => /\ resultsIndex.query = sent
       /\ scrollId = PageOf(sent, resultsIndex.page + 1)

\* As long as rows are left the next page is offered, and asks for them.
NextOffered ==
  Settled /\ resultsIndex # NoPage
    /\ Hits[sent] > resultsIndex.page * RowsPerPage
  => nextIndex = "enabled" /\ MoreRows

\* The mask comes down again, unless a request fails or the last page's Next
\* is pressed, which asks nothing and leaves the mask up.
PortalRecovers == mask ~> (~mask \/ stuck)
==============================================================================
