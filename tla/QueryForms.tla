----------------------------- MODULE QueryForms -----------------------------
(***************************************************************************)
(* The query forms of the portal: LMall.js, LMTwice.js and LMThird.js,     *)
(* which every page loads, and mobile.js, phoneuser.js and userIdCard.js.  *)
(* Each page has one of these forms, lemonBankCard.jsp two.  A press of a  *)
(* form's button empties the result area, raises the mask #background,     *)
(* which keeps the mouse but not the keyboard from the button, and sends a *)
(* request; the answer writes on the area and lowers the mask.  The forms  *)
(* differ in which of these steps they take, and are told apart by a       *)
(* record of them; what an answer looks like is left out.                  *)
(***************************************************************************)
EXTENDS Browser, Sequences, FiniteSets, SequencesExt

------------------------------------------------------------------------------
\* What an answer can be: code 1 with data, another code, code 1 without what
\* the code reads of it, and what jQuery hands to the error callback.
Kinds == {"found", "missing", "null", "failed"}

\* What a callback does: empty the area, write on it or on the table in it,
\* lower the mask, enable the button.
Silent   == [wipes |-> FALSE, writes |-> "nowhere", unmasks |-> FALSE, enables |-> FALSE]
Unmasks  == [Silent EXCEPT !.unmasks = TRUE]
Appends  == [Unmasks EXCEPT !.writes = "area"]
Replaces == [Appends EXCEPT !.wipes = TRUE]
Wipes    == [Silent EXCEPT !.wipes = TRUE]   \* and throws
Enabling(effect) == [effect EXCEPT !.enables = TRUE]

\* The form most of these handlers are: an exception on the way out of the
\* success callback leaves the mask up, for jQuery calls nothing after it.
Plain == [handlers |-> 1, checks |-> FALSE, swallows |-> FALSE, wipes |-> TRUE,
          masks |-> TRUE, disables |-> FALSE,
          on |-> [found |-> Appends, missing |-> Appends, null |-> Silent,
                  failed |-> Unmasks]]
\* The same, writing with html().
Written == [Plain EXCEPT !.on.found = Replaces, !.on.missing = Replaces]
Kept(form) == [form EXCEPT !.wipes = FALSE]
\* A failure has no data, and these read it before they look at the code.
Eager == [Plain EXCEPT !.on.missing = Silent]
\* These put what is not found in one variable and append another.
Unsaid == [Plain EXCEPT !.on.missing = Unmasks]

\* Mutant: the call of empty() is gone.
lemonSubmit39Kept == Kept(Plain)
\* Mutant: the error callback does not lower the mask.
lemonSubmit37Deaf == [Plain EXCEPT !.on.failed = Silent]
\* Mutant: the mask is not raised.
SubmitSearchBare == [Plain EXCEPT !.masks = FALSE]

\* LMall.js.  courtB: the empty() is commented out.
courtB                == Kept(Plain)
lemonSubmit39         == Plain
lemonSubmit37         == Plain
SubmitSearch          == Plain
blackListSubmit       == Plain
multiSubmit           == Plain
loanOverdueSubmit     == Plain
blackListCheatSubmit  == Plain
Negative              == Plain
GambingDrug           == Plain
inquire               == Plain
inquireA              == Plain
p2p                   == Plain
court                 == Plain
phoneQuery            == Plain
address               == Plain
baiduQuery            == Plain
sumbitforsapply       == Plain
sumbitthree           == Plain
lemonSubmittwo        == Plain
lemonSubmitone        == Eager
SubmitBlacklist       == Written
SubmitNameQuery       == Plain
SubmitBindInfo        == Kept(Plain)
\* What is not found is written on #resultBindInfo, of another page.
SubmitPhoneActive     == [Kept(Written) EXCEPT !.on.missing = Unmasks]
\* Found: in the table; not found: in the table's place.
SubmitPhoneInfo       == [Kept(Written) EXCEPT
                            !.on.found = [Appends EXCEPT !.writes = "table"]]
SubmitPhoneLines      == Kept(Written)
SubmitMoble           == Kept(Written)
SubmitMoble1          == Kept(Written)
SubmitPhoto           == Written
lemonSubmitsys        == Unsaid
lemonSubmitsy         == Eager
SubmitBankcard4item   == Unsaid
SubmitNamePhoneCheck  == Plain
SubmitAccountVerify   == Plain
SubmitAccountVerifyM  == Plain
SubmitIdNameCheck     == Plain
\* The click writes that the query runs, which an error leaves there.
Relational            == [Written EXCEPT !.on.null = Unmasks]

\* LMTwice.js, which wlPhone.jsp loads a second time.
SubmitMobleOne ==
  [Kept(Written) EXCEPT !.handlers = 2, !.masks = FALSE, !.on.null = Wipes,
                        !.on.failed = Silent]
\* What is found is written to the console only.
SubmitloanPhone       == [Kept(Plain) EXCEPT !.on.found = Unmasks]
submitquery           == [Kept(Written) EXCEPT !.on.null = Wipes]

\* LMThird.js.
SubmitAccountVerifyF  == Plain
lemonSub              == [Plain EXCEPT !.checks = TRUE]

\* mobile.js: each() of a failure's missing data throws.
submits ==
  [Kept(Plain) EXCEPT
     !.checks = TRUE, !.disables = TRUE,
     !.on = [found |-> Enabling(Replaces), missing |-> Wipes, null |-> Wipes,
             failed |-> Enabling(Unmasks)]]
\* phoneuser.js: only a result that is not empty enables the button again.
submitss ==
  [submits EXCEPT !.on.missing = Replaces]
\* userIdCard.js disables #submit, which is none of this page's.
submitCard ==
  [Kept(Written) EXCEPT !.checks = TRUE, !.on.null = Replaces]

\* honggu.js, which with qqQuery.js handles #submitQQ, one function for each
\* radio button.  The error callbacks leave the button disabled.
ByRadio == [Plain EXCEPT !.disables = TRUE, !.on.found = Enabling(Appends),
                         !.on.missing = Enabling(Appends)]
qqtopyw     == [ByRadio EXCEPT !.checks = TRUE]
qqtowb      == [ByRadio EXCEPT !.checks = TRUE]
qqtosession == [ByRadio EXCEPT !.checks = TRUE, !.on.null = Enabling(Appends)]
qqtotalk    == [ByRadio EXCEPT !.checks = TRUE]
pywtoqq     == ByRadio
wbtoqq      == ByRadio
phonetoqq   == [ByRadio EXCEPT !.checks = TRUE, !.on.null = Enabling(Appends)]

\* qqQuery.js.  An empty field is not asked about, with the mask up by then.
readQQBaseQun ==
  [ByRadio EXCEPT !.swallows = TRUE,
     !.on = [found |-> Enabling(Replaces), missing |-> Enabling(Replaces),
             null |-> Enabling(Replaces), failed |-> Unmasks]]
searchQQ     == readQQBaseQun
searchQQNick == [readQQBaseQun EXCEPT !.swallows = FALSE]

Forms ==
  [courtB |-> courtB, lemonSubmit39 |-> lemonSubmit39,
   lemonSubmit37 |-> lemonSubmit37, SubmitSearch |-> SubmitSearch,
   blackListSubmit |-> blackListSubmit, multiSubmit |-> multiSubmit,
   loanOverdueSubmit |-> loanOverdueSubmit,
   blackListCheatSubmit |-> blackListCheatSubmit, Negative |-> Negative,
   GambingDrug |-> GambingDrug, inquire |-> inquire, inquireA |-> inquireA,
   p2p |-> p2p, court |-> court, phoneQuery |-> phoneQuery,
   address |-> address, baiduQuery |-> baiduQuery,
   sumbitforsapply |-> sumbitforsapply, sumbitthree |-> sumbitthree,
   lemonSubmittwo |-> lemonSubmittwo, lemonSubmitone |-> lemonSubmitone,
   SubmitBlacklist |-> SubmitBlacklist, SubmitNameQuery |-> SubmitNameQuery,
   SubmitBindInfo |-> SubmitBindInfo, SubmitPhoneActive |-> SubmitPhoneActive,
   SubmitPhoneInfo |-> SubmitPhoneInfo, SubmitPhoneLines |-> SubmitPhoneLines,
   SubmitMoble |-> SubmitMoble, SubmitMoble1 |-> SubmitMoble1,
   SubmitPhoto |-> SubmitPhoto, lemonSubmitsys |-> lemonSubmitsys,
   lemonSubmitsy |-> lemonSubmitsy, SubmitBankcard4item |-> SubmitBankcard4item,
   SubmitNamePhoneCheck |-> SubmitNamePhoneCheck,
   SubmitAccountVerify |-> SubmitAccountVerify,
   SubmitAccountVerifyM |-> SubmitAccountVerifyM,
   SubmitIdNameCheck |-> SubmitIdNameCheck, Relational |-> Relational,
   SubmitMobleOne |-> SubmitMobleOne, SubmitloanPhone |-> SubmitloanPhone,
   submitquery |-> submitquery, SubmitAccountVerifyF |-> SubmitAccountVerifyF,
   lemonSub |-> lemonSub, submits |-> submits, submitss |-> submitss,
   submitCard |-> submitCard, qqtopyw |-> qqtopyw, qqtowb |-> qqtowb,
   qqtosession |-> qqtosession, qqtotalk |-> qqtotalk, pywtoqq |-> pywtoqq,
   wbtoqq |-> wbtoqq, phonetoqq |-> phonetoqq, readQQBaseQun |-> readQQBaseQun,
   searchQQ |-> searchQQ, searchQQNick |-> searchQQNick]

Names == DOMAIN Forms
BankCard == {"lemonSub", "submitquery"}
QQ == {"qqtopyw", "qqtowb", "qqtosession", "qqtotalk", "pywtoqq", "wbtoqq",
       "phonetoqq", "readQQBaseQun", "searchQQ", "searchQQNick"}
Pages == {{f} : f \in Names \ (BankCard \cup QQ)} \cup {BankCard, QQ}

------------------------------------------------------------------------------
VARIABLES
  page,       \* the forms of the page that is open
  disabled,   \* the button is
  waiting,    \* the requests that are not answered
  shown,      \* the answers in the result area, in order
  tableLeft,  \* the area still has the table of the page
  nextQQNick, \* #nextQQNick is shown
  said,       \* history: what the last query was answered
  overlap,    \* history: how a query was first sent while another waited,
              \* since a query was last sent while none did
  spoilt      \* history: what happened that the code does not get over

formOwn == <<page, disabled, waiting, shown, tableLeft, nextQQNick, said, overlap,
             spoilt>>
formVars == <<browserVars, formOwn>>

Requests == [no : 1..MaxPresses, form : Names, handler : 1..2]

FormTypeOK ==
  /\ page \in Pages
  /\ mask \in BOOLEAN /\ disabled \in BOOLEAN
  /\ tableLeft \in BOOLEAN /\ nextQQNick \in BOOLEAN
  /\ presses \in 0..MaxPresses
  /\ waiting \in SUBSET Requests
  /\ shown \in Seq([no : 1..MaxPresses, kind : Kinds])
  /\ said \in SUBSET Kinds
  /\ overlap \in {"none", "mouse", "key"}
  /\ spoilt \in BOOLEAN

FormInit ==
  /\ BrowserInit
  /\ page \in Pages
  /\ disabled = FALSE /\ tableLeft = TRUE /\ nextQQNick = FALSE
  /\ waiting = {}
  /\ shown = <<>>
  /\ said = {}
  /\ overlap = "none"
  /\ spoilt = FALSE

Press(f, how) ==
  /\ f \in page
  /\ Reaches(how) /\ ~disabled
  /\ CountPress
  /\ waiting' = waiting \cup
       {[no |-> presses + 1, form |-> f, handler |-> h] :
          h \in 1..Forms[f].handlers}
  /\ shown' = IF Forms[f].wipes THEN <<>> ELSE shown
  /\ mask' = (mask \/ Forms[f].masks)
  /\ disabled' = (disabled \/ Forms[f].disables)
  /\ nextQQNick' = FALSE
  /\ said' = {}
  /\ overlap' = IF waiting = {} THEN "none"
                ELSE IF overlap = "none" THEN how ELSE overlap
  /\ UNCHANGED <<page, tableLeft, spoilt>>

\* The form does not accept its fields and asks nothing.
Refuse(f, how) ==
  /\ f \in page /\ Forms[f].checks
  /\ Reaches(how) /\ ~disabled
  /\ shown' = IF Forms[f].wipes THEN <<>> ELSE shown
  /\ nextQQNick' = FALSE
  /\ said' = {}
  /\ UNCHANGED <<page, mask, disabled, presses, waiting, tableLeft, overlap, spoilt>>

\* The handler of an empty field: everything but the request.
Swallow(f, how) ==
  /\ f \in page /\ Forms[f].swallows
  /\ Reaches(how) /\ ~disabled
  /\ shown' = IF Forms[f].wipes THEN <<>> ELSE shown
  /\ mask' = TRUE /\ disabled' = TRUE
  /\ nextQQNick' = FALSE
  /\ said' = {} /\ spoilt' = TRUE
  /\ UNCHANGED <<page, presses, waiting, tableLeft, overlap>>

\* #nextQQNick: the radio button by now may be another, and if it is none of
\* qqQuery.js, or the field is empty, nothing is asked, with the mask up and
\* the button disabled.
NextQQNick(f, how) ==
  \E asks \in BOOLEAN :
     /\ asks => f \in {"readQQBaseQun", "searchQQ", "searchQQNick"}
     /\ f = "searchQQNick" => asks
     /\ f \in page /\ nextQQNick
     /\ Reaches(how)
     /\ CountPress
     /\ waiting' = waiting \cup
          {[no |-> presses + 1, form |-> f, handler |-> h] : h \in {n \in {1} : asks}}
     /\ shown' = <<>>
     /\ mask' = TRUE /\ disabled' = TRUE
     /\ nextQQNick' = FALSE
     /\ said' = {}
     /\ overlap' = IF waiting = {} THEN "none"
                   ELSE IF overlap = "none" THEN how ELSE overlap
     /\ spoilt' = (spoilt \/ ~asks)
     /\ UNCHANGED <<page, tableLeft>>

Result(effect, entry) ==
  LET base == IF effect.wipes THEN <<>> ELSE shown
  IN CASE effect.writes = "area"    -> Append(base, entry)
       [] effect.writes = "table"   -> IF tableLeft THEN <<entry>> ELSE base
       [] effect.writes = "nowhere" -> base

\* What the code does not get over: data that is not there, a failure for the
\* forms that read its data first, a number mobile.js and phoneuser.js do not
\* find, an error for honggu.js and qqQuery.js.
Spoils(f, kind) ==
  \/ kind = "null"
  \/ kind = "missing" /\ f \in {"lemonSubmitone", "lemonSubmitsy", "submits", "submitss"}
  \/ kind = "failed" /\ f \in QQ

\* The success or the error callback of a request.
Answer(r, kind) ==
  LET effect == Forms[r.form].on[kind]
  IN /\ r \in waiting
     /\ waiting' = waiting \ {r}
     /\ shown' = Result(effect, [no |-> r.no, kind |-> kind])
     /\ tableLeft' = (tableLeft /\ ~effect.wipes)
     /\ mask' = (mask /\ ~effect.unmasks)
     /\ disabled' = (disabled /\ ~effect.enables)
     /\ nextQQNick' \in IF r.form = "searchQQNick" /\ kind = "found"
                       THEN BOOLEAN ELSE {nextQQNick}
     /\ said' = IF r.no = presses THEN said \cup {kind} ELSE said
     /\ spoilt' = (spoilt \/ Spoils(r.form, kind))
     /\ UNCHANGED <<page, presses, overlap>>

Answered == \E r \in waiting, kind \in Kinds : Answer(r, kind)

FormNext ==
  \/ \E f \in page, how \in Ways :
       \/ Press(f, how) \/ Refuse(f, how) \/ Swallow(f, how)
       \/ NextQQNick(f, how)
  \/ Answered

FormSpec == FormInit /\ [][FormNext]_formVars

\* The browser calls one of the callbacks of each request.
FairFormSpec == FormSpec /\ WF_formVars(Answered)

------------------------------------------------------------------------------
\* Without the keyboard no two queries of a page wait at a time: between a
\* press and its answer the mask is up or the button disabled, whatever came
\* before.  wlPhone.jsp raises no mask.
OnlyKeysOverlap ==
  overlap = "mouse" => page = {"SubmitMobleOne"}

\* The forms that gather their results, or write some where they are not seen.
Gathers == {"courtB", "SubmitBindInfo", "SubmitloanPhone", "SubmitPhoneActive",
            "SubmitPhoneInfo"}

\* The forms that say nothing when nothing is found.
Mute == {"lemonSubmitone", "lemonSubmitsys", "lemonSubmitsy",
         "SubmitBankcard4item", "submits"}

\* Once a query is answered, found or not, the page shows no other query's
\* answer, however many came before, unless queries overlapped; and its own,
\* but for the forms that never say that nothing was found.
LastAnswerShown ==
  waiting = {} /\ overlap = "none" /\ page \cap Gathers = {}
    /\ said # {} /\ said \subseteq {"found", "missing"}
  => /\ "found" \in said \/ page \cap Mute = {} => shown # <<>>
     /\ \A e \in ToSet(shown) : e.no = presses

\* The page can be used again after each query, also one that fails, unless
\* an answer came that its callback cannot get over.
FormRecovers ==
  (mask \/ disabled) ~> (~mask /\ ~disabled) \/ spoilt
==============================================================================
