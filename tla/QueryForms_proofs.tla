-------------------------- MODULE QueryForms_proofs --------------------------
(***************************************************************************)
(* For any number of presses: only keys make two queries of a page wait at *)
(* a time, and the last answer is shown.                                   *)
(***************************************************************************)
EXTENDS QueryForms, SequenceTheorems, TLAPS

USE PressesAreCounted

Moble == "SubmitMobleOne"
Told == {"found", "missing"}

------------------------------------------------------------------------------
\* What the invariants need to know of a form.
Shape(form, name) ==
  /\ form.handlers \in {1, 2}
  /\ name # Moble => form.handlers = 1 /\ form.masks
  /\ \A k \in Kinds : form.on[k].writes \in {"area", "table", "nowhere"}
  /\ name \notin Gathers => \A k \in Told :
       /\ \/ form.on[k].writes = "area"
          \/ k = "missing" /\ name \in Mute /\ form.on[k].writes = "nowhere"
       /\ form.on[k].wipes \/ (form.wipes /\ form.handlers = 1)

LEMMA Effects ==
  /\ Silent.writes = "nowhere" /\ Unmasks.writes = "nowhere"
  /\ Wipes.writes = "nowhere" /\ Wipes.wipes
  /\ Appends.writes = "area"
  /\ Replaces.writes = "area" /\ Replaces.wipes
BY DEF Silent, Unmasks, Appends, Replaces, Wipes

LEMMA EnablingKeeps ==
  /\ Enabling(Unmasks).writes = "nowhere"
  /\ Enabling(Appends).writes = "area"
  /\ Enabling(Replaces).writes = "area" /\ Enabling(Replaces).wipes
BY DEF Enabling, Silent, Unmasks, Appends, Replaces

LEMMA PlainIs ==
  /\ Plain.handlers = 1 /\ Plain.masks /\ Plain.wipes
  /\ Plain.on["found"] = Appends /\ Plain.on["missing"] = Appends
  /\ Plain.on["null"] = Silent /\ Plain.on["failed"] = Unmasks
BY DEF Plain

LEMMA WrittenIs ==
  /\ Written.handlers = 1 /\ Written.masks /\ Written.wipes
  /\ Written.on["found"] = Replaces /\ Written.on["missing"] = Replaces
  /\ Written.on["null"] = Silent /\ Written.on["failed"] = Unmasks
BY DEF Plain, Written

LEMMA KeptIs ==
  /\ Kept(Plain).handlers = 1 /\ Kept(Plain).masks
  /\ Kept(Plain).on = Plain.on
  /\ Kept(Written).handlers = 1 /\ Kept(Written).masks
  /\ Kept(Written).on = Written.on
BY DEF Kept, Plain, Written

LEMMA EagerIs ==
  /\ Eager.handlers = 1 /\ Eager.masks /\ Eager.wipes
  /\ Eager.on["found"] = Appends /\ Eager.on["missing"] = Silent
  /\ Eager.on["null"] = Silent /\ Eager.on["failed"] = Unmasks
BY DEF Eager, Plain

LEMMA UnsaidIs ==
  /\ Unsaid.handlers = 1 /\ Unsaid.masks /\ Unsaid.wipes
  /\ Unsaid.on["found"] = Appends /\ Unsaid.on["missing"] = Unmasks
  /\ Unsaid.on["null"] = Silent /\ Unsaid.on["failed"] = Unmasks
BY DEF Unsaid, Plain

LEMMA PlainShape == \A n : Shape(Plain, n)
BY PlainIs, Effects DEF Shape, Kinds, Told

LEMMA WrittenShape == \A n : Shape(Written, n)
BY WrittenIs, Effects DEF Shape, Kinds, Told

LEMMA KeptWrittenShape == \A n : Shape(Kept(Written), n)
BY WrittenIs, KeptIs, Effects DEF Shape, Kinds, Told

LEMMA KeptPlainShape == \A n \in Gathers : Shape(Kept(Plain), n)
BY PlainIs, KeptIs, Effects DEF Shape, Kinds, Gathers, Moble

LEMMA EagerShape == \A n \in Mute : Shape(Eager, n)
BY EagerIs, Effects DEF Shape, Kinds, Told, Mute, Moble

LEMMA UnsaidShape == \A n \in Mute : Shape(Unsaid, n)
BY UnsaidIs, Effects DEF Shape, Kinds, Told, Mute, Moble

\* The forms that are one of these, and those that are not.
Others == {Moble, "SubmitPhoneActive", "SubmitPhoneInfo", "Relational",
           "submitquery", "lemonSub", "submits", "submitss", "submitCard",
           "SubmitloanPhone"}
EagerForms == {"lemonSubmitone", "lemonSubmitsy"}
UnsaidForms == {"lemonSubmitsys", "SubmitBankcard4item"}

LEMMA MostForms ==
  \A f \in Names \ (Others \cup QQ) :
    \/ Forms[f] \in {Plain, Written, Kept(Written)}
    \/ f \in Gathers /\ Forms[f] = Kept(Plain)
    \/ f \in EagerForms /\ Forms[f] = Eager
    \/ f \in UnsaidForms /\ Forms[f] = Unsaid
BY DEF Forms, Names, Others, QQ, Moble, Gathers, EagerForms, UnsaidForms, courtB, lemonSubmit39,
  lemonSubmit37, SubmitSearch, blackListSubmit, multiSubmit,
  loanOverdueSubmit, blackListCheatSubmit, Negative, GambingDrug, inquire,
  inquireA, p2p, court, phoneQuery, address, baiduQuery, sumbitforsapply,
  sumbitthree, lemonSubmittwo, lemonSubmitone, SubmitBlacklist,
  SubmitNameQuery, SubmitBindInfo, SubmitPhoneLines, SubmitMoble,
  SubmitMoble1, SubmitPhoto, lemonSubmitsys, lemonSubmitsy,
  SubmitBankcard4item, SubmitNamePhoneCheck, SubmitAccountVerify,
  SubmitAccountVerifyM, SubmitIdNameCheck, SubmitAccountVerifyF

LEMMA OtherForms == \A f \in Others : Shape(Forms[f], f)
<1>1. Shape(SubmitMobleOne, Moble)
  <2>1. SubmitMobleOne.handlers = 2
    BY DEF SubmitMobleOne, Kept, Written, Plain
  <2>2. /\ SubmitMobleOne.on["found"] = Replaces
        /\ SubmitMobleOne.on["missing"] = Replaces
    BY DEF SubmitMobleOne, Kept, Written, Plain
  <2>3. /\ SubmitMobleOne.on["null"] = Wipes
        /\ SubmitMobleOne.on["failed"] = Silent
    BY DEF SubmitMobleOne, Kept, Written, Plain
  <2>4. QED
    BY <2>1, <2>2, <2>3, Effects DEF Shape, Kinds, Told
<1>2. Shape(SubmitPhoneActive, "SubmitPhoneActive")
  <2>1. /\ SubmitPhoneActive.handlers = 1 /\ SubmitPhoneActive.masks
        /\ SubmitPhoneActive.on["found"] = Replaces
        /\ SubmitPhoneActive.on["missing"] = Unmasks
        /\ SubmitPhoneActive.on["null"] = Silent
        /\ SubmitPhoneActive.on["failed"] = Unmasks
    BY DEF SubmitPhoneActive, Kept, Written, Plain
  <2>2. QED
    BY <2>1, Effects DEF Shape, Kinds, Gathers
<1>3. Shape(SubmitPhoneInfo, "SubmitPhoneInfo")
  <2>1. /\ SubmitPhoneInfo.handlers = 1 /\ SubmitPhoneInfo.masks
        /\ SubmitPhoneInfo.on["found"] = [Appends EXCEPT !.writes = "table"]
        /\ SubmitPhoneInfo.on["missing"] = Replaces
        /\ SubmitPhoneInfo.on["null"] = Silent
        /\ SubmitPhoneInfo.on["failed"] = Unmasks
    BY DEF SubmitPhoneInfo, Kept, Written, Plain
  <2>2. [Appends EXCEPT !.writes = "table"].writes = "table"
    BY DEF Appends, Unmasks, Silent
  <2>3. QED
    BY <2>1, <2>2, Effects DEF Shape, Kinds, Gathers
<1>4. Shape(Relational, "Relational")
  <2>1. /\ Relational.handlers = 1 /\ Relational.masks
        /\ Relational.on["found"] = Replaces
        /\ Relational.on["missing"] = Replaces
        /\ Relational.on["null"] = Unmasks /\ Relational.on["failed"] = Unmasks
    BY DEF Relational, Written, Plain
  <2>2. QED
    BY <2>1, Effects DEF Shape, Kinds, Told
<1>5. Shape(submitquery, "submitquery")
  <2>1. /\ submitquery.handlers = 1 /\ submitquery.masks
        /\ submitquery.on["found"] = Replaces
        /\ submitquery.on["missing"] = Replaces
        /\ submitquery.on["null"] = Wipes /\ submitquery.on["failed"] = Unmasks
    BY DEF submitquery, Kept, Written, Plain
  <2>2. QED
    BY <2>1, Effects DEF Shape, Kinds, Told
<1>6. Shape(lemonSub, "lemonSub")
  <2>1. /\ lemonSub.handlers = 1 /\ lemonSub.masks /\ lemonSub.wipes
        /\ lemonSub.on = Plain.on
    BY DEF lemonSub, Plain
  <2>2. QED
    BY <2>1, PlainIs, Effects DEF Shape, Kinds, Told
<1>7. Shape(submits, "submits") /\ Shape(submitss, "submitss")
  <2>1. /\ submits.handlers = 1 /\ submits.masks
        /\ submits.on["found"] = Enabling(Replaces)
        /\ submits.on["missing"] = Wipes /\ submits.on["null"] = Wipes
        /\ submits.on["failed"] = Enabling(Unmasks)
    BY DEF submits, Kept, Plain
  <2>2. /\ submitss.handlers = 1 /\ submitss.masks
        /\ submitss.on["found"] = Enabling(Replaces)
        /\ submitss.on["missing"] = Replaces /\ submitss.on["null"] = Wipes
        /\ submitss.on["failed"] = Enabling(Unmasks)
    BY DEF submits, submitss, Kept, Plain
  <2>3. QED
    BY <2>1, <2>2, Effects, EnablingKeeps DEF Shape, Kinds, Told, Mute
<1>8. Shape(submitCard, "submitCard")
  <2>1. /\ submitCard.handlers = 1 /\ submitCard.masks
        /\ submitCard.on["found"] = Replaces
        /\ submitCard.on["missing"] = Replaces
        /\ submitCard.on["null"] = Replaces /\ submitCard.on["failed"] = Unmasks
    BY DEF submitCard, Kept, Written, Plain
  <2>2. QED
    BY <2>1, Effects DEF Shape, Kinds, Told
<1>9. Shape(SubmitloanPhone, "SubmitloanPhone")
  <2>1. /\ SubmitloanPhone.handlers = 1 /\ SubmitloanPhone.masks
        /\ SubmitloanPhone.on["found"] = Unmasks
        /\ SubmitloanPhone.on["missing"] = Appends
        /\ SubmitloanPhone.on["null"] = Silent
        /\ SubmitloanPhone.on["failed"] = Unmasks
    BY DEF SubmitloanPhone, Kept, Plain
  <2>2. QED
    BY <2>1, Effects DEF Shape, Kinds, Gathers
<1>10. QED
  BY <1>1, <1>2, <1>3, <1>4, <1>5, <1>6, <1>7, <1>8, <1>9 DEF Others, Forms, Moble

LEMMA QQForms == \A f \in QQ : Shape(Forms[f], f)
<1>1. /\ ByRadio.handlers = 1 /\ ByRadio.masks /\ ByRadio.wipes
      /\ ByRadio.on["found"] = Enabling(Appends)
      /\ ByRadio.on["missing"] = Enabling(Appends)
      /\ ByRadio.on["null"] = Silent /\ ByRadio.on["failed"] = Unmasks
  BY DEF ByRadio, Plain
<1>2. Enabling(Appends).writes = "area" /\ Enabling(Replaces).writes = "area"
  BY EnablingKeeps
<1>3. \A f \in {"qqtopyw", "qqtowb", "qqtotalk", "pywtoqq", "wbtoqq"} :
        /\ Forms[f].handlers = 1 /\ Forms[f].masks /\ Forms[f].wipes
        /\ Forms[f].on = ByRadio.on
  <2>1. /\ qqtopyw.handlers = 1 /\ qqtopyw.masks /\ qqtopyw.wipes
        /\ qqtopyw.on = ByRadio.on
    BY DEF qqtopyw, ByRadio, Plain
  <2>2. qqtowb = qqtopyw /\ qqtotalk = qqtopyw
    BY DEF qqtopyw, qqtowb, qqtotalk
  <2>3. QED
    BY <1>1, <2>1, <2>2 DEF Forms, pywtoqq, wbtoqq
<1>4. \A f \in {"qqtosession", "phonetoqq"} :
        /\ Forms[f].handlers = 1 /\ Forms[f].masks /\ Forms[f].wipes
        /\ Forms[f].on["found"] = Enabling(Appends)
        /\ Forms[f].on["missing"] = Enabling(Appends)
        /\ Forms[f].on["null"] = Enabling(Appends)
        /\ Forms[f].on["failed"] = Unmasks
  <2>1. /\ qqtosession.handlers = 1 /\ qqtosession.masks /\ qqtosession.wipes
        /\ qqtosession.on["found"] = Enabling(Appends)
        /\ qqtosession.on["missing"] = Enabling(Appends)
        /\ qqtosession.on["null"] = Enabling(Appends)
        /\ qqtosession.on["failed"] = Unmasks
    BY DEF qqtosession, ByRadio, Plain
  <2>2. phonetoqq = qqtosession
    BY DEF phonetoqq, qqtosession
  <2>3. QED
    BY <2>1, <2>2 DEF Forms
<1>5. \A f \in {"readQQBaseQun", "searchQQ", "searchQQNick"} :
        /\ Forms[f].handlers = 1 /\ Forms[f].masks /\ Forms[f].wipes
        /\ Forms[f].on["found"] = Enabling(Replaces)
        /\ Forms[f].on["missing"] = Enabling(Replaces)
        /\ Forms[f].on["null"] = Enabling(Replaces)
        /\ Forms[f].on["failed"] = Unmasks
  <2>1. /\ readQQBaseQun.handlers = 1 /\ readQQBaseQun.masks /\ readQQBaseQun.wipes
        /\ readQQBaseQun.on["found"] = Enabling(Replaces)
        /\ readQQBaseQun.on["missing"] = Enabling(Replaces)
        /\ readQQBaseQun.on["null"] = Enabling(Replaces)
        /\ readQQBaseQun.on["failed"] = Unmasks
    BY DEF readQQBaseQun, ByRadio, Plain
  <2>2. /\ searchQQNick.handlers = 1 /\ searchQQNick.masks /\ searchQQNick.wipes
        /\ searchQQNick.on = readQQBaseQun.on
    BY DEF searchQQNick, readQQBaseQun, ByRadio, Plain
  <2>3. QED
    BY <2>1, <2>2 DEF Forms, searchQQ
<1>6. \A f \in QQ : f \in {"qqtopyw", "qqtowb", "qqtotalk", "pywtoqq", "wbtoqq"}
                     \/ f \in {"qqtosession", "phonetoqq"}
                     \/ f \in {"readQQBaseQun", "searchQQ", "searchQQNick"}
  BY DEF QQ
<1>7. ASSUME NEW f \in QQ PROVE Shape(Forms[f], f)
  BY <1>1, <1>2, <1>3, <1>4, <1>5, <1>6, Effects, EnablingKeeps
  DEF Shape, Kinds, Told
<1>8. QED
  BY <1>7

LEMMA FormShape == \A f \in Names : Shape(Forms[f], f)
BY MostForms, OtherForms, QQForms, PlainShape, WrittenShape, KeptWrittenShape,
   KeptPlainShape, EagerShape, UnsaidShape DEF EagerForms, UnsaidForms, Mute

LEMMA PagesHaveForms ==
  ASSUME NEW p \in Pages
  PROVE  p \subseteq Names /\ (Moble \in p => p = {Moble})
BY DEF Pages, BankCard, QQ, Moble, Names, Forms

------------------------------------------------------------------------------
\* Requests are of forms of the page.
AskedHere == \A r \in waiting : r.form \in page

\* Until queries overlap, at most one waits, and the mask is up.
OneWaits ==
  overlap = "none" /\ page # {Moble}
    => /\ \A r, s \in waiting : r = s
       /\ waiting # {} => mask

\* The page is calm and gathers nothing.
Calm == overlap = "none" /\ page \cap Gathers = {}

\* Nothing older is in the area, or what comes next replaces it.
NoOlder ==
  Calm =>
    /\ \A r \in waiting : r.no = presses
    /\ page # {Moble} /\ waiting # {} => said = {}
    /\ \A r \in waiting :
         Forms[r.form].wipes /\ Forms[r.form].handlers = 1 => shown = <<>>
    /\ said # {} /\ said \subseteq Told =>
         /\ "found" \in said \/ page \cap Mute = {} => shown # <<>>
         /\ \A i \in 1..Len(shown) : shown[i].no = presses

\* #nextQQNick is a button of one page.
NickHere == nextQQNick => page = QQ

Inv == FormTypeOK /\ AskedHere /\ NickHere /\ OnlyKeysOverlap /\ OneWaits /\ NoOlder

LEMMA InitInv == FormInit => Inv
<1> SUFFICES ASSUME FormInit PROVE Inv
  OBVIOUS
<1>1. shown \in Seq([no : 1..MaxPresses, kind : Kinds])
  BY EmptySeq DEF FormInit
<1>2. /\ presses = 0 /\ waiting = {} /\ said = {} /\ overlap = "none"
      /\ page \in Pages /\ nextQQNick = FALSE
  BY DEF FormInit, BrowserInit
<1>3. /\ mask \in BOOLEAN /\ disabled \in BOOLEAN /\ tableLeft \in BOOLEAN
      /\ nextQQNick \in BOOLEAN /\ spoilt \in BOOLEAN
  BY DEF FormInit, BrowserInit
<1>4. FormTypeOK
  BY <1>1, <1>2, <1>3 DEF FormTypeOK
<1>5. QED
  BY <1>2, <1>4 DEF Inv, AskedHere, NickHere, OnlyKeysOverlap, OneWaits, NoOlder

\* What a press of a button does to what the invariants speak of.
Pressed(f, how, asks) ==
  /\ Reaches(how)
  /\ page' = page /\ presses' = presses + 1 /\ presses < MaxPresses
  /\ waiting' = waiting \cup
       {[no |-> presses + 1, form |-> f, handler |-> h] :
          h \in {n \in 1..Forms[f].handlers : asks}}
  /\ shown' = <<>> \/ (shown' = shown /\ ~Forms[f].wipes)
  /\ f # Moble => mask'
  /\ said' = {}
  /\ overlap' = IF waiting = {} THEN "none"
                ELSE IF overlap = "none" THEN how ELSE overlap
  /\ disabled' \in BOOLEAN /\ mask' \in BOOLEAN
  /\ tableLeft' \in BOOLEAN /\ nextQQNick' = FALSE /\ spoilt' \in BOOLEAN

LEMMA PressIs ==
  ASSUME Inv, NEW f \in page, NEW how \in Ways, Press(f, how)
  PROVE  Pressed(f, how, TRUE)
<1>1. f \in Names /\ Shape(Forms[f], f)
  BY PagesHaveForms, FormShape DEF Inv, FormTypeOK
<1>2. {n \in 1..Forms[f].handlers : TRUE} = 1..Forms[f].handlers
  OBVIOUS
<1>3. mask' \in BOOLEAN /\ disabled' \in BOOLEAN /\ (f # Moble => mask')
  BY <1>1 DEF Press, Shape
<1>4. QED
  BY <1>2, <1>3 DEF Press, Pressed, CountPress, Inv, FormTypeOK

LEMMA NextQQNickIs ==
  ASSUME Inv, NEW f \in page, NEW how \in Ways, NextQQNick(f, how)
  PROVE  \E asks \in BOOLEAN : Pressed(f, how, asks)
<1>1. f \in QQ
  BY DEF NextQQNick, Inv, NickHere
<1>2. Forms[f].handlers = 1
  <2>1. f # Moble /\ Shape(Forms[f], f)
    BY <1>1, QQForms DEF QQ, Moble
  <2>2. QED
    BY <2>1 DEF Shape
<1>3. PICK asks \in BOOLEAN :
        /\ waiting' = waiting \cup
            {[no |-> presses + 1, form |-> f, handler |-> h] : h \in {n \in {1} : asks}}
        /\ spoilt' = (spoilt \/ ~asks)
  BY DEF NextQQNick
<1>4. {n \in 1..Forms[f].handlers : asks} = {n \in {1} : asks}
  BY <1>2
<1>5. /\ Reaches(how) /\ CountPress /\ shown' = <<>> /\ mask' /\ said' = {}
      /\ mask' \in BOOLEAN /\ disabled' \in BOOLEAN /\ nextQQNick' = FALSE
      /\ overlap' = IF waiting = {} THEN "none"
                    ELSE IF overlap = "none" THEN how ELSE overlap
      /\ UNCHANGED <<page, tableLeft>>
  BY DEF NextQQNick
<1>6. QED
  BY <1>3, <1>4, <1>5 DEF Pressed, CountPress, Inv, FormTypeOK

LEMMA PressStep ==
  ASSUME Inv, NEW f \in page, NEW how \in Ways, NEW asks \in BOOLEAN,
         Pressed(f, how, asks)
  PROVE  Inv'
<1> DEFINE new == {[no |-> presses + 1, form |-> f, handler |-> h] :
                     h \in {n \in 1..Forms[f].handlers : asks}}
<1>1. f \in Names /\ Shape(Forms[f], f) /\ (page # {Moble} => f # Moble)
  BY PagesHaveForms, FormShape DEF Inv, FormTypeOK
<1>2. new \subseteq Requests /\ \A r \in new : r.no = presses + 1 /\ r.form = f
  BY <1>1 DEF Shape, Requests, Pressed, Inv, FormTypeOK
<1>3. FormTypeOK'
  <2>1. shown' \in Seq([no : 1..MaxPresses, kind : Kinds])
    BY EmptySeq DEF Pressed, Inv, FormTypeOK
  <2>2. overlap' \in {"none", "mouse", "key"}
    BY DEF Pressed, Ways, Inv, FormTypeOK
  <2>3. waiting' \in SUBSET Requests
    BY <1>2 DEF Pressed, Inv, FormTypeOK
  <2>4. presses' \in 0..MaxPresses
    BY DEF Pressed, Inv, FormTypeOK
  <2>5. nextQQNick' \in BOOLEAN
    BY DEF Pressed
  <2>6. QED
    BY <2>1, <2>2, <2>3, <2>4, <2>5 DEF Pressed, Inv, FormTypeOK
<1>4. AskedHere'
  BY <1>2 DEF Pressed, Inv, AskedHere
<1>5. OnlyKeysOverlap' /\ NickHere'
  <2>1. NickHere'
    BY DEF Pressed, NickHere
  <2>2. CASE overlap = "none"
    <3>1. how = "mouse" => ~mask
      BY DEF Pressed, Reaches
    <3>2. page # {Moble} /\ waiting # {} => how # "mouse"
      BY <2>2, <3>1 DEF Inv, OneWaits
    <3>3. overlap' = IF waiting = {} THEN "none" ELSE how
      BY <2>2 DEF Pressed
    <3>4. QED
      BY <2>1, <3>2, <3>3 DEF OnlyKeysOverlap, Pressed, Moble
  <2>3. CASE overlap # "none"
    BY <2>1, <2>3 DEF Pressed, Inv, OnlyKeysOverlap
  <2>4. QED
    BY <2>2, <2>3
<1>6. CASE waiting # {}
  <2>1. overlap' # "none"
    BY <1>6 DEF Pressed, Ways
  <2>2. QED
    BY <1>3, <1>4, <1>5, <2>1 DEF Inv, OneWaits, NoOlder, Calm
<1>7. CASE waiting = {}
  <2>1. waiting' = new
    BY <1>7 DEF Pressed
  <2>2. OneWaits'
    <3>1. ASSUME page # {Moble} PROVE mask' /\ \A r, s \in new : r = s
      <4>1. Forms[f].handlers = 1 /\ mask'
        BY <1>1, <3>1 DEF Shape, Pressed
      <4>2. QED
        BY <4>1
    <3>2. QED
      BY <2>1, <3>1 DEF OneWaits, Pressed
  <2>3. NoOlder'
    <3>1. \A r \in waiting' : r.no = presses' /\ r.form = f
      BY <1>2, <2>1 DEF Pressed
    <3>2. Forms[f].wipes => shown' = <<>>
      BY DEF Pressed
    <3>3. said' = {}
      BY DEF Pressed
    <3>4. QED
      BY <3>1, <3>2, <3>3 DEF NoOlder
  <2>4. QED
    BY <1>3, <1>4, <1>5, <2>2, <2>3 DEF Inv
<1>8. QED
  BY <1>6, <1>7

\* A press that asks nothing.
LEMMA UnaskedStep ==
  ASSUME Inv, NEW f \in page, NEW how \in Ways,
         Refuse(f, how) \/ Swallow(f, how)
  PROVE  Inv'
<1>1. /\ UNCHANGED <<page, presses, waiting, tableLeft, overlap>>
      /\ said' = {} /\ nextQQNick' = FALSE
      /\ mask' \in BOOLEAN /\ (mask => mask')
      /\ disabled' \in BOOLEAN /\ spoilt' \in BOOLEAN
      /\ shown' \in {<<>>, shown}
  BY DEF Refuse, Swallow, Inv, FormTypeOK
<1>2. shown' \in Seq([no : 1..MaxPresses, kind : Kinds])
  BY <1>1, EmptySeq DEF Inv, FormTypeOK
<1>3. FormTypeOK'
  BY <1>1, <1>2 DEF Inv, FormTypeOK
<1>4. AskedHere' /\ NickHere' /\ OnlyKeysOverlap' /\ OneWaits'
  BY <1>1 DEF Inv, AskedHere, NickHere, OnlyKeysOverlap, OneWaits
<1>5. NoOlder'
  BY <1>1 DEF Inv, NoOlder, Calm
<1>6. QED
  BY <1>3, <1>4, <1>5 DEF Inv

LEMMA AnswerStep ==
  ASSUME Inv, NEW r \in waiting, NEW kind \in Kinds, Answer(r, kind)
  PROVE  Inv'
<1> DEFINE effect == Forms[r.form].on[kind]
           entry  == [no |-> r.no, kind |-> kind]
           base   == IF effect.wipes THEN <<>> ELSE shown
           Shown  == Seq([no : 1..MaxPresses, kind : Kinds])
<1>1. /\ r \in Requests /\ r.form \in page /\ r.form \in Names
      /\ Shape(Forms[r.form], r.form)
  BY PagesHaveForms, FormShape DEF Inv, FormTypeOK, AskedHere
<1>2. entry \in [no : 1..MaxPresses, kind : Kinds] /\ shown \in Shown /\ base \in Shown
  BY <1>1, EmptySeq DEF Requests, Inv, FormTypeOK
<1>3. shown' = Result(effect, entry)
  BY DEF Answer
<1>4. /\ effect.writes = "area" => shown' = Append(base, entry)
      /\ effect.writes = "table" => shown' = IF tableLeft THEN <<entry>> ELSE base
      /\ effect.writes = "nowhere" => shown' = base
  BY <1>3 DEF Result
<1>5. shown' \in Shown
  <2>1. effect.writes \in {"area", "table", "nowhere"}
    BY <1>1 DEF Shape
  <2>2. Append(base, entry) \in Shown /\ <<entry>> \in Shown
    BY <1>2
  <2>3. QED
    BY <1>2, <1>4, <2>1, <2>2
<1>6. /\ UNCHANGED <<page, presses, overlap>>
      /\ waiting' = waiting \ {r}
      /\ said' = IF r.no = presses THEN said \cup {kind} ELSE said
  BY DEF Answer
<1>7. FormTypeOK'
  <2>1. /\ tableLeft' \in BOOLEAN /\ mask' \in BOOLEAN /\ disabled' \in BOOLEAN
        /\ spoilt' \in BOOLEAN /\ nextQQNick' \in BOOLEAN
    BY DEF Answer, Inv, FormTypeOK
  <2>2. said' \in SUBSET Kinds /\ waiting' \in SUBSET Requests
    BY <1>6 DEF Inv, FormTypeOK
  <2>3. QED
    BY <1>5, <1>6, <2>1, <2>2 DEF Inv, FormTypeOK
<1>8. AskedHere' /\ NickHere' /\ OnlyKeysOverlap'
  <2>1. AskedHere' /\ OnlyKeysOverlap'
    BY <1>6 DEF Inv, AskedHere, OnlyKeysOverlap
  <2>2. NickHere'
    <3>1. nextQQNick' => nextQQNick \/ r.form = "searchQQNick"
      BY DEF Answer
    <3>2. "searchQQNick" \in page => page = QQ
      BY DEF Inv, FormTypeOK, Pages, BankCard, QQ
    <3>3. QED
      BY <1>1, <1>6, <3>1, <3>2 DEF Inv, NickHere
  <2>3. QED
    BY <2>1, <2>2
<1>9. overlap = "none" /\ page # {Moble} => waiting' = {}
  BY <1>6 DEF Inv, OneWaits
<1>10. OneWaits'
  BY <1>6, <1>9 DEF OneWaits
<1>11. NoOlder'
  <2> SUFFICES ASSUME Calm PROVE
        /\ \A s \in waiting' : s.no = presses
        /\ page # {Moble} /\ waiting' # {} => said' = {}
        /\ \A s \in waiting' :
             Forms[s.form].wipes /\ Forms[s.form].handlers = 1 => shown' = <<>>
        /\ said' # {} /\ said' \subseteq Told =>
             /\ "found" \in said' \/ page \cap Mute = {} => shown' # <<>>
             /\ \A i \in 1..Len(shown') : shown'[i].no = presses
    BY <1>6 DEF NoOlder, Calm
  <2>1. r.no = presses /\ \A s \in waiting' : s.no = presses
    BY <1>6 DEF Inv, NoOlder
  <2>2. page # {Moble} => waiting' = {}
    BY <1>9 DEF Calm
  <2>3. \A s \in waiting' :
          Forms[s.form].wipes /\ Forms[s.form].handlers = 1 => shown' = <<>>
    <3> SUFFICES ASSUME NEW s \in waiting' PROVE Forms[s.form].handlers # 1
      OBVIOUS
    <3>1. page = {Moble} /\ s.form = Moble
      BY <1>6, <2>2 DEF Inv, AskedHere
    <3>2. SubmitMobleOne.handlers = 2 /\ Forms[Moble] = SubmitMobleOne
      <4>1. SubmitMobleOne.handlers = 2
        BY DEF SubmitMobleOne, Kept, Written, Plain
      <4>2. QED
        BY <4>1 DEF Forms, Moble
    <3>3. QED
      BY <3>1, <3>2
  <2>4. ASSUME said' \subseteq Told
        PROVE  /\ "found" \in said' \/ page \cap Mute = {} => shown' # <<>>
               /\ \A i \in 1..Len(shown') : shown'[i].no = presses
    <3>1. kind \in Told
      BY <1>6, <2>1, <2>4
    <3>2. r.form \notin Gathers
      BY <1>1 DEF Calm
    <3>3. effect.wipes \/ (Forms[r.form].wipes /\ Forms[r.form].handlers = 1)
      BY <1>1, <3>1, <3>2 DEF Shape
    <3>4. base = <<>>
      BY <3>3 DEF Inv, NoOlder
    <3>5. CASE effect.writes = "area"
      <4>1. shown' = <<entry>>
        BY <1>4, <3>4, <3>5, <1>2
      <4>2. QED
        BY <4>1, <2>1
    <3>6. CASE effect.writes # "area"
      <4>1. kind = "missing" /\ r.form \in Mute /\ effect.writes = "nowhere"
        BY <1>1, <3>1, <3>2, <3>6 DEF Shape
      <4>2. shown' = <<>>
        BY <1>4, <3>4, <4>1
      <4>3. "found" \notin said'
        <5>1. page # {Moble}
          BY <1>1, <4>1 DEF Mute, Moble
        <5>2. said = {}
          BY <5>1 DEF Inv, NoOlder
        <5>3. QED
          BY <1>6, <4>1, <5>2
      <4>4. page \cap Mute # {}
        BY <1>1, <4>1
      <4>5. QED
        BY <4>2, <4>3, <4>4
    <3>7. QED
      BY <3>5, <3>6
  <2>5. QED
    BY <2>1, <2>2, <2>3, <2>4
<1>12. QED
  BY <1>7, <1>8, <1>10, <1>11 DEF Inv

LEMMA NextInv == Inv /\ [FormNext]_formVars => Inv'
<1> SUFFICES ASSUME Inv, [FormNext]_formVars PROVE Inv'
  OBVIOUS
<1>1. CASE UNCHANGED formVars
  BY <1>1 DEF formVars, formOwn, browserVars, Inv, FormTypeOK, AskedHere,
              NickHere, OnlyKeysOverlap, OneWaits, NoOlder, Calm
<1>2. ASSUME NEW f \in page, NEW how \in Ways,
             \/ Press(f, how) \/ Refuse(f, how) \/ Swallow(f, how)
             \/ NextQQNick(f, how)
      PROVE  Inv'
  <2>1. CASE Press(f, how)
    BY <2>1, PressIs, PressStep
  <2>2. CASE Refuse(f, how) \/ Swallow(f, how)
    BY <2>2, UnaskedStep
  <2>3. CASE NextQQNick(f, how)
    BY <2>3, NextQQNickIs, PressStep
  <2>4. QED
    BY <1>2, <2>1, <2>2, <2>3
<1>3. CASE Answered
  BY <1>3, AnswerStep DEF Answered
<1>4. QED
  BY <1>1, <1>2, <1>3 DEF FormNext

LEMMA InvHolds == FormSpec => []Inv
BY InitInv, NextInv, PTL DEF FormSpec

\* The types of the forms.
THEOREM FormTyping == FormSpec => []FormTypeOK
<1>1. Inv => FormTypeOK
  BY DEF Inv
<1>2. QED
  BY <1>1, InvHolds, PTL

\* The mask and the disabled button keep the mouse from sending a query while
\* another waits, on every page but wlPhone.jsp.
THEOREM MouseDoesNotOverlap == FormSpec => []OnlyKeysOverlap
<1>1. Inv => OnlyKeysOverlap
  BY DEF Inv
<1>2. QED
  BY <1>1, InvHolds, PTL

\* What is shown is the answer of the query that was pressed last; nothing is
\* shown only by a form that never says that nothing was found.
THEOREM AnswerIsOfLastPress == FormSpec => []LastAnswerShown
<1>1. ASSUME Inv PROVE LastAnswerShown
  <2> SUFFICES ASSUME Calm, said # {}, said \subseteq Told
               PROVE  /\ "found" \in said \/ page \cap Mute = {} => shown # <<>>
                      /\ \A e \in ToSet(shown) : e.no = presses
    BY DEF LastAnswerShown, Calm, Told
  <2>1. /\ "found" \in said \/ page \cap Mute = {} => shown # <<>>
        /\ \A i \in 1..Len(shown) : shown[i].no = presses
    BY <1>1 DEF Inv, NoOlder
  <2>2. ToSet(shown) = {shown[i] : i \in DOMAIN shown} /\ DOMAIN shown = 1..Len(shown)
    BY <1>1 DEF ToSet, Inv, FormTypeOK
  <2>3. QED
    BY <2>1, <2>2
<1>2. QED
  BY <1>1, InvHolds, PTL

------------------------------------------------------------------------------
\* The forms that disable their button, and what a form's callbacks do for
\* the page's return.
Disabling == {"submits", "submitss"} \cup QQ

Returns(form, name) ==
  /\ form.disables => name \in Disabling
  /\ name = Moble => ~form.masks
  /\ \A k \in Kinds : ~Spoils(name, k) =>
       /\ name # Moble => form.on[k].unmasks
       /\ name \in Disabling => form.on[k].enables

LEMMA Returning ==
  /\ Unmasks.unmasks /\ Appends.unmasks /\ Replaces.unmasks
  /\ Enabling(Unmasks).unmasks /\ Enabling(Unmasks).enables
  /\ Enabling(Appends).unmasks /\ Enabling(Appends).enables
  /\ Enabling(Replaces).unmasks /\ Enabling(Replaces).enables
BY DEF Enabling, Silent, Unmasks, Appends, Replaces

LEMMA MostReturn == \A f \in Names \ (Others \cup QQ) : Returns(Forms[f], f)
<1>1. \A form \in {Plain, Written, Kept(Plain), Kept(Written), Unsaid} :
        /\ ~form.disables
        /\ \A k \in Kinds \ {"null"} : form.on[k].unmasks
  <2>1. /\ ~Plain.disables /\ ~Written.disables /\ ~Unsaid.disables
        /\ ~Kept(Plain).disables /\ ~Kept(Written).disables
    BY DEF Plain, Written, Kept, Unsaid
  <2>2. QED
    BY <2>1, PlainIs, WrittenIs, KeptIs, UnsaidIs, Returning DEF Kinds
<1>2. ~Eager.disables /\ \A k \in Kinds \ {"missing", "null"} : Eager.on[k].unmasks
  <2>1. ~Eager.disables
    BY DEF Eager, Plain
  <2>2. QED
    BY <2>1, EagerIs, Returning DEF Kinds
<1>3. \A f \in Names \ (Others \cup QQ) : f # Moble /\ f \notin Disabling
  BY DEF Others, Disabling
<1>4. ASSUME NEW f \in Names \ (Others \cup QQ) PROVE Returns(Forms[f], f)
  <2>1. CASE f \in EagerForms /\ Forms[f] = Eager
    BY <1>2, <1>3, <2>1 DEF Returns, Spoils, EagerForms
  <2>2. CASE Forms[f] \in {Plain, Written, Kept(Plain), Kept(Written), Unsaid}
    BY <1>1, <1>3, <2>2 DEF Returns, Spoils
  <2>3. QED
    BY <2>1, <2>2, MostForms
<1>5. QED
  BY <1>4

LEMMA OthersReturn == \A f \in Others : Returns(Forms[f], f)
<1> USE DEF Returns, Spoils, Kinds, Disabling, QQ, Moble
<1>1. Returns(SubmitMobleOne, Moble)
  <2>1. ~SubmitMobleOne.masks /\ ~SubmitMobleOne.disables
    BY DEF SubmitMobleOne, Kept, Written, Plain
  <2>2. QED
    BY <2>1
<1>2. Returns(SubmitPhoneActive, "SubmitPhoneActive")
  <2>1. /\ ~SubmitPhoneActive.disables
        /\ SubmitPhoneActive.on["found"] = Replaces
        /\ SubmitPhoneActive.on["missing"] = Unmasks
        /\ SubmitPhoneActive.on["failed"] = Unmasks
    BY DEF SubmitPhoneActive, Kept, Written, Plain
  <2>2. QED
    BY <2>1, Returning
<1>3. Returns(SubmitPhoneInfo, "SubmitPhoneInfo")
  <2>1. /\ ~SubmitPhoneInfo.disables
        /\ SubmitPhoneInfo.on["found"].unmasks
        /\ SubmitPhoneInfo.on["missing"] = Replaces
        /\ SubmitPhoneInfo.on["failed"] = Unmasks
    BY DEF SubmitPhoneInfo, Kept, Written, Plain, Appends, Unmasks, Silent
  <2>2. QED
    BY <2>1, Returning
<1>4. Returns(Relational, "Relational")
  <2>1. /\ ~Relational.disables
        /\ Relational.on["found"] = Replaces /\ Relational.on["missing"] = Replaces
        /\ Relational.on["failed"] = Unmasks
    BY DEF Relational, Written, Plain
  <2>2. QED
    BY <2>1, Returning
<1>5. Returns(submitquery, "submitquery") /\ Returns(submitCard, "submitCard")
  <2>1. /\ ~submitquery.disables
        /\ submitquery.on["found"] = Replaces /\ submitquery.on["missing"] = Replaces
        /\ submitquery.on["failed"] = Unmasks
    BY DEF submitquery, Kept, Written, Plain
  <2>2. /\ ~submitCard.disables
        /\ submitCard.on["found"] = Replaces /\ submitCard.on["missing"] = Replaces
        /\ submitCard.on["failed"] = Unmasks
    BY DEF submitCard, Kept, Written, Plain
  <2>3. QED
    BY <2>1, <2>2, Returning
<1>6. Returns(lemonSub, "lemonSub")
  <2>1. ~lemonSub.disables /\ lemonSub.on = Plain.on
    BY DEF lemonSub, Plain
  <2>2. QED
    BY <2>1, PlainIs, Returning
<1>7. Returns(submits, "submits") /\ Returns(submitss, "submitss")
  <2>1. submits.on["found"] = Enabling(Replaces) /\ submits.on["failed"] = Enabling(Unmasks)
    BY DEF submits, Kept, Plain
  <2>2. submitss.on["found"] = Enabling(Replaces) /\ submitss.on["failed"] = Enabling(Unmasks)
    BY DEF submits, submitss, Kept, Plain
  <2>3. QED
    BY <2>1, <2>2, Returning
<1>8. Returns(SubmitloanPhone, "SubmitloanPhone")
  <2>1. /\ ~SubmitloanPhone.disables
        /\ SubmitloanPhone.on["found"] = Unmasks
        /\ SubmitloanPhone.on["missing"] = Appends
        /\ SubmitloanPhone.on["failed"] = Unmasks
    BY DEF SubmitloanPhone, Kept, Plain
  <2>2. QED
    BY <2>1, Returning
<1>9. QED
  BY <1>1, <1>2, <1>3, <1>4, <1>5, <1>6, <1>7, <1>8 DEF Others, Forms

LEMMA QQReturn == \A f \in QQ : Returns(Forms[f], f)
<1>1. \A f \in QQ : f \in {"qqtopyw", "qqtowb", "qqtotalk", "pywtoqq", "wbtoqq"}
                     \/ f \in {"qqtosession", "phonetoqq"}
                     \/ f \in {"readQQBaseQun", "searchQQ", "searchQQNick"}
  BY DEF QQ
<1>2. \A f \in {"qqtopyw", "qqtowb", "qqtotalk", "pywtoqq", "wbtoqq"} :
        /\ Forms[f].on["found"] = Enabling(Appends)
        /\ Forms[f].on["missing"] = Enabling(Appends)
  <2>1. /\ ByRadio.on["found"] = Enabling(Appends)
        /\ ByRadio.on["missing"] = Enabling(Appends)
    BY DEF ByRadio, Plain
  <2>2. qqtopyw.on = ByRadio.on /\ qqtowb.on = ByRadio.on /\ qqtotalk.on = ByRadio.on
    BY DEF qqtopyw, qqtowb, qqtotalk, ByRadio, Plain
  <2>3. QED
    BY <2>1, <2>2 DEF Forms, pywtoqq, wbtoqq
<1>3. \A f \in {"qqtosession", "phonetoqq"} :
        /\ Forms[f].on["found"] = Enabling(Appends)
        /\ Forms[f].on["missing"] = Enabling(Appends)
  <2>1. /\ qqtosession.on["found"] = Enabling(Appends)
        /\ qqtosession.on["missing"] = Enabling(Appends)
    BY DEF qqtosession, ByRadio, Plain
  <2>2. phonetoqq = qqtosession
    BY DEF phonetoqq, qqtosession
  <2>3. QED
    BY <2>1, <2>2 DEF Forms
<1>4. \A f \in {"readQQBaseQun", "searchQQ", "searchQQNick"} :
        /\ Forms[f].on["found"] = Enabling(Replaces)
        /\ Forms[f].on["missing"] = Enabling(Replaces)
  <2>1. /\ readQQBaseQun.on["found"] = Enabling(Replaces)
        /\ readQQBaseQun.on["missing"] = Enabling(Replaces)
    BY DEF readQQBaseQun, ByRadio, Plain
  <2>2. searchQQNick.on = readQQBaseQun.on
    BY DEF searchQQNick, readQQBaseQun, ByRadio, Plain
  <2>3. QED
    BY <2>1, <2>2 DEF Forms, searchQQ
<1>5. ASSUME NEW f \in QQ PROVE Returns(Forms[f], f)
  <2>1. f # Moble /\ f \in Disabling
    BY DEF QQ, Moble, Disabling
  <2>2. Forms[f].on["found"].unmasks /\ Forms[f].on["found"].enables
    BY <1>1, <1>2, <1>3, <1>4, Returning
  <2>3. Forms[f].on["missing"].unmasks /\ Forms[f].on["missing"].enables
    BY <1>1, <1>2, <1>3, <1>4, Returning
  <2>4. QED
    BY <2>1, <2>2, <2>3 DEF Returns, Spoils, Kinds
<1>6. QED
  BY <1>5

LEMMA FormReturns == \A f \in Names : Returns(Forms[f], f)
BY MostReturn, OthersReturn, QQReturn

\* The forms of a page disable its button, or none does.
LEMMA PagesDisable ==
  ASSUME NEW p \in Pages, NEW f \in p, f \in Disabling
  PROVE  p \subseteq Disabling
BY DEF Pages, BankCard, QQ, Disabling

\* A page that cannot be used, because the mask is up or the button disabled,
\* waits for an answer, unless there was one that it does not get over.
FormWaits == (mask \/ disabled) /\ waiting = {} => spoilt

\* With it: where a button can be disabled, and that wlPhone.jsp has no mask.
FormAlive ==
  ~spoilt =>
    /\ disabled => page \subseteq Disabling
    /\ page = {Moble} => ~mask
    /\ mask \/ disabled => waiting # {}

LEMMA InitAlive == FormInit => FormAlive
BY DEF FormInit, BrowserInit, FormAlive

LEMMA AnswerAlive ==
  ASSUME Inv, FormAlive, NEW r \in waiting, NEW kind \in Kinds, Answer(r, kind)
  PROVE  FormAlive'
<1> SUFFICES ASSUME ~spoilt'
             PROVE  ~disabled' /\ ~mask'
  BY DEF FormAlive
<1>1. ~spoilt /\ ~Spoils(r.form, kind)
  BY DEF Answer
<1>2. r.form \in page /\ r.form \in Names /\ page \in Pages
  BY PagesHaveForms DEF Inv, FormTypeOK, AskedHere
<1>3. Returns(Forms[r.form], r.form)
  BY <1>2, FormReturns
<1>4. ~mask'
  <2>1. CASE r.form = Moble
    BY <1>1, <1>2, <2>1, PagesHaveForms DEF FormAlive, Answer
  <2>2. CASE r.form # Moble
    BY <1>1, <1>3, <2>2 DEF Returns, Answer
  <2>3. QED
    BY <2>1, <2>2
<1>5. ~disabled'
  <2>1. CASE r.form \in Disabling
    BY <1>1, <1>3, <2>1 DEF Returns, Answer
  <2>2. CASE r.form \notin Disabling
    BY <1>1, <1>2, <2>2 DEF FormAlive, Answer
  <2>3. QED
    BY <2>1, <2>2
<1>6. QED
  BY <1>4, <1>5

LEMMA PressAlive ==
  ASSUME Inv, FormAlive, NEW f \in page, NEW how \in Ways,
         Press(f, how) \/ NextQQNick(f, how)
  PROVE  FormAlive'
<1> SUFFICES ASSUME ~spoilt' PROVE FormAlive'
  BY DEF FormAlive
<1>1. f \in Names /\ page \in Pages /\ page' = page /\ Shape(Forms[f], f) /\ Returns(Forms[f], f)
  BY PagesHaveForms, FormShape, FormReturns DEF Inv, FormTypeOK, Press, NextQQNick
<1>2. ~spoilt /\ waiting' # {}
  <2>1. CASE Press(f, how)
    <3>1. [no |-> presses + 1, form |-> f, handler |-> 1] \in waiting'
      BY <1>1, <2>1 DEF Press, Shape
    <3>2. QED
      BY <2>1, <3>1 DEF Press
  <2>2. CASE NextQQNick(f, how)
    <3>1. PICK asks \in BOOLEAN :
            /\ waiting' = waiting \cup
                {[no |-> presses + 1, form |-> f, handler |-> h] : h \in {n \in {1} : asks}}
            /\ spoilt' = (spoilt \/ ~asks)
      BY <2>2 DEF NextQQNick
    <3>2. ~spoilt /\ asks
      BY <3>1
    <3>3. [no |-> presses + 1, form |-> f, handler |-> 1] \in waiting'
      BY <3>1, <3>2
    <3>4. QED
      BY <3>2, <3>3
  <2>3. QED
    BY <2>1, <2>2
<1>3. disabled' => page \subseteq Disabling
  <2>1. CASE Press(f, how)
    <3>1. disabled' => disabled \/ f \in Disabling
      BY <1>1, <2>1 DEF Press, Returns
    <3>2. QED
      BY <1>1, <1>2, <3>1, PagesDisable DEF FormAlive
  <2>2. CASE NextQQNick(f, how)
    BY <2>2 DEF NextQQNick, Inv, NickHere, Disabling
  <2>3. QED
    BY <2>1, <2>2
<1>4. page = {Moble} => ~mask'
  <2>1. CASE Press(f, how)
    BY <1>1, <1>2, <2>1 DEF Press, Returns, FormAlive
  <2>2. CASE NextQQNick(f, how)
    BY <2>2 DEF NextQQNick, Inv, NickHere, QQ, Moble
  <2>3. QED
    BY <2>1, <2>2
<1>5. QED
  BY <1>1, <1>2, <1>3, <1>4 DEF FormAlive

LEMMA NextAlive == Inv /\ FormAlive /\ [FormNext]_formVars => FormAlive'
<1> SUFFICES ASSUME Inv, FormAlive, [FormNext]_formVars PROVE FormAlive'
  OBVIOUS
<1>1. CASE UNCHANGED formVars
  BY <1>1 DEF formVars, formOwn, browserVars, FormAlive
<1>2. ASSUME NEW f \in page, NEW how \in Ways, Refuse(f, how) \/ Swallow(f, how)
      PROVE  FormAlive'
  BY <1>2 DEF Refuse, Swallow, FormAlive
<1>3. QED
  BY <1>1, <1>2, PressAlive, AnswerAlive DEF FormNext, Answered

\* No form is left masked or disabled with nothing to wait for: what the mask
\* waits for comes back with every answer but those its callbacks do not get
\* over, on each of the pages and however queries overlap on it.
THEOREM FormsWait == FormSpec => []FormWaits
<1>1. FormAlive => FormWaits
  BY DEF FormAlive, FormWaits
<1>2. QED
  BY <1>1, InvHolds, InitAlive, NextAlive, PTL DEF FormSpec
==============================================================================
