------------------------------- MODULE FrontEnd -----------------------------
(***************************************************************************)
(* The pages of the portal and of the administration, one of which a tab   *)
(* has open.  To go to another loads it anew: nothing of a page is kept,   *)
(* and the callbacks of its requests are gone.                             *)
(***************************************************************************)
EXTENDS QueryForms, PortalSearch, LabelSearch, PagedTables, AdminDialogs

VARIABLE site   \* the kind of page that is open

frontVars == <<site, browserVars, formOwn, portalOwn, labelOwn, tableVars,
               dialogVars>>

Sites == {"form", "portal", "labels", "table", "dialog"}

FrontEndTypeOK ==
  /\ site \in Sites
  /\ FormTypeOK /\ PortalTypeOK /\ LabelTypeOK /\ TableTypeOK /\ DialogTypeOK

\* The pages that are not open have a state of their own all the same.
FrontInit ==
  /\ site \in Sites
  /\ FormInit /\ PortalInit /\ LabelInit /\ TableInit /\ DialogInit
  /\ site # "form" => page = BankCard
  /\ site # "table" => table = "link" /\ list = CHOOSE l \in Lists : TRUE
  /\ site # "dialog" => dialog = "group"

OnForm   == site = "form" /\ UNCHANGED <<site, portalOwn, labelOwn, tableVars, dialogVars>>
OnPortal == site = "portal" /\ UNCHANGED <<site, formOwn, labelOwn, tableVars, dialogVars>>
OnLabels == site = "labels" /\ UNCHANGED <<site, formOwn, portalOwn, tableVars, dialogVars>>
OnTable  == site = "table" /\ UNCHANGED <<site, browserVars, formOwn, portalOwn, labelOwn, dialogVars>>
OnDialog == site = "dialog" /\ UNCHANGED <<site, browserVars, formOwn, portalOwn, labelOwn, tableVars>>

FrontNext ==
  \/ FormNext /\ OnForm
  \/ PortalNext /\ OnPortal
  \/ LabelNext /\ OnLabels
  \/ TableNext /\ OnTable
  \/ DialogNext /\ OnDialog

FrontSpec == FrontInit /\ [][FrontNext]_frontVars

\* The browser calls one of the callbacks of each request; nobody need press.
FairFrontSpec ==
  /\ FrontSpec
  /\ WF_frontVars(Answered /\ OnForm)
  /\ WF_frontVars(PortalAnswered /\ OnPortal)
  /\ WF_frontVars(LabelsAnswered /\ OnLabels)

------------------------------------------------------------------------------
\* Whatever page is open, and however its requests are answered, the mask that
\* was raised comes down and the button comes back, but for the answers that
\* each page is known not to get over.
PageComesBack ==
  /\ site = "form" => FormRecovers
  /\ site = "portal" => PortalRecovers
  /\ site = "labels" => LabelsRecover
==============================================================================
