------------------------------- MODULE Browser ------------------------------
(***************************************************************************)
(* What the pages of the portal share: #background, the mask that a page   *)
(* raises while a request of it is on its way.  It covers the page, so     *)
(* that the mouse does not reach a button below it; the key that presses   *)
(* the button in focus does.                                               *)
(***************************************************************************)
EXTENDS Integers

CONSTANT MaxPresses   \* bound: how often the buttons of a page are pressed

ASSUME PressesAreCounted == MaxPresses \in Nat

VARIABLES
  mask,      \* #background is shown
  presses    \* how many requests were made by a press

browserVars == <<mask, presses>>

Ways == {"mouse", "key"}

Reaches(how) == how = "mouse" => ~mask

BrowserInit == mask = FALSE /\ presses = 0

CountPress == presses < MaxPresses /\ presses' = presses + 1
==============================================================================
