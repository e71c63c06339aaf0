----------------------------- MODULE MCFrontEnd -----------------------------
EXTENDS FrontEnd
MCQueries == {"q1", "q2"}
MCHits == [q \in MCQueries |-> IF q = "q1" THEN 5 ELSE 4]
MCFullDatada == [q \in MCQueries |-> IF q = "q1" THEN 0 ELSE 1]
MCLabels == {"l1", "l2"}
MCFullLabels == [l \in MCLabels |-> IF l = "l1" THEN 1 ELSE 0]
MCLists == {"short", "middle", "long"}
MCPageCount ==
  [l \in MCLists |-> CASE l = "short" -> 2 [] l = "middle" -> 3 [] l = "long" -> 12]
=============================================================================
