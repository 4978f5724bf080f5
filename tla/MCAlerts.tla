------------------------------ MODULE MCAlerts ------------------------------
(* Two trigger files for Alerts: comparisons that see captures, urgencies and
   a second trigger on the same line; stored variables, delays, notices. *)
EXTENDS Alerts

Match(p) == [kind |-> "match", pattern |-> p, capture |-> "x"]
Test(v, x) == [kind |-> "var", name |-> v, value |-> x]
Fire(u, t, d) == [kind |-> "fire", urgency |-> u, target |-> t, delayed |-> d]
Store(v, x) == [kind |-> "store", name |-> v, value |-> x]
Trigger(c, l, a) == [conds |-> c, logic |-> l, actions |-> a]

mcConfigs ==
  {<<Trigger(<<Match("hit"), Test("x", 1)>>, "all", <<Fire("operational", "alert", FALSE)>>),
     Trigger(<<Match("hit"), Test("x", 2)>>, "all", <<Fire("ambient", "alert", FALSE)>>),
     Trigger(<<Match("slain"), Test("x", 7)>>, "any", <<Fire("emergency", "alert", FALSE)>>)>>,
   <<Trigger(<<Match("hit")>>, "all",
             <<Store("seen", "x"), Fire("operational", "notice", TRUE)>>),
     Trigger(<<Match("slain"), Test("seen", 1)>>, "all",
             <<Fire("operational", "alert", TRUE)>>)>>}

mcLines == {[p \in {"hit"} |-> 1], [p \in {"hit"} |-> 2], [p \in {"slain"} |-> 2]}
=============================================================================
