------------------------- MODULE MCFeedbackSignals -------------------------
(* Two sentences that differ in case only, one of another key, a blank one; *)
(* answers that agree, conflict, repeat a pattern or count nothing.         *)
EXTENDS FeedbackSignals

CONSTANTS a, b, noKey

MCText == {"a", "A", "b", " "}
MCKeyOf == [t \in MCText |-> IF t \in {"a", "A"} THEN a ELSE IF t = "b" THEN b ELSE noKey]

Pos(t) == [type |-> "positive", text |-> t]
Neg(t) == [type |-> "negative", text |-> t]

Other(t) == [type |-> "other", text |-> t]

MCAnswer == {
  <<>>,
  <<Pos("a"), Pos("A"), Pos("a")>>,
  <<Other("b"), Neg("A"), Pos("b"), Neg("a"), Pos(" "), Neg("a"), Pos("b")>>}

MCEdit == {{}, {"A", "b"}}
=============================================================================
