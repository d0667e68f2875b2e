---------------------------- MODULE MCAttributes ----------------------------
(* Instances of Attributes for TLC. *)
EXTENDS Attributes

Unset == [count |-> -1, value |-> -1, key |-> -1, array |-> -1, span_value |-> -1,
          span_count |-> -1, event_count |-> -1, link_count |-> -1, log_count |-> -1,
          log_value |-> -1]
MCEnvironments ==
  { [Unset EXCEPT !.count = 1, !.value = 2, !.key = 2, !.array = 1],
    [Unset EXCEPT !.count = 0, !.log_count = 1, !.span_count = 2000000, !.log_value = 1] }

Scalar(t, n) == [type |-> t, len |-> n, items |-> <<>>]
List(items)  == [type |-> "array", len |-> 0, items |-> items]

MCKeys == {[name |-> "a", len |-> 1], [name |-> "b", len |-> 2], [name |-> "long", len |-> 3]}
MCValues == { Scalar("string", 3),
              List(<<Scalar("int", 1), Scalar("float", 1)>>),
              List(<<List(<<Scalar("string", 3), Scalar("bool", 1)>>), Scalar("int", 1)>>) }
Pair(k, v) == [key |-> k, value |-> v]
MCArrays == { <<Pair([name |-> "long", len |-> 3], v), Pair([name |-> "b", len |-> 2], Scalar("null", 0)),
                Pair([name |-> "b", len |-> 2], v)>> :
              v \in {Scalar("string", 3), List(<<Scalar("int", 1), Scalar("float", 1)>>),
                     List(<<Scalar("int", 1), Scalar("string", 1)>>)} }
MCException == <<Pair([name |-> "long", len |-> 3], Scalar("string", 3)),
                 Pair([name |-> "a", len |-> 1], Scalar("string", 4))>>
CONSTANTS x, y      \* texts
MCTexts == {x, y}
TextSymmetry == Permutations(MCTexts)
MCSeverities == {9, 25}
=============================================================================
