----------------------------- MODULE MCAskRelay -----------------------------
(* Phones are model values; they are alike. Two shapes: two questions and one *)
(* phone at a time; one question and two phones, both in front and with few  *)
(* frames under way once something has gone wrong.                           *)
EXTENDS AskRelay, TLC, Functions

CONSTANTS p1, p2
TwoPhones == {p1, p2}
Alike == Permutations(TwoPhones)

OneQuestion == made.asks <= 1
OnePhone == Cardinality({p \in Phones : phone[p].conn}) <= 1
InFront == \A p \in Phones : phone[p].conn => phone[p].front
UnderWay == Len(toRelay) + FoldFunction(+, 0, [p \in Phones |-> Len(up[p]) + Len(down[p])])
Shapes == OnePhone \/ (OneQuestion /\ (made.mishaps = 0 \/ (InFront /\ UnderWay <= 4)))
=============================================================================
