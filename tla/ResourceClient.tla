--------------------------- MODULE ResourceClient ---------------------------
(***************************************************************************)
(* One call of a client as its caller sees it: pending, and then a result  *)
(* or an exception, once and for good.                                     *)
(***************************************************************************)
CONSTANTS
  Results,   \* what the call may return
  Errors     \* what it may raise

VARIABLE answer

Pending == [kind |-> "pending"]
Returned(r) == [kind |-> "returned", result |-> r]
Raised(e) == [kind |-> "raised", error |-> e]

Answers ==
  {Pending} \cup [kind : {"returned"}, result : Results] \cup [kind : {"raised"}, error : Errors]

Init == answer = Pending

Return == /\ answer = Pending
          /\ \E r \in Results : answer' = Returned(r)

Raise == /\ answer = Pending
         /\ \E e \in Errors : answer' = Raised(e)

Next == Return \/ Raise

Spec == Init /\ [][Next]_answer
=============================================================================
