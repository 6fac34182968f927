----------------------------- MODULE FifoCalls -----------------------------
(***************************************************************************)
(* The bounded queue with its callers: `call' is the operation that was    *)
(* called last, with its argument.  So what implements this module gives   *)
(* each call the answer that the queue gives to that very call: a read of  *)
(* the i-th item cannot return another one, and no call throws where the   *)
(* queue would have answered.                                              *)
(***************************************************************************)
EXTENDS BoundedFifo

VARIABLE call

vars == <<queue, result, call>>

Start == Init /\ call = <<>>

Next ==
  \/ \E item \in Item : Push(item) /\ call' = <<"push", item>>
  \/ (Pop \/ PopThrows) /\ call' = <<"pop">>
  \/ \E i \in 0 .. Capacity :
       (Get(i) \/ GetThrows(i)) /\ call' = <<"get", i>>

Spec == Start /\ [][Next]_vars
=============================================================================
