--------------------------- MODULE MCE2Termination ---------------------------
(***************************************************************************)
(* Two RAN functions; up to two subscriptions, to the first of them.  The    *)
(* accepted action is the only one, the last one or followed by another.    *)
(***************************************************************************)
EXTENDS E2Termination

MCRequest ==
  {<<[kind |-> "RICrequestID", requestor |-> q, instance |-> 1],
     [kind |-> "RANfunctionID", function |-> f],
     [kind |-> "RICsubscriptionDetails", actions |-> actions]>> :
   q \in RequestorId, f \in {200},
   actions \in {<<[id |-> 1, type |-> "report"]>>,
                <<[id |-> 1, type |-> "policy"], [id |-> 2, type |-> "insert"]>>,
                <<[id |-> 1, type |-> "report"], [id |-> 2, type |-> "policy"]>>}}
=============================================================================
