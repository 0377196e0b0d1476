-------------------------- MODULE MCRicSubscription --------------------------
(***************************************************************************)
(* Requests for model checking: the conforming ones, with every list of at *)
(* most MaxActions actions, and every sequence of at most MaxIEs IEs drawn *)
(* from OddIEs: IEs in any order, repeated, missing, or unknown.           *)
(***************************************************************************)
EXTENDS RicSubscription

CONSTANTS MaxActions, MaxIEs

UpTo(n, S) == UNION {[1..k -> S] : k \in 0..n}

Details(actions) == [kind |-> "RICsubscriptionDetails", actions |-> actions]
Act(id, type) == [id |-> id, type |-> type]

Conforming ==
  {<<[kind |-> "RICrequestID", requestor |-> 1, instance |-> 1],
     [kind |-> "RANfunctionID", function |-> 3],
     Details(actions)>> : actions \in UpTo(MaxActions, Action)}

OddIEs ==
  {[kind |-> "RICrequestID", requestor |-> q, instance |-> 1] : q \in RequestorId}
  \cup {[kind |-> "RANfunctionID", function |-> 3], [kind |-> "other"]}
  \cup {Details(<<>>),
        Details(<<Act(1, "policy"), Act(2, "insert")>>),
        Details(<<Act(2, "insert"), Act(1, "report")>>)}

MCRequest == Conforming \cup UpTo(MaxIEs, OddIEs)
=============================================================================
