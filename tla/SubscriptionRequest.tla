-------------------------- MODULE SubscriptionRequest --------------------------
(***************************************************************************)
(* The RIC Subscription Request as E2Termination sees it: the decoded list *)
(* of protocol IEs, the action items of a RIC Subscription Details IE, and *)
(* what the request asks for, stated without a loop.  The E2AP decoder is  *)
(* external; it hands over any sequence of IEs, so nothing here assumes an *)
(* order of the IEs, or that an IE occurs once.                            *)
(***************************************************************************)
EXTENDS Naturals, Sequences

CONSTANTS
  RequestorId,    \* values of ricRequestorID (16 bits on the wire)
  InstanceId,     \* values of ricInstanceID (16 bits on the wire)
  RanFunctionId,  \* values of RANfunctionID (0..4095 on the wire)
  ActionId,       \* values of ricActionID (8 bits on the wire)
  Request         \* the requests a RIC may send

\* The widths of the fields of RicSubscriptionRequest_rval_s: no value the
\* decoder accepts is truncated when it is stored there.
ASSUME IdWidths ==
  /\ RequestorId \subseteq 0..65535
  /\ InstanceId \subseteq 0..65535
  /\ RanFunctionId \subseteq 0..65535
  /\ ActionId \subseteq 0..255

ActionType == {"report", "insert", "policy"}

Action == [id : ActionId, type : ActionType]

RequestIdIE == [kind : {"RICrequestID"}, requestor : RequestorId, instance : InstanceId]
FunctionIE  == [kind : {"RANfunctionID"}, function : RanFunctionId]
DetailsIE   == [kind : {"RICsubscriptionDetails"}, actions : Seq(Action)]
OtherIE     == [kind : {"other"}]

IE == RequestIdIE \cup FunctionIE \cup DetailsIE \cup OtherIE

ASSUME RequestsAreIELists == Request \subseteq Seq(IE)

\* The struct the handler returns, with the value-initialised locals it is
\* filled from.
Params == [requestor : RequestorId \cup {0}, instance : InstanceId \cup {0},
           function : RanFunctionId \cup {0}, action : ActionId \cup {0}]

NoParams == [requestor |-> 0, instance |-> 0, function |-> 0, action |-> 0]

Response == [requestor : RequestorId \cup {0}, instance : InstanceId \cup {0},
             accepted : Seq(ActionId), rejected : Seq(ActionId)]

-----------------------------------------------------------------------------
(* What the request asks for *)

\* The condition under which the handler may accept an action.
Acceptable(action) == action.type \in {"report", "insert"}

IsDetails(ie) == ie.kind = "RICsubscriptionDetails"

\* The m-th action is the first acceptable one of the list.
IsFirstAcceptable(actions, m) ==
  /\ m \in DOMAIN actions
  /\ Acceptable(actions[m])
  /\ \A k \in 1..(m - 1) : ~Acceptable(actions[k])

\* The IEs of the first n that hold an acceptable action.
AcceptingIEs(r, n) ==
  {k \in 1..n : IsDetails(r[k]) /\ \E m \in DOMAIN r[k].actions : Acceptable(r[k].actions[m])}

\* The positions <<IE, action>> of all the actions of the request.
ActionPositions(r) ==
  UNION {{<<k, m>> : m \in DOMAIN r[k].actions} : k \in {k \in DOMAIN r : IsDetails(r[k])}}

ActionAt(r, p) == r[p[1]].actions[p[2]]
=============================================================================
