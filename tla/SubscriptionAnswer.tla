-------------------------- MODULE SubscriptionAnswer --------------------------
(***************************************************************************)
(* What ProcessRicSubscriptionRequest promises its caller and the RIC,     *)
(* with no loop and no locals: one response per request, before the call   *)
(* returns; it echoes the RIC Request ID and accepts the first acceptable  *)
(* action of every Details IE; the ids returned are those of the response. *)
(* The action id returned is left open among the ids of the request: see   *)
(* the properties of RicSubscription for which one it is.                  *)
(***************************************************************************)
EXTENDS SubscriptionRequest

VARIABLES phase, request, sent, result

vars == <<phase, request, sent, result>>

Init ==
  /\ phase = "idle"
  /\ request = <<>>
  /\ sent = <<>>
  /\ result = NoParams

Receive(r) ==
  /\ phase = "idle"
  /\ phase' = "pending"
  /\ request' = r
  /\ sent' = <<>>
  /\ result' = NoParams

\* The last IE of that kind has the given contents; without one, the default.
LastIE(r, kind, Has(_), default) ==
  \/ (\A k \in DOMAIN r : r[k].kind # kind) /\ default
  \/ \E k \in DOMAIN r :
       /\ r[k].kind = kind /\ Has(r[k])
       /\ \A l \in (k + 1)..Len(r) : r[l].kind # kind

EchoesRequestId(r, requestor, instance) ==
  LastIE(r, "RICrequestID",
         LAMBDA ie : ie.requestor = requestor /\ ie.instance = instance,
         requestor = 0 /\ instance = 0)

EchoesFunction(r, function) ==
  LastIE(r, "RANfunctionID", LAMBDA ie : ie.function = function, function = 0)

\* ie lists, in order, the Details IEs that hold an acceptable action.
ListsAccepting(r, ie) ==
  /\ \A k, l \in DOMAIN ie : k < l => ie[k] < ie[l]
  /\ {ie[k] : k \in DOMAIN ie} = AcceptingIEs(r, Len(r))

FirstAcceptableId(actions) ==
  actions[CHOOSE m \in DOMAIN actions : IsFirstAcceptable(actions, m)].id

ReturnableAction(r) ==
  {ActionAt(r, p).id : p \in ActionPositions(r)}
    \cup IF ActionPositions(r) = {} THEN {0} ELSE {}

Answer ==
  /\ phase = "pending"
  /\ phase' = "answered"
  /\ \E n \in 0..Len(request) : \E ie \in [1..n -> DOMAIN request] :
     \E requestor \in RequestorId \cup {0}, instance \in InstanceId \cup {0} :
       /\ ListsAccepting(request, ie)
       /\ EchoesRequestId(request, requestor, instance)
       /\ sent' = <<[requestor |-> requestor, instance |-> instance,
                     accepted |-> [k \in 1..n |-> FirstAcceptableId(request[ie[k]].actions)],
                     rejected |-> <<>>]>>
  /\ UNCHANGED <<request, result>>

Return ==
  /\ phase = "answered"
  /\ phase' = "idle"
  /\ \E function \in RanFunctionId \cup {0}, action \in ReturnableAction(request) :
       /\ EchoesFunction(request, function)
       /\ result' = [requestor |-> sent[1].requestor, instance |-> sent[1].instance,
                     function |-> function, action |-> action]
  /\ UNCHANGED <<request, sent>>

Next == Answer \/ Return \/ \E r \in Request : Receive(r)

Spec == Init /\ [][Next]_vars /\ WF_vars(Answer \/ Return)
=============================================================================
