------------------------ MODULE RicSubscription_proofs ------------------------
(***************************************************************************)
(* Proofs about the subscription handler, for every set of ids and every   *)
(* set of requests: type correctness, then what is accepted and answered.  *)
(***************************************************************************)
EXTENDS RicSubscription, TLAPS

\* An IE of each kind has the fields the handler reads from it.
LEMMA IEFields ==
  ASSUME NEW ie \in IE
  PROVE  /\ ie.kind = "RICrequestID" => ie.requestor \in RequestorId /\ ie.instance \in InstanceId
         /\ ie.kind = "RANfunctionID" => ie.function \in RanFunctionId
         /\ ie.kind = "RICsubscriptionDetails" => ie.actions \in Seq(Action)
  BY DEF IE, RequestIdIE, FunctionIE, DetailsIE, OtherIE

\* The IEs of a request in progress are IEs.
LEMMA RequestIEs ==
  ASSUME HandlerTypeOK
  PROVE  /\ request \in Seq(IE)
         /\ Len(request) \in Nat
         /\ \A k \in DOMAIN request : request[k] \in IE
<1>1. <<>> \in Seq(IE)
  OBVIOUS
<1>2. request \in Request \cup {<<>>}
  BY DEF HandlerTypeOK
<1>3. request \in Seq(IE)
  BY <1>1, <1>2, RequestsAreIELists
<1> QED BY <1>3

\* The initial state is well typed: nothing received, nothing accepted.
LEMMA TypeInit == HandlerInit => HandlerTypeOK
<1> SUFFICES ASSUME HandlerInit PROVE HandlerTypeOK
  OBVIOUS
<1>1. NoParams \in Params
  BY DEF NoParams, Params
<1>2. /\ <<>> \in Seq(ActionId) /\ <<>> \in Seq(Response) /\ <<>> \in Seq(Nat \X Nat)
      /\ Len(<<>>) = 0
  OBVIOUS
<1>3. /\ pc \in {"idle", "ies", "actions", "return"}
      /\ request \in Request \cup {<<>>}
      /\ foundAction \in BOOLEAN
      /\ params \in Params
      /\ result \in Params
  BY <1>1 DEF HandlerInit
<1>4. i \in 1..(Len(request) + 1) /\ j \in Nat \ {0}
  BY <1>2 DEF HandlerInit
<1>5. /\ actionIdsAccept \in Seq(ActionId)
      /\ actionIdsReject \in Seq(ActionId)
      /\ sent \in Seq(Response)
      /\ acceptAt \in Seq(Nat \X Nat)
  BY <1>2 DEF HandlerInit
<1>6. pc # "actions"
  BY DEF HandlerInit
<1> QED BY <1>3, <1>4, <1>5, <1>6 DEF HandlerTypeOK

\* No step of the handler, and no call of it, leaves the types: the indices stay
\* in the lists they run over, and only ids of the request are recorded.
LEMMA TypeStep == HandlerTypeOK /\ [HandlerNext]_handlerVars => HandlerTypeOK'
<1> SUFFICES ASSUME HandlerTypeOK, [HandlerNext]_handlerVars PROVE HandlerTypeOK'
  OBVIOUS
<1> USE RequestIEs
<1>1. ASSUME NEW r \in Request, Call(r) PROVE HandlerTypeOK'
  <2>1. r \in Seq(IE) /\ Len(r) \in Nat
    BY RequestsAreIELists
  <2>2. NoParams \in Params
    BY DEF NoParams, Params
  <2>3. (i \in 1..(Len(request) + 1))'
    BY <1>1, <2>1 DEF Call
  <2>4. (actionIdsAccept \in Seq(ActionId) /\ actionIdsReject \in Seq(ActionId)
         /\ sent \in Seq(Response) /\ acceptAt \in Seq(Nat \X Nat))'
    BY <1>1 DEF Call
  <2>5. (/\ pc \in {"idle", "ies", "actions", "return"} /\ pc # "actions"
         /\ request \in Request \cup {<<>>}
         /\ foundAction \in BOOLEAN)'
    BY <1>1 DEF Call
  <2>6. (params \in Params /\ result \in Params /\ j \in Nat \ {0})'
    BY <1>1, <2>2 DEF Call
  <2> QED BY <2>3, <2>4, <2>5, <2>6 DEF HandlerTypeOK
<1>2. CASE ReadRequestId
  <2>1. request[i].requestor \in RequestorId /\ request[i].instance \in InstanceId
    BY <1>2, IEFields DEF HandlerTypeOK, ReadRequestId, AtIE
  <2>2. params' \in Params
    BY <1>2, <2>1 DEF HandlerTypeOK, ReadRequestId, Params
  <2>3. (i \in 1..(Len(request) + 1))'
    BY <1>2 DEF HandlerTypeOK, ReadRequestId, AtIE
  <2> QED BY <1>2, <2>2, <2>3 DEF HandlerTypeOK, ReadRequestId, AtIE
<1>3. CASE ReadRanFunctionId
  <2>1. request[i].function \in RanFunctionId
    BY <1>3, IEFields DEF HandlerTypeOK, ReadRanFunctionId, AtIE
  <2>2. params' \in Params
    BY <1>3, <2>1 DEF HandlerTypeOK, ReadRanFunctionId, Params
  <2>3. (i \in 1..(Len(request) + 1))'
    BY <1>3 DEF HandlerTypeOK, ReadRanFunctionId, AtIE
  <2> QED BY <1>3, <2>2, <2>3 DEF HandlerTypeOK, ReadRanFunctionId, AtIE
<1>4. CASE SkipIE
  <2>1. (i \in 1..(Len(request) + 1))'
    BY <1>4 DEF HandlerTypeOK, SkipIE, AtIE
  <2> QED BY <1>4, <2>1 DEF HandlerTypeOK, SkipIE, AtIE
<1>5. CASE EnterDetails
  <2>1. i \in DOMAIN request /\ IsDetails(request[i])
    BY <1>5 DEF HandlerTypeOK, EnterDetails, AtIE, IsDetails
  <2>2. Len(request[i].actions) \in Nat
    BY <2>1, IEFields DEF IsDetails
  <2>3. (j <= Len(request[i].actions) + 1)'
    BY <1>5, <2>2 DEF EnterDetails
  <2>4. (/\ i \in 1..(Len(request) + 1)
         /\ i \in DOMAIN request
         /\ IsDetails(request[i]))'
    BY <1>5, <2>1 DEF HandlerTypeOK, EnterDetails, IsDetails
  <2>5. (j \in Nat \ {0})'
    BY <1>5 DEF EnterDetails
  <2>6. (foundAction \in BOOLEAN)'
    BY <1>5 DEF EnterDetails
  <2>7. UNCHANGED <<request, params, actionIdsAccept, actionIdsReject, sent, result, acceptAt>>
    BY <1>5 DEF EnterDetails
  <2>8. pc' = "actions"
    BY <1>5 DEF EnterDetails
  <2> QED BY <2>3, <2>4, <2>5, <2>6, <2>7, <2>8 DEF HandlerTypeOK
<1>6. ASSUME pc = "actions"
      PROVE  /\ i \in DOMAIN request
             /\ request[i].actions \in Seq(Action)
             /\ Len(request[i].actions) \in Nat
  BY <1>6, IEFields DEF HandlerTypeOK, IsDetails
<1>7. ASSUME AtAction
      PROVE  /\ request[i].actions[j].id \in ActionId
             /\ (j + 1) \in Nat \ {0}
             /\ j + 1 <= Len(request[i].actions) + 1
  <2>1. j \in DOMAIN request[i].actions
    BY <1>6, <1>7 DEF HandlerTypeOK, AtAction
  <2>2. request[i].actions[j] \in Action
    BY <1>6, <1>7, <2>1 DEF AtAction
  <2> QED BY <1>6, <1>7, <2>2 DEF HandlerTypeOK, AtAction, Action
<1>8. CASE AcceptAction
  <2>1. AtAction
    BY <1>8 DEF AcceptAction
  <2>2. params' \in Params
    BY <1>7, <1>8, <2>1 DEF HandlerTypeOK, AcceptAction, Params
  <2>3. actionIdsAccept' \in Seq(ActionId)
    BY <1>7, <1>8, <2>1 DEF HandlerTypeOK, AcceptAction
  <2>4. acceptAt' \in Seq(Nat \X Nat)
    BY <1>8 DEF HandlerTypeOK, AcceptAction
  <2> QED BY <1>7, <1>8, <2>1, <2>2, <2>3, <2>4 DEF HandlerTypeOK, AcceptAction
<1>9. CASE RejectAction
  <2>1. AtAction
    BY <1>9 DEF RejectAction
  <2>2. params' \in Params
    BY <1>7, <1>9, <2>1 DEF HandlerTypeOK, RejectAction, Params
  <2> QED BY <1>7, <1>9, <2>1, <2>2 DEF HandlerTypeOK, RejectAction
<1>10. CASE LeaveDetails
  <2>1. (i \in 1..(Len(request) + 1))'
    BY <1>6, <1>10 DEF HandlerTypeOK, LeaveDetails
  <2> QED BY <1>10, <2>1 DEF HandlerTypeOK, LeaveDetails
<1>11. CASE SendResponse
  <2>1. sent' \in Seq(Response)
    BY <1>11 DEF SendResponse, HandlerTypeOK, Response, Params
  <2> QED BY <1>11, <2>1 DEF HandlerTypeOK, SendResponse
<1>12. CASE Return
  BY <1>12 DEF HandlerTypeOK, Return
<1>13. CASE UNCHANGED handlerVars
  BY <1>13 DEF HandlerTypeOK, handlerVars
<1> QED
  BY <1>1, <1>2, <1>3, <1>4, <1>5, <1>8, <1>9, <1>10, <1>11, <1>12, <1>13 DEF HandlerNext, Step

\* The locals of ProcessRicSubscriptionRequest, the responses and the values
\* returned keep their types, and the indices their ranges.
THEOREM TypeCorrect == HandlerSpec => []HandlerTypeOK
  BY TypeInit, TypeStep, PTL DEF HandlerSpec

-----------------------------------------------------------------------------
(* What is accepted and answered *)

\* One more IE adds itself to the accepting ones, or nothing.
LEMMA AcceptingNext ==
  ASSUME NEW r, NEW n \in Nat \ {0}
  PROVE  /\ IsDetails(r[n]) /\ (\E m \in DOMAIN r[n].actions : Acceptable(r[n].actions[m]))
            => AcceptingIEs(r, n) = AcceptingIEs(r, n - 1) \cup {n}
         /\ ~(IsDetails(r[n]) /\ \E m \in DOMAIN r[n].actions : Acceptable(r[n].actions[m]))
            => AcceptingIEs(r, n) = AcceptingIEs(r, n - 1)
<1>1. 1..n = 1..(n - 1) \cup {n} /\ n \notin 1..(n - 1)
  OBVIOUS
<1> QED BY <1>1 DEF AcceptingIEs

\* The accepting IEs of the first n are among the first n.
LEMMA AcceptingBound ==
  ASSUME NEW r, NEW n \in Nat, NEW k \in AcceptingIEs(r, n)
  PROVE  k \in 1..n
  BY DEF AcceptingIEs

\* Appending a position covers one more IE.
LEMMA AppendCovers ==
  ASSUME NEW s \in Seq(Nat \X Nat), NEW e \in Nat \X Nat
  PROVE  /\ DOMAIN Append(s, e) = DOMAIN s \cup {Len(s) + 1}
         /\ \A k \in DOMAIN s : Append(s, e)[k] = s[k] /\ k < Len(s) + 1
         /\ Append(s, e)[Len(s) + 1] = e
         /\ {Append(s, e)[k][1] : k \in DOMAIN Append(s, e)}
              = {s[k][1] : k \in DOMAIN s} \cup {e[1]}
<1>1. /\ DOMAIN Append(s, e) = DOMAIN s \cup {Len(s) + 1}
      /\ \A k \in DOMAIN s : Append(s, e)[k] = s[k] /\ k < Len(s) + 1
      /\ Append(s, e)[Len(s) + 1] = e
  <2>1. Len(s) \in Nat /\ DOMAIN s = 1..Len(s)
    OBVIOUS
  <2>2. DOMAIN Append(s, e) = 1..(Len(s) + 1)
    OBVIOUS
  <2>3. 1..(Len(s) + 1) = 1..Len(s) \cup {Len(s) + 1}
    BY <2>1
  <2>4. Append(s, e)[Len(s) + 1] = e
    OBVIOUS
  <2>5. \A k \in 1..Len(s) : Append(s, e)[k] = s[k] /\ k < Len(s) + 1
    OBVIOUS
  <2> QED BY <2>1, <2>2, <2>3, <2>4, <2>5
<1> DEFINE t == Append(s, e)
           last == Len(s) + 1
<1> HIDE DEF t, last
<1>2. {t[k][1] : k \in DOMAIN s \cup {last}} = {t[k][1] : k \in DOMAIN s} \cup {t[last][1]}
  OBVIOUS
<1>3. {t[k][1] : k \in DOMAIN s} = {s[k][1] : k \in DOMAIN s}
  BY <1>1 DEF t
<1> QED BY <1>1, <1>2, <1>3 DEF t, last

\* Before the first call there is nothing to relate.
LEMMA AnswerInit == HandlerInit => AnswerInv
  BY DEF HandlerInit, AnswerInv, AcceptedIsFirst

\* Every step of the loops keeps the relation between what lies behind the
\* indices and what has been accepted; the response freezes it.
LEMMA AnswerStep == HandlerTypeOK /\ AnswerInv /\ [HandlerNext]_handlerVars => AnswerInv'
<1> SUFFICES ASSUME HandlerTypeOK, AnswerInv, [HandlerNext]_handlerVars PROVE AnswerInv'
  OBVIOUS
<1> USE RequestIEs
<1>1. ASSUME NEW r \in Request, Call(r) PROVE AnswerInv'
  <2>1. AcceptingIEs(r, 0) = {}
    BY DEF AcceptingIEs
  <2>2. /\ pc' = "ies" /\ sent' = <<>> /\ acceptAt' = <<>> /\ actionIdsAccept' = <<>>
        /\ i' - 1 = 0 /\ request' = r
    BY <1>1 DEF Call
  <2>3. Covered' = {}
    BY <2>2 DEF Covered
  <2>4. AcceptedIsFirst'
    BY <2>2 DEF AcceptedIsFirst
  <2> QED BY <2>1, <2>2, <2>3, <2>4 DEF AnswerInv
\* An IE the loop passes over without entering the inner loop.
<1>2. ASSUME pc = "ies", pc' = "ies", i \in DOMAIN request, ~IsDetails(request[i]),
             i' = i + 1,
             UNCHANGED <<request, actionIdsAccept, sent, acceptAt>>
      PROVE  AnswerInv'
  <2>1. AcceptedIsFirst'
    BY <1>2 DEF AnswerInv, AcceptedIsFirst
  <2>2. Covered' = Covered
    BY <1>2 DEF Covered
  <2>3. AcceptingIEs(request, i) = AcceptingIEs(request, i - 1)
    BY <1>2, AcceptingNext
  <2>4. i' - 1 = i
    BY <1>2 DEF HandlerTypeOK
  <2> QED BY <1>2, <2>1, <2>2, <2>3, <2>4 DEF AnswerInv
<1>3. CASE ReadRequestId
  BY <1>2, <1>3 DEF ReadRequestId, AtIE, HandlerTypeOK, IsDetails
<1>4. CASE ReadRanFunctionId
  BY <1>2, <1>4 DEF ReadRanFunctionId, AtIE, HandlerTypeOK, IsDetails
<1>5. CASE SkipIE
  BY <1>2, <1>5 DEF SkipIE, AtIE, HandlerTypeOK, IsDetails
<1>6. CASE EnterDetails
  <2>1. AcceptedIsFirst'
    BY <1>6 DEF AnswerInv, AcceptedIsFirst, EnterDetails
  <2>2. Covered' = Covered
    BY <1>6 DEF Covered, EnterDetails
  <2>3. 1..(j' - 1) = {}
    BY <1>6 DEF EnterDetails
  <2> QED BY <1>6, <2>1, <2>2, <2>3 DEF AnswerInv, EnterDetails, AtIE
\* The inner loop, at an action of the i-th IE.
<1>7. ASSUME AtAction
      PROVE  /\ i \in DOMAIN request /\ IsDetails(request[i])
             /\ j \in DOMAIN request[i].actions
             /\ i \in Nat \ {0} /\ j \in Nat \ {0}
             /\ <<i, j>> \in Nat \X Nat
             /\ 1..(j + 1 - 1) = 1..(j - 1) \cup {j}
  <2>1. request[i].actions \in Seq(Action)
    BY <1>7, IEFields DEF HandlerTypeOK, AtAction, IsDetails
  <2>2. i \in Nat \ {0} /\ j \in Nat \ {0} /\ 1..(j + 1 - 1) = 1..(j - 1) \cup {j}
    BY DEF HandlerTypeOK
  <2>3. i \in DOMAIN request /\ IsDetails(request[i]) /\ j <= Len(request[i].actions)
    BY <1>7 DEF HandlerTypeOK, AtAction
  <2> QED BY <2>1, <2>2, <2>3
<1>8. CASE AcceptAction
  <2> DEFINE n == Len(acceptAt) + 1
  <2>1. AtAction /\ ~foundAction /\ Acceptable(request[i].actions[j])
    BY <1>8 DEF AcceptAction, MayAccept
  <2>2. Covered = AcceptingIEs(request, i - 1)
    BY <2>1 DEF AnswerInv, AtAction
  <2>3. IsFirstAcceptable(request[i].actions, j)
    BY <1>7, <2>1 DEF AnswerInv, AtAction, IsFirstAcceptable
  <2>4. /\ acceptAt' = Append(acceptAt, <<i, j>>)
        /\ actionIdsAccept' = Append(actionIdsAccept, request[i].actions[j].id)
        /\ request' = request
    BY <1>8 DEF AcceptAction
  <2>5. /\ DOMAIN acceptAt' = DOMAIN acceptAt \cup {n}
        /\ \A k \in DOMAIN acceptAt : acceptAt'[k] = acceptAt[k] /\ k < n
        /\ acceptAt'[n] = <<i, j>>
        /\ Covered' = Covered \cup {i}
    <3> DEFINE e == <<i, j>>
    <3>1. e \in Nat \X Nat /\ e[1] = i /\ acceptAt \in Seq(Nat \X Nat)
      BY <1>7, <2>1 DEF HandlerTypeOK
    <3>2. acceptAt' = Append(acceptAt, e)
      BY <2>4
    <3> HIDE DEF e
    <3>3. /\ DOMAIN acceptAt' = DOMAIN acceptAt \cup {n}
          /\ \A k \in DOMAIN acceptAt : acceptAt'[k] = acceptAt[k] /\ k < n
          /\ acceptAt'[n] = e
          /\ Covered' = Covered \cup {e[1]}
      BY <3>1, <3>2, AppendCovers DEF Covered
    <3> QED BY <3>1, <3>3 DEF e
  <2>6. /\ Len(acceptAt') = Len(actionIdsAccept')
        /\ \A k \in DOMAIN acceptAt : actionIdsAccept'[k] = actionIdsAccept[k]
        /\ actionIdsAccept'[n] = request[i].actions[j].id
    <3>1. /\ acceptAt \in Seq(Nat \X Nat) /\ actionIdsAccept \in Seq(ActionId)
          /\ Len(acceptAt) = Len(actionIdsAccept)
      BY DEF AnswerInv, AcceptedIsFirst, HandlerTypeOK
    <3> QED BY <2>4, <3>1
  <2>7. \A k \in DOMAIN acceptAt : acceptAt[k][1] < i
    <3> SUFFICES ASSUME NEW k \in DOMAIN acceptAt PROVE acceptAt[k][1] < i
      OBVIOUS
    <3>1. acceptAt[k][1] \in AcceptingIEs(request, i - 1)
      BY <2>2 DEF Covered
    <3>2. i - 1 \in Nat
      BY <1>7, <2>1
    <3>3. acceptAt[k][1] \in 1..(i - 1)
      BY <3>1, <3>2, AcceptingBound
    <3> QED BY <3>3, <1>7, <2>1
  <2>8. AcceptedIsFirst'
    <3>1. ASSUME NEW k \in DOMAIN acceptAt'
          PROVE  /\ acceptAt'[k][1] \in DOMAIN request
                 /\ IsDetails(request[acceptAt'[k][1]])
                 /\ IsFirstAcceptable(request[acceptAt'[k][1]].actions, acceptAt'[k][2])
                 /\ actionIdsAccept'[k] = ActionAt(request, acceptAt'[k]).id
      <4>1. CASE k \in DOMAIN acceptAt
        BY <4>1, <2>5, <2>6 DEF AnswerInv, AcceptedIsFirst
      <4>2. CASE k = n
        BY <4>2, <1>7, <2>1, <2>3, <2>5, <2>6 DEF ActionAt
      <4> QED BY <4>1, <4>2, <2>5
    <3>2. ASSUME NEW k \in DOMAIN acceptAt', NEW l \in DOMAIN acceptAt', k < l
          PROVE  acceptAt'[k][1] < acceptAt'[l][1]
      <4>1. CASE l \in DOMAIN acceptAt
        <5>1. k \in DOMAIN acceptAt
          BY <3>2, <4>1, <2>5 DEF HandlerTypeOK
        <5> QED BY <3>2, <4>1, <5>1, <2>5 DEF AnswerInv, AcceptedIsFirst
      <4>2. CASE l = n
        <5>1. k \in DOMAIN acceptAt
          BY <3>2, <4>2, <2>5 DEF HandlerTypeOK
        <5> QED BY <4>2, <5>1, <2>5, <2>7
      <4> QED BY <4>1, <4>2, <2>5
    <3> QED BY <3>1, <3>2, <2>4, <2>6 DEF AcceptedIsFirst
  <2>9. \E m \in 1..(j' - 1) : Acceptable(request[i].actions[m])
    BY <1>7, <1>8, <2>1 DEF AcceptAction
  <2> QED BY <1>8, <2>1, <2>2, <2>5, <2>8, <2>9 DEF AnswerInv, AcceptAction, AtAction
<1>9. CASE RejectAction
  <2>1. AtAction /\ (foundAction \/ ~Acceptable(request[i].actions[j]))
    BY <1>9 DEF RejectAction, MayAccept
  <2>2. AcceptedIsFirst'
    BY <1>9 DEF AnswerInv, AcceptedIsFirst, RejectAction
  <2>3. Covered' = Covered
    BY <1>9 DEF Covered, RejectAction
  <2>4. 1..(j' - 1) = 1..(j - 1) \cup {j}
    BY <1>7, <1>9, <2>1 DEF RejectAction
  <2>5. UNCHANGED <<pc, request, i, foundAction, actionIdsAccept, sent, result>>
    BY <1>9 DEF RejectAction
  <2>6. pc = "actions"
    BY <2>1 DEF AtAction
  <2> QED BY <2>1, <2>2, <2>3, <2>4, <2>5, <2>6 DEF AnswerInv
<1>10. CASE LeaveDetails
  <2>1. /\ i \in DOMAIN request /\ IsDetails(request[i]) /\ i \in Nat \ {0}
        /\ DOMAIN request[i].actions = 1..(j - 1)
    <3>1. request[i].actions \in Seq(Action)
      BY <1>10, IEFields DEF HandlerTypeOK, LeaveDetails, IsDetails
    <3>2. j - 1 = Len(request[i].actions)
      BY <1>10, <3>1 DEF HandlerTypeOK, LeaveDetails
    <3> QED BY <1>10, <3>1, <3>2 DEF HandlerTypeOK, LeaveDetails
  <2>2. AcceptedIsFirst'
    BY <1>10 DEF AnswerInv, AcceptedIsFirst, LeaveDetails
  <2>3. Covered' = Covered
    BY <1>10 DEF Covered, LeaveDetails
  <2>4. Covered = AcceptingIEs(request, i)
    BY <1>10, <2>1, AcceptingNext DEF AnswerInv, LeaveDetails
  <2>5. i' - 1 = i
    BY <1>10, <2>1 DEF LeaveDetails
  <2>6. pc = "actions" /\ pc' = "ies" /\ UNCHANGED <<request, sent>>
    BY <1>10 DEF LeaveDetails
  <2> QED BY <2>2, <2>3, <2>4, <2>5, <2>6 DEF AnswerInv
<1>11. CASE SendResponse
  <2>1. AcceptedIsFirst'
    BY <1>11 DEF AnswerInv, AcceptedIsFirst, SendResponse
  <2>2. Covered' = Covered
    BY <1>11 DEF Covered, SendResponse
  <2>3. i - 1 = Len(request)
    BY <1>11 DEF SendResponse, HandlerTypeOK
  <2>4. Covered = AcceptingIEs(request, Len(request))
    BY <1>11, <2>3 DEF AnswerInv, SendResponse
  <2>5. /\ Len(sent') = 1
        /\ sent'[1] = [requestor |-> params.requestor, instance |-> params.instance,
                       accepted |-> actionIdsAccept, rejected |-> actionIdsReject]
    BY <1>11 DEF AnswerInv, SendResponse
  <2> QED BY <1>11, <2>1, <2>2, <2>4, <2>5 DEF AnswerInv, SendResponse
<1>12. CASE Return
  <2>1. AcceptedIsFirst'
    BY <1>12 DEF AnswerInv, AcceptedIsFirst, Return
  <2>2. Covered' = Covered
    BY <1>12 DEF Covered, Return
  <2> QED BY <1>12, <2>1, <2>2 DEF AnswerInv, Return
<1>13. CASE UNCHANGED handlerVars
  <2>1. AcceptedIsFirst' /\ Covered' = Covered
    BY <1>13 DEF AnswerInv, AcceptedIsFirst, Covered, handlerVars
  <2> QED BY <1>13, <2>1 DEF AnswerInv, handlerVars
<1> QED
  BY <1>1, <1>3, <1>4, <1>5, <1>6, <1>8, <1>9, <1>10, <1>11, <1>12, <1>13 DEF HandlerNext, Step

\* The handler's safety: what it accepts is the first acceptable action of
\* each Details IE, it answers once, completely and before it returns, and
\* what it returns matches the response.
THEOREM AnswerCorrect ==
  HandlerSpec => [](AcceptedIsFirst /\ AnswerIsComplete /\ ReturnMatchesResponse)
<1>1. AnswerInv => AcceptedIsFirst /\ AnswerIsComplete /\ ReturnMatchesResponse
  BY DEF AnswerInv, AnswerIsComplete, ReturnMatchesResponse, Covered
<1>2. HandlerInit => HandlerTypeOK /\ AnswerInv
  BY TypeInit, AnswerInit
<1>3. HandlerTypeOK /\ AnswerInv /\ [HandlerNext]_handlerVars => (HandlerTypeOK /\ AnswerInv)'
  BY TypeStep, AnswerStep
<1> QED BY <1>1, <1>2, <1>3, PTL DEF HandlerSpec
==============================================================================
