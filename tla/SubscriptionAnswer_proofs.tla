---------------------- MODULE SubscriptionAnswer_proofs ----------------------
(***************************************************************************)
(* The handler of subscription requests implements the one-shot answer,    *)
(* for every request: what its locals hold part way through the loops, and *)
(* then the steps of SubscriptionAnswer they amount to.                    *)
(***************************************************************************)
EXTENDS RicSubscription_proofs

-----------------------------------------------------------------------------
(* What the locals hold after the first n IEs *)

HasRequestId(r, n, requestor, instance) ==
  \/ (\A k \in 1..n : r[k].kind # "RICrequestID") /\ requestor = 0 /\ instance = 0
  \/ \E k \in 1..n :
       /\ r[k].kind = "RICrequestID" /\ r[k].requestor = requestor /\ r[k].instance = instance
       /\ \A l \in (k + 1)..n : r[l].kind # "RICrequestID"

HasFunction(r, n, function) ==
  \/ (\A k \in 1..n : r[k].kind # "RANfunctionID") /\ function = 0
  \/ \E k \in 1..n :
       /\ r[k].kind = "RANfunctionID" /\ r[k].function = function
       /\ \A l \in (k + 1)..n : r[l].kind # "RANfunctionID"

\* The positions in the first n IEs, and the first m of the next one.
Passed(r, n, m) ==
  {p \in ActionPositions(r) : p[1] <= n \/ (p[1] = n + 1 /\ p[2] <= m)}

HasLast(r, P, id) ==
  \/ P = {} /\ id = 0
  \/ \E p \in P : /\ id = ActionAt(r, p).id
                  /\ \A q \in P : q[1] < p[1] \/ (q[1] = p[1] /\ q[2] <= p[2])

Complete(r, ps) ==
  /\ HasRequestId(r, Len(r), ps.requestor, ps.instance)
  /\ HasFunction(r, Len(r), ps.function)
  /\ HasLast(r, ActionPositions(r), ps.action)

\* The locals are those of the part of the request behind the indices; at most
\* one action per IE behind them was accepted, and none recorded as rejected.
Collected ==
  /\ pc \in {"ies", "actions"} =>
       /\ HasRequestId(request, i - 1, params.requestor, params.instance)
       /\ HasFunction(request, i - 1, params.function)
  /\ pc = "ies" =>
       HasLast(request, Passed(request, i - 1, 0), params.action) /\ Len(acceptAt) <= i - 1
  /\ pc = "actions" =>
       /\ HasLast(request, Passed(request, i - 1, j - 1), params.action)
       /\ Len(acceptAt) <= IF foundAction THEN i ELSE i - 1
  /\ pc = "return" \/ (pc = "idle" /\ sent # <<>>) => Complete(request, params)
  /\ actionIdsReject = <<>>
  /\ sent # <<>> => sent[1].rejected = <<>>

\* One more IE: of the kind, its ids; of another kind, the ids stay.
LEMMA NextRequestId ==
  ASSUME NEW r, NEW n \in Nat \ {0}, NEW q, NEW s, HasRequestId(r, n - 1, q, s)
  PROVE  /\ r[n].kind = "RICrequestID" => HasRequestId(r, n, r[n].requestor, r[n].instance)
         /\ r[n].kind # "RICrequestID" => HasRequestId(r, n, q, s)
<1>1. 1..n = 1..(n - 1) \cup {n} /\ n \in 1..n /\ (n + 1)..n = {}
  OBVIOUS
<1>2. \A k \in 1..(n - 1) : (k + 1)..n = (k + 1)..(n - 1) \cup {n}
  OBVIOUS
<1>3. r[n].kind = "RICrequestID" => HasRequestId(r, n, r[n].requestor, r[n].instance)
  BY <1>1 DEF HasRequestId
<1>4. r[n].kind # "RICrequestID" => HasRequestId(r, n, q, s)
  <2> SUFFICES ASSUME r[n].kind # "RICrequestID" PROVE HasRequestId(r, n, q, s)
    OBVIOUS
  <2>1. CASE (\A k \in 1..(n - 1) : r[k].kind # "RICrequestID") /\ q = 0 /\ s = 0
    BY <1>1, <2>1 DEF HasRequestId
  <2>2. ASSUME NEW k \in 1..(n - 1), r[k].kind = "RICrequestID",
               r[k].requestor = q, r[k].instance = s,
               \A l \in (k + 1)..(n - 1) : r[l].kind # "RICrequestID"
        PROVE  HasRequestId(r, n, q, s)
    <3>1. k \in 1..n /\ \A l \in (k + 1)..n : r[l].kind # "RICrequestID"
      BY <1>1, <1>2, <2>2
    <3> QED BY <2>2, <3>1 DEF HasRequestId
  <2> QED BY <2>1, <2>2 DEF HasRequestId
<1> QED BY <1>3, <1>4

LEMMA NextFunction ==
  ASSUME NEW r, NEW n \in Nat \ {0}, NEW f, HasFunction(r, n - 1, f)
  PROVE  /\ r[n].kind = "RANfunctionID" => HasFunction(r, n, r[n].function)
         /\ r[n].kind # "RANfunctionID" => HasFunction(r, n, f)
<1>1. 1..n = 1..(n - 1) \cup {n} /\ n \in 1..n /\ (n + 1)..n = {}
  OBVIOUS
<1>2. \A k \in 1..(n - 1) : (k + 1)..n = (k + 1)..(n - 1) \cup {n}
  OBVIOUS
<1>3. r[n].kind = "RANfunctionID" => HasFunction(r, n, r[n].function)
  BY <1>1 DEF HasFunction
<1>4. r[n].kind # "RANfunctionID" => HasFunction(r, n, f)
  <2> SUFFICES ASSUME r[n].kind # "RANfunctionID" PROVE HasFunction(r, n, f)
    OBVIOUS
  <2>1. CASE (\A k \in 1..(n - 1) : r[k].kind # "RANfunctionID") /\ f = 0
    BY <1>1, <2>1 DEF HasFunction
  <2>2. ASSUME NEW k \in 1..(n - 1), r[k].kind = "RANfunctionID", r[k].function = f,
               \A l \in (k + 1)..(n - 1) : r[l].kind # "RANfunctionID"
        PROVE  HasFunction(r, n, f)
    <3>1. k \in 1..n /\ \A l \in (k + 1)..n : r[l].kind # "RANfunctionID"
      BY <1>1, <1>2, <2>2
    <3> QED BY <2>2, <3>1 DEF HasFunction
  <2> QED BY <2>1, <2>2 DEF HasFunction
<1> QED BY <1>3, <1>4

-----------------------------------------------------------------------------
(* Positions *)

\* The positions of a request are pairs of an index of a Details IE and an
\* index of its actions.
LEMMA Positions ==
  ASSUME NEW r \in Seq(IE)
  PROVE  \A p : p \in ActionPositions(r) <=>
           \E k \in DOMAIN r : IsDetails(r[k]) /\ \E m \in DOMAIN r[k].actions : p = <<k, m>>
  BY DEF ActionPositions

LEMMA PositionIndices ==
  ASSUME NEW r \in Seq(IE), NEW p \in ActionPositions(r)
  PROVE  /\ p = <<p[1], p[2]>> /\ p[1] \in DOMAIN r /\ IsDetails(r[p[1]])
         /\ p[2] \in DOMAIN r[p[1]].actions /\ p[1] \in Nat \ {0} /\ p[2] \in Nat \ {0}
<1>1. PICK k \in DOMAIN r : IsDetails(r[k]) /\ \E m \in DOMAIN r[k].actions : p = <<k, m>>
  BY Positions
<1>2. r[k] \in IE /\ k \in Nat \ {0}
  OBVIOUS
<1>3. r[k].actions \in Seq(Action)
  BY <1>1, <1>2, IEFields DEF IsDetails
<1>4. PICK m \in DOMAIN r[k].actions : p = <<k, m>>
  BY <1>1
<1>5. m \in Nat \ {0}
  BY <1>3, <1>4
<1>6. p[1] = k /\ p[2] = m
  BY <1>4
<1> QED BY <1>1, <1>2, <1>4, <1>5, <1>6

\* An IE without actions, or with none left, adds no position; the next action
\* of a Details IE adds its own, which is the last.
LEMMA PassedNext ==
  ASSUME NEW r \in Seq(IE), NEW n \in Nat \ {0}, n \in DOMAIN r
  PROVE  /\ Passed(r, 0, 0) = {}
         /\ ~IsDetails(r[n]) => Passed(r, n, 0) = Passed(r, n - 1, 0)
         /\ IsDetails(r[n]) => Passed(r, n, 0) = Passed(r, n - 1, Len(r[n].actions))
         /\ \A m \in DOMAIN r[n].actions : IsDetails(r[n]) =>
              Passed(r, n - 1, m) = Passed(r, n - 1, m - 1) \cup {<<n, m>>}
<1> USE PositionIndices
<1>1. Passed(r, 0, 0) = {}
  BY DEF Passed
<1>2. \A p \in ActionPositions(r) : /\ p[1] <= n <=> p[1] <= n - 1 \/ p[1] = n
                                    /\ ~(p[1] = n + 1 /\ p[2] <= 0)
                                    /\ p[1] = (n - 1) + 1 <=> p[1] = n
                                    /\ ~(p[2] <= 0)
  OBVIOUS
<1>3. ASSUME ~IsDetails(r[n]) PROVE Passed(r, n, 0) = Passed(r, n - 1, 0)
  <2>1. \A p \in ActionPositions(r) : p[1] # n
    BY <1>3
  <2> QED BY <1>2, <2>1 DEF Passed
<1>4. ASSUME IsDetails(r[n]) PROVE Passed(r, n, 0) = Passed(r, n - 1, Len(r[n].actions))
  <2>1. r[n].actions \in Seq(Action)
    BY <1>4, IEFields DEF IsDetails
  <2>2. \A p \in ActionPositions(r) : p[1] = n => p[2] <= Len(r[n].actions)
    BY <2>1
  <2> QED BY <1>2, <2>2 DEF Passed
<1>5. ASSUME NEW m \in DOMAIN r[n].actions, IsDetails(r[n])
      PROVE  Passed(r, n - 1, m) = Passed(r, n - 1, m - 1) \cup {<<n, m>>}
  <2>1. m \in Nat \ {0}
    <3>1. r[n].actions \in Seq(Action)
      BY <1>5, IEFields DEF IsDetails
    <3> QED BY <3>1
  <2>2. <<n, m>> \in ActionPositions(r) /\ <<n, m>>[1] = n /\ <<n, m>>[2] = m
    BY <1>5, Positions
  <2>3. \A p \in ActionPositions(r) :
          p[2] <= m <=> p[2] <= m - 1 \/ p[2] = m
    BY <2>1
  <2>4. \A p \in ActionPositions(r) : p[1] = n /\ p[2] = m => p = <<n, m>>
    OBVIOUS
  <2>5. <<n, m>> \in Passed(r, n - 1, m)
    BY <1>2, <2>1, <2>2 DEF Passed
  <2> QED BY <1>2, <2>1, <2>2, <2>3, <2>4, <2>5 DEF Passed
<1> QED BY <1>1, <1>3, <1>4, <1>5

LEMMA PassedAll ==
  ASSUME NEW r \in Seq(IE)
  PROVE  Passed(r, Len(r), 0) = ActionPositions(r)
<1>1. \A p \in ActionPositions(r) : p[1] <= Len(r)
  BY PositionIndices
<1> QED BY <1>1 DEF Passed

\* The action passed last is the last one.
LEMMA NextLast ==
  ASSUME NEW r \in Seq(IE), NEW n \in DOMAIN r, IsDetails(r[n]), NEW m \in DOMAIN r[n].actions
  PROVE  HasLast(r, Passed(r, n - 1, m), r[n].actions[m].id)
<1> DEFINE p == <<n, m>>
           P == Passed(r, n - 1, m)
<1>1. n \in Nat \ {0} /\ m \in Nat \ {0}
  <2>1. r[n] \in IE /\ r[n].actions \in Seq(Action)
    BY IEFields DEF IsDetails
  <2> QED BY <2>1
<1>2. p \in P
  BY <1>1, PassedNext
<1>3. ActionAt(r, p).id = r[n].actions[m].id
  BY DEF ActionAt
<1>4. p[1] = n /\ p[2] = m
  OBVIOUS
<1>5. \A q \in P : q[1] \in Nat /\ q[2] \in Nat /\ (q[1] <= n - 1 \/ (q[1] = n /\ q[2] <= m))
  BY <1>1, PositionIndices DEF Passed
<1>6. \A q \in P : q[1] < p[1] \/ (q[1] = p[1] /\ q[2] <= p[2])
  <2> HIDE DEF P, p
  <2> QED BY <1>1, <1>4, <1>5
<1> HIDE DEF P, p
<1> QED BY <1>2, <1>3, <1>6 DEF HasLast, P

-----------------------------------------------------------------------------

LEMMA CollectedInit == HandlerInit => Collected
  BY DEF HandlerInit, Collected

\* Between two IEs, an IE of another kind than Details.
LEMMA PassIE ==
  ASSUME HandlerTypeOK, Collected, pc = "ies", pc' = "ies",
         i \in DOMAIN request, ~IsDetails(request[i]), i' = i + 1,
         UNCHANGED <<request, actionIdsReject, sent, acceptAt>>,
         params'.action = params.action,
         HasRequestId(request, i, params'.requestor, params'.instance),
         HasFunction(request, i, params'.function)
  PROVE  Collected'
<1>1. request \in Seq(IE) /\ i \in Nat \ {0}
  BY RequestIEs DEF HandlerTypeOK
<1>2. Passed(request, i, 0) = Passed(request, i - 1, 0)
  BY <1>1, PassedNext
<1>3. i' - 1 = i /\ Len(acceptAt) \in Nat
  <2>1. acceptAt \in Seq(Nat \X Nat)
    BY DEF HandlerTypeOK
  <2> QED BY <1>1, <2>1
<1>4. HasLast(request, Passed(request, i, 0), params.action) /\ Len(acceptAt) <= i
  BY <1>1, <1>2, <1>3 DEF Collected
<1>5. /\ HasRequestId(request', i' - 1, params'.requestor, params'.instance)
      /\ HasFunction(request', i' - 1, params'.function)
  BY <1>3
<1>6. HasLast(request', Passed(request', i' - 1, 0), params'.action) /\ Len(acceptAt') <= i' - 1
  BY <1>3, <1>4
<1>7. actionIdsReject' = <<>> /\ (sent' # <<>> => sent'[1].rejected = <<>>)
  BY DEF Collected
<1> QED BY <1>5, <1>6, <1>7 DEF Collected

\* Every step of the handler collects what it passes.
LEMMA CollectedStep == HandlerTypeOK /\ AnswerInv /\ Collected /\ [HandlerNext]_handlerVars => Collected'
<1> SUFFICES ASSUME HandlerTypeOK, AnswerInv, Collected, [HandlerNext]_handlerVars PROVE Collected'
  OBVIOUS
<1>1. /\ request \in Seq(IE) /\ i \in Nat \ {0} /\ j \in Nat \ {0} /\ Len(acceptAt) \in Nat
      /\ params \in Params
  BY RequestIEs DEF HandlerTypeOK
<1>2. ASSUME NEW r \in Request, Call(r) PROVE Collected'
  <2>1. /\ pc' = "ies" /\ request' = r /\ i' - 1 = 0 /\ params' = NoParams /\ sent' = <<>>
        /\ actionIdsReject' = <<>> /\ Len(acceptAt') = 0
    BY <1>2 DEF Call
  <2>2. HasRequestId(r, 0, 0, 0) /\ HasFunction(r, 0, 0)
    BY DEF HasRequestId, HasFunction
  <2>3. Passed(r, 0, 0) = {}
    <3>1. r \in Seq(IE)
      BY RequestsAreIELists
    <3>2. \A p \in ActionPositions(r) : ~(p[1] <= 0) /\ ~(p[2] <= 0)
      BY <3>1, PositionIndices
    <3> QED BY <3>2 DEF Passed
  <2>4. HasLast(r, {}, 0)
    BY DEF HasLast
  <2>5. NoParams.requestor = 0 /\ NoParams.instance = 0 /\ NoParams.function = 0
        /\ NoParams.action = 0
    BY DEF NoParams
  <2>6. HasRequestId(request', i' - 1, params'.requestor, params'.instance)
    BY <2>1, <2>2, <2>5
  <2>7. HasFunction(request', i' - 1, params'.function)
    BY <2>1, <2>2, <2>5
  <2>8. HasLast(request', Passed(request', i' - 1, 0), params'.action)
    BY <2>1, <2>3, <2>4, <2>5
  <2>9. Len(acceptAt') <= i' - 1
    BY <2>1
  <2> QED BY <2>1, <2>6, <2>7, <2>8, <2>9 DEF Collected
<1>3. CASE ReadRequestId
  <2>1. /\ pc = "ies" /\ pc' = "ies" /\ i \in DOMAIN request /\ i' = i + 1
        /\ request[i].kind = "RICrequestID"
        /\ params' = [params EXCEPT !.requestor = request[i].requestor,
                                    !.instance = request[i].instance]
        /\ UNCHANGED <<request, actionIdsReject, sent, acceptAt>>
    BY <1>1, <1>3 DEF ReadRequestId, AtIE
  <2>2. /\ params'.requestor = request[i].requestor /\ params'.instance = request[i].instance
        /\ params'.function = params.function /\ params'.action = params.action
    BY <1>1, <2>1 DEF Params
  <2>3. HasRequestId(request, i, request[i].requestor, request[i].instance)
    BY <1>1, <2>1, NextRequestId DEF Collected
  <2>4. HasFunction(request, i, params.function)
    BY <1>1, <2>1, NextFunction DEF Collected
  <2> QED BY <2>1, <2>2, <2>3, <2>4, PassIE DEF IsDetails
<1>4. CASE ReadRanFunctionId
  <2>1. /\ pc = "ies" /\ pc' = "ies" /\ i \in DOMAIN request /\ i' = i + 1
        /\ request[i].kind = "RANfunctionID"
        /\ params' = [params EXCEPT !.function = request[i].function]
        /\ UNCHANGED <<request, actionIdsReject, sent, acceptAt>>
    BY <1>1, <1>4 DEF ReadRanFunctionId, AtIE
  <2>2. /\ params'.requestor = params.requestor /\ params'.instance = params.instance
        /\ params'.function = request[i].function /\ params'.action = params.action
    BY <1>1, <2>1 DEF Params
  <2>3. HasRequestId(request, i, params.requestor, params.instance)
    BY <1>1, <2>1, NextRequestId DEF Collected
  <2>4. HasFunction(request, i, request[i].function)
    BY <1>1, <2>1, NextFunction DEF Collected
  <2> QED BY <2>1, <2>2, <2>3, <2>4, PassIE DEF IsDetails
<1>5. CASE SkipIE
  <2>1. /\ pc = "ies" /\ pc' = "ies" /\ i \in DOMAIN request /\ i' = i + 1
        /\ request[i].kind = "other"
        /\ UNCHANGED <<request, params, actionIdsReject, sent, acceptAt>>
    BY <1>1, <1>5 DEF SkipIE, AtIE
  <2>2. HasRequestId(request, i, params.requestor, params.instance)
    BY <1>1, <2>1, NextRequestId DEF Collected
  <2>3. HasFunction(request, i, params.function)
    BY <1>1, <2>1, NextFunction DEF Collected
  <2> QED BY <2>1, <2>2, <2>3, PassIE DEF IsDetails
\* At the start of the inner loop nothing of the IE is passed.
<1>6. CASE EnterDetails
  <2>1. /\ pc = "ies" /\ pc' = "actions" /\ j' - 1 = 0 /\ foundAction' = FALSE
        /\ UNCHANGED <<request, i, params, actionIdsReject, sent, acceptAt>>
    BY <1>6 DEF EnterDetails, AtIE
  <2> QED BY <2>1 DEF Collected
<1>7. CASE AcceptAction \/ RejectAction
  <2>1. /\ pc = "actions" /\ pc' = "actions" /\ i \in DOMAIN request /\ IsDetails(request[i])
        /\ j <= Len(request[i].actions) /\ j' = j + 1
        /\ params' = [params EXCEPT !.action = request[i].actions[j].id]
        /\ UNCHANGED <<request, i, actionIdsReject, sent>>
    BY <1>7 DEF AcceptAction, RejectAction, AtAction, HandlerTypeOK
  <2>2. request[i].actions \in Seq(Action)
    BY <1>1, <2>1, RequestIEs, IEFields DEF IsDetails
  <2>3. j \in DOMAIN request[i].actions /\ j' - 1 = j
    BY <1>1, <2>1, <2>2
  <2>4. /\ params'.requestor = params.requestor /\ params'.instance = params.instance
        /\ params'.function = params.function
        /\ params'.action = request[i].actions[j].id
    BY <1>1, <2>1 DEF Params
  <2>5. HasLast(request, Passed(request, i - 1, j), params'.action)
    BY <1>1, <2>1, <2>3, <2>4, NextLast
  <2>6. Len(acceptAt') <= IF foundAction' THEN i ELSE i - 1
    <3>1. CASE AcceptAction
      <4>1. ~foundAction /\ foundAction' = TRUE /\ Len(acceptAt) <= i - 1
        BY <2>1, <3>1 DEF AcceptAction, MayAccept, Collected
      <4>2. Len(acceptAt') = Len(acceptAt) + 1
        BY <1>1, <3>1 DEF AcceptAction, HandlerTypeOK
      <4> QED BY <1>1, <4>1, <4>2
    <3>2. CASE RejectAction
      BY <2>1, <3>2 DEF RejectAction, Collected
    <3> QED BY <1>7, <3>1, <3>2
  <2> QED BY <2>1, <2>3, <2>4, <2>5, <2>6 DEF Collected
<1>8. CASE LeaveDetails
  <2>1. /\ pc = "actions" /\ pc' = "ies" /\ i \in DOMAIN request /\ IsDetails(request[i])
        /\ i' = i + 1 /\ request[i].kind = "RICsubscriptionDetails"
        /\ UNCHANGED <<request, params, actionIdsReject, sent, acceptAt>>
    BY <1>8 DEF LeaveDetails, HandlerTypeOK, IsDetails
  <2>2. request[i].actions \in Seq(Action)
    BY <1>1, <2>1, RequestIEs, IEFields
  <2>3. j - 1 = Len(request[i].actions)
    BY <1>1, <1>8, <2>2 DEF LeaveDetails, HandlerTypeOK
  <2>4. HasLast(request, Passed(request, i, 0), params.action)
    BY <1>1, <2>1, <2>3, PassedNext DEF Collected
  <2>5. /\ HasRequestId(request, i, params.requestor, params.instance)
        /\ HasFunction(request, i, params.function)
    BY <1>1, <2>1, NextRequestId, NextFunction DEF Collected
  <2>6. Len(acceptAt') <= i /\ i' - 1 = i
    BY <1>1, <2>1 DEF Collected
  <2> QED BY <2>1, <2>4, <2>5, <2>6 DEF Collected
\* After the last IE the locals are those of the whole request.
<1>9. CASE SendResponse
  <2>1. /\ pc = "ies" /\ pc' = "return" /\ i - 1 = Len(request)
        /\ UNCHANGED <<request, params, actionIdsReject, acceptAt>>
        /\ sent' = <<[requestor |-> params.requestor, instance |-> params.instance,
                      accepted |-> actionIdsAccept, rejected |-> actionIdsReject]>>
    BY <1>1, <1>9 DEF SendResponse, HandlerTypeOK, AnswerInv
  <2>2. Complete(request, params)
    BY <1>1, <2>1, PassedAll DEF Collected, Complete
  <2> QED BY <2>1, <2>2 DEF Collected
<1>10. CASE Return
  BY <1>10 DEF Return, Collected
<1>11. CASE UNCHANGED handlerVars
  BY <1>11 DEF handlerVars, Collected
<1> QED
  BY <1>2, <1>3, <1>4, <1>5, <1>6, <1>7, <1>8, <1>9, <1>10, <1>11 DEF HandlerNext, Step

\* The three hold wherever the handler runs, alone or inside the termination.
LEMMA HandlerRuns ==
  HandlerInit /\ [][HandlerNext]_handlerVars => [](HandlerTypeOK /\ AnswerInv /\ Collected)
  BY TypeInit, TypeStep, AnswerInit, AnswerStep, CollectedInit, CollectedStep, PTL

LEMMA AlwaysCollected == HandlerSpec => [](HandlerTypeOK /\ AnswerInv /\ Collected)
  BY HandlerRuns, PTL DEF HandlerSpec

-----------------------------------------------------------------------------
(* The safety properties of what is returned *)

\* Every response accepts the first acceptable action of each Details IE, in
\* order and as the loops go (oran-interface.cc:232-255).
THEOREM FirstIsAccepted == HandlerSpec => []AcceptedIsFirst
  BY AnswerCorrect, PTL

\* The response is sent once, complete (oran-interface.cc:278-281).
THEOREM AnswersAreComplete == HandlerSpec => []AnswerIsComplete
  BY AnswerCorrect, PTL

\* What is returned names the request the response names (oran-interface.cc:278-289).
THEOREM ReturnsMatch == HandlerSpec => []ReturnMatchesResponse
  BY AnswerCorrect, PTL

\* The invariant the run checks, for every request.
THEOREM AnswerInvariant == HandlerSpec => []AnswerInv
  BY AlwaysCollected, PTL

\* The action id returned is that of the last action of the request, whether
\* that was accepted or not (oran-interface.cc:244, 251).
THEOREM LastActionReturned == HandlerSpec => []ReturnedActionIsLast
<1>1. AnswerInv /\ Collected => ReturnedActionIsLast
  BY DEF AnswerInv, Collected, Complete, HasLast, ReturnedActionIsLast
<1> QED BY <1>1, AlwaysCollected, PTL

\* The one action of a request that names one, if it is acceptable, is both
\* accepted and returned (oran-interface.cc:239-246).
THEOREM OnlyActionReturned == HandlerSpec => []SoleActionReturned
<1>1. ASSUME HandlerTypeOK, AnswerInv, Collected, pc = "idle", sent # <<>>,
             NEW p \in ActionPositions(request),
             ActionPositions(request) = {p}, Acceptable(ActionAt(request, p))
      PROVE  sent[1].accepted = <<result.action>>
  <2>1. request \in Seq(IE)
    BY <1>1, RequestIEs
  <2>2. /\ p = <<p[1], p[2]>> /\ p[1] \in DOMAIN request /\ IsDetails(request[p[1]])
        /\ p[2] \in DOMAIN request[p[1]].actions
    BY <2>1, PositionIndices
  <2>3. result.action = ActionAt(request, p).id
    BY <1>1 DEF AnswerInv, Collected, Complete, HasLast
  <2>4. Covered = AcceptingIEs(request, Len(request)) /\ AcceptedIsFirst
        /\ sent[1].accepted = actionIdsAccept
    BY <1>1 DEF AnswerInv
  <2>5. \A k \in DOMAIN acceptAt : acceptAt[k] = p
    <3> SUFFICES ASSUME NEW k \in DOMAIN acceptAt PROVE acceptAt[k] = p
      OBVIOUS
    <3>1. acceptAt[k] \in Nat \X Nat
      BY <1>1 DEF HandlerTypeOK
    <3>2. /\ acceptAt[k][1] \in DOMAIN request /\ IsDetails(request[acceptAt[k][1]])
          /\ acceptAt[k][2] \in DOMAIN request[acceptAt[k][1]].actions
      BY <2>4 DEF AcceptedIsFirst, IsFirstAcceptable
    <3>3. acceptAt[k] = <<acceptAt[k][1], acceptAt[k][2]>>
      BY <3>1
    <3>4. acceptAt[k] \in ActionPositions(request)
      BY <2>1, <3>2, <3>3, Positions
    <3> QED BY <1>1, <3>4
  <2>6. p[1] \in AcceptingIEs(request, Len(request))
    BY <1>1, <2>1, <2>2 DEF AcceptingIEs, ActionAt
  <2>7. acceptAt \in Seq(Nat \X Nat) /\ actionIdsAccept \in Seq(ActionId)
        /\ Len(acceptAt) = Len(actionIdsAccept) /\ DOMAIN acceptAt = 1..Len(acceptAt)
    BY <1>1, <2>4 DEF HandlerTypeOK, AcceptedIsFirst
  <2>8. Len(acceptAt) # 0
    BY <2>4, <2>6, <2>7 DEF Covered
  <2>9. ~(Len(acceptAt) > 1)
    <3> SUFFICES ASSUME Len(acceptAt) > 1 PROVE FALSE
      OBVIOUS
    <3>1. 1 \in DOMAIN acceptAt /\ 2 \in DOMAIN acceptAt
      BY <2>7
    <3>2. acceptAt[1][1] < acceptAt[2][1]
      BY <2>4, <3>1 DEF AcceptedIsFirst
    <3>3. acceptAt[1] = acceptAt[2] /\ acceptAt[1][1] \in Nat
      BY <2>5, <2>7, <3>1
    <3> QED BY <3>2, <3>3
  <2>10. Len(actionIdsAccept) = 1 /\ 1 \in DOMAIN acceptAt
    BY <2>7, <2>8, <2>9
  <2>11. actionIdsAccept[1] = ActionAt(request, p).id
    BY <2>4, <2>5, <2>10 DEF AcceptedIsFirst
  <2> QED BY <2>3, <2>4, <2>7, <2>10, <2>11
<1>2. HandlerTypeOK /\ AnswerInv /\ Collected => SoleActionReturned
  BY <1>1 DEF SoleActionReturned
<1> QED BY <1>2, AlwaysCollected, PTL

-----------------------------------------------------------------------------
(* The refinement *)

\* What a request asks for means the same to the abstract handler.
LEMMA SameMeaning ==
  /\ \A a : Answers!Acceptable(a) = Acceptable(a)
  /\ \A ie : Answers!IsDetails(ie) = IsDetails(ie)
  /\ \A actions, m : Answers!IsFirstAcceptable(actions, m) = IsFirstAcceptable(actions, m)
  /\ \A r, n : Answers!AcceptingIEs(r, n) = AcceptingIEs(r, n)
  /\ \A r : Answers!ActionPositions(r) = ActionPositions(r)
  /\ \A r, p : Answers!ActionAt(r, p) = ActionAt(r, p)
  BY DEF Answers!Acceptable, Acceptable, Answers!IsDetails, IsDetails,
    Answers!IsFirstAcceptable, IsFirstAcceptable, Answers!AcceptingIEs, AcceptingIEs,
    Answers!ActionPositions, ActionPositions, Answers!ActionAt, ActionAt

\* There is one first acceptable action.
LEMMA FirstIsUnique ==
  ASSUME NEW actions \in Seq(Action), NEW m, IsFirstAcceptable(actions, m)
  PROVE  Answers!FirstAcceptableId(actions) = actions[m].id
<1> DEFINE n == CHOOSE k \in DOMAIN actions : Answers!IsFirstAcceptable(actions, k)
<1>1. m \in DOMAIN actions
  BY DEF IsFirstAcceptable
<1>2. n \in DOMAIN actions /\ IsFirstAcceptable(actions, n)
  BY <1>1, SameMeaning
<1>3. Answers!FirstAcceptableId(actions) = actions[n].id
  BY DEF Answers!FirstAcceptableId
<1> HIDE DEF n
<1>4. n \in Nat /\ m \in Nat /\ ~(n < m) /\ ~(m < n)
  BY <1>1, <1>2 DEF IsFirstAcceptable
<1> QED BY <1>3, <1>4

\* The response sent after the loops is the answer of the abstract handler.
LEMMA ResponseIsAnswer ==
  ASSUME HandlerTypeOK, AnswerInv, Collected, SendResponse, Collected'
  PROVE  Answers!Answer
<1> DEFINE n == Len(acceptAt)
           ie == [k \in 1..n |-> acceptAt[k][1]]
<1>1. /\ request \in Seq(IE) /\ acceptAt \in Seq(Nat \X Nat) /\ params \in Params
      /\ actionIdsAccept \in Seq(ActionId) /\ DOMAIN acceptAt = 1..n /\ n \in Nat
      /\ AcceptedIsFirst /\ actionIdsReject = <<>> /\ Len(request) \in Nat
  BY RequestIEs DEF HandlerTypeOK, AnswerInv, Collected
<1>2. /\ pc = "ies" /\ pc' = "return" /\ i - 1 = Len(request)
      /\ UNCHANGED <<request, params, result, acceptAt>>
      /\ sent' = <<[requestor |-> params.requestor, instance |-> params.instance,
                    accepted |-> actionIdsAccept, rejected |-> <<>>]>>
  BY <1>1 DEF SendResponse, HandlerTypeOK, AnswerInv
<1>3. n \in 0..Len(request)
  BY <1>1, <1>2 DEF Collected
<1>4. \A k \in 1..n :
        /\ acceptAt[k][1] \in DOMAIN request /\ IsDetails(request[acceptAt[k][1]])
        /\ IsFirstAcceptable(request[acceptAt[k][1]].actions, acceptAt[k][2])
        /\ actionIdsAccept[k] = ActionAt(request, acceptAt[k]).id
  BY <1>1 DEF AcceptedIsFirst
<1>5. ie \in [1..n -> DOMAIN request]
  BY <1>4
<1>6. Answers!ListsAccepting(request, ie)
  <2>1. \A k, l \in DOMAIN ie : k < l => ie[k] < ie[l]
    BY <1>1 DEF AcceptedIsFirst
  <2>2. {ie[k] : k \in DOMAIN ie} = Covered
    BY <1>1 DEF Covered
  <2>3. Covered = AcceptingIEs(request, Len(request))
    BY <1>2 DEF AnswerInv
  <2> HIDE DEF ie, n
  <2> QED BY <2>1, <2>2, <2>3, SameMeaning DEF Answers!ListsAccepting
<1>7. Answers!EchoesRequestId(request, params.requestor, params.instance)
  <2>1. HasRequestId(request, Len(request), params.requestor, params.instance)
    BY <1>1, <1>2 DEF Collected
  <2>2. DOMAIN request = 1..Len(request)
    BY <1>1
  <2> QED BY <2>1, <2>2 DEF HasRequestId, Answers!EchoesRequestId, Answers!LastIE
<1>8. actionIdsAccept = [k \in 1..n |-> Answers!FirstAcceptableId(request[ie[k]].actions)]
  <2>1. DOMAIN actionIdsAccept = 1..n
    BY <1>1 DEF AcceptedIsFirst
  <2>2. ASSUME NEW k \in 1..n
        PROVE  actionIdsAccept[k] = Answers!FirstAcceptableId(request[ie[k]].actions)
    <3>1. request[acceptAt[k][1]].actions \in Seq(Action)
      BY <1>1, <1>4, IEFields, RequestIEs DEF IsDetails
    <3>2. Answers!FirstAcceptableId(request[acceptAt[k][1]].actions)
            = request[acceptAt[k][1]].actions[acceptAt[k][2]].id
      BY <1>4, <3>1, FirstIsUnique
    <3> QED BY <1>4, <3>2 DEF ActionAt
  <2> HIDE DEF ie, n
  <2> QED BY <1>1, <2>1, <2>2
<1>9. params.requestor \in RequestorId \cup {0} /\ params.instance \in InstanceId \cup {0}
  BY <1>1 DEF Params
<1>10. /\ (CASE pc = "idle" -> "idle" [] pc = "return" -> "answered" [] OTHER -> "pending") = "pending"
       /\ (CASE pc' = "idle" -> "idle" [] pc' = "return" -> "answered" [] OTHER -> "pending") = "answered"
  BY <1>2
<1> HIDE DEF ie, n
<1>11. sent' = <<[requestor |-> params.requestor, instance |-> params.instance,
                  accepted |-> [k \in 1..n |-> Answers!FirstAcceptableId(request[ie[k]].actions)],
                  rejected |-> <<>>]>>
  BY <1>2, <1>8
<1> QED BY <1>2, <1>3, <1>5, <1>6, <1>7, <1>9, <1>10, <1>11 DEF Answers!Answer

\* The value returned is one the abstract handler may return.
LEMMA ReturnIsReturn ==
  ASSUME HandlerTypeOK, AnswerInv, Collected, Return
  PROVE  Answers!Return
<1>1. /\ request \in Seq(IE) /\ params \in Params /\ DOMAIN request = 1..Len(request)
      /\ Len(request) \in Nat
  BY RequestIEs DEF HandlerTypeOK
<1>2. /\ pc = "return" /\ pc' = "idle" /\ result' = params /\ UNCHANGED <<request, sent>>
      /\ sent # <<>>
  <2>1. Len(sent) = 1 /\ Len(<<>>) = 0
    BY DEF AnswerInv, Return
  <2> QED BY <2>1 DEF Return
<1>3. sent[1].requestor = params.requestor /\ sent[1].instance = params.instance
  BY <1>2 DEF AnswerInv
<1>4. Complete(request, params)
  BY <1>2 DEF Collected
<1>5. Answers!EchoesFunction(request, params.function)
  BY <1>1, <1>4 DEF Complete, HasFunction, Answers!EchoesFunction, Answers!LastIE
<1>6. params.action \in Answers!ReturnableAction(request)
  BY <1>4, SameMeaning DEF Complete, HasLast, Answers!ReturnableAction
<1>7. /\ params.function \in RanFunctionId \cup {0}
      /\ params = [requestor |-> params.requestor, instance |-> params.instance,
                   function |-> params.function, action |-> params.action]
  BY <1>1 DEF Params
<1>8. result' = [requestor |-> sent[1].requestor, instance |-> sent[1].instance,
                 function |-> params.function, action |-> params.action]
  BY <1>2, <1>3, <1>7
<1>9. /\ (CASE pc = "idle" -> "idle" [] pc = "return" -> "answered" [] OTHER -> "pending") = "answered"
      /\ (CASE pc' = "idle" -> "idle" [] pc' = "return" -> "answered" [] OTHER -> "pending") = "idle"
  BY <1>2
<1> QED BY <1>2, <1>5, <1>6, <1>7, <1>8, <1>9 DEF Answers!Return

\* Every step of the handler is one of the one-shot answer, or a stutter.
LEMMA AnswersInSteps ==
  HandlerInit /\ [][HandlerNext]_handlerVars => Answers!Init /\ [][Answers!Next]_(Answers!vars)
<1>1. HandlerInit => Answers!Init
  BY DEF HandlerInit, Answers!Init, NoParams, Answers!NoParams
<1>2. ASSUME HandlerTypeOK, AnswerInv, Collected, Collected', [HandlerNext]_handlerVars
      PROVE  [Answers!Next]_(Answers!vars)
  <2>1. ASSUME NEW r \in Request, Call(r) PROVE Answers!Receive(r)
    BY <2>1 DEF Call, Answers!Receive, NoParams, Answers!NoParams
  <2>2. CASE SendResponse
    BY <1>2, <2>2, ResponseIsAnswer DEF Answers!Next
  <2>3. CASE Return
    BY <1>2, <2>3, ReturnIsReturn DEF Answers!Next
  <2>4. CASE \/ ReadRequestId \/ ReadRanFunctionId \/ SkipIE \/ EnterDetails
             \/ AcceptAction \/ RejectAction \/ LeaveDetails
    <3>1. pc \in {"ies", "actions"} /\ pc' \in {"ies", "actions"}
          /\ UNCHANGED <<request, sent, result>>
      BY <2>4 DEF ReadRequestId, ReadRanFunctionId, SkipIE, EnterDetails, AcceptAction,
        RejectAction, LeaveDetails, AtIE, AtAction
    <3> QED BY <3>1 DEF Answers!vars
  <2>5. CASE UNCHANGED handlerVars
    BY <2>5 DEF handlerVars, Answers!vars
  <2> QED BY <1>2, <2>1, <2>2, <2>3, <2>4, <2>5 DEF HandlerNext, Step, Answers!Next
<1>3. HandlerTypeOK /\ AnswerInv /\ Collected /\ Collected' /\ [HandlerNext]_handlerVars
        => [Answers!Next]_(Answers!vars)
  BY <1>2
<1> QED BY <1>1, <1>3, HandlerRuns, PTL

\* The handler, loops and locals and all, is the one-shot answer: one response
\* per request that echoes it and accepts the first acceptable action of every
\* Details IE, then the return of its ids (oran-interface.cc:148-290).
THEOREM HandlerAnswers == HandlerSpec => Answers!Init /\ [][Answers!Next]_(Answers!vars)
  BY AnswersInSteps, PTL DEF HandlerSpec
=============================================================================
