------------------------ MODULE E2Termination_proofs ------------------------
(***************************************************************************)
(* The two threads of the termination, for any functions, requests and     *)
(* number of reports: what reaches the RIC, how often and in which order,  *)
(* which messages are dropped, and that the handler runs undisturbed.      *)
(***************************************************************************)
EXTENDS E2Termination, SubscriptionAnswer_proofs

-----------------------------------------------------------------------------
(* Order of the messages to the RIC *)

IsSequence(s) == \E S : s \in Seq(S)

\* The RIC has been sent a response for the request of p.
HasResponse(p) ==
  \E m \in DOMAIN toRic : toRic[m].type = "response" /\ SameRequest(toRic[m], p)

\* Parameters reach the application and the report of the callback only with
\* the response on its way.
Responded ==
  /\ IsSequence(toRic)
  /\ pc \in {"idle", "ies", "actions", "return"}
  /\ pc \in {"ies", "actions"} => sent = <<>>
  /\ pc = "return" => HasResponse(params)
  /\ loop = "reporting" => HasResponse(result)
  /\ \A p \in subscriptions : HasResponse(p)
  /\ ResponseBeforeIndication

\* A message appended leaves the others where they are.
LEMMA Appended ==
  ASSUME IsSequence(toRic), NEW e, toRic' = Append(toRic, e)
  PROVE  /\ IsSequence(toRic)' /\ Len(toRic) \in Nat
         /\ DOMAIN toRic = 1..Len(toRic) /\ DOMAIN toRic' = 1..(Len(toRic) + 1)
         /\ \A n \in DOMAIN toRic : toRic'[n] = toRic[n]
         /\ toRic'[Len(toRic) + 1] = e
         /\ \A p : HasResponse(p) => HasResponse(p)'
<1>1. PICK S : toRic \in Seq(S)
  BY DEF IsSequence
<1>2. toRic \in Seq(S \cup {e})
  BY <1>1
<1>3. toRic' \in Seq(S \cup {e}) /\ IsSequence(toRic)'
  BY <1>2 DEF IsSequence
<1>4. /\ Len(toRic) \in Nat /\ DOMAIN toRic = 1..Len(toRic)
      /\ DOMAIN toRic' = 1..(Len(toRic) + 1)
      /\ \A n \in DOMAIN toRic : toRic'[n] = toRic[n]
      /\ toRic'[Len(toRic) + 1] = e
  BY <1>2
<1>5. ASSUME NEW p, HasResponse(p) PROVE HasResponse(p)'
  <2>1. PICK m \in DOMAIN toRic : toRic[m].type = "response" /\ SameRequest(toRic[m], p)
    BY <1>5 DEF HasResponse
  <2>2. m \in DOMAIN toRic' /\ toRic'[m] = toRic[m]
    BY <1>4
  <2> QED BY <2>1, <2>2 DEF HasResponse, SameRequest
<1> QED BY <1>3, <1>4, <1>5

\* An indication may follow once its response is there; a response always.
LEMMA AppendedInOrder ==
  ASSUME IsSequence(toRic), ResponseBeforeIndication, NEW e, toRic' = Append(toRic, e),
         e.type = "indication" => HasResponse(e)
  PROVE  ResponseBeforeIndication'
<1> SUFFICES ASSUME NEW n \in DOMAIN toRic', toRic'[n].type = "indication"
             PROVE  \E m \in 1..(n - 1) : toRic'[m].type = "response" /\ SameRequest(toRic'[m], toRic'[n])
  BY DEF ResponseBeforeIndication, SameRequest
<1>1. /\ Len(toRic) \in Nat /\ DOMAIN toRic = 1..Len(toRic)
      /\ DOMAIN toRic' = 1..(Len(toRic) + 1)
      /\ \A k \in DOMAIN toRic : toRic'[k] = toRic[k]
      /\ toRic'[Len(toRic) + 1] = e
  BY Appended
<1>2. CASE n \in DOMAIN toRic
  <2>1. PICK m \in 1..(n - 1) : toRic[m].type = "response" /\ SameRequest(toRic[m], toRic[n])
    BY <1>1, <1>2 DEF ResponseBeforeIndication
  <2>2. m \in DOMAIN toRic
    BY <1>1, <1>2
  <2> QED BY <1>1, <1>2, <2>1, <2>2
<1>3. CASE n = Len(toRic) + 1
  <2>1. PICK m \in DOMAIN toRic : toRic[m].type = "response" /\ SameRequest(toRic[m], e)
    BY <1>1, <1>3 DEF HasResponse
  <2>2. m \in 1..(n - 1)
    BY <1>1, <1>3
  <2> QED BY <1>1, <1>3, <2>1, <2>2
<1> QED BY <1>1, <1>2, <1>3

\* A step of the handler: on its way, sending its response, or returning.
LEMMA HandlerSteps ==
  ASSUME Step, pc \in {"ies", "actions"} => sent = <<>>
  PROVE  \/ /\ pc \in {"ies", "actions"} /\ pc' \in {"ies", "actions"}
            /\ UNCHANGED <<request, sent, result>>
         \/ /\ pc = "ies" /\ pc' = "return" /\ i > Len(request)
            /\ UNCHANGED <<request, params, result>>
            /\ sent = <<>>
            /\ sent' = <<[requestor |-> params.requestor, instance |-> params.instance,
                          accepted |-> actionIdsAccept, rejected |-> actionIdsReject]>>
         \/ /\ pc = "return" /\ pc' = "idle" /\ UNCHANGED <<request, sent, params>>
            /\ result' = params
<1>1. CASE \/ ReadRequestId \/ ReadRanFunctionId \/ SkipIE
           \/ EnterDetails \/ AcceptAction \/ RejectAction
           \/ LeaveDetails
  BY <1>1 DEF ReadRequestId, ReadRanFunctionId, SkipIE,
    EnterDetails, AcceptAction, RejectAction, LeaveDetails,
    AtIE, AtAction
<1>2. CASE SendResponse
  BY <1>2 DEF SendResponse
<1>3. CASE Return
  BY <1>3 DEF Return
<1> QED BY <1>1, <1>2, <1>3 DEF Step

LEMMA RespondedInit == Init => Responded
<1> SUFFICES ASSUME Init PROVE Responded
  OBVIOUS
<1>1. toRic = <<>> /\ pc = "idle" /\ loop = "none" /\ subscriptions = {}
  BY DEF Init, HandlerInit
<1>2. toRic \in Seq({}) /\ DOMAIN toRic = {}
  BY <1>1
<1>3. IsSequence(toRic)
  BY <1>2 DEF IsSequence
<1> QED BY <1>1, <1>2, <1>3 DEF Responded, ResponseBeforeIndication

\* One step of the handler on the e2sim thread.
LEMMA RunKeepsOrder ==
  ASSUME Responded, RunHandler
  PROVE  Responded'
<1>1. /\ IsSequence(toRic) /\ (pc \in {"ies", "actions"} => sent = <<>>)
      /\ \A p \in subscriptions : HasResponse(p)
      /\ ResponseBeforeIndication /\ loop = "callback"
      /\ Step /\ ResponseToRic
  BY DEF Responded, RunHandler
<1>2. CASE /\ pc \in {"ies", "actions"} /\ pc' \in {"ies", "actions"}
           /\ UNCHANGED <<sent, result>>
  <2>1. UNCHANGED <<toRic, loop, subscriptions, sent>>
    BY <1>1, <1>2 DEF ResponseToRic, RunHandler
  <2>2. \A p : HasResponse(p)' = HasResponse(p)
    BY <2>1 DEF HasResponse, SameRequest
  <2>3. ResponseBeforeIndication' /\ IsSequence(toRic)'
    BY <1>1, <2>1 DEF ResponseBeforeIndication, SameRequest, IsSequence
  <2> QED BY <1>1, <1>2, <2>1, <2>2, <2>3 DEF Responded
<1>3. CASE /\ pc = "ies" /\ pc' = "return" /\ UNCHANGED <<params, result>>
           /\ sent = <<>>
           /\ sent' = <<[requestor |-> params.requestor, instance |-> params.instance,
                         accepted |-> actionIdsAccept, rejected |-> actionIdsReject]>>
  <2> DEFINE e == [type |-> "response", requestor |-> sent'[1].requestor,
                   instance |-> sent'[1].instance, accepted |-> sent'[1].accepted]
  <2>1. sent' # sent
    BY <1>3
  <2>2. toRic' = Append(toRic, e) /\ UNCHANGED <<loop, subscriptions>>
    BY <1>1, <1>3, <2>1 DEF ResponseToRic, RunHandler
  <2>3. sent'[1].requestor = params.requestor /\ sent'[1].instance = params.instance
    BY <1>3
  <2>4. e.type = "response" /\ SameRequest(e, params)
    BY <2>3 DEF SameRequest
  <2> HIDE DEF e
  <2>5. ResponseBeforeIndication'
    BY <1>1, <2>2, <2>4, AppendedInOrder
  <2>6. /\ IsSequence(toRic)' /\ Len(toRic) + 1 \in DOMAIN toRic'
        /\ toRic'[Len(toRic) + 1] = e
        /\ \A p : HasResponse(p) => HasResponse(p)'
    BY <1>1, <2>2, Appended
  <2>7. HasResponse(params)'
    BY <1>3, <2>4, <2>6 DEF HasResponse, SameRequest
  <2> QED BY <1>1, <1>3, <2>2, <2>5, <2>6, <2>7 DEF Responded
<1>4. CASE /\ pc = "return" /\ pc' = "idle" /\ UNCHANGED <<sent, params>> /\ result' = params
  <2>1. UNCHANGED toRic /\ subscriptions' = subscriptions \cup {result'}
    BY <1>1, <1>4 DEF ResponseToRic, RunHandler
  <2>2. \A p : HasResponse(p)' = HasResponse(p)
    <3> SUFFICES ASSUME NEW p PROVE HasResponse(p)' = HasResponse(p)
      OBVIOUS
    <3> QED BY <2>1 DEF HasResponse, SameRequest
  <2>3. HasResponse(params)
    BY <1>4 DEF Responded
  <2>4. HasResponse(result)'
    BY <1>4, <2>1, <2>3 DEF HasResponse, SameRequest
  <2>5. \A p \in subscriptions' : HasResponse(p)'
    <3> SUFFICES ASSUME NEW p \in subscriptions' PROVE HasResponse(p)'
      OBVIOUS
    <3>1. p \in subscriptions => HasResponse(p)'
      BY <1>1, <2>2
    <3>2. p = params => HasResponse(p)'
      BY <2>2, <2>3
    <3> QED BY <1>4, <2>1, <3>1, <3>2
  <2>6. ResponseBeforeIndication' /\ IsSequence(toRic)'
    BY <1>1, <2>1 DEF ResponseBeforeIndication, SameRequest, IsSequence
  <2> QED BY <1>4, <2>4, <2>5, <2>6 DEF Responded
<1> QED BY <1>1, <1>2, <1>3, <1>4, HandlerSteps

\* Both threads keep the order, whichever of them reports.
LEMMA RespondedStep == Responded /\ [Next]_vars => Responded'
<1> SUFFICES ASSUME Responded, [Next]_vars PROVE Responded'
  OBVIOUS
<1> USE DEF Responded
\* A step that sends nothing and neither enters nor leaves the handler.
<1>1. ASSUME UNCHANGED <<handlerVars, subscriptions, toRic>>, loop' # "reporting" \/ loop' = loop
      PROVE  Responded'
  <2>1. UNCHANGED <<toRic, subscriptions, pc, sent, params, result>>
    BY <1>1 DEF handlerVars
  <2>2. \A p : HasResponse(p) => HasResponse(p)'
    BY <2>1 DEF HasResponse, SameRequest
  <2>3. ResponseBeforeIndication' /\ IsSequence(toRic)'
    BY <2>1 DEF ResponseBeforeIndication, SameRequest, IsSequence
  <2>4. HasResponse(params) => HasResponse(params)'
    BY <2>1 DEF HasResponse, SameRequest
  <2>5. HasResponse(result) => HasResponse(result)'
    BY <2>1 DEF HasResponse, SameRequest
  <2> QED BY <1>1, <2>1, <2>2, <2>3, <2>4, <2>5
\* An indication for parameters whose response is out.
<1>2. ASSUME NEW p, HasResponse(p), toRic' = Append(toRic, Indication(p)),
             UNCHANGED <<handlerVars, subscriptions>>, loop' # "reporting" \/ loop' = loop
      PROVE  Responded'
  <2>1. UNCHANGED <<subscriptions, pc, sent, params, result>>
    BY <1>2 DEF handlerVars
  <2>2. HasResponse(Indication(p))
    BY <1>2 DEF HasResponse, SameRequest, Indication
  <2>3. ResponseBeforeIndication'
    BY <1>2, <2>2, AppendedInOrder
  <2>4. IsSequence(toRic)' /\ \A q : HasResponse(q) => HasResponse(q)'
    BY <1>2, Appended
  <2>5. /\ HasResponse(params) => HasResponse(params)'
        /\ HasResponse(result) => HasResponse(result)'
    BY <2>1, <2>4 DEF HasResponse, SameRequest
  <2> QED BY <1>2, <2>1, <2>3, <2>4, <2>5
<1>3. CASE \/ \E f \in RanFunctionId : \/ \E kind \in Kind : RegisterFunctionDescToE2Sm(f, kind)
                                       \/ RegisterCallbackFunctionToE2Sm(f)
           \/ RegisterCallback \/ Start \/ Destroy \/ DoStart \/ RunOnDeleted
           \/ \E message \in Message : RicSends(message)
  BY <1>1, <1>3 DEF RegisterFunctionDescToE2Sm, RegisterCallbackFunctionToE2Sm,
    RegisterCallback, Start, Destroy, DoStart, RunOnDeleted, RicSends
<1>4. CASE SendReport
  <2>1. PICK p \in subscriptions : toRic' = Append(toRic, Indication(p))
    BY <1>4 DEF SendReport
  <2> QED BY <1>2, <1>4, <2>1 DEF SendReport
<1>5. CASE ReportFromCallback
  BY <1>2, <1>5 DEF ReportFromCallback
<1>6. CASE RunHandler
  BY <1>6, RunKeepsOrder
<1>7. CASE Dispatch
  <2>1. UNCHANGED <<subscriptions, toRic>> /\ loop = "waiting"
    BY <1>7 DEF Dispatch
  <2>2. CASE UNCHANGED <<handlerVars, loop>>
    BY <1>1, <2>1, <2>2
  <2>3. CASE Call(Head(inbox).request) /\ loop' = "callback"
    <3>1. pc' = "ies" /\ sent' = <<>>
      BY <2>3 DEF Call
    <3>2. \A p \in subscriptions : HasResponse(p)'
      BY <2>1 DEF HasResponse, SameRequest
    <3>3. ResponseBeforeIndication' /\ IsSequence(toRic)'
      BY <2>1 DEF ResponseBeforeIndication, SameRequest, IsSequence
    <3> QED BY <2>1, <2>3, <3>1, <3>2, <3>3
  <2> QED BY <1>7, <2>2, <2>3 DEF Dispatch
<1>8. CASE UNCHANGED vars
  BY <1>1, <1>8 DEF vars
<1> QED BY <1>3, <1>4, <1>5, <1>6, <1>7, <1>8 DEF Next, Ns3Thread, E2SimThread

\* No indication leaves before the response to its subscription, from either
\* thread (oran-interface.cc:278-289, oran-interface-example.cc).
THEOREM ResponsesComeFirst == Spec => []ResponseBeforeIndication
<1>1. Responded => ResponseBeforeIndication
  BY DEF Responded
<1> QED BY <1>1, RespondedInit, RespondedStep, PTL DEF Spec

-----------------------------------------------------------------------------
(* Dropped messages *)

Pair(m) == <<m.type, FunctionOf(m)>>

\* What is advertised has its callback, but for the function whose
\* registration is under way.
Registered ==
  /\ ranFunctions \subseteq callbacks \cup
       (IF app.at = "registering" THEN {<<app.kind, app.function>>} ELSE {})
  /\ advertised \subseteq ranFunctions
  /\ \A m \in asked : Pair(m) \in advertised
  /\ inbox \in Seq(asked)

LEMMA RegisteredInit == Init => Registered
<1> SUFFICES ASSUME Init PROVE Registered
  OBVIOUS
<1>1. <<>> \in Seq({})
  OBVIOUS
<1> QED BY <1>1 DEF Init, Registered

LEMMA RegisteredStep == Registered /\ [Next]_vars => Registered'
<1> SUFFICES ASSUME Registered, [Next]_vars PROVE Registered'
  OBVIOUS
<1> USE DEF Registered
<1>1. ASSUME NEW f \in RanFunctionId, NEW kind \in Kind, RegisterFunctionDescToE2Sm(f, kind)
      PROVE  Registered'
  BY <1>1 DEF RegisterFunctionDescToE2Sm, ReadyApp, ricVars
<1>2. CASE RegisterCallback
  BY <1>2 DEF RegisterCallback, ReadyApp, ricVars
<1>3. ASSUME NEW f \in RanFunctionId, RegisterCallbackFunctionToE2Sm(f) PROVE Registered'
  BY <1>3 DEF RegisterCallbackFunctionToE2Sm, ReadyApp, ricVars
<1>4. CASE Start \/ Destroy
  BY <1>4 DEF Start, Destroy, ReadyApp, ricVars, e2simVars
<1>5. CASE SendReport \/ RunHandler \/ ReportFromCallback \/ RunOnDeleted
  BY <1>5 DEF SendReport, RunHandler, ReportFromCallback, RunOnDeleted, ricVars, e2simVars
<1>6. CASE DoStart
  <2>1. UNCHANGED <<ranFunctions, callbacks, app, asked, inbox>> /\ advertised' = ranFunctions
    BY <1>6 DEF DoStart, ricVars
  <2> QED BY <2>1 DEF Pair, FunctionOf
<1>7. CASE Dispatch
  <2>1. UNCHANGED <<ranFunctions, callbacks, app, asked, advertised>> /\ inbox' = Tail(inbox)
        /\ inbox # <<>>
    BY <1>7 DEF Dispatch, e2simVars
  <2>2. Tail(inbox) \in Seq(asked)
    BY <2>1
  <2> QED BY <2>1, <2>2
<1>8. ASSUME NEW message \in Message, RicSends(message) PROVE Registered'
  <2>1. /\ UNCHANGED <<ranFunctions, callbacks, app, advertised>>
        /\ asked' = asked \cup {message} /\ inbox' = Append(inbox, message)
        /\ Pair(message) \in advertised
    BY <1>8 DEF RicSends, e2simVars, Pair
  <2>2. inbox \in Seq(asked \cup {message})
    OBVIOUS
  <2>3. inbox' \in Seq(asked')
    BY <2>1, <2>2
  <2>4. \A m \in asked' : Pair(m) \in advertised'
    BY <2>1
  <2> QED BY <2>1, <2>3, <2>4 DEF Pair, FunctionOf
<1>9. CASE UNCHANGED vars
  BY <1>9 DEF vars, ricVars, e2simVars
<1> QED BY <1>1, <1>2, <1>3, <1>4, <1>5, <1>6, <1>7, <1>8, <1>9 DEF Next, Ns3Thread, E2SimThread

\* A message is dropped only while the registration of its function is under
\* way, with the e2sim thread already running (oran-interface.cc:94-101).
THEOREM DropsMidRegistration == Spec => DropsOnlyMidRegistration
<1>1. ASSUME Registered, Next, NEW m \in dropped' \ dropped
      PROVE  app.at = "registering" /\ app.function = FunctionOf(m)
  <2>1. Dispatch
    BY <1>1 DEF Next, Ns3Thread, E2SimThread, RegisterFunctionDescToE2Sm, RegisterCallback,
      RegisterCallbackFunctionToE2Sm, Start, SendReport, Destroy, DoStart, RunHandler,
      ReportFromCallback, RunOnDeleted, RicSends, ricVars
  <2>2. m = Head(inbox) /\ inbox # <<>> /\ <<m.type, FunctionOf(m)>> \notin callbacks
    BY <1>1, <2>1 DEF Dispatch
  <2>3. m \in asked
    BY <1>1, <2>2 DEF Registered
  <2>4. <<m.type, FunctionOf(m)>> \in ranFunctions
    BY <1>1, <2>3 DEF Registered, Pair
  <2>5. app.at = "registering" /\ <<m.type, FunctionOf(m)>> = <<app.kind, app.function>>
    BY <1>1, <2>2, <2>4 DEF Registered
  <2> QED BY <2>5
<1>2. Registered /\ [Next]_vars =>
        [\A m \in dropped' \ dropped :
           app.at = "registering" /\ app.function = FunctionOf(m)]_vars
  BY <1>1
<1> QED BY <1>2, RegisteredInit, RegisteredStep, PTL DEF Spec, DropsOnlyMidRegistration

-----------------------------------------------------------------------------
(* Types, and the handler inside the termination *)

LEMMA TypesInit == Init => TypeOK
<1> SUFFICES ASSUME Init PROVE TypeOK
  OBVIOUS
<1>1. <<>> \in Seq({})
  OBVIOUS
<1> QED BY <1>1 DEF Init, TypeOK, HandlerInit, ReadyApp

\* A message dispatched to the subscription callback carries a request.
LEMMA DispatchedRequest ==
  ASSUME TypeOK, inbox # <<>>, Head(inbox).type = "subscription"
  PROVE  Head(inbox) \in asked /\ Head(inbox).request \in Request
<1>1. Head(inbox) \in asked /\ asked \subseteq Message
  BY DEF TypeOK
<1> QED BY <1>1 DEF Message

\* Every step of the termination is a step of its handler, or leaves the
\* handler alone.
LEMMA RunsHandler == TypeOK /\ [Next]_vars => [HandlerNext]_handlerVars
<1> SUFFICES ASSUME TypeOK, [Next]_vars PROVE [HandlerNext]_handlerVars
  OBVIOUS
<1>1. CASE RunHandler
  BY <1>1 DEF RunHandler, HandlerNext
<1>2. CASE Dispatch
  <2>1. CASE Head(inbox).type = "subscription" /\ Call(Head(inbox).request)
    <3>1. inbox # <<>>
      BY <1>2 DEF Dispatch
    <3>2. Head(inbox).request \in Request
      BY <2>1, <3>1, DispatchedRequest
    <3> QED BY <2>1, <3>2 DEF HandlerNext
  <2>2. CASE UNCHANGED handlerVars
    BY <2>2
  <2> QED BY <1>2, <2>1, <2>2 DEF Dispatch
<1>3. CASE Ns3Thread \/ DoStart \/ ReportFromCallback \/ RunOnDeleted \/ UNCHANGED vars
           \/ \E message \in Message : RicSends(message)
  <2>1. UNCHANGED handlerVars
    BY <1>3 DEF Ns3Thread, RegisterFunctionDescToE2Sm, RegisterCallbackFunctionToE2Sm,
      RegisterCallback, Start, SendReport, Destroy, DoStart, ReportFromCallback,
      RunOnDeleted, RicSends, vars
  <2> QED BY <2>1
<1> QED BY <1>1, <1>2, <1>3 DEF Next, E2SimThread

LEMMA TypesStep == TypeOK /\ HandlerTypeOK' /\ [Next]_vars => TypeOK'
<1> SUFFICES ASSUME TypeOK, HandlerTypeOK', [Next]_vars PROVE TypeOK'
  OBVIOUS
<1> USE DEF TypeOK
<1>1. ASSUME NEW f \in RanFunctionId, NEW kind \in Kind, RegisterFunctionDescToE2Sm(f, kind)
      PROVE  TypeOK'
  BY <1>1 DEF RegisterFunctionDescToE2Sm, ReadyApp, ricVars, handlerVars
<1>2. CASE RegisterCallback
  BY <1>2 DEF RegisterCallback, ReadyApp, ricVars, handlerVars
<1>3. ASSUME NEW f \in RanFunctionId, RegisterCallbackFunctionToE2Sm(f) PROVE TypeOK'
  <2>1. <<"event", f>> \in Kind \X RanFunctionId
    BY DEF Kind
  <2> QED BY <1>3, <2>1 DEF RegisterCallbackFunctionToE2Sm, ReadyApp, ricVars, handlerVars
<1>4. CASE Start \/ Destroy
  BY <1>4 DEF Start, Destroy, ReadyApp, ricVars, e2simVars, handlerVars
<1>5. CASE SendReport \/ ReportFromCallback \/ RunOnDeleted
  BY <1>5 DEF SendReport, ReportFromCallback, RunOnDeleted, ricVars, e2simVars, handlerVars
<1>6. CASE DoStart
  BY <1>6 DEF DoStart, ricVars, handlerVars
<1>7. CASE RunHandler
  <2>1. result' \in Params
    BY DEF HandlerTypeOK
  <2>2. UNCHANGED <<e2sim, app, e2simVars, ricVars>> /\ loop = "callback"
    BY <1>7 DEF RunHandler
  <2>3. \/ loop' = "reporting" /\ subscriptions' = subscriptions \cup {result'} /\ pc' = "idle"
        \/ UNCHANGED <<loop, subscriptions>>
    BY <1>7 DEF RunHandler
  <2> QED BY <2>1, <2>2, <2>3 DEF e2simVars, ricVars
<1>8. CASE Dispatch
  <2>1. /\ UNCHANGED <<e2sim, app, e2simVars, asked, subscriptions>> /\ loop = "waiting"
        /\ inbox # <<>> /\ inbox' = Tail(inbox)
        /\ \/ loop' = "callback" /\ UNCHANGED dropped
           \/ UNCHANGED <<loop, dropped, handlerVars>>
           \/ UNCHANGED <<loop, handlerVars>> /\ dropped' = dropped \cup {Head(inbox)}
    BY <1>8 DEF Dispatch
  <2>2. Tail(inbox) \in Seq(asked) /\ Head(inbox) \in asked
    BY <2>1
  <2> QED BY <2>1, <2>2 DEF e2simVars, handlerVars
<1>9. ASSUME NEW message \in Message, RicSends(message) PROVE TypeOK'
  <2>1. /\ UNCHANGED <<handlerVars, e2sim, app, e2simVars, loop, dropped, subscriptions>>
        /\ asked' = asked \cup {message} /\ inbox' = Append(inbox, message)
    BY <1>9 DEF RicSends
  <2>2. inbox \in Seq(asked \cup {message})
    OBVIOUS
  <2>3. inbox' \in Seq(asked')
    BY <2>1, <2>2
  <2> QED BY <2>1, <2>3 DEF e2simVars, handlerVars
<1>10. CASE UNCHANGED vars
  BY <1>10 DEF vars, ricVars, e2simVars, handlerVars
<1> QED
  BY <1>1, <1>2, <1>3, <1>4, <1>5, <1>6, <1>7, <1>8, <1>9, <1>10 DEF Next, Ns3Thread, E2SimThread

\* The termination and the handler in it keep their types.
LEMMA TypesKept == Spec => [](TypeOK /\ HandlerTypeOK)
<1>1. Init => TypeOK /\ HandlerTypeOK
  BY TypesInit, TypeInit DEF Init
<1>2. TypeOK /\ HandlerTypeOK /\ [Next]_vars => (TypeOK /\ HandlerTypeOK)'
  BY RunsHandler, TypeStep, TypesStep
<1> QED BY <1>1, <1>2, PTL DEF Spec

\* What the two threads share keeps its types, and each thread its idea of
\* where the other is (oran-interface.h:46-128).
THEOREM TypesCorrect == Spec => []TypeOK
  BY TypesKept, PTL

\* Inside the termination, with both threads and the RIC around it, the
\* handler behaves as it does alone: it is called only between two of its
\* runs, and nobody else touches its frame (oran-interface.cc:148-290).
THEOREM HandlerUndisturbed == Spec => HandlerInit /\ [][HandlerNext]_handlerVars
<1>1. Init => HandlerInit
  BY DEF Init
<1> QED BY <1>1, TypesKept, RunsHandler, PTL DEF Spec

\* So a request that reaches the termination gets the one-shot answer too,
\* whatever the two threads do meanwhile (oran-interface.cc:148-290).
THEOREM RequestsAreAnswered == Spec => Answers!Init /\ [][Answers!Next]_(Answers!vars)
  BY HandlerUndisturbed, AnswersInSteps, PTL

\* Handler and simulator keep what they keep apart.
LEMMA AllKept == Spec => [](TypeOK /\ HandlerTypeOK /\ AnswerInv /\ Collected)
  BY TypesKept, HandlerUndisturbed, HandlerRuns, PTL

-----------------------------------------------------------------------------
(* One response per request *)

\* x carries the identity of the subscription m.
Names(m, x) ==
  m.type = "subscription" /\ <<x.requestor, x.instance>> \in RequestIds(m.request)

Waiting(m) == \E a \in DOMAIN inbox : inbox[a] = m

\* The subscription the handler has not answered yet.
UnderWay(m) ==
  m.type = "subscription" /\ pc \in {"ies", "actions"} /\ m.request = request

IdsApart ==
  \A m, o \in asked : m.type = "subscription" /\ o.type = "subscription" =>
    /\ RequestIds(m.request) # {}
    /\ m # o => RequestIds(m.request) \cap RequestIds(o.request) = {}

InboxDistinct == \A a, b \in DOMAIN inbox : inbox[a] = inbox[b] => a = b

\* A response is that of a subscription asked for, neither waiting nor under
\* way any more.
Settled(x) == \E m \in asked : Names(m, x) /\ ~Waiting(m) /\ ~UnderWay(m)

AnsweredOnce ==
  /\ IsSequence(toRic)
  /\ InboxDistinct
  /\ pc \in {"ies", "actions"} => \E m \in asked : UnderWay(m) /\ ~Waiting(m)
  /\ \A n \in DOMAIN toRic : toRic[n].type = "response" =>
       /\ Settled(toRic[n])
       /\ \A l \in DOMAIN toRic \ {n} : toRic[l].type = "response" => ~SameRequest(toRic[l], toRic[n])

LEMMA IdsApartInit == Init => IdsApart
  BY DEF Init, IdsApart

\* The ids of a subscription stay its own.
LEMMA IdsStayApart == IdsApart /\ [Next]_vars => IdsApart'
<1> SUFFICES ASSUME IdsApart, [Next]_vars PROVE IdsApart'
  OBVIOUS
<1>1. CASE UNCHANGED asked
  BY <1>1 DEF IdsApart, RequestIds
<1>2. ASSUME NEW message \in Message, RicSends(message) PROVE IdsApart'
  <2>1. /\ asked' = asked \cup {message}
        /\ message.type = "subscription" =>
             /\ RequestIds(message.request) # {}
             /\ \A m \in asked : m.type = "subscription" =>
                  RequestIds(m.request) \cap RequestIds(message.request) = {}
    BY <1>2 DEF RicSends
  <2> SUFFICES ASSUME NEW m \in asked', NEW o \in asked',
                      m.type = "subscription", o.type = "subscription"
               PROVE  /\ RequestIds(m.request) # {}
                      /\ m # o => RequestIds(m.request) \cap RequestIds(o.request) = {}
    BY DEF IdsApart, RequestIds
  <2>2. RequestIds(m.request) # {}
    BY <2>1 DEF IdsApart
  <2>3. CASE m \in asked /\ o \in asked
    BY <2>2, <2>3 DEF IdsApart
  <2>4. CASE m = message /\ o \in asked
    BY <2>1, <2>2, <2>4
  <2>5. CASE o = message /\ m \in asked
    BY <2>1, <2>2, <2>5
  <2> QED BY <2>1, <2>2, <2>3, <2>4, <2>5
<1>3. \/ UNCHANGED asked \/ \E message \in Message : RicSends(message)
  BY DEF Next, Ns3Thread, E2SimThread, RegisterFunctionDescToE2Sm, RegisterCallback,
    RegisterCallbackFunctionToE2Sm, Start, SendReport, Destroy, DoStart, Dispatch, RunHandler,
    ReportFromCallback, RunOnDeleted, vars, ricVars
<1> QED BY <1>1, <1>2, <1>3

\* Two subscriptions of the RIC that name the same request are one.
LEMMA NamesOne ==
  ASSUME IdsApart, NEW m \in asked, NEW o \in asked, NEW x, NEW y,
         Names(m, x), Names(o, y), SameRequest(x, y)
  PROVE  m = o
  BY DEF IdsApart, Names, SameRequest

\* Subscriptions differ by their requests.
LEMMA SameRequestSameMessage ==
  ASSUME TypeOK, NEW m \in asked, NEW o \in asked,
         m.type = "subscription", o.type = "subscription", m.request = o.request
  PROVE  m = o
  BY DEF TypeOK, Message

LEMMA AnsweredOnceInit == Init => AnsweredOnce
<1> SUFFICES ASSUME Init PROVE AnsweredOnce
  OBVIOUS
<1>1. toRic = <<>> /\ inbox = <<>> /\ pc = "idle"
  BY DEF Init, HandlerInit
<1>2. toRic \in Seq({}) /\ DOMAIN toRic = {} /\ DOMAIN inbox = {}
  BY <1>1
<1>3. IsSequence(toRic)
  BY <1>2 DEF IsSequence
<1> QED BY <1>1, <1>2, <1>3 DEF AnsweredOnce, InboxDistinct

\* After the last IE the locals hold an id of the request.
LEMMA CollectedId ==
  ASSUME HandlerTypeOK, Collected, pc = "ies", i > Len(request),
         RequestIds(request) # {}
  PROVE  <<params.requestor, params.instance>> \in RequestIds(request)
<1>1. i - 1 = Len(request) /\ DOMAIN request = 1..Len(request)
  BY RequestIEs DEF HandlerTypeOK
<1>2. HasRequestId(request, Len(request), params.requestor, params.instance)
  BY <1>1 DEF Collected
<1>3. \E k \in DOMAIN request : request[k].kind = "RICrequestID"
  BY DEF RequestIds
<1> QED BY <1>1, <1>2, <1>3 DEF HasRequestId, RequestIds

\* What is settled stays so while no message joins those waiting or under way.
LEMMA StaysSettled ==
  ASSUME asked \subseteq asked',
         \A m \in asked : Waiting(m)' => Waiting(m),
         \A m \in asked : UnderWay(m)' => UnderWay(m)
  PROVE  \A x : Settled(x) => Settled(x)'
  BY DEF Settled, Names, RequestIds

\* Without a new response, the old ones need only stay settled.
LEMMA NoNewResponse ==
  ASSUME IsSequence(toRic),
         \A n \in DOMAIN toRic : toRic[n].type = "response" =>
           \A l \in DOMAIN toRic \ {n} : toRic[l].type = "response" => ~SameRequest(toRic[l], toRic[n]),
         \/ UNCHANGED toRic
         \/ \E e : e.type # "response" /\ toRic' = Append(toRic, e)
  PROVE  /\ IsSequence(toRic)'
         /\ \A n \in DOMAIN toRic' : toRic'[n].type = "response" =>
              /\ n \in DOMAIN toRic /\ toRic'[n] = toRic[n]
              /\ \A l \in DOMAIN toRic' \ {n} :
                   toRic'[l].type = "response" => ~SameRequest(toRic'[l], toRic'[n])
<1>1. CASE UNCHANGED toRic
  BY <1>1 DEF IsSequence
<1>2. ASSUME NEW e, e.type # "response", toRic' = Append(toRic, e)
      PROVE  /\ IsSequence(toRic)'
             /\ \A n \in DOMAIN toRic' : toRic'[n].type = "response" =>
                  n \in DOMAIN toRic /\ toRic'[n] = toRic[n]
  <2>1. /\ IsSequence(toRic)' /\ Len(toRic) \in Nat /\ DOMAIN toRic = 1..Len(toRic)
        /\ DOMAIN toRic' = 1..(Len(toRic) + 1)
        /\ \A n \in DOMAIN toRic : toRic'[n] = toRic[n]
        /\ toRic'[Len(toRic) + 1] = e
    BY <1>2, Appended
  <2>2. \A n \in DOMAIN toRic' : n \in DOMAIN toRic \/ n = Len(toRic) + 1
    BY <2>1
  <2> QED BY <1>2, <2>1, <2>2
<1>3. CASE \E e : e.type # "response" /\ toRic' = Append(toRic, e)
  <2>1. /\ IsSequence(toRic)'
        /\ \A n \in DOMAIN toRic' : toRic'[n].type = "response" =>
             n \in DOMAIN toRic /\ toRic'[n] = toRic[n]
    BY <1>2, <1>3
  <2> QED BY <2>1
<1> QED BY <1>1, <1>3

\* The response of the handler is the first to the subscription under way.
LEMMA RespondsOnce ==
  ASSUME TypeOK, HandlerTypeOK, Collected, IdsApart, AnsweredOnce,
         UNCHANGED <<asked, inbox, request, params>>,
         pc = "ies", pc' = "return", i > Len(request),
         NEW e, e.type = "response", SameRequest(e, params), toRic' = Append(toRic, e)
  PROVE  AnsweredOnce'
<1>1. PICK c \in asked : UnderWay(c) /\ ~Waiting(c)
  BY DEF AnsweredOnce
<1>2. c.type = "subscription" /\ c.request = request
  BY <1>1 DEF UnderWay
<1>3. Names(c, params)
  BY <1>2, CollectedId DEF IdsApart, Names
<1>4. Names(c, e)
  BY <1>3 DEF Names, SameRequest
<1>5. /\ IsSequence(toRic)' /\ Len(toRic) \in Nat /\ DOMAIN toRic = 1..Len(toRic)
      /\ DOMAIN toRic' = 1..(Len(toRic) + 1)
      /\ \A n \in DOMAIN toRic : toRic'[n] = toRic[n]
      /\ toRic'[Len(toRic) + 1] = e
  BY Appended DEF AnsweredOnce
<1>6. \A m : ~UnderWay(m)'
  BY DEF UnderWay
<1>7. \A m \in asked : Waiting(m)' => Waiting(m)
  BY DEF Waiting
<1>8. Settled(e)'
  BY <1>1, <1>4, <1>6, <1>7 DEF Settled, Names, RequestIds
<1>9. \A x : Settled(x) => Settled(x)'
  BY <1>6, <1>7, StaysSettled
<1>10. \A n \in DOMAIN toRic : toRic[n].type = "response" =>
         ~SameRequest(toRic[n], e) /\ ~SameRequest(e, toRic[n])
  <2> SUFFICES ASSUME NEW n \in DOMAIN toRic, toRic[n].type = "response"
               PROVE  ~SameRequest(toRic[n], e) /\ ~SameRequest(e, toRic[n])
    OBVIOUS
  <2>1. PICK m \in asked : Names(m, toRic[n]) /\ ~UnderWay(m)
    BY DEF AnsweredOnce, Settled
  <2>2. m # c
    BY <1>1, <2>1
  <2> QED BY <1>4, <2>1, <2>2, NamesOne
<1>11. \A n \in DOMAIN toRic' : n \in DOMAIN toRic \/ n = Len(toRic) + 1
  BY <1>5
<1>12. ASSUME NEW n \in DOMAIN toRic', toRic'[n].type = "response"
       PROVE  /\ Settled(toRic[n])'
              /\ \A l \in DOMAIN toRic' \ {n} :
                   toRic'[l].type = "response" => ~SameRequest(toRic'[l], toRic'[n])
  <2>1. CASE n \in DOMAIN toRic
    <3>1. toRic'[n] = toRic[n]
      BY <1>5, <2>1
    <3>2. Settled(toRic[n])
      BY <1>12, <2>1, <3>1 DEF AnsweredOnce
    <3>3. Settled(toRic[n])'
      BY <1>9, <3>1, <3>2
    <3>4. ASSUME NEW l \in DOMAIN toRic' \ {n}, toRic'[l].type = "response"
          PROVE  ~SameRequest(toRic'[l], toRic'[n])
      <4>1. CASE l \in DOMAIN toRic
        BY <1>5, <1>12, <2>1, <3>4, <4>1 DEF AnsweredOnce
      <4>2. CASE l = Len(toRic) + 1
        BY <1>5, <1>10, <1>12, <2>1, <3>1, <4>2
      <4> QED BY <1>11, <4>1, <4>2
    <3> QED BY <3>3, <3>4
  <2>2. CASE n = Len(toRic) + 1
    <3>1. toRic'[n] = e
      BY <1>5, <2>2
    <3>2. Settled(toRic[n])'
      BY <1>8, <3>1
    <3>3. ASSUME NEW l \in DOMAIN toRic' \ {n}, toRic'[l].type = "response"
          PROVE  ~SameRequest(toRic'[l], toRic'[n])
      <4>1. l \in DOMAIN toRic
        BY <1>11, <2>2, <3>3
      <4> QED BY <1>5, <1>10, <3>1, <3>3, <4>1
    <3> QED BY <3>2, <3>3
  <2> QED BY <1>11, <2>1, <2>2
<1>13. InboxDistinct'
  BY DEF AnsweredOnce, InboxDistinct
<1> QED BY <1>5, <1>12, <1>13 DEF AnsweredOnce

\* Steps that send no response: the messages waiting stay different, and the
\* one under way was asked for and is waiting no more.
LEMMA SendsNoResponse ==
  ASSUME AnsweredOnce, InboxDistinct', asked \subseteq asked',
         \A m \in asked : Waiting(m)' => Waiting(m),
         \A m \in asked : UnderWay(m)' => UnderWay(m) \/ Waiting(m),
         pc' \in {"ies", "actions"} => \E m \in asked' : UnderWay(m)' /\ ~Waiting(m)',
         \/ UNCHANGED toRic
         \/ \E e : e.type # "response" /\ toRic' = Append(toRic, e)
  PROVE  AnsweredOnce'
<1>1. \A x : Settled(x) => Settled(x)'
  BY DEF Settled, Names, RequestIds
<1>2. /\ IsSequence(toRic)'
      /\ \A n \in DOMAIN toRic' : toRic'[n].type = "response" =>
           /\ n \in DOMAIN toRic /\ toRic'[n] = toRic[n]
           /\ \A l \in DOMAIN toRic' \ {n} :
                toRic'[l].type = "response" => ~SameRequest(toRic'[l], toRic'[n])
  BY NoNewResponse DEF AnsweredOnce
<1>3. ASSUME NEW n \in DOMAIN toRic', toRic'[n].type = "response"
      PROVE  Settled(toRic[n])'
  <2>1. Settled(toRic[n]) /\ toRic'[n] = toRic[n]
    BY <1>2, <1>3 DEF AnsweredOnce
  <2> QED BY <1>1, <2>1
<1> QED BY <1>2, <1>3 DEF AnsweredOnce

LEMMA AnsweredOnceStep ==
  TypeOK /\ HandlerTypeOK /\ AnswerInv /\ Collected /\ IdsApart /\ AnsweredOnce /\ [Next]_vars
    => AnsweredOnce'
<1> SUFFICES ASSUME TypeOK, HandlerTypeOK, AnswerInv, Collected, IdsApart, AnsweredOnce,
                    [Next]_vars
             PROVE  AnsweredOnce'
  OBVIOUS
\* Steps that neither take nor put messages, nor run the handler.
<1>1. ASSUME UNCHANGED <<handlerVars, asked, inbox>>,
             \/ UNCHANGED toRic
             \/ \E e : e.type # "response" /\ toRic' = Append(toRic, e)
      PROVE  AnsweredOnce'
  <2>1. UNCHANGED <<pc, request, asked, inbox>>
    BY <1>1 DEF handlerVars
  <2>2. \A m : Waiting(m)' = Waiting(m) /\ UnderWay(m)' = UnderWay(m)
    BY <2>1 DEF Waiting, UnderWay
  <2>3. InboxDistinct'
    BY <2>1 DEF AnsweredOnce, InboxDistinct
  <2>4. pc' \in {"ies", "actions"} => \E m \in asked' : UnderWay(m)' /\ ~Waiting(m)'
    BY <2>1, <2>2 DEF AnsweredOnce
  <2> QED BY <1>1, <2>1, <2>2, <2>3, <2>4, SendsNoResponse
<1>2. CASE \/ \E f \in RanFunctionId : \/ \E kind \in Kind : RegisterFunctionDescToE2Sm(f, kind)
                                       \/ RegisterCallbackFunctionToE2Sm(f)
           \/ RegisterCallback \/ Start \/ Destroy \/ DoStart \/ RunOnDeleted
           \/ UNCHANGED vars
  BY <1>1, <1>2 DEF RegisterFunctionDescToE2Sm, RegisterCallbackFunctionToE2Sm,
    RegisterCallback, Start, Destroy, DoStart, RunOnDeleted, ricVars, vars
<1>3. CASE SendReport \/ ReportFromCallback
  <2>1. \A p : Indication(p).type # "response"
    BY DEF Indication
  <2>2. \E p : toRic' = Append(toRic, Indication(p))
    BY <1>3 DEF SendReport, ReportFromCallback
  <2>3. UNCHANGED <<handlerVars, asked, inbox>>
    BY <1>3 DEF SendReport, ReportFromCallback, ricVars
  <2> QED BY <1>1, <2>1, <2>2, <2>3
<1>4. CASE RunHandler
  <2>1. /\ UNCHANGED <<asked, inbox>> /\ Step /\ ResponseToRic
        /\ pc \in {"ies", "actions"} => sent = <<>>
    BY <1>4 DEF RunHandler, ricVars, AnswerInv
  <2>2. InboxDistinct' /\ \A m \in asked : Waiting(m)' = Waiting(m)
    BY <2>1 DEF AnsweredOnce, InboxDistinct, Waiting
  <2>3. CASE /\ pc \in {"ies", "actions"} /\ pc' \in {"ies", "actions"}
             /\ UNCHANGED <<request, sent, result>>
    <3>1. UNCHANGED toRic
      BY <2>1, <2>3 DEF ResponseToRic
    <3>2. \A m : UnderWay(m)' = UnderWay(m)
      BY <2>3 DEF UnderWay
    <3>3. \E m \in asked' : UnderWay(m)' /\ ~Waiting(m)'
      BY <2>1, <2>2, <2>3, <3>2 DEF AnsweredOnce
    <3> QED BY <2>1, <2>2, <3>1, <3>2, <3>3, SendsNoResponse
  <2>4. CASE /\ pc = "ies" /\ pc' = "return" /\ i > Len(request)
             /\ UNCHANGED <<request, params, result>>
             /\ sent = <<>>
             /\ sent' = <<[requestor |-> params.requestor, instance |-> params.instance,
                           accepted |-> actionIdsAccept, rejected |-> actionIdsReject]>>
    <3> DEFINE e == [type |-> "response", requestor |-> sent'[1].requestor,
                     instance |-> sent'[1].instance, accepted |-> sent'[1].accepted]
    <3>1. sent' # sent
      BY <2>4
    <3>2. toRic' = Append(toRic, e)
      BY <2>1, <3>1 DEF ResponseToRic
    <3>3. sent'[1].requestor = params.requestor /\ sent'[1].instance = params.instance
      BY <2>4
    <3>4. e.type = "response" /\ SameRequest(e, params)
      BY <3>3 DEF SameRequest
    <3> HIDE DEF e
    <3> QED BY <2>1, <2>4, <3>2, <3>4, RespondsOnce
  <2>5. CASE /\ pc = "return" /\ pc' = "idle" /\ UNCHANGED <<request, sent, params>>
             /\ result' = params
    <3>1. UNCHANGED toRic
      BY <2>1, <2>5 DEF ResponseToRic
    <3>2. \A m : ~UnderWay(m)'
      BY <2>5 DEF UnderWay
    <3> QED BY <2>1, <2>2, <2>5, <3>1, <3>2, SendsNoResponse
  <2> QED BY <2>1, <2>3, <2>4, <2>5, HandlerSteps
<1>5. CASE Dispatch
  <2>1. UNCHANGED <<asked, toRic>> /\ inbox # <<>> /\ inbox' = Tail(inbox)
    BY <1>5 DEF Dispatch
  <2>2. /\ inbox \in Seq(asked) /\ Len(inbox) \in Nat \ {0} /\ DOMAIN inbox = 1..Len(inbox)
        /\ DOMAIN inbox' = 1..(Len(inbox) - 1)
        /\ \A a \in DOMAIN inbox' : inbox'[a] = inbox[a + 1] /\ a + 1 \in DOMAIN inbox /\ a + 1 # 1
        /\ Head(inbox) = inbox[1] /\ 1 \in DOMAIN inbox /\ Head(inbox) \in asked
    BY <2>1 DEF TypeOK
  <2>3. InboxDistinct'
    BY <2>2 DEF AnsweredOnce, InboxDistinct
  <2>4. \A m : Waiting(m)' => Waiting(m)
    BY <2>2 DEF Waiting
  <2>5. Waiting(Head(inbox))
    BY <2>2 DEF Waiting
  <2>6. \A a \in DOMAIN inbox' : inbox'[a] # Head(inbox)
    BY <2>2 DEF AnsweredOnce, InboxDistinct
  <2>7. PICK h \in asked : h = Head(inbox)
    BY <2>2
  <2>8. ~Waiting(h)' /\ Waiting(h)
    BY <2>5, <2>6, <2>7 DEF Waiting
  <2>9. CASE UNCHANGED handlerVars
    <3>1. UNCHANGED <<pc, request>>
      BY <2>9 DEF handlerVars
    <3>2. \A m : UnderWay(m)' = UnderWay(m)
      BY <3>1 DEF UnderWay
    <3>3. pc' \in {"ies", "actions"} => \E m \in asked' : UnderWay(m)' /\ ~Waiting(m)'
      BY <2>1, <2>4, <3>1, <3>2 DEF AnsweredOnce
    <3> QED BY <2>1, <2>3, <2>4, <3>2, <3>3, SendsNoResponse
  <2>10. CASE Head(inbox).type = "subscription" /\ Call(Head(inbox).request)
    <3>1. pc' = "ies" /\ request' = h.request /\ h.type = "subscription"
      BY <2>7, <2>10 DEF Call
    <3>2. UnderWay(h)'
      BY <3>1 DEF UnderWay
    <3>3. \A m \in asked : UnderWay(m)' => Waiting(m)
      <4> SUFFICES ASSUME NEW m \in asked, UnderWay(m)' PROVE Waiting(m)
        OBVIOUS
      <4>1. m.type = "subscription" /\ m.request = h.request
        BY <3>1 DEF UnderWay
      <4>2. m = h
        BY <3>1, <4>1, SameRequestSameMessage
      <4> QED BY <2>8, <4>2
    <3>4. \E m \in asked' : UnderWay(m)' /\ ~Waiting(m)'
      BY <2>1, <2>8, <3>2
    <3> QED BY <2>1, <2>3, <2>4, <3>3, <3>4, SendsNoResponse
  <2> QED BY <1>5, <2>9, <2>10 DEF Dispatch
<1>6. ASSUME NEW message \in Message, RicSends(message) PROVE AnsweredOnce'
  <2>1. /\ UNCHANGED <<handlerVars, toRic>> /\ message \notin asked
        /\ asked' = asked \cup {message} /\ inbox' = Append(inbox, message)
    BY <1>6 DEF RicSends
  <2>2. inbox \in Seq(asked) /\ inbox \in Seq(asked')
    BY <2>1 DEF TypeOK
  <2>3. /\ Len(inbox) \in Nat /\ DOMAIN inbox = 1..Len(inbox)
        /\ DOMAIN inbox' = 1..(Len(inbox) + 1)
        /\ \A a \in DOMAIN inbox : inbox'[a] = inbox[a] /\ inbox[a] \in asked
        /\ inbox'[Len(inbox) + 1] = message
    BY <2>1, <2>2
  <2>4. \A a \in DOMAIN inbox' : a \in DOMAIN inbox \/ a = Len(inbox) + 1
    BY <2>3
  <2>5. InboxDistinct'
    BY <2>1, <2>3, <2>4 DEF AnsweredOnce, InboxDistinct
  <2>6. \A m \in asked : Waiting(m)' => Waiting(m)
    BY <2>1, <2>3, <2>4 DEF Waiting
  <2>7. UNCHANGED <<pc, request>>
    BY <2>1 DEF handlerVars
  <2>8. \A m : UnderWay(m)' = UnderWay(m)
    BY <2>7 DEF UnderWay
  <2>9. pc' \in {"ies", "actions"} => \E m \in asked' : UnderWay(m)' /\ ~Waiting(m)'
    BY <2>1, <2>6, <2>7, <2>8 DEF AnsweredOnce
  <2> QED BY <2>1, <2>5, <2>6, <2>8, <2>9, SendsNoResponse
<1> QED BY <1>2, <1>3, <1>4, <1>5, <1>6 DEF Next, Ns3Thread, E2SimThread

LEMMA AllAnswered == Spec => [](IdsApart /\ AnsweredOnce)
<1>1. Init => IdsApart /\ AnsweredOnce
  BY IdsApartInit, AnsweredOnceInit
<1>2. TypeOK /\ HandlerTypeOK /\ AnswerInv /\ Collected /\ IdsApart /\ AnsweredOnce /\ [Next]_vars
        => (IdsApart /\ AnsweredOnce)'
  BY IdsStayApart, AnsweredOnceStep
<1> QED BY <1>1, <1>2, AllKept, PTL DEF Spec

\* No subscription is answered twice, and no response goes out that nobody
\* asked for, whichever thread runs when (oran-interface.cc:148-290).
THEOREM OneResponseEach == Spec => []OneResponsePerRequest
<1>1. AnsweredOnce => OneResponsePerRequest
  BY DEF AnsweredOnce, Settled, Names, OneResponsePerRequest
<1> QED BY <1>1, AllAnswered, PTL

-----------------------------------------------------------------------------
(* The action an indication carries *)

Confirmed(p, N) ==
  \E n \in N : /\ toRic[n].type = "response" /\ SameRequest(toRic[n], p)
               /\ \E k \in DOMAIN toRic[n].accepted : toRic[n].accepted[k] = p.action

\* Parameters for a subscription, with an action its response accepts where
\* the handler can be relied on to return one.
Vouches(p, N) ==
  \E m \in asked : Names(m, p) /\ (AcceptsLastAction(m.request) => Confirmed(p, N))

VouchedIndications ==
  \A n \in DOMAIN toRic : toRic[n].type = "indication" => Vouches(toRic[n], 1..(n - 1))

Vouched ==
  /\ pc = "return" => Vouches(params, DOMAIN toRic)
  /\ loop = "reporting" => Vouches(result, DOMAIN toRic)
  /\ \A p \in subscriptions : Vouches(p, DOMAIN toRic)
  /\ VouchedIndications

\* A smaller position is one of those behind.
LEMMA IsBehind == ASSUME NEW a \in Nat \ {0}, NEW b \in Nat \ {0}, a < b PROVE a \in 1..(b - 1)
  OBVIOUS

\* The id recorded last is among those accepted when the last action of the
\* request is the one its IE accepts.
LEMMA CollectedAction ==
  ASSUME HandlerTypeOK, AnswerInv, Collected, pc = "ies", i > Len(request),
         AcceptsLastAction(request)
  PROVE  \E k \in DOMAIN actionIdsAccept : actionIdsAccept[k] = params.action
<1>1. request \in Seq(IE) /\ i - 1 = Len(request) /\ DOMAIN request = 1..Len(request)
  BY RequestIEs DEF HandlerTypeOK
<1>2. PICK p \in ActionPositions(request) :
        /\ IsFirstAcceptable(request[p[1]].actions, p[2])
        /\ \A q \in ActionPositions(request) : q[1] < p[1] \/ (q[1] = p[1] /\ q[2] <= p[2])
  BY DEF AcceptsLastAction
<1>3. /\ p = <<p[1], p[2]>> /\ p[1] \in DOMAIN request /\ IsDetails(request[p[1]])
      /\ p[2] \in DOMAIN request[p[1]].actions /\ p[1] \in Nat /\ p[2] \in Nat
  BY <1>1, PositionIndices
<1>4. params.action = ActionAt(request, p).id
  <2>1. HasLast(request, ActionPositions(request), params.action)
    BY <1>1, PassedAll DEF Collected
  <2>2. PICK q \in ActionPositions(request) :
          /\ params.action = ActionAt(request, q).id
          /\ \A o \in ActionPositions(request) : o[1] < q[1] \/ (o[1] = q[1] /\ o[2] <= q[2])
    BY <2>1 DEF HasLast
  <2>3. q = <<q[1], q[2]>> /\ q[1] \in Nat /\ q[2] \in Nat
    BY <1>1, PositionIndices
  <2>4. q[1] = p[1] /\ q[2] = p[2]
    BY <1>2, <1>3, <2>2, <2>3
  <2> QED BY <1>3, <2>2, <2>3, <2>4
<1>5. PICK k \in DOMAIN acceptAt : acceptAt[k][1] = p[1]
  <2>1. p[1] \in AcceptingIEs(request, Len(request))
    BY <1>1, <1>2, <1>3 DEF AcceptingIEs, IsFirstAcceptable
  <2>2. Covered = AcceptingIEs(request, Len(request))
    BY <1>1 DEF AnswerInv
  <2> QED BY <2>1, <2>2 DEF Covered
<1>6. /\ IsFirstAcceptable(request[p[1]].actions, acceptAt[k][2])
      /\ actionIdsAccept[k] = ActionAt(request, acceptAt[k]).id
      /\ k \in DOMAIN actionIdsAccept
  <2>1. AcceptedIsFirst /\ acceptAt \in Seq(Nat \X Nat) /\ actionIdsAccept \in Seq(ActionId)
    BY DEF AnswerInv, HandlerTypeOK
  <2> QED BY <1>5, <2>1 DEF AcceptedIsFirst
<1>7. acceptAt[k][2] = p[2]
  <2>1. acceptAt[k][2] \in Nat
    BY <1>5 DEF HandlerTypeOK
  <2>2. ~(acceptAt[k][2] < p[2]) /\ ~(p[2] < acceptAt[k][2])
    <3>1. request[p[1]].actions \in Seq(Action)
      BY <1>1, <1>3, IEFields, RequestIEs DEF IsDetails
    <3>2. p[2] \in Nat \ {0} /\ acceptAt[k][2] \in Nat \ {0}
      <4>1. p[2] \in DOMAIN request[p[1]].actions /\ acceptAt[k][2] \in DOMAIN request[p[1]].actions
        BY <1>2, <1>6 DEF IsFirstAcceptable
      <4>2. \A l \in DOMAIN request[p[1]].actions : l \in Nat \ {0}
        BY <3>1
      <4> QED BY <4>1, <4>2
    <3>3. /\ Acceptable(request[p[1]].actions[p[2]])
          /\ \A l \in 1..(acceptAt[k][2] - 1) : ~Acceptable(request[p[1]].actions[l])
      BY <1>2, <1>6 DEF IsFirstAcceptable
    <3>4. /\ Acceptable(request[p[1]].actions[acceptAt[k][2]])
          /\ \A l \in 1..(p[2] - 1) : ~Acceptable(request[p[1]].actions[l])
      BY <1>2, <1>6 DEF IsFirstAcceptable
    <3> QED BY <3>2, <3>3, <3>4, IsBehind
  <2> QED BY <1>3, <2>1, <2>2
<1> QED BY <1>4, <1>5, <1>6, <1>7 DEF ActionAt

\* What is vouched for stays so as messages are added.
LEMMA StaysVouched ==
  ASSUME asked \subseteq asked',
         \A n \in DOMAIN toRic : n \in DOMAIN toRic' /\ toRic'[n] = toRic[n]
  PROVE  \A p, N, M : N \subseteq DOMAIN toRic /\ N \subseteq M /\ Vouches(p, N) => Vouches(p, M)'
<1> SUFFICES ASSUME NEW p, NEW N, NEW M, N \subseteq DOMAIN toRic, N \subseteq M, Vouches(p, N)
             PROVE  Vouches(p, M)'
  OBVIOUS
<1>1. PICK m \in asked : Names(m, p) /\ (AcceptsLastAction(m.request) => Confirmed(p, N))
  BY DEF Vouches
<1>2. Confirmed(p, N) => Confirmed(p, M)'
  BY DEF Confirmed, SameRequest
<1>3. Names(m, p)'
  BY <1>1 DEF Names, RequestIds
<1> QED BY <1>1, <1>2, <1>3 DEF Vouches

LEMMA VouchedInit == Init => Vouched
  BY DEF Init, HandlerInit, Vouched, VouchedIndications

\* A message added needs a voucher only if it is an indication.
LEMMA IndicationsStayVouched ==
  ASSUME IsSequence(toRic), VouchedIndications, asked \subseteq asked',
         \/ UNCHANGED toRic
         \/ \E e : /\ toRic' = Append(toRic, e)
                   /\ e.type = "indication" => Vouches(e, DOMAIN toRic)
  PROVE  /\ VouchedIndications'
         /\ \A p : Vouches(p, DOMAIN toRic) => Vouches(p, DOMAIN toRic)'
<1>1. CASE UNCHANGED toRic
  <2>1. \A p, N, M : N \subseteq DOMAIN toRic /\ N \subseteq M /\ Vouches(p, N) => Vouches(p, M)'
    BY <1>1, StaysVouched
  <2>2. ASSUME NEW n \in DOMAIN toRic', toRic'[n].type = "indication"
        PROVE  Vouches(toRic[n], 1..(n - 1))'
    <3>1. Vouches(toRic[n], 1..(n - 1))
      BY <1>1, <2>2 DEF VouchedIndications
    <3>2. 1..(n - 1) \subseteq DOMAIN toRic
      BY <1>1, <2>2 DEF IsSequence
    <3> QED BY <1>1, <2>1, <3>1, <3>2
  <2> QED BY <1>1, <2>1, <2>2 DEF VouchedIndications
<1>2. ASSUME NEW e, toRic' = Append(toRic, e), e.type = "indication" => Vouches(e, DOMAIN toRic)
      PROVE  /\ VouchedIndications'
             /\ \A p : Vouches(p, DOMAIN toRic) => Vouches(p, DOMAIN toRic)'
  <2>1. /\ Len(toRic) \in Nat /\ DOMAIN toRic = 1..Len(toRic)
        /\ DOMAIN toRic' = 1..(Len(toRic) + 1)
        /\ \A n \in DOMAIN toRic : toRic'[n] = toRic[n]
        /\ toRic'[Len(toRic) + 1] = e
    BY <1>2, Appended
  <2>2. \A p, N, M : N \subseteq DOMAIN toRic /\ N \subseteq M /\ Vouches(p, N) => Vouches(p, M)'
    BY <2>1, StaysVouched
  <2>3. ASSUME NEW n \in DOMAIN toRic', toRic'[n].type = "indication"
        PROVE  Vouches(toRic[n], 1..(n - 1))'
    <3>1. 1..(n - 1) \subseteq DOMAIN toRic
      BY <2>1, <2>3
    <3>2. Vouches(toRic'[n], 1..(n - 1))
      <4>1. CASE n \in DOMAIN toRic
        BY <2>1, <2>3, <4>1 DEF VouchedIndications
      <4>2. CASE n = Len(toRic) + 1
        <5>1. 1..(n - 1) = DOMAIN toRic /\ toRic'[n] = e
          BY <2>1, <4>2
        <5> QED BY <1>2, <2>3, <5>1
      <4> QED BY <2>1, <4>1, <4>2
    <3> QED BY <2>2, <3>1, <3>2
  <2>4. DOMAIN toRic \subseteq DOMAIN toRic'
    BY <2>1
  <2> QED BY <2>2, <2>3, <2>4 DEF VouchedIndications
<1> QED BY <1>1, <1>2

\* The response of the handler vouches for the parameters about to be returned.
LEMMA ResponseVouches ==
  ASSUME HandlerTypeOK, AnswerInv, Collected, IdsApart, AnsweredOnce,
         UNCHANGED <<asked, params, actionIdsAccept>>,
         pc = "ies", i > Len(request),
         NEW e, e.type = "response", SameRequest(e, params), e.accepted = actionIdsAccept,
         toRic' = Append(toRic, e)
  PROVE  Vouches(params, DOMAIN toRic)'
<1>1. PICK c \in asked : UnderWay(c)
  BY DEF AnsweredOnce
<1>2. c.type = "subscription" /\ c.request = request
  BY <1>1 DEF UnderWay
<1>3. Names(c, params)
  BY <1>2, CollectedId DEF IdsApart, Names
<1>4. Len(toRic) + 1 \in DOMAIN toRic' /\ toRic'[Len(toRic) + 1] = e
  BY Appended DEF AnsweredOnce
<1>5. AcceptsLastAction(request) =>
        \E k \in DOMAIN actionIdsAccept : actionIdsAccept[k] = params.action
  BY CollectedAction
<1>6. AcceptsLastAction(request) => Confirmed(params, DOMAIN toRic)'
  BY <1>4, <1>5 DEF Confirmed, SameRequest
<1>7. Names(c, params)'
  BY <1>3 DEF Names, RequestIds
<1> QED BY <1>2, <1>6, <1>7 DEF Vouches

LEMMA VouchedStep ==
  /\ TypeOK /\ HandlerTypeOK /\ AnswerInv /\ Collected /\ IdsApart /\ AnsweredOnce
  /\ Vouched /\ [Next]_vars
  => Vouched'
<1> SUFFICES ASSUME TypeOK, HandlerTypeOK, AnswerInv, Collected, IdsApart, AnsweredOnce,
                    Vouched, [Next]_vars
             PROVE  Vouched'
  OBVIOUS
<1>1. IsSequence(toRic) /\ VouchedIndications
  BY DEF AnsweredOnce, Vouched
\* Steps outside the handler: the parameters held stay vouched for.
<1>2. ASSUME UNCHANGED <<handlerVars, subscriptions>>, asked \subseteq asked',
             loop' # "reporting" \/ loop' = loop,
             \/ UNCHANGED toRic
             \/ \E p : toRic' = Append(toRic, Indication(p)) /\ Vouches(p, DOMAIN toRic)
      PROVE  Vouched'
  <2>1. UNCHANGED <<pc, params, result, subscriptions>>
    BY <1>2 DEF handlerVars
  <2>2. \A p : Vouches(p, DOMAIN toRic) => Vouches(Indication(p), DOMAIN toRic)
    BY DEF Vouches, Names, Confirmed, SameRequest, Indication
  <2>3. VouchedIndications' /\ \A p : Vouches(p, DOMAIN toRic) => Vouches(p, DOMAIN toRic)'
    BY <1>1, <1>2, <2>2, IndicationsStayVouched
  <2> QED BY <1>2, <2>1, <2>3 DEF Vouched
<1>3. CASE \/ \E f \in RanFunctionId : \/ \E kind \in Kind : RegisterFunctionDescToE2Sm(f, kind)
                                       \/ RegisterCallbackFunctionToE2Sm(f)
           \/ RegisterCallback \/ Start \/ Destroy \/ DoStart \/ RunOnDeleted
           \/ (\E message \in Message : RicSends(message))
           \/ UNCHANGED vars
  BY <1>2, <1>3 DEF RegisterFunctionDescToE2Sm, RegisterCallbackFunctionToE2Sm,
    RegisterCallback, Start, Destroy, DoStart, RunOnDeleted, RicSends, ricVars, vars
<1>4. CASE SendReport
  BY <1>2, <1>4 DEF SendReport, ricVars, Vouched
<1>5. CASE ReportFromCallback
  BY <1>2, <1>5 DEF ReportFromCallback, ricVars, Vouched
<1>6. CASE RunHandler
  <2>1. /\ UNCHANGED asked /\ Step /\ ResponseToRic /\ loop = "callback"
        /\ pc \in {"ies", "actions"} => sent = <<>>
    BY <1>6 DEF RunHandler, ricVars, AnswerInv
  <2>2. CASE /\ pc \in {"ies", "actions"} /\ pc' \in {"ies", "actions"}
             /\ UNCHANGED <<request, sent, result>>
    <3>1. UNCHANGED <<toRic, loop, subscriptions>>
      BY <1>6, <2>1, <2>2 DEF ResponseToRic, RunHandler
    <3>2. VouchedIndications' /\ \A p : Vouches(p, DOMAIN toRic) => Vouches(p, DOMAIN toRic)'
      BY <1>1, <2>1, <3>1, IndicationsStayVouched
    <3> QED BY <2>1, <2>2, <3>1, <3>2 DEF Vouched
  <2>3. CASE /\ pc = "ies" /\ pc' = "return" /\ i > Len(request)
             /\ UNCHANGED <<request, params, result>>
             /\ sent = <<>>
             /\ sent' = <<[requestor |-> params.requestor, instance |-> params.instance,
                           accepted |-> actionIdsAccept, rejected |-> actionIdsReject]>>
    <3> DEFINE e == [type |-> "response", requestor |-> sent'[1].requestor,
                     instance |-> sent'[1].instance, accepted |-> sent'[1].accepted]
    <3>1. sent' # sent
      BY <2>3
    <3>2. toRic' = Append(toRic, e) /\ UNCHANGED <<loop, subscriptions>>
      BY <1>6, <2>1, <2>3, <3>1 DEF ResponseToRic, RunHandler
    <3>3. /\ sent'[1].requestor = params.requestor /\ sent'[1].instance = params.instance
          /\ sent'[1].accepted = actionIdsAccept
      BY <2>3
    <3>4. e.type = "response" /\ SameRequest(e, params) /\ e.accepted = actionIdsAccept
      BY <3>3 DEF SameRequest
    <3>5. UNCHANGED actionIdsAccept
      BY <2>1, <2>3 DEF Step, ReadRequestId, ReadRanFunctionId, SkipIE, EnterDetails,
        AcceptAction, RejectAction, LeaveDetails, SendResponse, Return
    <3> HIDE DEF e
    <3>6. VouchedIndications' /\ \A p : Vouches(p, DOMAIN toRic) => Vouches(p, DOMAIN toRic)'
      BY <1>1, <2>1, <3>2, <3>4, IndicationsStayVouched
    <3>7. Vouches(params, DOMAIN toRic)'
      BY <2>1, <2>3, <3>2, <3>4, <3>5, ResponseVouches
    <3> QED BY <2>1, <2>3, <3>2, <3>6, <3>7 DEF Vouched
  <2>4. CASE /\ pc = "return" /\ pc' = "idle" /\ UNCHANGED <<request, sent, params>>
             /\ result' = params
    <3>1. UNCHANGED toRic /\ subscriptions' = subscriptions \cup {result'}
      BY <1>6, <2>1, <2>4 DEF ResponseToRic, RunHandler
    <3>2. VouchedIndications' /\ \A p : Vouches(p, DOMAIN toRic) => Vouches(p, DOMAIN toRic)'
      BY <1>1, <2>1, <3>1, IndicationsStayVouched
    <3>3. Vouches(params, DOMAIN toRic)
      BY <2>4 DEF Vouched
    <3>4. Vouches(result, DOMAIN toRic)'
      BY <2>4, <3>2, <3>3
    <3>5. \A p \in subscriptions' : Vouches(p, DOMAIN toRic)'
      BY <2>4, <3>1, <3>2, <3>3 DEF Vouched
    <3> QED BY <2>4, <3>2, <3>4, <3>5 DEF Vouched
  <2> QED BY <2>1, <2>2, <2>3, <2>4, HandlerSteps
<1>7. CASE Dispatch
  <2>1. UNCHANGED <<asked, subscriptions, toRic>> /\ loop = "waiting"
    BY <1>7 DEF Dispatch
  <2>2. VouchedIndications' /\ \A p : Vouches(p, DOMAIN toRic) => Vouches(p, DOMAIN toRic)'
    BY <1>1, <2>1, IndicationsStayVouched
  <2>3. CASE UNCHANGED <<handlerVars, loop>>
    BY <1>2, <2>1, <2>3
  <2>4. CASE Call(Head(inbox).request) /\ loop' = "callback"
    <3>1. pc' = "ies"
      BY <2>4 DEF Call
    <3> QED BY <2>1, <2>2, <2>4, <3>1 DEF Vouched
  <2> QED BY <1>7, <2>3, <2>4 DEF Dispatch
<1> QED BY <1>3, <1>4, <1>5, <1>6, <1>7 DEF Next, Ns3Thread, E2SimThread

\* An indication never names an action the RIC was not told is accepted, where
\* the accepted action of its subscription is the last one it asks for
\* (oran-interface.cc:232-255 and oran-interface-example.cc:77-108).
THEOREM IndicationsAreAccepted == Spec => []IndicationUsesAcceptedAction
<1>1. ASSUME IdsApart, Vouched,
             NEW n \in DOMAIN toRic, NEW message \in asked,
             toRic[n].type = "indication", message.type = "subscription",
             AcceptsLastAction(message.request),
             <<toRic[n].requestor, toRic[n].instance>> \in RequestIds(message.request)
      PROVE  \E m \in 1..(n - 1) :
               /\ toRic[m].type = "response" /\ SameRequest(toRic[m], toRic[n])
               /\ \E k \in DOMAIN toRic[m].accepted : toRic[m].accepted[k] = toRic[n].action
  <2>1. PICK m \in asked : /\ Names(m, toRic[n])
                           /\ AcceptsLastAction(m.request) => Confirmed(toRic[n], 1..(n - 1))
    BY <1>1 DEF Vouched, VouchedIndications, Vouches
  <2>2. m = message
    BY <1>1, <2>1, NamesOne DEF Names, SameRequest
  <2> QED BY <1>1, <2>1, <2>2 DEF Confirmed
<1>2. IdsApart /\ Vouched => IndicationUsesAcceptedAction
  BY <1>1 DEF IndicationUsesAcceptedAction
<1> QED BY <1>2, VouchedInit, VouchedStep, AllKept, AllAnswered, PTL DEF Spec
==============================================================================
