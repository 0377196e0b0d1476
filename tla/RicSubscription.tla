---------------------------- MODULE RicSubscription ----------------------------
(***************************************************************************)
(* E2Termination::ProcessRicSubscriptionRequest, one step per iteration of *)
(* its two loops.  The handler runs on the e2sim thread, once per request; *)
(* its locals are initialised by the call and die with it.                 *)
(***************************************************************************)
EXTENDS SubscriptionRequest

VARIABLES
  pc,               \* where the handler is
  request,          \* sub_req_pdu: the list of protocol IEs
  i,                \* index of the IE under way
  j,                \* index of the action under way
  foundAction,      \* an action of this Details IE has been accepted
  params,           \* reqRequestorId, reqInstanceId, ranFuncionId, reqActionId
  actionIdsAccept,
  actionIdsReject,
  sent,             \* responses handed to e2sim by this call
  result,           \* what this call has returned
  acceptAt          \* history: position <<IE, action>> of each accepted action

handlerVars == <<pc, request, i, j, foundAction, params, actionIdsAccept,
                 actionIdsReject, sent, result, acceptAt>>

HandlerInit ==
  /\ pc = "idle"
  /\ request = <<>>
  /\ i = 1
  /\ j = 1
  /\ foundAction = FALSE
  /\ params = NoParams
  /\ actionIdsAccept = <<>>
  /\ actionIdsReject = <<>>
  /\ sent = <<>>
  /\ result = NoParams
  /\ acceptAt = <<>>

-----------------------------------------------------------------------------

\* The callback is called with a decoded request: fresh locals.
Call(r) ==
  /\ pc = "idle"
  /\ pc' = "ies"
  /\ request' = r
  /\ i' = 1
  /\ j' = 1
  /\ foundAction' = FALSE
  /\ params' = NoParams
  /\ actionIdsAccept' = <<>>
  /\ actionIdsReject' = <<>>
  /\ sent' = <<>>
  /\ result' = NoParams
  /\ acceptAt' = <<>>

AtIE(kind) == pc = "ies" /\ i <= Len(request) /\ request[i].kind = kind

\* Mutant: the first RIC Request ID wins instead of the last.
ReadFirstRequestId ==
  /\ AtIE("RICrequestID")
  /\ params' = IF params.requestor # 0 THEN params
               ELSE [params EXCEPT !.requestor = request[i].requestor,
                                   !.instance = request[i].instance]
  /\ i' = i + 1
  /\ UNCHANGED <<pc, request, j, foundAction, actionIdsAccept, actionIdsReject,
                 sent, result, acceptAt>>

ReadRequestId ==
  /\ AtIE("RICrequestID")
  /\ params' = [params EXCEPT !.requestor = request[i].requestor,
                              !.instance = request[i].instance]
  /\ i' = i + 1
  /\ UNCHANGED <<pc, request, j, foundAction, actionIdsAccept, actionIdsReject,
                 sent, result, acceptAt>>

ReadRanFunctionId ==
  /\ AtIE("RANfunctionID")
  /\ params' = [params EXCEPT !.function = request[i].function]
  /\ i' = i + 1
  /\ UNCHANGED <<pc, request, j, foundAction, actionIdsAccept, actionIdsReject,
                 sent, result, acceptAt>>

SkipIE ==
  /\ AtIE("other")
  /\ i' = i + 1
  /\ UNCHANGED <<pc, request, j, foundAction, params, actionIdsAccept,
                 actionIdsReject, sent, result, acceptAt>>

\* Mutants: foundAction declared outside the loop over the IEs, and an inner
\* loop that starts one too low.
EnterDetailsKeepFound ==
  /\ AtIE("RICsubscriptionDetails")
  /\ pc' = "actions"
  /\ j' = 1
  /\ UNCHANGED <<request, i, foundAction, params, actionIdsAccept,
                 actionIdsReject, sent, result, acceptAt>>

EnterDetailsTooLow ==
  /\ AtIE("RICsubscriptionDetails")
  /\ pc' = "actions"
  /\ j' = 0
  /\ foundAction' = FALSE
  /\ UNCHANGED <<request, i, params, actionIdsAccept, actionIdsReject, sent,
                 result, acceptAt>>

\* A Details IE: the search starts over.
EnterDetails ==
  /\ AtIE("RICsubscriptionDetails")
  /\ pc' = "actions"
  /\ j' = 1
  /\ foundAction' = FALSE
  /\ UNCHANGED <<request, i, params, actionIdsAccept, actionIdsReject, sent,
                 result, acceptAt>>

AtAction == pc = "actions" /\ j <= Len(request[i].actions)

\* Mutant: foundAction is not consulted.
MayAcceptAgain(action) == Acceptable(action)

\* The condition of the if: nothing accepted yet in this IE, and a type the
\* handler serves.
MayAccept(action) == ~foundAction /\ Acceptable(action)

\* Mutant: the accepted id goes into the response but is not recorded.
AcceptActionUnrecorded ==
  /\ AtAction
  /\ MayAccept(request[i].actions[j])
  /\ actionIdsAccept' = Append(actionIdsAccept, request[i].actions[j].id)
  /\ acceptAt' = Append(acceptAt, <<i, j>>)
  /\ foundAction' = TRUE
  /\ j' = j + 1
  /\ UNCHANGED <<pc, request, i, params, actionIdsReject, sent, result>>

AcceptAction ==
  /\ AtAction
  /\ LET action == request[i].actions[j] IN
       /\ MayAccept(action)
       /\ params' = [params EXCEPT !.action = action.id]
       /\ actionIdsAccept' = Append(actionIdsAccept, action.id)
  /\ acceptAt' = Append(acceptAt, <<i, j>>)
  /\ foundAction' = TRUE
  /\ j' = j + 1
  /\ UNCHANGED <<pc, request, i, actionIdsReject, sent, result>>

\* Mutant: the else branch leaves reqActionId alone.
RejectActionUnrecorded ==
  /\ AtAction
  /\ ~MayAccept(request[i].actions[j])
  /\ j' = j + 1
  /\ UNCHANGED <<pc, request, i, foundAction, params, actionIdsAccept,
                 actionIdsReject, sent, result, acceptAt>>

\* The else branch records the id all the same, and leaves the list of
\* rejected actions alone: the push_back is commented out.
RejectAction ==
  /\ AtAction
  /\ LET action == request[i].actions[j] IN
       /\ ~MayAccept(action)
       /\ params' = [params EXCEPT !.action = action.id]
  /\ j' = j + 1
  /\ UNCHANGED <<pc, request, i, foundAction, actionIdsAccept, actionIdsReject,
                 sent, result, acceptAt>>

\* Mutant: the index of the IEs does not advance past a Details IE.
LeaveDetailsInPlace ==
  /\ pc = "actions"
  /\ j > Len(request[i].actions)
  /\ pc' = "ies"
  /\ UNCHANGED <<request, i, j, foundAction, params, actionIdsAccept,
                 actionIdsReject, sent, result, acceptAt>>

LeaveDetails ==
  /\ pc = "actions"
  /\ j > Len(request[i].actions)
  /\ pc' = "ies"
  /\ i' = i + 1
  /\ UNCHANGED <<request, j, foundAction, params, actionIdsAccept,
                 actionIdsReject, sent, result, acceptAt>>

\* Mutant: the last two arguments of generate_e2apv1_subscription_response_success
\* are swapped.
SendResponseSwapped ==
  /\ pc = "ies"
  /\ i > Len(request)
  /\ pc' = "return"
  /\ sent' = Append(sent, [requestor |-> params.instance,
                           instance  |-> params.requestor,
                           accepted  |-> actionIdsAccept,
                           rejected  |-> actionIdsReject])
  /\ UNCHANGED <<request, i, j, foundAction, params, actionIdsAccept,
                 actionIdsReject, result, acceptAt>>

\* Mutant: the response is sent a second time.
SendResponseRepeats ==
  /\ pc = "ies"
  /\ i > Len(request)
  /\ pc' = IF sent = <<>> THEN "ies" ELSE "return"
  /\ sent' = Append(sent, [requestor |-> params.requestor,
                           instance  |-> params.instance,
                           accepted  |-> actionIdsAccept,
                           rejected  |-> actionIdsReject])
  /\ UNCHANGED <<request, i, j, foundAction, params, actionIdsAccept,
                 actionIdsReject, result, acceptAt>>

\* After the last IE: always a *success* response, with whatever was accepted.
SendResponse ==
  /\ pc = "ies"
  /\ i > Len(request)
  /\ pc' = "return"
  /\ sent' = Append(sent, [requestor |-> params.requestor,
                           instance  |-> params.instance,
                           accepted  |-> actionIdsAccept,
                           rejected  |-> actionIdsReject])
  /\ UNCHANGED <<request, i, j, foundAction, params, actionIdsAccept,
                 actionIdsReject, result, acceptAt>>

Return ==
  /\ pc = "return"
  /\ pc' = "idle"
  /\ result' = params
  /\ UNCHANGED <<request, i, j, foundAction, params, actionIdsAccept,
                 actionIdsReject, sent, acceptAt>>

\* One step of the body of the handler.
Step ==
  \/ ReadRequestId
  \/ ReadRanFunctionId
  \/ SkipIE
  \/ EnterDetails
  \/ AcceptAction
  \/ RejectAction
  \/ LeaveDetails
  \/ SendResponse
  \/ Return

HandlerNext == Step \/ \E r \in Request : Call(r)

\* The handler never waits: it is a loop over lists of known length.  Nothing
\* makes the RIC send a request.
HandlerSpec == HandlerInit /\ [][HandlerNext]_handlerVars /\ WF_handlerVars(Step)

-----------------------------------------------------------------------------
(* Properties *)

\* Types of the locals and of what the handler exchanges with its caller.
HandlerTypeOK ==
  /\ pc \in {"idle", "ies", "actions", "return"}
  /\ request \in Request \cup {<<>>}
  /\ i \in 1..(Len(request) + 1)
  /\ j \in Nat \ {0}
  /\ pc = "actions" => /\ i \in DOMAIN request
                       /\ IsDetails(request[i])
                       /\ j <= Len(request[i].actions) + 1
  /\ foundAction \in BOOLEAN
  /\ params \in Params
  /\ actionIdsAccept \in Seq(ActionId)
  /\ actionIdsReject \in Seq(ActionId)
  /\ sent \in Seq(Response)
  /\ result \in Params
  /\ acceptAt \in Seq(Nat \X Nat)

\* What is accepted, at every moment of the loops (lines 232-255): each
\* accepted id is the id of the first acceptable action of its Details IE,
\* and no Details IE, and so no run of the inner loop, has two of them.
AcceptedIsFirst ==
  /\ Len(acceptAt) = Len(actionIdsAccept)
  /\ \A k \in DOMAIN acceptAt :
       LET ie == acceptAt[k][1] IN
         /\ ie \in DOMAIN request /\ IsDetails(request[ie])
         /\ IsFirstAcceptable(request[ie].actions, acceptAt[k][2])
         /\ actionIdsAccept[k] = ActionAt(request, acceptAt[k]).id
  /\ \A k, l \in DOMAIN acceptAt : k < l => acceptAt[k][1] < acceptAt[l][1]

\* A response leaves exactly once per call, after the loops (lines 278-281),
\* and no Details IE with an acceptable action has been passed over.
AnswerIsComplete ==
  /\ pc \in {"ies", "actions"} => sent = <<>>
  /\ pc = "return" => Len(sent) = 1
  /\ sent # <<>> =>
       /\ sent[1].accepted = actionIdsAccept
       /\ {acceptAt[k][1] : k \in DOMAIN acceptAt} = AcceptingIEs(request, Len(request))

\* The ids given back to the caller (lines 284-289), which every later
\* indication carries, are those the RIC finds in the response (line 278).
ReturnMatchesResponse ==
  pc = "idle" /\ sent # <<>> =>
    /\ result.requestor = sent[1].requestor
    /\ result.instance = sent[1].instance

\* The action id given back is the id of the last action of the request in
\* the order of the loops, accepted or not (lines 244 and 251), and 0 when
\* the request names no action.
ReturnedActionIsLast ==
  pc = "idle" /\ sent # <<>> =>
    \/ ActionPositions(request) = {} /\ result.action = 0
    \/ \E p \in ActionPositions(request) :
         /\ result.action = ActionAt(request, p).id
         /\ \A q \in ActionPositions(request) :
              q[1] < p[1] \/ (q[1] = p[1] /\ q[2] <= p[2])

\* Where a request names a single action and it is accepted, the caller gets
\* that action's id: the case the examples rely on to send indications.
SoleActionReturned ==
  pc = "idle" /\ sent # <<>> =>
    \A p \in ActionPositions(request) :
      ActionPositions(request) = {p} /\ Acceptable(ActionAt(request, p)) =>
        sent[1].accepted = <<result.action>>

\* The Details IEs an action of which has been accepted.
Covered == {acceptAt[k][1] : k \in DOMAIN acceptAt}

\* The inductive invariant behind the three safety properties of the answer: what the
\* handler has accepted part way through its loops.  Between two IEs, every
\* Details IE behind it that could be served has been; inside one,
\* foundAction says whether an acceptable action lies behind the inner index.
AnswerInv ==
  /\ AcceptedIsFirst
  /\ pc = "ies" => Covered = AcceptingIEs(request, i - 1)
  /\ pc = "actions" =>
       /\ foundAction => Covered = AcceptingIEs(request, i - 1) \cup {i}
       /\ foundAction => \E m \in 1..(j - 1) : Acceptable(request[i].actions[m])
       /\ ~foundAction => Covered = AcceptingIEs(request, i - 1)
       /\ ~foundAction => \A m \in 1..(j - 1) : ~Acceptable(request[i].actions[m])
  /\ pc \in {"ies", "actions"} => sent = <<>>
  /\ pc = "return" => Len(sent) = 1
  /\ sent # <<>> =>
       /\ sent[1].accepted = actionIdsAccept
       /\ Covered = AcceptingIEs(request, Len(request))
       /\ sent[1].requestor = params.requestor
       /\ sent[1].instance = params.instance
  /\ pc = "idle" /\ sent # <<>> => result = params

\* Every call returns: the loops end (lines 184 and 234).
CallReturns == pc = "ies" ~> pc = "idle"

\* The handler implements the one-shot answer: the loops are stutters, the
\* response is Answer.
Answers ==
  INSTANCE SubscriptionAnswer WITH
    phase <- CASE pc = "idle" -> "idle"
               [] pc = "return" -> "answered"
               [] OTHER -> "pending"

AnswersSpec == Answers!Spec

-----------------------------------------------------------------------------
(* What the comments of the source say *)

\* Lines 157-158, "Find first entry with REPORT action Type / Record
\* ricActionID": the id recorded and returned is that of an accepted action.
ReturnedActionIsAccepted ==
  pc = "idle" /\ sent # <<>> /\ sent[1].accepted # <<>> =>
    \E k \in DOMAIN sent[1].accepted : sent[1].accepted[k] = result.action
==============================================================================
