----------------------------- MODULE E2Termination -----------------------------
(***************************************************************************)
(* E2Termination as two threads share it.  The ns-3 thread registers       *)
(* service models, starts the termination, sends reports and destroys it;  *)
(* the e2sim thread, detached by Start, runs E2Sim's loop and, inside it,  *)
(* the callbacks.  E2Sim and the RIC are external: E2Sim keeps the tables  *)
(* the register_ calls fill, advertises the RAN functions it knows when    *)
(* its loop starts, and calls the callback registered for the function a   *)
(* message names; each call into it, and each message, is one step.  The   *)
(* handler of subscriptions is RicSubscription, step by step: its frame is *)
(* part of the state, and its steps are steps of the e2sim thread.         *)
(***************************************************************************)
EXTENDS RicSubscription, FiniteSets

CONSTANT
  MaxReports   \* bound: the ns-3 thread reports below this many indications

ASSUME ReportsAreBounded == MaxReports \in Nat

VARIABLES
  ricAddress,      \* m_ricAddress: empty or not
  e2sim,           \* *m_e2sim: alive or deleted
  app,             \* the ns-3 thread
  ranFunctions,    \* E2Sim: <<service model, function>> with a description
  callbacks,       \* E2Sim: <<kind, function>> pairs with a callback
  loop,            \* the e2sim thread
  advertised,      \* functions named in the E2 Setup Request
  asked,           \* messages the RIC has sent
  inbox,           \* messages E2Sim has yet to dispatch
  dropped,         \* messages for which E2Sim found no callback
  subscriptions,   \* parameters the application holds to report with
  toRic            \* history: messages sent to the RIC, in order

e2simVars == <<ranFunctions, callbacks, advertised>>
ricVars   == <<asked, inbox, dropped>>
vars == <<handlerVars, ricAddress, e2sim, app, e2simVars, loop, ricVars,
          subscriptions, toRic>>

\* The three ways to register: RegisterKpmCallbackToE2Sm, RegisterSmCallback-
\* ToE2Sm and RegisterCallbackFunctionToE2Sm.
Kind == {"subscription", "sm", "event"}

Message == [type : {"subscription"}, request : Request]
             \cup [type : {"sm"}, function : RanFunctionId]

FunctionOf(message) ==
  IF message.type = "sm" THEN message.function
  ELSE LET r == message.request
       IN  r[CHOOSE k \in DOMAIN r : r[k].kind = "RANfunctionID"].function

ReadyApp == [at |-> "ready"]

Init ==
  /\ HandlerInit
  /\ ricAddress \in {"empty", "set"}
  /\ e2sim = "alive"
  /\ app = ReadyApp
  /\ ranFunctions = {}
  /\ callbacks = {}
  /\ loop = "none"
  /\ advertised = {}
  /\ asked = {}
  /\ inbox = <<>>
  /\ dropped = {}
  /\ subscriptions = {}
  /\ toRic = <<>>

-----------------------------------------------------------------------------
(* The ns-3 thread *)

\* First half of RegisterKpmCallbackToE2Sm and RegisterSmCallbackToE2Sm.  A
\* function may be registered again, but belongs to one service model.
RegisterFunctionDescToE2Sm(f, kind) ==
  /\ app = ReadyApp
  /\ kind \in {"subscription", "sm"}
  /\ \A k \in Kind \ {kind} : <<k, f>> \notin ranFunctions
  /\ ranFunctions' = ranFunctions \cup {<<kind, f>>}
  /\ app' = [at |-> "registering", kind |-> kind, function |-> f]
  /\ UNCHANGED <<handlerVars, ricAddress, e2sim, callbacks, advertised, loop,
                 ricVars, subscriptions, toRic>>

\* Mutant: every callback goes into the table of the subscription callbacks.
RegisterCallbackWrongTable ==
  /\ app.at = "registering"
  /\ callbacks' = callbacks \cup {<<"subscription", app.function>>}
  /\ app' = ReadyApp
  /\ UNCHANGED <<handlerVars, ricAddress, e2sim, ranFunctions, advertised, loop,
                 ricVars, subscriptions, toRic>>

\* Second half: register_subscription_callback or register_sm_callback.
RegisterCallback ==
  /\ app.at = "registering"
  /\ callbacks' = callbacks \cup {<<app.kind, app.function>>}
  /\ app' = ReadyApp
  /\ UNCHANGED <<handlerVars, ricAddress, e2sim, ranFunctions, advertised, loop,
                 ricVars, subscriptions, toRic>>

RegisterCallbackFunctionToE2Sm(f) ==
  /\ app = ReadyApp
  /\ callbacks' = callbacks \cup {<<"event", f>>}
  /\ UNCHANGED <<handlerVars, ricAddress, e2sim, app, ranFunctions, advertised,
                 loop, ricVars, subscriptions, toRic>>

\* Start aborts the program when no RIC is set; otherwise it spawns the thread
\* and detaches it.  Start is called once.
Start ==
  /\ app = ReadyApp
  /\ loop = "none"
  /\ \/ /\ ricAddress = "empty"
        /\ app' = [at |-> "aborted"]
        /\ UNCHANGED loop
     \/ /\ ricAddress # "empty"
        /\ loop' = "spawned"
        /\ UNCHANGED app
  /\ UNCHANGED <<handlerVars, ricAddress, e2sim, e2simVars, ricVars,
                 subscriptions, toRic>>

Indication(p) == [type |-> "indication", requestor |-> p.requestor, instance |-> p.instance,
                  function |-> p.function, action |-> p.action]

\* SendE2Message on the ns-3 thread: a periodic report for a subscription the
\* application knows of, sent while the e2sim thread runs.
SendReport ==
  /\ app = ReadyApp
  /\ Cardinality({n \in DOMAIN toRic : toRic[n].type = "indication"}) < MaxReports
  /\ \E p \in subscriptions : toRic' = Append(toRic, Indication(p))
  /\ UNCHANGED <<handlerVars, ricAddress, e2sim, app, e2simVars, loop, ricVars,
                 subscriptions>>

\* ~E2Termination: delete m_e2sim, whatever the detached thread is doing.
Destroy ==
  /\ app = ReadyApp
  /\ e2sim' = "deleted"
  /\ app' = [at |-> "gone"]
  /\ UNCHANGED <<handlerVars, ricAddress, e2simVars, loop, ricVars,
                 subscriptions, toRic>>

-----------------------------------------------------------------------------
(* The e2sim thread *)

\* run_loop opens the association and advertises the functions registered.
DoStart ==
  /\ loop = "spawned" /\ e2sim = "alive"
  /\ loop' = "waiting"
  /\ advertised' = ranFunctions
  /\ UNCHANGED <<handlerVars, ricAddress, e2sim, app, ranFunctions, callbacks,
                 ricVars, subscriptions, toRic>>

\* E2Sim looks up the callback of the function the message names.
Dispatch ==
  /\ loop = "waiting" /\ e2sim = "alive"
  /\ inbox # <<>>
  /\ inbox' = Tail(inbox)
  /\ LET message == Head(inbox)
         known == <<message.type, FunctionOf(message)>> \in callbacks
     IN \/ /\ known /\ message.type = "subscription"
           /\ Call(message.request)
           /\ loop' = "callback"
           /\ UNCHANGED dropped
        \/ /\ known /\ message.type = "sm"
           /\ UNCHANGED <<handlerVars, loop, dropped>>
        \/ /\ ~known
           /\ dropped' = dropped \cup {message}
           /\ UNCHANGED <<handlerVars, loop>>
  /\ UNCHANGED <<ricAddress, e2sim, app, e2simVars, asked, subscriptions, toRic>>

ResponseToRic ==
  IF sent' = sent THEN UNCHANGED toRic
  ELSE toRic' = Append(toRic, [type |-> "response", requestor |-> sent'[1].requestor,
                               instance |-> sent'[1].instance,
                               accepted |-> sent'[1].accepted])

\* Mutants: the callback goes on once the response is out; the parameters are
\* published while the IEs are still being read; the callback does not report.
RunHandlerDetached ==
  /\ loop = "callback" /\ e2sim = "alive"
  /\ Step
  /\ ResponseToRic
  /\ IF sent' # <<>>
     THEN loop' = "reporting" /\ subscriptions' = subscriptions \cup {params'}
     ELSE UNCHANGED <<loop, subscriptions>>
  /\ UNCHANGED <<ricAddress, e2sim, app, e2simVars, ricVars>>

RunHandlerPublishesEarly ==
  /\ loop = "callback" /\ e2sim = "alive"
  /\ Step
  /\ ResponseToRic
  /\ subscriptions' = IF pc = "actions" THEN subscriptions \cup {params'} ELSE subscriptions
  /\ loop' = IF pc' = "idle" THEN "reporting" ELSE loop
  /\ UNCHANGED <<ricAddress, e2sim, app, e2simVars, ricVars>>

RunHandlerNoReport ==
  /\ loop = "callback" /\ e2sim = "alive"
  /\ Step
  /\ ResponseToRic
  /\ IF pc' = "idle"
     THEN loop' = "waiting" /\ subscriptions' = subscriptions \cup {result'}
     ELSE UNCHANGED <<loop, subscriptions>>
  /\ UNCHANGED <<ricAddress, e2sim, app, e2simVars, ricVars>>

\* ProcessRicSubscriptionRequest under way: its response goes to the RIC, and
\* its return value to the callback.
RunHandler ==
  /\ loop = "callback" /\ e2sim = "alive"
  /\ Step
  /\ ResponseToRic
  /\ IF pc' = "idle"
     THEN loop' = "reporting" /\ subscriptions' = subscriptions \cup {result'}
     ELSE UNCHANGED <<loop, subscriptions>>
  /\ UNCHANGED <<ricAddress, e2sim, app, e2simVars, ricVars>>

\* The callback ends with BuildAndSendReportMessage (params).
ReportFromCallback ==
  /\ loop = "reporting" /\ e2sim = "alive"
  /\ toRic' = Append(toRic, Indication(result))
  /\ loop' = "waiting"
  /\ UNCHANGED <<handlerVars, ricAddress, e2sim, app, e2simVars, ricVars, subscriptions>>

\* The thread runs on an object that is gone: undefined from here on.
RunOnDeleted ==
  /\ loop \notin {"none", "undefined"} /\ e2sim = "deleted"
  /\ loop' = "undefined"
  /\ UNCHANGED <<handlerVars, ricAddress, e2sim, app, e2simVars, ricVars,
                 subscriptions, toRic>>

-----------------------------------------------------------------------------
(* The RIC: it speaks to the functions advertised to it, in the messages of *)
(* the service model the description names, and gives each subscription a   *)
(* RIC Request ID of its own.                                               *)

\* The RIC Request IDs a request carries.
RequestIds(r) ==
  {<<r[k].requestor, r[k].instance>> : k \in {k \in DOMAIN r : r[k].kind = "RICrequestID"}}

RicSends(message) ==
  /\ message \notin asked
  /\ <<message.type, FunctionOf(message)>> \in advertised
  /\ message.type = "subscription" =>
       /\ RequestIds(message.request) # {}
       /\ \A m \in asked : m.type = "subscription" =>
            RequestIds(m.request) \cap RequestIds(message.request) = {}
  /\ asked' = asked \cup {message}
  /\ inbox' = Append(inbox, message)
  /\ UNCHANGED <<handlerVars, ricAddress, e2sim, app, e2simVars, loop, dropped,
                 subscriptions, toRic>>

-----------------------------------------------------------------------------

Ns3Thread ==
  \/ \E f \in RanFunctionId :
       \/ \E kind \in Kind : RegisterFunctionDescToE2Sm(f, kind)
       \/ RegisterCallbackFunctionToE2Sm(f)
  \/ RegisterCallback
  \/ Start
  \/ SendReport
  \/ Destroy

E2SimThread ==
  \/ DoStart
  \/ Dispatch
  \/ RunHandler
  \/ ReportFromCallback
  \/ RunOnDeleted

Next == Ns3Thread \/ E2SimThread \/ \E message \in Message : RicSends(message)

\* The operating system runs the e2sim thread; nothing obliges the ns-3
\* thread to call, or the RIC to send.
Spec == Init /\ [][Next]_vars /\ WF_vars(E2SimThread)

-----------------------------------------------------------------------------
(* Properties *)

\* Types of what the two threads share, and of what they know of each other.
TypeOK ==
  /\ e2sim \in {"alive", "deleted"}
  /\ app.at \in {"ready", "registering", "aborted", "gone"}
  /\ app.at = "registering" => app.kind \in Kind /\ app.function \in RanFunctionId
  /\ ranFunctions \subseteq Kind \X RanFunctionId
  /\ callbacks \subseteq Kind \X RanFunctionId
  /\ advertised \subseteq ranFunctions
  /\ loop \in {"none", "spawned", "waiting", "callback", "reporting", "undefined"}
  /\ (pc # "idle") => loop \in {"callback", "undefined"}
  /\ asked \subseteq Message /\ dropped \subseteq asked
  /\ inbox \in Seq(asked)
  /\ subscriptions \subseteq Params

SameRequest(a, b) == a.requestor = b.requestor /\ a.instance = b.instance

\* Whichever thread sends it, an indication follows on the association the
\* response to its subscription: the callback reports with what Process-
\* RicSubscriptionRequest returned, after that has sent the response.
ResponseBeforeIndication ==
  \A n \in DOMAIN toRic : toRic[n].type = "indication" =>
    \E m \in 1..(n - 1) : toRic[m].type = "response" /\ SameRequest(toRic[m], toRic[n])

\* Each subscription is answered at most once, and nothing is answered that
\* was not asked, however the messages and the reports interleave.
OneResponsePerRequest ==
  \A n \in DOMAIN toRic : toRic[n].type = "response" =>
    /\ \E m \in asked : m.type = "subscription"
                        /\ <<toRic[n].requestor, toRic[n].instance>> \in RequestIds(m.request)
    /\ \A m \in DOMAIN toRic \ {n} : toRic[m].type = "response" => ~SameRequest(toRic[m], toRic[n])

\* The action the request names last is the one the handler accepts of its list.
AcceptsLastAction(r) ==
  \E p \in ActionPositions(r) :
    /\ IsFirstAcceptable(r[p[1]].actions, p[2])
    /\ \A q \in ActionPositions(r) : q[1] < p[1] \/ (q[1] = p[1] /\ q[2] <= p[2])

\* Where the accepted action of a request is its last one, every indication,
\* from either thread, names an action the RIC was told is accepted.
IndicationUsesAcceptedAction ==
  \A n \in DOMAIN toRic, message \in asked :
    /\ toRic[n].type = "indication"
    /\ message.type = "subscription" /\ AcceptsLastAction(message.request)
    /\ <<toRic[n].requestor, toRic[n].instance>> \in RequestIds(message.request)
    => \E m \in 1..(n - 1) :
         /\ toRic[m].type = "response" /\ SameRequest(toRic[m], toRic[n])
         /\ \E k \in DOMAIN toRic[m].accepted : toRic[m].accepted[k] = toRic[n].action

\* "Whenever a RIC Subscription Request to this RAN Function is received, the
\* callback is triggered" (oran-interface.h:78-79), and the same for control
\* messages (95-96): E2Sim always finds the callback.
NothingDropped == dropped = {}

\* A message goes unserved only between the two halves of the registration of
\* its own function, while the e2sim thread is already running: an application
\* that registers before it calls Start loses none.
DropsOnlyMidRegistration ==
  [][\A m \in dropped' \ dropped :
       app.at = "registering" /\ app.function = FunctionOf(m)]_vars

Answered(message) ==
  \A type \in {"response", "indication"} :
    \E n \in DOMAIN toRic : toRic[n].type = type
      /\ <<toRic[n].requestor, toRic[n].instance>> \in RequestIds(message.request)

\* A subscription request is answered and a first report sent, unless the
\* application deletes the termination or no callback is there.
SubscriptionServed ==
  \A message \in Message :
    message.type = "subscription" =>
      (message \in asked ~> (Answered(message) \/ message \in dropped \/ e2sim = "deleted"))
==============================================================================
