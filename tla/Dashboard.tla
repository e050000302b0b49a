----------------------------- MODULE Dashboard -----------------------------
(***************************************************************************)
(* The dashboard page of src/public/app.js and src/public/app_queue.js,  *)
(* composed with its Router: App.init registers /queue (Queue.init) and   *)
(* navigates; every dispatch of the /queue handler, from that navigate or *)
(* from a popstate when the user goes back or forward, runs queue_show,   *)
(* which shows the spinner, polls /api/v1/work/queue and reschedules      *)
(* itself every 3 s.  The queue-clear and server-stop buttons send a      *)
(* request whose answer shows a 3 s message or alert banner.              *)
(*                                                                         *)
(* Pending timers and requests are counted per kind: the browser runs     *)
(* them in any order.  The work server being up or down is the            *)
(* environment; a request it does not answer reaches only jQuery's       *)
(* absent error callback.  The status loop is the module StatusLoop.     *)
(***************************************************************************)
EXTENDS Naturals, Sequences, FiniteSets

CONSTANTS
  Paths, RootPath, Matches(_, _), NoHandler, NoRoute, NoName,
  QueueHandler,    \* the arrow function Queue.init passes to on('/queue', ...)
  QueuePattern,    \* the pattern '/queue'
  QueuePath,       \* the location /queue
  Pages,           \* ids of the divs under #page_container
  MaxResolutions, MaxHistory,
  MaxInFlight,     \* bound on pending timers and requests of each kind
  MaxClicks        \* bound on unanswered clicks of each button

ASSUME /\ QueuePath \in Paths /\ "page_queue" \in Pages
       /\ {MaxInFlight, MaxClicks} \subseteq Nat \ {0}

VARIABLES
  routes, defaultHandler, notFoundHandler, genericHooks, paused, destroyed,
  updateMethod, lastRouteResolved, hist, hidx, inDoc, attached, pending,
  log, nres, ret, calls,
  started,         \* App.init has run
  activePage,      \* this.active_page
  queueChains,     \* pending setTimeouts of queue_show: polling chains
  queueReqs,       \* pending getJSON /api/v1/work/queue
  spinnerStarted,  \* this.spinner_started
  spinnerShown,    \* #app_spinner is shown
  spinnerTimers,   \* pending 500 ms timeouts of show_spinner
  alertShown, alertTimers,      \* #app_alert_area, its pending hide timeouts
  messageShown, messageTimers,  \* #app_success_area, likewise
  clearReqs,       \* pending DELETE /api/v1/work/queue
  stopReqs,        \* pending getJSON /api/v1/stop
  serverUp,        \* the work server answers requests
  statusInterval, statusArmed, pings, networkBanner   \* see StatusLoop

\* App.update_status_loop, sharing the server with the rest of the page.
SL == INSTANCE StatusLoop

\* The app's Router: one route, no hooks, no app-route links in src.
R == INSTANCE Router WITH
       Patterns <- {QueuePattern}, Handlers <- {QueueHandler},
       HookSets <- {[before |-> "none", after |-> FALSE, leave |-> FALSE]},
       Names <- {}, Links <- {}, Href <- [l \in {} |-> RootPath],
       MaxRoutes <- 1, MaxCalls <- 1

queueVars == <<activePage, queueChains, queueReqs, spinnerStarted, spinnerShown,
               spinnerTimers, alertShown>>
bannerVars == <<alertTimers, messageShown, messageTimers, clearReqs, stopReqs>>
routerVars == <<routes, defaultHandler, notFoundHandler, genericHooks, paused,
                destroyed, updateMethod, lastRouteResolved, hist, hidx, inDoc,
                attached, pending, log, nres, ret, calls>>
statusVars == <<statusInterval, statusArmed, pings, networkBanner>>
vars == <<routerVars, started, queueVars, bannerVars, serverUp, statusVars>>



-----------------------------------------------------------------------------
\* show_spinner(): set the flag and start the 500 ms timeout.
ShowSpinner ==
  /\ spinnerTimers < MaxInFlight
  /\ spinnerStarted' = TRUE /\ spinnerTimers' = spinnerTimers + 1

\* hide_spinner()
HideSpinner == spinnerStarted' = FALSE /\ spinnerShown' = FALSE

\* show_alert(msg) / show_message(msg): show the banner, hide it in 3 s.
ShowAlert ==
  /\ alertTimers < MaxInFlight
  /\ alertShown' = TRUE /\ alertTimers' = alertTimers + 1
ShowMessage ==
  /\ messageTimers < MaxInFlight
  /\ messageShown' = TRUE /\ messageTimers' = messageTimers + 1

\* queue_show(): spinner, hide_alert(), the request, and the next call in
\* queue_update_interval (3000) ms; chains is the number of other chains.
QueueShow(chains) ==
  /\ queueReqs < MaxInFlight /\ chains < MaxInFlight
  /\ ShowSpinner
  /\ alertShown' = FALSE
  /\ queueReqs' = queueReqs + 1
  /\ queueChains' = chains + 1

\* show_page(id): a no-op for the active page; otherwise the div with that
\* id, if there is one, becomes the active page.
ShowPage(id) ==
  activePage' = IF activePage # id /\ id \in Pages THEN id ELSE activePage

\* The /queue handler: queue_show(), show_page('page_queue'), table resets.
QueueRouteHandler == QueueShow(queueChains) /\ ShowPage("page_queue")

\* After a Router step: run the /queue handler if the step dispatched it.
Dispatch ==
  IF \E i \in Len(log) + 1..Len(log') : log'[i].ev = "handler"
  THEN QueueRouteHandler /\ UNCHANGED <<spinnerShown, bannerVars, serverUp>>
  ELSE UNCHANGED <<queueVars, bannerVars, serverUp>>

-----------------------------------------------------------------------------
(***************************************************************************)
(* Init: the constructor has built the Router (root from the window       *)
(* location, no links) and App.init has wired its buttons and run         *)
(* Queue.init, which registered /queue; the version fetch changes nothing *)
(* modelled.  active_page starts as 'queue', which is no page id.         *)
(***************************************************************************)
Init ==
  /\ routes = << [pattern |-> QueuePattern, handler |-> QueueHandler,
                  hooks |-> R!NoHooks, name |-> NoName] >>
  /\ defaultHandler = NoHandler /\ notFoundHandler = NoHandler
  /\ genericHooks = R!NoHooks
  /\ paused = FALSE /\ destroyed = FALSE /\ updateMethod = "pushState"
  /\ lastRouteResolved = NoRoute
  /\ \E p \in Paths : hist = << p >>
  /\ hidx = 1 /\ inDoc = {} /\ attached = [l \in {} |-> 0]
  /\ pending = {} /\ log = << >> /\ nres = 0 /\ ret = "false" /\ calls = 0
  /\ started = FALSE
  /\ activePage = "queue"
  /\ queueChains = 0 /\ queueReqs = 0
  /\ spinnerStarted = FALSE /\ spinnerShown = FALSE /\ spinnerTimers = 0
  /\ alertShown = FALSE /\ alertTimers = 0
  /\ messageShown = FALSE /\ messageTimers = 0
  /\ clearReqs = 0 /\ stopReqs = 0
  /\ serverUp \in BOOLEAN
  /\ statusInterval = 1200 /\ statusArmed = FALSE
  /\ pings = [st \in SL!Stages |-> 0] /\ networkBanner = FALSE

\* The end of App.init: update_status_loop(), then navigate('/queue') from
\* the root, otherwise navigate('/' + pathname), which navigate collapses
\* to the same path.
AppStart ==
  /\ ~started /\ started' = TRUE
  /\ SL!UpdateStatusLoop /\ UNCHANGED <<statusInterval, networkBanner>>
  /\ R!NavigateCall(IF hist[hidx] = RootPath THEN QueuePath ELSE hist[hidx])
  /\ Dispatch

\* The user goes back or forward; the Router's popstate listener resolves.
PopState(to) ==
  /\ started /\ UNCHANGED <<started, statusVars>>
  /\ R!PopState(to)
  /\ Dispatch

\* A queue_show timeout fires and calls queue_show again.
QueueTimerFires ==
  /\ queueChains > 0
  /\ QueueShow(queueChains - 1)
  /\ UNCHANGED <<routerVars, statusVars, started, activePage, spinnerShown, bannerVars, serverUp>>

\* The answer to /api/v1/work/queue with a slip: the spinner is not hidden.
QueueAnswerNoHide ==
  /\ queueReqs > 0
  /\ queueReqs' = queueReqs - 1
  /\ UNCHANGED <<routerVars, statusVars, started, activePage, queueChains, spinnerStarted,
                 spinnerShown, spinnerTimers, alertShown, bannerVars, serverUp>>

(***************************************************************************)
(* The answer to /api/v1/work/queue: on success hide_spinner() and redraw *)
(* the tables (not modelled); getJSON has no error callback, so a failed  *)
(* request does nothing.                                                   *)
(***************************************************************************)
QueueAnswer ==
  /\ queueReqs > 0
  /\ queueReqs' = queueReqs - 1
  /\ IF serverUp THEN HideSpinner ELSE UNCHANGED <<spinnerStarted, spinnerShown>>
  /\ UNCHANGED <<routerVars, statusVars, started, activePage, queueChains, spinnerTimers,
                 alertShown, bannerVars, serverUp>>

\* The 500 ms timeout of show_spinner: show it if spinner_started is set now.
SpinnerTimerFires ==
  /\ spinnerTimers > 0
  /\ spinnerTimers' = spinnerTimers - 1
  /\ spinnerShown' = (spinnerShown \/ spinnerStarted)
  /\ UNCHANGED <<routerVars, statusVars, started, activePage, queueChains, queueReqs,
                 spinnerStarted, alertShown, bannerVars, serverUp>>

\* #action_queue_clear clicked: queue_clear() sends the DELETE.
ClearClick ==
  /\ started /\ clearReqs < MaxClicks
  /\ clearReqs' = clearReqs + 1
  /\ UNCHANGED <<routerVars, statusVars, started, queueVars, alertTimers, messageShown,
                 messageTimers, stopReqs, serverUp>>

\* The DELETE's success callback: data.success shows a message, data.error
\* an alert; a request the server does not answer calls nothing.
ClearAnswer ==
  /\ clearReqs > 0
  /\ clearReqs' = clearReqs - 1
  /\ \/ /\ serverUp
        /\ \/ ShowMessage /\ UNCHANGED <<alertShown, alertTimers>>
           \/ ShowAlert /\ UNCHANGED <<messageShown, messageTimers>>
     \/ /\ ~serverUp
        /\ UNCHANGED <<alertShown, alertTimers, messageShown, messageTimers>>
  /\ UNCHANGED <<routerVars, statusVars, started, activePage, queueChains, queueReqs,
                 spinnerStarted, spinnerShown, spinnerTimers, stopReqs, serverUp>>

\* #action_server_stop clicked: getJSON /api/v1/stop.
StopClick ==
  /\ started /\ stopReqs < MaxClicks
  /\ stopReqs' = stopReqs + 1
  /\ UNCHANGED <<routerVars, statusVars, started, queueVars, alertTimers, messageShown,
                 messageTimers, clearReqs, serverUp>>

\* The answer to /api/v1/stop: the server stopped (message) or refused
\* (alert); a server that is down does not answer.
StopAnswer ==
  /\ stopReqs > 0
  /\ stopReqs' = stopReqs - 1
  /\ \/ /\ serverUp
        /\ \/ ShowMessage /\ serverUp' = FALSE /\ UNCHANGED <<alertShown, alertTimers>>
           \/ ShowAlert /\ UNCHANGED <<messageShown, messageTimers, serverUp>>
     \/ /\ ~serverUp
        /\ UNCHANGED <<alertShown, alertTimers, messageShown, messageTimers, serverUp>>
  /\ UNCHANGED <<routerVars, statusVars, started, activePage, queueChains, queueReqs,
                 spinnerStarted, spinnerShown, spinnerTimers, clearReqs>>

\* The 3 s timeout of show_alert calls hide_alert().
AlertTimerFires ==
  /\ alertTimers > 0
  /\ alertTimers' = alertTimers - 1 /\ alertShown' = FALSE
  /\ UNCHANGED <<routerVars, statusVars, started, activePage, queueChains, queueReqs,
                 spinnerStarted, spinnerShown, spinnerTimers, messageShown,
                 messageTimers, clearReqs, stopReqs, serverUp>>

\* The 3 s timeout of show_message calls hide_message().
MessageTimerFires ==
  /\ messageTimers > 0
  /\ messageTimers' = messageTimers - 1 /\ messageShown' = FALSE
  /\ UNCHANGED <<routerVars, statusVars, started, queueVars, alertTimers, clearReqs, stopReqs,
                 serverUp>>

\* The work server crashes, is stopped elsewhere, or is started (environment).
ServerChanges ==
  /\ serverUp' = ~serverUp
  /\ UNCHANGED <<routerVars, statusVars, started, queueVars, bannerVars>>

\* A step of the status loop, which touches nothing else of the page.
Status(A) == A /\ UNCHANGED <<routerVars, started, queueVars, bannerVars>>

Next ==
  \/ AppStart
  \/ \E to \in 1..MaxHistory : PopState(to)
  \/ QueueTimerFires \/ QueueAnswer \/ SpinnerTimerFires
  \/ ClearClick \/ ClearAnswer \/ StopClick \/ StopAnswer
  \/ AlertTimerFires \/ MessageTimerFires
  \/ ServerChanges
  \/ Status(SL!StatusTimerFires) \/ Status(SL!ServerHandles)
  \/ Status(SL!PingDone) \/ Status(SL!PingFail)

(***************************************************************************)
(* The page runs App.init once loaded, the browser fires every pending    *)
(* timeout and settles every request; clicks, back/forward and the server *)
(* are not assumed to do anything.                                         *)
(***************************************************************************)
Fairness ==
  /\ WF_vars(AppStart)
  /\ WF_vars(QueueTimerFires) /\ WF_vars(QueueAnswer) /\ WF_vars(SpinnerTimerFires)
  /\ WF_vars(ClearAnswer) /\ WF_vars(StopAnswer)
  /\ WF_vars(AlertTimerFires) /\ WF_vars(MessageTimerFires)
  /\ WF_vars(Status(SL!StatusTimerFires)) /\ WF_vars(Status(SL!ServerHandles))
  /\ WF_vars(Status(SL!PingDone)) /\ WF_vars(Status(SL!PingFail))

Spec == Init /\ [][Next]_vars /\ Fairness

-----------------------------------------------------------------------------
(***************************************************************************)
(* The router's and the status loop's variables keep their types in the  *)
(* composed page.                                                          *)
(***************************************************************************)
TypeOK == R!TypeOK /\ SL!TypeOK

(***************************************************************************)
(* Once the server stays up, the status loop recovers for good inside the *)
(* page: the network banner is hidden and the ping interval is back to    *)
(* 1200 ms, whatever the order the answers of overlapping pings arrive in *)
(* and whatever the queue view does meanwhile.                            *)
(***************************************************************************)
StatusRecovers == SL!StatusRecovers

(***************************************************************************)
(* Once the server stays up, the spinner never stays shown for good: a    *)
(* spinner left by requests that failed while it was down is hidden by a  *)
(* later answer of some polling chain.                                     *)
(***************************************************************************)
SpinnerSettles == <>[]serverUp => []<>~spinnerShown
=============================================================================
