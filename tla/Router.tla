------------------------------- MODULE Router -------------------------------
(***************************************************************************)
(* The Router class of src/public/app_router.js: its route table, default *)
(* and not-found handlers, router-wide hooks, pause and destroy flags,    *)
(* lastRouteResolved, the browser history it pushes to and the popstate   *)
(* events it listens to, the app-route links it wires, and the hook       *)
(* pipeline of resolve/manageHooks with before-continuations that the     *)
(* caller may invoke synchronously, later, or never.                      *)
(*                                                                         *)
(* Every caller-visible effect of a resolution is recorded in the history *)
(* variable log: before hooks called, continuations invoked with true,    *)
(* handlers, after and leave hooks, and TypeErrors thrown.                *)
(***************************************************************************)
EXTENDS Naturals, Sequences, SequencesExt, FiniteSets

CONSTANTS
  Paths,          \* root-relative locations (PathMatch: segment sequences)
  RootPath,       \* the location '' / '/' of the root
  Patterns,       \* patterns on(pattern, handler) may register (not '/')
  Matches(_, _),  \* Matches(pattern, path): the compiled pattern matches path
  Handlers,       \* handler functions, compared by reference
  HookSets,       \* hook objects callers pass, see NoHooks
  Names,          \* route names, given as {uses: handler, as: name}
  Links,          \* DOM elements carrying the app-route attribute
  Href,           \* Href[l]: the path of link l's href attribute
  NoHandler, NoRoute, NoName,
  MaxResolutions, MaxHistory, MaxRoutes,
  MaxCalls        \* bound on calls that configure the router or the page

(***************************************************************************)
(* A hook object {before, after, leave}.  before says what the caller's   *)
(* before function does with its continuation: calls it with true or with *)
(* false before returning ("proceed", "decline"), keeps it to call later  *)
(* ("defer"), or there is no before ("none").  NoHooks stands for null    *)
(* and for {}, which manageHooks and _callLeave treat alike.              *)
(***************************************************************************)
NoHooks == [before |-> "none", after |-> FALSE, leave |-> FALSE]
Hooks == [before : {"none", "proceed", "decline", "defer"},
          after : BOOLEAN, leave : BOOLEAN]

ASSUME /\ RootPath \in Paths
       /\ HookSets \subseteq Hooks /\ NoHooks \in HookSets
       /\ Href \in [Links -> Paths]
       /\ {MaxResolutions, MaxHistory, MaxRoutes, MaxCalls} \subseteq Nat \ {0}

VARIABLES
  routes,             \* this._routes
  defaultHandler,     \* this._defaultHandler: [handler, hooks] or NoHandler
  notFoundHandler,    \* this._notFoundHandler
  genericHooks,       \* this._genericHooks
  paused,             \* this._paused
  destroyed,          \* this._destroyed; the popstate listener is attached iff FALSE
  updateMethod,       \* this._historyAPIUpdateMethod
  lastRouteResolved,  \* this._lastRouteResolved: [url, hooks, res] or NoRoute
  hist, hidx,         \* the browser history entries and the current one
  inDoc,              \* app-route links present in the document
  attached,           \* attached[l]: click listeners added to link l
  pending,            \* continuations handed to a deferring before hook
  log,                \* history: what the router invoked, in order
  nres,               \* resolutions dispatched so far (their ids)
  ret,                \* value returned by the latest resolve()
  calls               \* configuring calls made so far (bounded by MaxCalls)

vars == <<routes, defaultHandler, notFoundHandler, genericHooks, paused,
          destroyed, updateMethod, lastRouteResolved, hist, hidx, inDoc,
          attached, pending, log, nres, ret, calls>>
regVars == <<routes, defaultHandler, notFoundHandler, genericHooks>>

Route == [pattern : Patterns, handler : Handlers, hooks : HookSets,
          name : Names \cup {NoName}]
Fallback == [handler : Handlers, hooks : HookSets]
Lvl == {"generic", "route", "none"}
Event == [ev : {"before", "proceed", "handler", "after", "leave", "error"},
          lvl : Lvl, res : 1..MaxResolutions, h : Handlers \cup {NoHandler}]
Job == [res : 1..MaxResolutions, kind : {"match", "default", "notFound"},
        url : Paths, outer : HookSets, hooks : HookSets,
        handler : Handlers \cup {NoHandler}]
Cont == [job : Job, lvl : {"generic", "route"}, hooks : HookSets]

TypeOK ==
  /\ routes \in Seq(Route) /\ Len(routes) <= MaxRoutes
  /\ defaultHandler \in Fallback \cup {NoHandler}
  /\ notFoundHandler \in Fallback \cup {NoHandler}
  /\ genericHooks \in HookSets
  /\ paused \in BOOLEAN /\ destroyed \in BOOLEAN
  /\ updateMethod \in {"pushState", "replaceState"}
  /\ lastRouteResolved \in
       [url : Paths, hooks : HookSets, res : 1..MaxResolutions] \cup {NoRoute}
  /\ hist \in Seq(Paths) /\ hidx \in 1..Len(hist)
  /\ inDoc \subseteq Links /\ attached \in [Links -> Nat]
  /\ pending \subseteq Cont
  /\ log \in Seq(Event)
  /\ nres \in 0..MaxResolutions
  /\ ret \in {"route", "true", "false"}
  /\ calls \in 0..MaxCalls

-----------------------------------------------------------------------------
(***************************************************************************)
(* One resolution works on a record S of the state it touches, so that    *)
(* the nested calls of resolve and manageHooks compose as in the code.    *)
(* S.err is set when a TypeError ends the current call chain.             *)
(***************************************************************************)
Cur == [log |-> log, last |-> lastRouteResolved, pending |-> pending,
        nres |-> nres, ret |-> ret, hist |-> hist, hidx |-> hidx, err |-> FALSE]

Apply(S) ==
  /\ log' = S.log /\ lastRouteResolved' = S.last /\ pending' = S.pending
  /\ nres' = S.nres /\ ret' = S.ret /\ hist' = S.hist /\ hidx' = S.hidx

Ev(kind, lvl, r, h) == [ev |-> kind, lvl |-> lvl, res |-> r, h |-> h]
Emit(S, e) == [S EXCEPT !.log = Append(@, e)]

\* this._defaultHandler or this._notFoundHandler, read when the code reads it
FallbackOf(kind) == IF kind = "default" THEN defaultHandler ELSE notFoundHandler

\* _callLeave: the leave hook of lastRouteResolved, if it has one
CallLeave(S) ==
  IF S.last # NoRoute /\ S.last.hooks.leave
  THEN Emit(S, Ev("leave", "none", S.last.res, NoHandler))
  ELSE S

\* Body with a slip: the default and not-found closures forget to record
\* lastRouteResolved after calling _callLeave.
BodyNoRecord(job, S) ==
  IF job.kind = "match" THEN Emit(S, Ev("handler", "none", job.res, job.handler))
  ELSE LET fb == FallbackOf(job.kind)
           S1 == CallLeave(S)
       IN IF fb = NoHandler
          THEN [Emit(S1, Ev("error", "none", job.res, NoHandler)) EXCEPT !.err = TRUE]
          ELSE Emit(S1, Ev("handler", "none", job.res, fb.handler))

(***************************************************************************)
(* The innermost closure of resolve.  A matched route's handler was taken *)
(* from the table at resolve time; the default and not-found closures     *)
(* call _callLeave, record lastRouteResolved and call the handler only    *)
(* now, reading this._defaultHandler / this._notFoundHandler now: if off()*)
(* has cleared it meanwhile, reading .hooks of null throws.               *)
(***************************************************************************)
Body(job, S) ==
  IF job.kind = "match" THEN Emit(S, Ev("handler", "none", job.res, job.handler))
  ELSE LET fb == FallbackOf(job.kind)
           S1 == CallLeave(S)
       IN IF fb = NoHandler
          THEN [Emit(S1, Ev("error", "none", job.res, NoHandler)) EXCEPT !.err = TRUE]
          ELSE Emit([S1 EXCEPT !.last = [url |-> job.url, hooks |-> fb.hooks,
                                         res |-> job.res]],
                    Ev("handler", "none", job.res, fb.handler))

\* manageHooks, after the wrapped function returned: hooks.after(params)
AfterHook(H, lvl, job, S) ==
  IF H.after /\ ~S.err THEN Emit(S, Ev("after", lvl, job.res, NoHandler)) ELSE S

RECURSIVE ManageHooks(_, _, _, _), Inner(_, _, _)

\* manageHooks with a slip: hooks.after is called before the wrapped function
ManageHooksAfterFirst(H, lvl, job, S) ==
  IF H.before = "none" THEN Inner(lvl, job, AfterHook(H, lvl, job, S))
  ELSE LET S1 == Emit(S, Ev("before", lvl, job.res, NoHandler)) IN
    CASE H.before = "proceed" ->
           Inner(lvl, job, AfterHook(H, lvl, job,
                                     Emit(S1, Ev("proceed", lvl, job.res, NoHandler))))
      [] H.before = "decline" -> S1
      [] H.before = "defer" ->
           [S1 EXCEPT !.pending = @ \cup {[job |-> job, lvl |-> lvl, hooks |-> H]}]

\* manageHooks with a slip: the continuation ignores shouldRoute = false
ManageHooksNoAbort(H, lvl, job, S) ==
  IF H.before = "none" THEN AfterHook(H, lvl, job, Inner(lvl, job, S))
  ELSE LET S1 == Emit(S, Ev("before", lvl, job.res, NoHandler)) IN
    CASE H.before = "proceed" ->
           AfterHook(H, lvl, job,
                     Inner(lvl, job, Emit(S1, Ev("proceed", lvl, job.res, NoHandler))))
      [] H.before = "decline" -> AfterHook(H, lvl, job, Inner(lvl, job, S1))
      [] H.before = "defer" ->
           [S1 EXCEPT !.pending = @ \cup {[job |-> job, lvl |-> lvl, hooks |-> H]}]

\* manageHooks(handler, hooks, params) at level lvl of job's pipeline
ManageHooks(H, lvl, job, S) ==
  IF H.before = "none" THEN AfterHook(H, lvl, job, Inner(lvl, job, S))
  ELSE LET S1 == Emit(S, Ev("before", lvl, job.res, NoHandler)) IN
    CASE H.before = "proceed" ->
           AfterHook(H, lvl, job,
                     Inner(lvl, job, Emit(S1, Ev("proceed", lvl, job.res, NoHandler))))
      [] H.before = "decline" -> S1
      [] H.before = "defer" ->
           [S1 EXCEPT !.pending = @ \cup {[job |-> job, lvl |-> lvl, hooks |-> H]}]

(***************************************************************************)
(* The function a level wraps: the generic level wraps the route level,   *)
(* whose hooks are the matched route's, or this._defaultHandler.hooks /   *)
(* this._notFoundHandler.hooks read when the generic level gets there.    *)
(***************************************************************************)
Inner(lvl, job, S) ==
  IF lvl = "route" THEN Body(job, S)
  ELSE IF job.kind = "match" THEN ManageHooks(job.hooks, "route", job, S)
  ELSE IF FallbackOf(job.kind) = NoHandler
       THEN [Emit(S, Ev("error", "none", job.res, NoHandler)) EXCEPT !.err = TRUE]
  ELSE ManageHooks(FallbackOf(job.kind).hooks, "route", job, S)

NewJob(r, kind, loc, route) ==
  [res |-> r, kind |-> kind, url |-> loc, outer |-> genericHooks,
   hooks |-> IF kind = "match" THEN route.hooks ELSE NoHooks,
   handler |-> IF kind = "match" THEN route.handler ELSE NoHandler]

\* match with a slip: the last matching route wins
FirstMatchLast(loc) == SelectLastInSeq(routes, LAMBDA rt : Matches(rt.pattern, loc))

\* index of the first route whose pattern matches loc, 0 if none (match)
FirstMatch(loc) == SelectInSeq(routes, LAMBDA rt : Matches(rt.pattern, loc))

\* resolve with a slip: the paused test is missing
ResolveNoPause(S, loc) ==
  LET i == FirstMatch(loc)
      r == S.nres + 1
  IN
  IF i > 0
  THEN LET job == NewJob(r, "match", loc, routes[i])
           S1 == [CallLeave(S) EXCEPT !.last = [url |-> loc, hooks |-> job.hooks,
                                                res |-> r],
                                      !.nres = r, !.ret = "route"]
       IN ManageHooks(genericHooks, "generic", job, S1)
  ELSE IF defaultHandler # NoHandler /\ loc = RootPath
  THEN ManageHooks(genericHooks, "generic", NewJob(r, "default", loc, NoRoute),
                   [S EXCEPT !.nres = r, !.ret = "true"])
  ELSE IF notFoundHandler # NoHandler
  THEN ManageHooks(genericHooks, "generic", NewJob(r, "notFound", loc, NoRoute),
                   [S EXCEPT !.nres = r, !.ret = "false"])
  ELSE [S EXCEPT !.ret = "false"]

(***************************************************************************)
(* resolve(): nothing while paused; else the first matching route (leave  *)
(* hook and lastRouteResolved first, then the hook pipeline), else the    *)
(* default handler at the root, else the not-found handler.               *)
(***************************************************************************)
Resolve(S, loc) ==
  LET i == FirstMatch(loc)
      r == S.nres + 1
  IN
  IF paused THEN [S EXCEPT !.ret = "false"]
  ELSE IF i > 0
  THEN LET job == NewJob(r, "match", loc, routes[i])
           S1 == [CallLeave(S) EXCEPT !.last = [url |-> loc, hooks |-> job.hooks,
                                                res |-> r],
                                      !.nres = r, !.ret = "route"]
       IN ManageHooks(genericHooks, "generic", job, S1)
  ELSE IF defaultHandler # NoHandler /\ loc = RootPath
  THEN ManageHooks(genericHooks, "generic", NewJob(r, "default", loc, NoRoute),
                   [S EXCEPT !.nres = r, !.ret = "true"])
  ELSE IF notFoundHandler # NoHandler
  THEN ManageHooks(genericHooks, "generic", NewJob(r, "notFound", loc, NoRoute),
                   [S EXCEPT !.nres = r, !.ret = "false"])
  ELSE [S EXCEPT !.ret = "false"]

\* navigate with a slip: the index moves on for replaceState as for pushState
NavigateReplaceAdvances(S, p) ==
  LET S1 == IF updateMethod = "pushState"
            THEN [S EXCEPT !.hist = Append(SubSeq(@, 1, S.hidx), p), !.hidx = @ + 1]
            ELSE [S EXCEPT !.hist[S.hidx] = p, !.hidx = @ + 1]
  IN Resolve(S1, p)

\* navigate(path): pushState or replaceState the entry, then resolve()
Navigate(S, p) ==
  LET S1 == IF updateMethod = "pushState"
            THEN [S EXCEPT !.hist = Append(SubSeq(@, 1, S.hidx), p), !.hidx = @ + 1]
            ELSE [S EXCEPT !.hist[S.hidx] = p]
  IN Resolve(S1, p)

\* the click listeners of one link, each calling navigate
RECURSIVE NavigateTimes(_, _, _)
NavigateTimes(S, p, n) == IF n = 0 THEN S ELSE NavigateTimes(Navigate(S, p), p, n - 1)

\* room for one more resolution and one more history entry
CanResolve == nres < MaxResolutions
CanPush == updateMethod = "replaceState" \/ hidx < MaxHistory

\* one more configuring call (registration, destroy, a new link)
Call == calls < MaxCalls /\ calls' = calls + 1

-----------------------------------------------------------------------------
(***************************************************************************)
(* Init: the state the constructor leaves: root derived from the window   *)
(* location, popstate listener attached, links present wired.             *)
(***************************************************************************)
Init ==
  /\ routes = << >>
  /\ defaultHandler = NoHandler /\ notFoundHandler = NoHandler
  /\ genericHooks = NoHooks
  /\ paused = FALSE /\ destroyed = FALSE
  /\ updateMethod = "pushState"
  /\ lastRouteResolved = NoRoute
  /\ \E p \in Paths : hist = << p >>
  /\ hidx = 1
  /\ inDoc \in SUBSET Links
  /\ attached = [l \in Links |-> IF l \in inDoc THEN 1 ELSE 0]
  /\ pending = {} /\ log = << >> /\ nres = 0 /\ ret = "false"
  /\ calls = 0

\* on(handler, hooks), on('/', handler, hooks), on('/', {uses}, hooks)
OnDefault(h, hk) ==
  /\ defaultHandler' = [handler |-> h, hooks |-> hk]
  /\ UNCHANGED <<routes, notFoundHandler, genericHooks>>

\* on(pattern, handler, hooks) and on(pattern, {uses, as, hooks}): _add
OnRoute(rt) ==
  /\ Len(routes) < MaxRoutes
  /\ routes' = Append(routes, rt)
  /\ UNCHANGED <<defaultHandler, notFoundHandler, genericHooks>>

(***************************************************************************)
(* off(handler): clears the default handler if it is handler, else the    *)
(* not-found handler if it is handler, then filters the route table.      *)
(***************************************************************************)
Off(h) ==
  LET isDefault == defaultHandler # NoHandler /\ h = defaultHandler.handler
  IN /\ defaultHandler' = IF isDefault THEN NoHandler ELSE defaultHandler
     /\ notFoundHandler' =
          IF ~isDefault /\ notFoundHandler # NoHandler /\ h = notFoundHandler.handler
          THEN NoHandler ELSE notFoundHandler
     /\ routes' = SelectSeq(routes, LAMBDA rt : rt.handler # h)
     /\ UNCHANGED genericHooks

\* notFound(handler, hooks)
NotFound(h, hk) ==
  /\ notFoundHandler' = [handler |-> h, hooks |-> hk]
  /\ UNCHANGED <<routes, defaultHandler, genericHooks>>

\* hooks(hooks)
SetHooks(hk) ==
  /\ genericHooks' = hk
  /\ UNCHANGED <<routes, defaultHandler, notFoundHandler>>

Register ==
  /\ Call
  /\ \/ \E h \in Handlers, hk \in HookSets : OnDefault(h, hk) \/ NotFound(h, hk)
     \/ \E rt \in Route : OnRoute(rt)
     \/ \E h \in Handlers : Off(h)
     \/ \E hk \in HookSets : SetHooks(hk)
  /\ UNCHANGED <<paused, destroyed, updateMethod, lastRouteResolved, hist, hidx,
                 inDoc, attached, pending, log, nres, ret>>

\* pause(status) and resume()
Pause(status) ==
  /\ paused' = status
  /\ updateMethod' = IF status THEN "replaceState" ELSE "pushState"
  /\ UNCHANGED <<regVars, destroyed, lastRouteResolved, hist, hidx, inDoc,
                 attached, pending, log, nres, ret, calls>>

\* historyAPIUpdateMethod(value)
SetUpdateMethod(m) ==
  /\ updateMethod' = m
  /\ UNCHANGED <<regVars, paused, destroyed, lastRouteResolved, hist, hidx,
                 inDoc, attached, pending, log, nres, ret, calls>>

\* navigate(path)
NavigateCall(p) ==
  /\ CanResolve /\ CanPush
  /\ Apply(Navigate(Cur, p))
  /\ UNCHANGED <<regVars, paused, destroyed, updateMethod, inDoc, attached, calls>>

\* resolve() of the current location
ResolveCall ==
  /\ CanResolve
  /\ Apply(Resolve(Cur, hist[hidx]))
  /\ UNCHANGED <<regVars, paused, destroyed, updateMethod, inDoc, attached, calls>>

(***************************************************************************)
(* The user goes back or forward: the browser moves in its history and    *)
(* fires popstate, whose listener (_onLocationChange) calls resolve()     *)
(* unless destroy() removed it.                                            *)
(***************************************************************************)
PopState(to) ==
  /\ CanResolve
  /\ to \in 1..Len(hist) /\ to # hidx
  /\ IF destroyed
     THEN Apply([Cur EXCEPT !.hidx = to])
     ELSE Apply(Resolve([Cur EXCEPT !.hidx = to], hist[to]))
  /\ UNCHANGED <<regVars, paused, destroyed, updateMethod, inDoc, attached, calls>>

\* destroy()
Destroy ==
  /\ Call
  /\ routes' = << >>
  /\ destroyed' = TRUE
  /\ lastRouteResolved' = NoRoute
  /\ genericHooks' = NoHooks
  /\ UNCHANGED <<defaultHandler, notFoundHandler, paused, updateMethod, hist,
                 hidx, inDoc, attached, pending, log, nres, ret>>

\* the page adds an app-route element to the document
LinkAdded(l) ==
  /\ Call
  /\ l \notin inDoc
  /\ inDoc' = inDoc \cup {l}
  /\ UNCHANGED <<regVars, paused, destroyed, updateMethod, lastRouteResolved,
                 hist, hidx, attached, pending, log, nres, ret>>

\* updatePageLinks with a slip: no hasListenerAttached check
UpdatePageLinksNoFlag ==
  /\ attached' = [l \in Links |-> IF l \in inDoc THEN attached[l] + 1 ELSE attached[l]]
  /\ UNCHANGED <<regVars, paused, destroyed, updateMethod, lastRouteResolved,
                 hist, hidx, inDoc, pending, log, nres, ret, calls>>

\* updatePageLinks(): one click listener per link not yet wired
UpdatePageLinks ==
  /\ attached' = [l \in Links |->
                    IF l \in inDoc /\ attached[l] = 0 THEN 1 ELSE attached[l]]
  /\ UNCHANGED <<regVars, paused, destroyed, updateMethod, lastRouteResolved,
                 hist, hidx, inDoc, pending, log, nres, ret, calls>>

(***************************************************************************)
(* A plain click on a wired link: every listener calls navigate with the  *)
(* href.  A click with ctrl or meta, or after destroy, keeps the browser's *)
(* default action, which leaves this page and is not modelled.            *)
(***************************************************************************)
ClickLink(l) ==
  /\ attached[l] > 0 /\ ~destroyed
  /\ CanResolve /\ CanPush
  /\ Apply(NavigateTimes(Cur, Href[l], attached[l]))
  /\ UNCHANGED <<regVars, paused, destroyed, updateMethod, inDoc, attached, calls>>

(***************************************************************************)
(* The caller invokes a continuation it kept, with true: the wrapped      *)
(* function runs, then this level's after hook.  With false the closure   *)
(* returns at once and changes nothing, so that call is a stutter step.   *)
(* The caller calls it once, as spec 9 asks: the closure has no guard     *)
(* against a second call, which the model leaves out.                      *)
(***************************************************************************)
Continue(c) ==
  /\ LET S1 == Emit([Cur EXCEPT !.pending = @ \ {c}],
                    Ev("proceed", c.lvl, c.job.res, NoHandler))
     IN Apply(AfterHook(c.hooks, c.lvl, c.job, Inner(c.lvl, c.job, S1)))
  /\ UNCHANGED <<regVars, paused, destroyed, updateMethod, inDoc, attached, calls>>

Next ==
  \/ Register
  \/ \E s \in BOOLEAN : Pause(s)
  \/ \E m \in {"pushState", "replaceState"} : SetUpdateMethod(m)
  \/ \E p \in Paths : NavigateCall(p)
  \/ ResolveCall
  \/ \E to \in 1..MaxHistory : PopState(to)
  \/ Destroy
  \/ \E l \in Links : LinkAdded(l) \/ ClickLink(l)
  \/ UpdatePageLinks
  \/ \E c \in pending : Continue(c)

Spec == Init /\ [][Next]_vars
-----------------------------------------------------------------------------
(***************************************************************************)
(* Properties.  EventsOf(r): what resolution r invoked, in order, except  *)
(* leave hooks (those belong to the route being left).                    *)
(***************************************************************************)
EventsOf(r) == SelectSeq(log, LAMBDA e : e.res = r /\ e.ev # "leave")

\* position of an event in the nesting generic before > route before >
\* handler > route after > generic after that manageHooks builds
Rank(e) ==
  CASE e.ev = "before" /\ e.lvl = "generic"  -> 1
    [] e.ev = "proceed" /\ e.lvl = "generic" -> 2
    [] e.ev = "before" /\ e.lvl = "route"    -> 3
    [] e.ev = "proceed" /\ e.lvl = "route"   -> 4
    [] e.ev \in {"handler", "error"}         -> 5
    [] e.ev = "after" /\ e.lvl = "route"     -> 6
    [] e.ev = "after" /\ e.lvl = "generic"   -> 7

(***************************************************************************)
(* Hook ordering (resolve + manageHooks): every resolution invokes the    *)
(* generic before, the route before, the handler, the route after and the *)
(* generic after in that order, each at most once, even when a before     *)
(* declines.                                                               *)
(***************************************************************************)
OnionOrder ==
  \A r \in 1..nres :
    LET es == EventsOf(r) IN \A i \in 1..Len(es) - 1 : Rank(es[i]) < Rank(es[i + 1])

(***************************************************************************)
(* Abort (manageHooks' continuation, "if (!shouldRoute) return"): a       *)
(* handler runs only after every before hook its resolution called has    *)
(* had its continuation invoked with true, whether at once or later.      *)
(***************************************************************************)
HandlerRequiresProceed ==
  \A i \in 1..Len(log) : log[i].ev = "handler" =>
    \A j \in 1..i - 1 :
      (log[j].ev = "before" /\ log[j].res = log[i].res) =>
        \E k \in j + 1..i - 1 : /\ log[k].ev = "proceed"
                                /\ log[k].res = log[j].res
                                /\ log[k].lvl = log[j].lvl

(***************************************************************************)
(* Leave hooks (_callLeave with the lastRouteResolved updates of resolve  *)
(* and of the default and not-found closures): with before hooks that     *)
(* answer before returning, the leave hook of a resolved route fires at   *)
(* most once, whatever the sequence of matched, default and not-found     *)
(* resolutions, registrations, off, destroy and back/forward.  Deferred   *)
(* continuations, where a throw after _callLeave leaves lastRouteResolved *)
(* unwritten, are outside the runs that check it.                          *)
(***************************************************************************)
LeaveAtMostOnce ==
  \A i, j \in 1..Len(log) :
    (i < j /\ log[i].ev = "leave" /\ log[j].ev = "leave") => log[i].res # log[j].res

(***************************************************************************)
(* Link interception (updatePageLinks' hasListenerAttached): however often*)
(* links are added and updatePageLinks is called, one step (one click)    *)
(* writes at most one history entry and starts at most one resolution.    *)
(***************************************************************************)
OneNavigationPerStep ==
  [][/\ hist' # hist => hidx' <= hidx + 1
     /\ nres' <= nres + 1]_<<hist, hidx, nres>>

(***************************************************************************)
(* Abort, as spec 4.3 states it: when a before declines, "handler and     *)
(* after never run": no after hook of a resolution runs unless its        *)
(* handler has run.                                                        *)
(***************************************************************************)
AfterRequiresHandler ==
  \A i \in 1..Len(log) : log[i].ev = "after" =>
    \E j \in 1..i - 1 : log[j].ev = "handler" /\ log[j].res = log[i].res

(***************************************************************************)
(* off(handler) (spec 4.6) removes every route and the default and the    *)
(* not-found handler that use handler.                                    *)
(***************************************************************************)
Unregistered(h) ==
  /\ \A i \in 1..Len(routes) : routes[i].handler # h
  /\ defaultHandler = NoHandler \/ defaultHandler.handler # h
  /\ notFoundHandler = NoHandler \/ notFoundHandler.handler # h

OffUnregisters == [][\A h \in Handlers : Off(h) => Unregistered(h)']_vars

(***************************************************************************)
(* Deferred continuations (spec 9: calling the continuation from a later  *)
(* turn behaves as calling it at once): the default and not-found         *)
(* closures of resolve never throw, i.e. never read this._defaultHandler  *)
(* or this._notFoundHandler after off() has set it to null.               *)
(***************************************************************************)
NoTypeError == \A i \in 1..Len(log) : log[i].ev # "error"

(***************************************************************************)
(* The pause scenario of spec 8: while paused, navigate("/x") invokes     *)
(* nothing (no leave, hook or handler); once resumed, a navigate whose    *)
(* hooks have no before invokes the handler the location selects exactly  *)
(* once, or none if no route, default or not-found handler applies.      *)
(***************************************************************************)
HandlerCount(l) == Len(SelectSeq(l, LAMBDA e : e.ev = "handler"))

HooksOf(p) ==
  LET i == FirstMatch(p) IN
  IF i > 0 THEN routes[i].hooks
  ELSE IF defaultHandler # NoHandler /\ p = RootPath THEN defaultHandler.hooks
  ELSE IF notFoundHandler # NoHandler THEN notFoundHandler.hooks
  ELSE NoHooks

Selects(p) ==
  FirstMatch(p) > 0 \/ (defaultHandler # NoHandler /\ p = RootPath)
                    \/ notFoundHandler # NoHandler

PauseScenario ==
  [][\A p \in Paths :
       NavigateCall(p) =>
         IF paused THEN log' = log
         ELSE (genericHooks.before = "none" /\ HooksOf(p).before = "none") =>
                HandlerCount(log') - HandlerCount(log) = IF Selects(p) THEN 1 ELSE 0]_vars

-----------------------------------------------------------------------------
(***************************************************************************)
(* Refinement: the router implements AbstractRouter.  The abstract table  *)
(* is the route table without hooks and names, the fallbacks are their    *)
(* handlers, the location is the current history entry, and the handler  *)
(* shown is the one of the last handler call the router made.             *)
(***************************************************************************)
HandlerOf(fb) == IF fb = NoHandler THEN NoHandler ELSE fb.handler

LastHandler ==
  LET i == SelectLastInSeq(log, LAMBDA e : e.ev = "handler")
  IN IF i = 0 THEN NoHandler ELSE log[i].h

AR == INSTANCE AbstractRouter WITH
        table <- [i \in 1..Len(routes) |->
                    [pattern |-> routes[i].pattern, handler |-> routes[i].handler]],
        dflt <- HandlerOf(defaultHandler),
        nf <- HandlerOf(notFoundHandler),
        location <- hist[hidx],
        current <- LastHandler

(***************************************************************************)
(* With before hooks that answer before returning, every step of the      *)
(* router (registration, off, destroy, pause, navigate, link clicks,      *)
(* back/forward) is a step of AbstractRouter: a handler the router calls  *)
(* is the one the location in the address bar selects from the table as  *)
(* it is at that moment, first match first.                               *)
(***************************************************************************)
ImplementsAbstractRouter == AR!Spec
=============================================================================
