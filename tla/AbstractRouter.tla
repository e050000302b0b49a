--------------------------- MODULE AbstractRouter ---------------------------
(***************************************************************************)
(* What the router of src/public/app_router.js promises its callers: a    *)
(* table of (pattern, handler) routes and a default and a not-found       *)
(* handler, which callers may change at any time; a visit moves to a     *)
(* location and either shows the handler that location selects, or keeps *)
(* what is shown (the router is paused, or a before hook declined).       *)
(*                                                                         *)
(* The location selects the handler of the earliest route whose pattern   *)
(* matches it, else the default handler if it is the root, else the      *)
(* not-found handler; if none applies, nothing is dispatched.             *)
(***************************************************************************)
EXTENDS Naturals, Sequences

CONSTANTS Paths, RootPath, Patterns, Matches(_, _), Handlers, NoHandler

VARIABLES
  table,     \* the routes, in registration order: [pattern, handler]
  dflt,      \* the default handler, or NoHandler
  nf,        \* the not-found handler, or NoHandler
  location,  \* the location in the address bar
  current    \* the handler last dispatched, or NoHandler

vars == <<table, dflt, nf, location, current>>

Entry == [pattern : Patterns, handler : Handlers]
Opt(S) == S \cup {NoHandler}

\* the handler a visit to p dispatches, or NoHandler
Target(p) ==
  LET hits == {i \in 1..Len(table) : Matches(table[i].pattern, p)}
  IN IF hits # {}
     THEN table[CHOOSE i \in hits : \A j \in hits : i <= j].handler
     ELSE IF dflt # NoHandler /\ p = RootPath THEN dflt
     ELSE nf

Init ==
  /\ table = << >> /\ dflt = NoHandler /\ nf = NoHandler
  /\ location \in Paths
  /\ current = NoHandler

\* on, off, notFound, destroy: the routes and fallbacks change
Configure ==
  /\ table' \in Seq(Entry) /\ dflt' \in Opt(Handlers) /\ nf' \in Opt(Handlers)
  /\ UNCHANGED <<location, current>>

\* navigate, a link click, back/forward, resolve()
Visit(p) ==
  /\ location' = p
  /\ current' \in {current} \cup ({Target(p)} \ {NoHandler})
  /\ UNCHANGED <<table, dflt, nf>>

Next == Configure \/ \E p \in Paths : Visit(p)

Spec == Init /\ [][Next]_vars
=============================================================================
