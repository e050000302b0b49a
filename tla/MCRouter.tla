----------------------------- MODULE MCRouter ------------------------------
(***************************************************************************)
(* Router instantiated for TLC: three locations (the root, /queue and     *)
(* /x), two overlapping patterns (/queue and /:page, so first-match-wins  *)
(* and the root fallback both matter), two handlers, one link.            *)
(***************************************************************************)
EXTENDS Router

PM == INSTANCE PathMatch

MCPaths == {<< >>, << "queue" >>, << "x" >>}
MCRoot == << >>
MCPatterns == {PM!Pattern(TRUE, << PM!Lit("queue") >>),   \* '/queue'
               PM!Pattern(TRUE, << PM!Param("page") >>)}          \* '/:page'
MCMatches(p, l) == PM!Matches(p, l)

\* hook objects whose before calls its continuation before returning
SyncHooks ==
  {NoHooks,
   [before |-> "proceed", after |-> TRUE, leave |-> TRUE],
   [before |-> "decline", after |-> TRUE, leave |-> FALSE]}

\* hook objects whose before keeps its continuation to call it later,
\* or declines at once
AsyncHooks ==
  {NoHooks,
   [before |-> "decline", after |-> TRUE, leave |-> FALSE],
   [before |-> "defer", after |-> TRUE, leave |-> TRUE]}

\* hook objects for the refinement check: none, or a before that declines
DeclineHooks ==
  {NoHooks, [before |-> "decline", after |-> TRUE, leave |-> FALSE]}

MCHref == [l \in Links |-> << "queue" >>]
=============================================================================
