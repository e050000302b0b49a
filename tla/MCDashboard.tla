---------------------------- MODULE MCDashboard -----------------------------
(***************************************************************************)
(* Dashboard instantiated for TLC: the page is loaded at the root, at    *)
(* /queue or at /x; the Router matches with PathMatch.                     *)
(***************************************************************************)
EXTENDS Dashboard

PM == INSTANCE PathMatch

MCPaths == {<< >>, << "queue" >>, << "x" >>}
MCRoot == << >>
MCQueuePath == << "queue" >>
MCQueuePattern == PM!Pattern(TRUE, << PM!Lit("queue") >>)   \* '/queue'
MCMatches(p, l) == PM!Matches(p, l)
=============================================================================
