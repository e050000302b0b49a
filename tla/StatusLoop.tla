----------------------------- MODULE StatusLoop -----------------------------
(***************************************************************************)
(* App.update_status_loop of src/public/app.js: every status_interval ms  *)
(* the dashboard pings /api/v1/ping; a successful answer resets the       *)
(* interval and hides the network banner, a failed one shows the banner   *)
(* and backs the interval off.  The next ping is scheduled before the     *)
(* current one is answered, so pings overlap and their answers come back  *)
(* in any order.                                                           *)
(*                                                                         *)
(* A ping goes through two stages: "sent" (on the wire, the server has    *)
(* not seen it) and "ok" / "fail" (its outcome fixed by whether the       *)
(* server was up when the request got there, the answer on its way back). *)
(* pings counts the requests in each stage; the server being up or down   *)
(* is the environment.  Time is not modelled: a timer fires at some       *)
(* point, an answer arrives at some point.                                *)
(***************************************************************************)
EXTENDS Naturals

CONSTANTS
  MaxInFlight   \* bound on pings outstanding at once

ASSUME MaxInFlight \in Nat \ {0}

VARIABLES
  statusInterval,  \* this.status_interval
  statusArmed,     \* the setTimeout of update_status_loop is pending
  pings,           \* pings[s]: requests in stage s
  networkBanner,   \* #status_network is shown (d-none removed)
  serverUp         \* the work server answers requests

vars == <<statusInterval, statusArmed, pings, networkBanner, serverUp>>

Stages == {"sent", "ok", "fail"}
InFlight == pings["sent"] + pings["ok"] + pings["fail"]

TypeOK ==
  /\ statusInterval \in {1200, 2400, 4800}
  /\ statusArmed \in BOOLEAN
  /\ pings \in [Stages -> 0..MaxInFlight] /\ InFlight <= MaxInFlight
  /\ networkBanner \in BOOLEAN
  /\ serverUp \in BOOLEAN

-----------------------------------------------------------------------------
(***************************************************************************)
(* update_status_loop(): send the ping, then, if status_interval is not   *)
(* zero, schedule the next call with the interval as it is now.           *)
(***************************************************************************)
UpdateStatusLoop ==
  /\ pings' = [pings EXCEPT !["sent"] = @ + 1]
  /\ statusArmed' = (statusInterval # 0)

\* The constructor set status_interval to 1200; App.init has made the first call.
Init ==
  /\ statusInterval = 1200
  /\ statusArmed = TRUE
  /\ pings = [s \in Stages |-> IF s = "sent" THEN 1 ELSE 0]
  /\ networkBanner = FALSE
  /\ serverUp \in BOOLEAN

\* The pending setTimeout fires and calls update_status_loop again.
StatusTimerFires ==
  /\ statusArmed
  /\ InFlight < MaxInFlight
  /\ UpdateStatusLoop
  /\ UNCHANGED <<statusInterval, networkBanner, serverUp>>

\* The request reaches the server, or fails to: its outcome is now fixed.
ServerHandles ==
  /\ pings["sent"] > 0
  /\ LET out == IF serverUp THEN "ok" ELSE "fail"
     IN pings' = [pings EXCEPT !["sent"] = @ - 1, ![out] = @ + 1]
  /\ UNCHANGED <<statusInterval, statusArmed, networkBanner, serverUp>>

\* .done with a slip: the interval is not reset.
PingDoneNoReset ==
  /\ pings["ok"] > 0
  /\ pings' = [pings EXCEPT !["ok"] = @ - 1]
  /\ networkBanner' = FALSE
  /\ UNCHANGED <<statusInterval, statusArmed, serverUp>>

\* .done: the status indicators are redrawn (not modelled), the interval
\* is reset to 1200 and the network banner hidden.
PingDone ==
  /\ pings["ok"] > 0
  /\ pings' = [pings EXCEPT !["ok"] = @ - 1]
  /\ statusInterval' = 1200
  /\ networkBanner' = FALSE
  /\ UNCHANGED <<statusArmed, serverUp>>

\* .fail with a slip: the interval doubles without the 3000 test.
PingFailUncapped ==
  /\ pings["fail"] > 0
  /\ pings' = [pings EXCEPT !["fail"] = @ - 1]
  /\ networkBanner' = TRUE
  /\ statusInterval' = statusInterval * 2
  /\ UNCHANGED <<statusArmed, serverUp>>

\* .fail: the network banner is shown; the interval doubles while below 3000.
PingFail ==
  /\ pings["fail"] > 0
  /\ pings' = [pings EXCEPT !["fail"] = @ - 1]
  /\ networkBanner' = TRUE
  /\ statusInterval' = IF statusInterval < 3000 THEN statusInterval * 2
                                                 ELSE statusInterval
  /\ UNCHANGED <<statusArmed, serverUp>>

\* The work server goes down or comes back (environment).
ServerChanges ==
  /\ serverUp' = ~serverUp
  /\ UNCHANGED <<statusInterval, statusArmed, pings, networkBanner>>

Next ==
  \/ StatusTimerFires
  \/ ServerHandles
  \/ PingDone
  \/ PingFail
  \/ ServerChanges

(***************************************************************************)
(* The browser fires a pending timeout and delivers every answer; nothing *)
(* is assumed of the server.                                               *)
(***************************************************************************)
Fairness ==
  /\ WF_vars(StatusTimerFires)
  /\ WF_vars(ServerHandles)
  /\ WF_vars(PingDone)
  /\ WF_vars(PingFail)

Spec == Init /\ [][Next]_vars /\ Fairness

-----------------------------------------------------------------------------
(***************************************************************************)
(* The comment of the .fail callback: the status call is cheap, so the    *)
(* loop never backs off to more than 3 seconds.                            *)
(***************************************************************************)
IntervalCapped == statusInterval <= 3000

(***************************************************************************)
(* Once the server stays up, the dashboard recovers for good: the network *)
(* banner is hidden and the loop is back to its 1200 ms interval, however *)
(* the answers of overlapping pings sent while it was down arrive.        *)
(***************************************************************************)
StatusRecovers ==
  <>[]serverUp => <>[](~networkBanner /\ statusInterval = 1200)
=============================================================================
