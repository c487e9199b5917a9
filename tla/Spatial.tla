------------------------------- MODULE Spatial -------------------------------
(***************************************************************************)
(* What the modules about spatial/ share: the agents, whose browsers and   *)
(* pages they are, and the calls of the tools, each of which asks the pool *)
(* for its agent's browser.                                                *)
(***************************************************************************)
CONSTANTS
    Agents,
    Calls       \* concurrent tool calls
=============================================================================
