----------------------------- MODULE MCAlgorithms -----------------------------
(***************************************************************************)
(* What a single goroutine computes, each over inputs of its own: scopes   *)
(* (MCGrantScope), redaction (MCRedaction), startup (MCStartup) and the    *)
(* environment of a child (MCChildLaunch).                                 *)
(***************************************************************************)
EXTENDS MCGrantScope, MCRedaction, MCStartup, MCChildLaunch

VARIABLE algorithm

scope      == <<maximal, wanted, judged>>
redaction  == <<secrets, text>>
childVars  == <<template, launch>>

NoScope  == maximal = Unlimited /\ wanted = Unlimited /\ judged = NoRequest
NoText   == secrets = {} /\ text = <<>>
NoChild  == template = <<>> /\ launch = NoLaunch

\* Not started.
NoStartup ==
    /\ sections = <<>> /\ runs = <<>> /\ grantable = <<>>
    /\ mode = "inject" /\ chosen = {} /\ cliCommand = FALSE
    /\ Begins

Init ==
    \/ algorithm = "scope" /\ ScopeInit /\ NoText /\ NoStartup /\ NoChild
    \/ algorithm = "redaction" /\ MCTextInit /\ NoScope /\ NoStartup /\ NoChild
    \/ algorithm = "startup" /\ StartupInit /\ NoScope /\ NoText /\ NoChild
    \/ algorithm = "launch" /\ MCLaunchInit /\ NoScope /\ NoText /\ NoStartup

Next ==
    \/ algorithm = "scope" /\ Judge /\ UNCHANGED <<algorithm, redaction, startVars, childVars>>
    \/ algorithm = "redaction" /\ MCGrow /\ UNCHANGED <<algorithm, scope, startVars, childVars>>
    \/ algorithm = "startup" /\ StartupStep /\ UNCHANGED <<algorithm, scope, redaction, childVars>>
    \/ algorithm = "launch" /\ MCLengthen /\ UNCHANGED <<algorithm, scope, redaction, startVars>>

Spec == Init /\ [][Next]_<<algorithm, scope, redaction, startVars, childVars>>
=============================================================================
