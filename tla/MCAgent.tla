------------------------------ MODULE MCAgent ------------------------------
(* One instance of what agents do: each behaviour is one of the sourcing and
   enrollment of a person over MCP and the web, the limits of an account and
   what the inbox says of them, and the control loop's passes over a target
   whose account is paused, capped and restarted around it. *)
EXTENDS MCSourcing, AgentLoop

VARIABLE part

mcVars == <<vars, loopVars, part>>

MCInit ==
    /\ part \in {"sourcing", "limits", "loop"}
    /\ Init /\ LoopInit
    /\ part # "limits" =>
         state = "Active" /\ limits.table = "none" /\ limits.enabled /\ open

MCNext ==
    /\ UNCHANGED part
    /\ \/ part = "sourcing" /\ Next /\ UNCHANGED loopVars
       \/ part = "limits" /\ AccountStep /\ UNCHANGED <<vars, loop>>
       \/ part = "loop" /\ LoopNext /\ UNCHANGED vars

MCSpec == MCInit /\ [][MCNext]_mcVars
=============================================================================
