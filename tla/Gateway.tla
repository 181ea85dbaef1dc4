------------------------------ MODULE Gateway ------------------------------
(***************************************************************************)
(* The gateway's payment surfaces together: channel opens, purchases paid by *)
(* a transfer, budgets, agent tasks and the faucet.  A behaviour is about    *)
(* the requests of one of the scenarios.                                     *)
(***************************************************************************)
EXTENDS A2ATasks, Faucet

GatewayTypeOK == TaskTypeOK /\ FaucetTypeOK

GatewayInit == TaskInit /\ FaucetInit

FaucetStep ==
    \/ \E r \in posted \cap Drips : DripStep(r)
    \/ posted \cap Drips # {} /\ (NewDay \/ NewBlockhash)

GatewayNext ==
    \/ TaskNext /\ UNCHANGED faucetVars
    \/ FaucetStep /\ UNCHANGED taskSystem

GatewaySpec == GatewayInit /\ [][GatewayNext]_<<taskSystem, faucetVars>>

=============================================================================
