------------------------------- MODULE MCJade -------------------------------
EXTENDS Jade
(* The shape of the state, and unlocking dialogs of the device that are    *)
(* not ended by a status request.                                          *)
DialogsUndisturbed == TypeOK /\ UnlockNotDisturbed

(* Every operation ends, and then the user is no longer asked to look at   *)
(* the device.                                                             *)
OperationsSettle == OperationsEnd /\ []StatusIsReset
=============================================================================
