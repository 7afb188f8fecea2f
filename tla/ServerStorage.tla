---------------------------- MODULE ServerStorage ----------------------------
(***************************************************************************)
(* The parts of the node server that share its key-value store and its     *)
(* restarts: storage resets with the saves and runs under them, the drain  *)
(* of waiting inputs that a reset clears, and the delivery of results. A   *)
(* behaviour has one kind of traffic, which keeps apart what meets only in *)
(* the reset or the restart.                                               *)
(***************************************************************************)
EXTENDS StorageReset, ServerInputDrain, ResultDelivery

CONSTANTS
    MaxOtherResets, \* bound: resets under inputs that wait
    MaxFaults       \* bound: failures, losses and restarts together

ASSUME ServerAssumption == MaxOtherResets \in 0..MaxResets /\ MaxFaults \in Nat

VARIABLE traffic \* bound: the requests of a behaviour are of one kind

vars == <<resetVars, drainVars, deliveryVars, traffic>>

Traffic == {"saves", "keys", "inputs", "results"}

Init ==
    /\ ResetInit /\ DrainInit /\ DeliveryInit /\ traffic \in Traffic
    /\ unrepaired => traffic = "saves"

ResetsStart ==
    /\ traffic # "results"
    /\ traffic = "inputs" => resetGen < MaxOtherResets
    /\ \E kind \in Kinds : StartReset(kind)

StorageStep ==
    \/ traffic = "saves" /\ (BeginLoad \/ ReadDatabase \/ SavesStep)
    \/ traffic = "keys" /\ KeysStep
    \/ EndLoad \/ TimerFires \/ QueueStep \/ ResetsStart \/ ResetStep

(* A start request is a writer that the reset refuses.                     *)
InputStep ==
    /\ traffic = "inputs"
    /\ \/ ~recovery /\ reset.at = "none" /\ \E i \in Inputs : EnqueueInput(i)
       \/ DrainNext

(* The slot clears the pending saves, the runs and the waiting envelopes.  *)
ResetClears ==
    /\ ClearSaves
    /\ DrainReset
    /\ UNCHANGED <<execution, passes, drops, deliveryVars>>

(* The transaction discards the owner's records of the inputs, except for  *)
(* an empty folder.                                                        *)
ResetApplies ==
    /\ Apply
    /\ execution' = IF reset.kind = "empty" THEN execution
                    ELSE [i \in Inputs |-> "none"]
    /\ UNCHANGED <<waiting, attempts, drainTimer, active, generation, passes,
                   drops, deliveryVars>>

Restarts ==
    /\ Restart
    /\ DrainRestart
    /\ DeliveryRestart
    /\ UNCHANGED <<execution, drops>>

Next ==
    /\ \/ StorageStep /\ UNCHANGED <<drainVars, deliveryVars>>
       \/ InputStep /\ UNCHANGED <<resetVars, deliveryVars>>
       \/ traffic = "results" /\ DeliveryStep /\ UNCHANGED <<resetVars, drainVars>>
       \/ ResetClears \/ ResetApplies \/ Restarts
    /\ failures' + drops' + losses' + restarts' <= MaxFaults
    /\ UNCHANGED traffic

Spec == Init /\ [][Next]_vars
FairSpec ==
    /\ Spec
    /\ ResetFairness
    /\ DrainFairness
    /\ DeliveryFairness
---------------------------------------------------------------------------
(* Every variable of the server has its type.                              *)
ServerTypeOK == ResetTypeOK /\ DrainTypeOK /\ DeliveryTypeOK
=============================================================================
