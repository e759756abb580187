--------------------------------- MODULE MCHubs ---------------------------------
(* Hubs for TLC: an ADC hub and one that changes from run to run, who share us   *)
(* and, when both speak ADC, another user.                                    *)
EXTENDS Hubs, TLC

CONSTANTS a, b
MCGuests == [h \in Hubs |-> IF h \in Adc THEN {Me, a} ELSE {Me, b}]
================================================================================
