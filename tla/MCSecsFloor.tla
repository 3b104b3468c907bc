------------------------------ MODULE MCSecsFloor ------------------------------
(* One machine, which gets its profile when it is first sampled and is a tool *)
(* of equipment.yaml; a CEID with a report and a bare one.                    *)
EXTENDS SecsFloor

CONSTANT m1

MCMachines == {m1}
MCProfiles == {}
MCTools    == {m1}
MCCeids    == <<"SAMPLE_REPORT", "ALARM_TRIGGERED">>
MCBare     == {"ALARM_TRIGGERED"}
=============================================================================
