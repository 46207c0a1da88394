-------------------------- MODULE MCMainMessagePump --------------------------
(* MainMessagePump for TLC.                                                *)
EXTENDS MainMessagePump

ManualConfig == {<<"MANUAL", FALSE>>}
NoWorkMessageConfig == {<<"MANUAL", TRUE>>}
AutomaticConfig == {<<"AUTOMATIC", FALSE>>}
AutoPumpConfigs == ManualConfig \union AutomaticConfig
AllConfigs == AutoPumpConfigs \union NoWorkMessageConfig
=============================================================================
