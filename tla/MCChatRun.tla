------------------------------- MODULE MCChatRun -------------------------------
(***************************************************************************)
(* Small instances of ChatRun for TLC; the cfg file gives the bounds.      *)
(***************************************************************************)
EXTENDS ChatRunProps

MCTierOf == [get_alert |-> "L0", isolate_host |-> "L2"]

MCVisibleTo ==
  [soc1 |-> {"get_alert"}, duty_lead |-> {"get_alert", "isolate_host"}, redteam |-> {}]

=============================================================================
