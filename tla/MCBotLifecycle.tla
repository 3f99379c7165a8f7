---------------------------- MODULE MCBotLifecycle ----------------------------
(* Instances of BotLifecycle for TLC. *)
EXTENDS BotLifecycle
=============================================================================
