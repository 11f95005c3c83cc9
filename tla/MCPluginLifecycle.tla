-------------------------- MODULE MCPluginLifecycle --------------------------
(* Small instances of PluginLifecycle for TLC. *)
EXTENDS PluginLifecycle
=============================================================================
