----------------------------- MODULE MCHotkeys ------------------------------
(***************************************************************************)
(* Small instances of Hotkeys for TLC: a key with a modifier and the       *)
(* modifier alone for push-to-talk, which share the modifier, and a button *)
(* of a gamepad for a hotkey of the host, or for push-to-talk.             *)
(***************************************************************************)
EXTENDS Hotkeys

CONSTANTS k1, m1, b1

MCBinding ==
  [combo |-> [kind |-> "key",       key |-> k1, mods |-> {m1}],
   alone |-> [kind |-> "modifiers", key |-> k1, mods |-> {m1}],
   pad   |-> [kind |-> "xinput",    key |-> b1, mods |-> {}]]

ComboAlone == <<"combo", "alone">>
Pad == <<"pad">>
None == <<>>
=============================================================================
