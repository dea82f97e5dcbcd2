------------------------------ MODULE MCDesktop ------------------------------
(* Desktop with interchangeable callers of settings_set, who turn each setting on and off. *)
EXTENDS Desktop, TLC

SaverSymmetry == Permutations(Saver)
MCRequest ==
    {[autostart |-> "on", close |-> FALSE, path |-> "custom"],
     [autostart |-> "on", close |-> TRUE, path |-> NoPath],
     [autostart |-> "off", close |-> FALSE, path |-> NoPath]}
=============================================================================
