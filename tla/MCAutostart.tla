----------------------------- MODULE MCAutostart -----------------------------
(* Autostart with one other setting besides auto_connect. *)
EXTENDS Autostart

MCConfigs == [auto : BOOLEAN, ks : BOOLEAN]

MCDefault == [auto |-> FALSE, ks |-> FALSE]
=============================================================================
