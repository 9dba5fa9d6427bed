----------------------------- MODULE MCHeadless -----------------------------
(* Configurations for the model checking of Headless. *)
EXTENDS Headless

MCSections ==
    [onBoot : BOOLEAN, require : BOOLEAN, auto : BOOLEAN, persist : BOOLEAN,
     attempts : {0, 2}, ksEnabled : BOOLEAN, nft : BOOLEAN]
=============================================================================
