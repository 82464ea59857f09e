------------------------------ MODULE MCService ------------------------------
(* Two contents of config.js: the one at boot, which a reload that finds it
   again installs at once, and one that no reload can install, which ends the
   process. *)
EXTENDS Service

MCBoot ==
  [static |-> 1, seeds |-> None, multisig |-> None,
   server |-> "s1", network |-> "mainnet", params |-> 1,
   txMiningUrl |-> None, txMiningApiKey |-> None, swap |-> None, warn |-> FALSE]

MCConfigs == { MCBoot, [MCBoot EXCEPT !.static = 2] }
=============================================================================
