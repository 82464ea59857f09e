------------------------------ MODULE MCSettings ------------------------------
(* A configuration and one for each option, or pair of options that meet,
   that a reload may find changed. *)
EXTENDS Settings

CONSTANTS a, b, w1, w2, bad, p1, p2

Pubkeys(n) == [total |-> 2, numSignatures |-> n, pubkeys |-> {p1, p2}]

MCBoot ==
  [static |-> 1, seeds |-> [k \in {a} |-> w1],
   multisig |-> [k \in {a, b} |-> Pubkeys(1)],
   server |-> "s1", network |-> "mainnet", params |-> 1,
   txMiningUrl |-> None, txMiningApiKey |-> None, swap |-> None, warn |-> FALSE]

MCConfigs ==
  { MCBoot,
    [MCBoot EXCEPT !.static = 2],
    [MCBoot EXCEPT !.seeds = [k \in {a} |-> w2]],
    [MCBoot EXCEPT !.seeds = [k \in {a} |-> bad]],
    [MCBoot EXCEPT !.seeds = [k \in {a, b} |-> w1]],
    [MCBoot EXCEPT !.seeds = None],
    [MCBoot EXCEPT !.multisig = None],
    [MCBoot EXCEPT !.multisig = [k \in {a, b} |-> Pubkeys(IF k = a THEN 2 ELSE 1)]],
    [MCBoot EXCEPT !.multisig = [k \in {a, b} |-> Pubkeys(IF k = b THEN 3 ELSE 1)],
                   !.seeds = [k \in {a, b} |-> w1]],
    [MCBoot EXCEPT !.server = "s2"],
    [MCBoot EXCEPT !.network = "testnet"],
    [MCBoot EXCEPT !.params = 2],
    [MCBoot EXCEPT !.txMiningUrl = "m1", !.txMiningApiKey = "k1"],
    [MCBoot EXCEPT !.txMiningUrl = "m2", !.swap = "x1"],
    [MCBoot EXCEPT !.warn = TRUE] }
=============================================================================
