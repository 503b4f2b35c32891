------------------------------ MODULE MCKeeper ------------------------------
(***************************************************************************)
(* The validator keeper for TLC.                                           *)
(***************************************************************************)
EXTENDS KeeperProperties

CONSTANTS v1, v2

MCUnits == [v \in Validators |-> IF v = v1 THEN 1000 ELSE 500]
MCRewards == [v \in Validators |-> IF v = v1 THEN {10, 30} ELSE {20}]
MCStaked == [v \in Validators |-> 1000]

MCBackfills == [v \in Validators |-> IF v = v1 THEN {0, 2} ELSE {}]

\* Of one validator an entry without stake units, and one of an epoch to come with
\* too much staked.
MCMisstated ==
  [v \in Validators |->
     IF v = v1 THEN {[last_lsu |-> 0, last_staked |-> 0, last_stake_epoch |-> 2],
                     [last_lsu |-> 1000, last_staked |-> 9000, last_stake_epoch |-> 6]}
     ELSE {}]
MCNoBackfills == [v \in Validators |-> {}]
=============================================================================
