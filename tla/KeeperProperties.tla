-------------------------- MODULE KeeperProperties --------------------------
(***************************************************************************)
(* What the keeper's logs are good for.                                    *)
(***************************************************************************)
EXTENDS ValidatorKeeper

\* The XRD that v earned in epoch e.
Earned(v, e) == staked[v][e + 1] - staked[v][e]

\* Epochs since the beginning of the week before last.
Recent == {e \in 1..epoch : GetWeekIndex(e) >= GetWeekIndex(epoch) - 2}

\* A year of earning that much an epoch, of one unit, to the last digit of the
\* two values of the unit that are compared.
YearOf(v, earned) == (earned * ONE * EPOCH_OF_YEAR) \div Units[v]

\* The yield that is told lies between what the active set's slowest and its
\* fastest earner made in an epoch of the last three weeks: no order of logging,
\* filling in, inserting and removing, at whatever indices and however often,
\* compares entries that are old, apart by other epochs than they say or the wrong
\* way round. (The code takes the admin's figures as they are: the yield of a log
\* that was given an entry its validator never had can be anything.)
ApyWithinEarnings ==
  ActiveSet # {} /\ ActiveSet \cap misstated = {} =>
    /\ \E v \in ActiveSet, e \in Recent :
          GetActiveSetApy >= YearOf(v, Earned(v, e)) - EPOCH_OF_YEAR
    /\ \E v \in ActiveSet, e \in Recent :
          GetActiveSetApy <= YearOf(v, Earned(v, e)) + EPOCH_OF_YEAR

\* From epoch 1 on no answer aborts: no week index and no epoch is taken from a
\* smaller one, which would abort every stable loan. In the first week that needs
\* that the admin has put nothing in the log (an entry behind one of epoch 0
\* aborts); from the second week on it holds whatever the log was given.
AlwaysAnswers ==
  epoch >= 1 =>
    \A v \in DOMAIN validator_map :
      v \notin handled \/ GetWeekIndex(epoch) >= 2 => NoUnderflow(validator_map[v])

\* A validator with stake units, in its log's first entry and now, whose log is
\* brought forward by a week to the current one, is in the active set by that step.
ActiveOnceLogged ==
  [][\A add, remove \in SUBSET Validators :
       LogValidatorStaking(add, remove) =>
         \A v \in DOMAIN validator_map \ remove :
           /\ Units[v] # 0 /\ validator_map[v][1].last_lsu # 0
           /\ Week(validator_map[v][1]) = GetWeekIndex(epoch) - 1
           => v \in ActiveSet']_vars

-----------------------------------------------------------------------------
\* The log of a week can be written while there are fewer than RESERVE_WEEKS in
\* every log: the code says "Update staking information for existing validators".
LogsUpToReserve ==
  (\A v \in DOMAIN validator_map : Len(validator_map[v]) < RESERVE_WEEKS)
    => \A v \in DOMAIN validator_map : CanLog(validator_map[v])
=============================================================================
