--------------------------- MODULE ValidatorKeeper ---------------------------
(***************************************************************************)
(* The validator keeper (src/validator/keeper.rs): a log for each of a set *)
(* of validators of what was staked with them, an entry a week and the     *)
(* newest first, from which the yearly yield of staking is told that the   *)
(* stable rate of an XRD loan starts from.                                 *)
(*                                                                         *)
(* Staking and unstaking change a validator's XRD and stake units alike;   *)
(* only the epochs' rewards move the value of a unit, so that the units    *)
(* are a constant here.                                                    *)
(***************************************************************************)
EXTENDS Decimals, SequencesExt

CONSTANTS
  Validators,
  A_WEEK_EPOCHS, RESERVE_WEEKS,
  Units,         \* stake units of each validator
  FirstStaked,   \* XRD staked with each at first
  Rewards,       \* XRD that each may earn in an epoch
  Spans,         \* epochs between two things that happen
  Backfills,     \* epochs of each that the admin may give the entries of
  Misstated,     \* entries of each that the admin may give whatever it had
  MaxFill,       \* entries that a log is filled with
  MaxInserted,   \* entries of a log that more are inserted in
  MaxEpoch       \* bound of a run

StakeData == [last_lsu: Nat, last_staked: Nat, last_stake_epoch: Nat]

ASSUME KeeperAssumption ==
  /\ IsFiniteSet(Validators)
  /\ A_WEEK_EPOCHS \in Nat \ {0} /\ RESERVE_WEEKS \in Nat
  /\ Units \in [Validators -> Nat] /\ FirstStaked \in [Validators -> Nat]
  /\ Rewards \in [Validators -> SUBSET Nat] /\ Spans \subseteq Nat \ {0}
  /\ Backfills \in [Validators -> SUBSET Nat] /\ Misstated \in [Validators -> SUBSET StakeData]
  /\ MaxFill \in Nat /\ MaxInserted \in Nat /\ MaxEpoch \in Nat

VARIABLES
  validator_map,   \* validator -> its log, for those that have one
  epoch,           \* Runtime::current_epoch
  staked           \* validator -> the XRD staked with it in each epoch until now

\* Auxiliary variables, which the properties need and the code does not keep.
VARIABLES
  handled,         \* validators whose log has entries that the admin put there
  misstated        \* those whose log was given an entry that the validator never had

auxVars == <<handled, misstated>>
vars == <<validator_map, epoch, staked, handled, misstated>>

Init ==
  /\ validator_map = [v \in {} |-> <<>>]
  /\ epoch = 0
  /\ staked = [v \in Validators |-> <<FirstStaked[v]>>]
  /\ handled = {} /\ misstated = {}

-----------------------------------------------------------------------------
\* get_week_index: weeks end with their last epoch, and epoch 0 is in week 0.
GetWeekIndex(e) ==
  LET week == e \div A_WEEK_EPOCHS
  IN  IF week * A_WEEK_EPOCHS < e THEN week + 1 ELSE week

Week(data) == GetWeekIndex(data.last_stake_epoch)

\* What the validator answered in epoch e.
StakeAt(v, e) ==
  [last_lsu |-> Units[v], last_staked |-> staked[v][e + 1], last_stake_epoch |-> e]

IsTrue(v, data) ==
  data.last_stake_epoch <= epoch /\ data = StakeAt(v, data.last_stake_epoch)

\* What the admin may take for an entry of v.
Entries(v) == {StakeAt(v, e) : e \in Backfills[v] \cap 0..epoch} \cup Misstated[v]

\* The capacity of a Vec read from the ledger, its length, when one is inserted.
GrownCapacity(log) == IF Len(log) < 2 THEN 4 ELSE 2 * Len(log)

\* The loop after insert removes the index capacity - 1 until the capacity is
\* RESERVE_WEEKS: a removal changes no capacity, and there is no such index.
CanInsertWeek(log) == GrownCapacity(log) <= RESERVE_WEEKS

NewWeek(log) == GetWeekIndex(epoch) > Week(log[1])

CanLog(log) == NewWeek(log) => CanInsertWeek(log)

\* Mutants: a week is added at the end; a week is never added; the epoch of the
\* week's entry is the first that it was logged in.
LoggedLast(v, log) ==
  IF NewWeek(log) THEN Append(log, StakeAt(v, epoch)) ELSE [log EXCEPT ![1] = StakeAt(v, epoch)]
LoggedOver(v, log) == [log EXCEPT ![1] = StakeAt(v, epoch)]
LoggedEarlier(v, log) ==
  IF NewWeek(log) THEN <<StakeAt(v, epoch)>> \o log
  ELSE [log EXCEPT ![1].last_staked = staked[v][epoch + 1]]

Logged(v, log) ==
  IF NewWeek(log) THEN <<StakeAt(v, epoch)>> \o log ELSE [log EXCEPT ![1] = StakeAt(v, epoch)]

-----------------------------------------------------------------------------
(* get_validator_apy and get_active_set_apy *)

\* What is unsigned does not fall below 0.
NoUnderflow(log) ==
  /\ GetWeekIndex(epoch) >= 1
  /\ Len(log) > 1 /\ Week(log[1]) >= GetWeekIndex(epoch) - 1 =>
       /\ Week(log[1]) >= 1
       /\ Week(log[2]) = Week(log[1]) - 1 => log[1].last_stake_epoch >= log[2].last_stake_epoch

\* A log tells a yield if it has the latest week and the week before that one.
HasApy(log) ==
  /\ Week(log[1]) >= GetWeekIndex(epoch) - 1
  /\ Len(log) > 1 /\ Week(log[2]) = Week(log[1]) - 1
  /\ log[1].last_lsu # 0 /\ log[2].last_lsu # 0

Index(data) == DDiv(data.last_staked, data.last_lsu)

ValidatorApy(log) ==
  Trunc((Index(log[1]) - Index(log[2])) * EPOCH_OF_YEAR,
        log[1].last_stake_epoch - log[2].last_stake_epoch)

ActiveSet == {v \in DOMAIN validator_map : HasApy(validator_map[v])}

GetActiveSetApy ==
  IF ActiveSet = {} THEN 0
  ELSE Trunc(MapThenSumSet(LAMBDA v : ValidatorApy(validator_map[v]), ActiveSet),
             Cardinality(ActiveSet))

-----------------------------------------------------------------------------
\* log_validator_staking: if one log cannot be written, none is.
LogValidatorStaking(add, remove) ==
  LET kept == DOMAIN validator_map \ remove
  IN  /\ \A v \in kept : CanLog(validator_map[v])
      /\ handled' = handled \cap kept /\ misstated' = misstated \cap kept
      /\ validator_map' = [v \in kept \cup add |->
                             IF v \in kept THEN Logged(v, validator_map[v])
                             ELSE <<StakeAt(v, epoch)>>]
      /\ UNCHANGED <<epoch, staked>>

\* The admin gives v's log the entries data.
Given(v, data) ==
  /\ handled' = handled \cup {v}
  /\ misstated' = IF \A k \in 1..Len(data) : IsTrue(v, data[k])
                  THEN misstated ELSE misstated \cup {v}
  /\ UNCHANGED <<epoch, staked>>

\* fill_validator_staking: any entries, in any order, but not none; a validator
\* that has a log keeps it.
FillValidatorStaking(v, data) ==
  /\ data # <<>>
  /\ \/ /\ v \in DOMAIN validator_map
        /\ UNCHANGED vars
     \/ /\ v \notin DOMAIN validator_map
        /\ validator_map' = [w \in DOMAIN validator_map \cup {v} |->
                               IF w = v THEN data ELSE validator_map[w]]
        /\ Given(v, data)

\* insert_validator_staking: any entry, at any index up to the log's end.
InsertValidatorStaking(v, k, data) ==
  /\ v \in DOMAIN validator_map
  /\ k \in 1..(Len(validator_map[v]) + 1)
  /\ Len(validator_map[v]) <= MaxInserted
  /\ validator_map' = [validator_map EXCEPT ![v] = InsertAt(@, k, data)]
  /\ Given(v, <<data>>)

\* The ledger: epochs pass, every validator earning the same in each of a span.
Pass(span, rewards) ==
  /\ epoch + span <= MaxEpoch
  /\ \A v \in Validators : rewards[v] \in Rewards[v]
  /\ epoch' = epoch + span
  /\ staked' = [v \in Validators |->
                  staked[v] \o [k \in 1..span |-> Last(staked[v]) + k * rewards[v]]]
  /\ UNCHANGED <<validator_map, auxVars>>

Next ==
  \/ \E add, remove \in SUBSET Validators : LogValidatorStaking(add, remove)
  \/ \E v \in Validators : \E data \in BoundedSeq(Entries(v), MaxFill) :
        FillValidatorStaking(v, data)
  \/ \E v \in Validators : \E k \in 1..(MaxInserted + 1), data \in Entries(v) :
        InsertValidatorStaking(v, k, data)
  \/ \E span \in Spans, rewards \in [Validators -> UNION Range(Rewards)] : Pass(span, rewards)

Spec == Init /\ [][Next]_vars
=============================================================================
