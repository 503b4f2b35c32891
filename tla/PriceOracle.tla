----------------------------- MODULE PriceOracle -----------------------------
(***************************************************************************)
(* The price oracle (src/oracle.rs) as the protocol component asks it      *)
(* (get_price_in_xrd, src/protocol.rs).  Prices are signed outside the     *)
(* ledger, together with the epoch and a timestamp, and shown by whoever   *)
(* makes a call: at any time, in any order, as often as they like.  A      *)
(* price of an earlier epoch verifies no more; within an epoch the oracle  *)
(* compares a timestamp with the latest it has seen, of any token.         *)
(*                                                                         *)
(* A signed text is a record: its parts are taken to be told apart.        *)
(***************************************************************************)
EXTENDS Integers, Sequences, FiniteSets

CONSTANTS
  Quotes,       \* tokens other than XRD whose price may be signed
  Keys,         \* public keys of price signers
  Periods,      \* arguments of set_validity_period
  MaxDiff,      \* max_diff at the start
  FirstKey,     \* pk_str at the start
  MaxTime, MaxEpoch, MaxSigned, MaxShown   \* bounds of a run

ASSUME OracleAssumption ==
  /\ FirstKey \in Keys
  /\ MaxDiff \in Nat /\ Periods \subseteq Nat
  /\ {MaxTime, MaxEpoch, MaxSigned, MaxShown} \subseteq Nat

VARIABLES
  known,                      \* tokens in price_map; no method answers what it holds of them
  pk_str,
  last_validation_epoch,
  last_validation_timestamp,
  max_diff,
  epoch,                      \* Runtime::current_epoch
  clock,                      \* the signers' clock
  signed,                     \* every message ever signed
  shown                       \* the transactions that used prices, in order

settings == <<known, pk_str, max_diff>>
validation == <<last_validation_epoch, last_validation_timestamp>>
world == <<epoch, clock, signed>>
vars == <<settings, validation, world, shown>>

Message == [quote: Quotes, epoch_at: Nat, timestamp: Nat, key: Keys]

\* A call of the protocol: the prices it got in the order it asked for them,
\* and max_diff then.
Use == [messages: Seq(Message), max_diff: Nat]

Init ==
  /\ known = {}
  /\ pk_str = FirstKey
  /\ last_validation_epoch = 0 /\ last_validation_timestamp = 0
  /\ max_diff = MaxDiff
  /\ epoch = 0 /\ clock = 0 /\ signed = {}
  /\ shown = <<>>

-----------------------------------------------------------------------------
(* get_valid_price_in_xrd *)

\* What the two last_validation fields become; the mutants keep the last
\* timestamp seen, and the latest of all epochs.
LastSeen(last, m) == [epoch |-> epoch, timestamp |-> m.timestamp]
Validated(last, m) ==
  [epoch |-> epoch,
   timestamp |-> IF last.epoch = epoch /\ last.timestamp >= m.timestamp
                 THEN last.timestamp ELSE m.timestamp]

\* The assert; the mutant refuses what is much newer than the latest, too.
FreshOnBothSides(last, m) ==
  last.epoch = epoch =>
    /\ last.timestamp - m.timestamp < max_diff
    /\ m.timestamp - last.timestamp < max_diff
Fresh(last, m) == last.epoch = epoch => last.timestamp - m.timestamp < max_diff

\* The signature is by the key in force, of a message with the current epoch;
\* what does not verify is answered with 0 and changes nothing.
Verifies(m) == m.key = pk_str /\ m.epoch_at = epoch

Last == [epoch |-> last_validation_epoch, timestamp |-> last_validation_timestamp]

CanUse(last, m) == m.quote \in known /\ Verifies(m) /\ Fresh(last, m)

Validate(last, messages) ==
  /\ Len(shown) < MaxShown
  /\ last_validation_epoch' = last.epoch
  /\ last_validation_timestamp' = last.timestamp
  /\ shown' = Append(shown, [messages |-> messages, max_diff |-> max_diff])
  /\ UNCHANGED <<settings, world>>

-----------------------------------------------------------------------------
(* get_price_in_xrd *)

\* One of the two tokens is XRD ...
UsePrice(m) ==
  /\ CanUse(Last, m)
  /\ Validate(Validated(Last, m), <<m>>)

\* ... or neither is: the collateral's price is asked for first. The two tokens may
\* be one.
UsePair(collateral, borrow) ==
  LET between == Validated(Last, collateral)
  IN  /\ CanUse(Last, collateral) /\ CanUse(between, borrow)
      /\ Validate(Validated(between, borrow), <<collateral, borrow>>)

-----------------------------------------------------------------------------
(* The operator and the admin *)

SetPriceQuoteInXrd(quote) ==
  /\ known' = known \cup {quote}
  /\ UNCHANGED <<pk_str, max_diff, validation, world, shown>>

SetValidityPeriod(period) ==
  /\ max_diff' = period
  /\ UNCHANGED <<known, pk_str, validation, world, shown>>

SetVerifyPublicKey(key) ==
  /\ pk_str' = key
  /\ UNCHANGED <<known, max_diff, validation, world, shown>>

-----------------------------------------------------------------------------
(* The world *)

Sign(key, quote) ==
  LET m == [quote |-> quote, epoch_at |-> epoch, timestamp |-> clock, key |-> key]
  IN  /\ m \notin signed /\ Cardinality(signed) < MaxSigned
      /\ signed' = signed \cup {m}
      /\ UNCHANGED <<settings, validation, epoch, clock, shown>>

Pass(epochs) ==
  /\ clock < MaxTime /\ epoch + epochs <= MaxEpoch
  /\ clock' = clock + 1
  /\ epoch' = epoch + epochs
  /\ UNCHANGED <<settings, validation, signed, shown>>

Next ==
  \/ \E m \in signed : UsePrice(m)
  \/ \E m1, m2 \in signed : UsePair(m1, m2)
  \/ \E quote \in Quotes : SetPriceQuoteInXrd(quote)
  \/ \E period \in Periods : SetValidityPeriod(period)
  \/ \E key \in Keys : SetVerifyPublicKey(key)
  \/ \E key \in Keys, quote \in Quotes : Sign(key, quote)
  \/ \E epochs \in {0, 1} : Pass(epochs)

Spec == Init /\ [][Next]_vars
=============================================================================
