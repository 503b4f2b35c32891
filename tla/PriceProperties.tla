--------------------------- MODULE PriceProperties ---------------------------
(***************************************************************************)
(* What the prices of the oracle are good for.                             *)
(***************************************************************************)
EXTENDS PriceOracle

TypeOK ==
  /\ known \subseteq Quotes /\ pk_str \in Keys /\ max_diff \in Nat
  /\ last_validation_epoch \in 0..epoch /\ last_validation_timestamp \in 0..clock
  /\ epoch \in Nat /\ clock \in Nat
  /\ signed \subseteq Message /\ shown \in Seq(Use)

\* The prices of `shown` in the order they were asked for: a price is a pair
\* <<k, n>>, the n-th of the k-th transaction.
Uses == {u \in (1..Len(shown)) \X {1, 2} : u[2] <= Len(shown[u[1]].messages)}

At(u) == shown[u[1]].messages[u[2]]

Before(u, v) == u[1] < v[1] \/ (u[1] = v[1] /\ u[2] < v[2])

\* A price is not used once a price of the same epoch that is newer by the
\* validity period has been used, of whatever token and by whomever: in a later
\* transaction, or later in the same one.
StaleRefused ==
  \A u, v \in Uses :
    Before(u, v) /\ At(u).epoch_at = At(v).epoch_at =>
      At(u).timestamp - At(v).timestamp < shown[v[1]].max_diff

\* The oracle never locks itself: no use of a price, in whichever order, makes
\* it refuse the newest price its signer has signed in the epoch.
NewestAccepted ==
  \A m \in signed :
    /\ m.quote \in known /\ Verifies(m) /\ max_diff > 0
    /\ \A other \in signed : other.timestamp <= m.timestamp
    => CanUse(Last, m)

=============================================================================
