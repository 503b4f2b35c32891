---------------------------- MODULE OracleProofs ----------------------------
(***************************************************************************)
(* Proofs about the price oracle, for any tokens, keys, validity periods,  *)
(* signers and bounds.                                                     *)
(*                                                                         *)
(* The transactions so far say nothing of what the next may use; the       *)
(* invariant relates them to the two fields that the code looks at: these  *)
(* hold the newest timestamp used in the epoch, one that was signed.       *)
(***************************************************************************)
EXTENDS PriceProperties, TLAPS

\* The uses of the epoch are not newer than the last validation.
SeenByLast ==
  \A u \in Uses :
    /\ At(u).epoch_at <= epoch
    /\ At(u).epoch_at = epoch =>
         last_validation_epoch = epoch /\ At(u).timestamp <= last_validation_timestamp

\* The last validation is of a message that was signed, if there was any.
LastSigned ==
  last_validation_epoch = epoch =>
    \/ last_validation_timestamp = 0
    \/ \E m \in signed : m.timestamp = last_validation_timestamp

IInv == TypeOK /\ SeenByLast /\ LastSigned /\ StaleRefused

-----------------------------------------------------------------------------
(* Appending a transaction to those shown *)

LEMMA UseType ==
  ASSUME TypeOK
  PROVE  \A u \in Uses : At(u) \in Message /\ At(u).epoch_at \in Nat /\ At(u).timestamp \in Nat
<1> SUFFICES ASSUME NEW u \in Uses
             PROVE  At(u) \in Message /\ At(u).epoch_at \in Nat /\ At(u).timestamp \in Nat
  OBVIOUS
<1>1. /\ u[1] \in 1..Len(shown) /\ u[2] \in Nat /\ u[2] > 0
      /\ u[2] <= Len(shown[u[1]].messages)
  BY DEF Uses
<1>2. shown[u[1]].messages \in Seq(Message)
  <2>1. shown[u[1]] \in Use
    BY <1>1 DEF TypeOK
  <2> QED BY <2>1 DEF Use
<1>3. At(u) \in Message
  BY <1>1, <1>2 DEF At
<1> QED BY <1>3 DEF Message

LEMMA UsesKept ==
  ASSUME shown' = shown PROVE Uses' = Uses /\ \A u \in Uses : At(u)' = At(u)
  BY DEF Uses, At

\* An old use, and the uses of the new transaction.
LEMMA UsesOfOneMore ==
  ASSUME TypeOK, NEW messages \in Seq(Message),
         NEW use, use = [messages |-> messages, max_diff |-> max_diff],
         shown' = Append(shown, use)
  PROVE  /\ shown' \in Seq(Use)
         /\ Len(shown') = Len(shown) + 1
         /\ \A u \in Uses' :
              \/ u \in Uses /\ At(u)' = At(u) /\ u[1] <= Len(shown)
                   /\ shown'[u[1]] = shown[u[1]]
              \/ /\ u[1] = Len(shown) + 1 /\ u[2] \in {1, 2} /\ u[2] <= Len(messages)
                 /\ At(u)' = messages[u[2]] /\ shown'[u[1]] = use
<1>1. use \in Use
  BY DEF Use, TypeOK
<1>2. /\ shown \in Seq(Use) /\ shown' \in Seq(Use) /\ Len(shown) \in Nat
      /\ Len(shown') = Len(shown) + 1
      /\ \A k \in 1..Len(shown) : shown'[k] = shown[k]
      /\ shown'[Len(shown) + 1] = use
  BY <1>1 DEF TypeOK
<1>3. ASSUME NEW u \in Uses'
      PROVE  \/ u \in Uses /\ At(u)' = At(u) /\ u[1] <= Len(shown)
                  /\ shown'[u[1]] = shown[u[1]]
             \/ /\ u[1] = Len(shown) + 1 /\ u[2] \in {1, 2} /\ u[2] <= Len(messages)
                /\ At(u)' = messages[u[2]] /\ shown'[u[1]] = use
  <2>1. PICK k \in 1..(Len(shown) + 1), n \in {1, 2} :
          u = <<k, n>> /\ n <= Len(shown'[k].messages)
    BY <1>2, <1>3 DEF Uses
  <2>2. CASE k <= Len(shown)
    BY <1>2, <2>1, <2>2 DEF Uses, At
  <2>3. CASE k = Len(shown) + 1
    BY <1>2, <2>1, <2>3 DEF At
  <2> QED BY <1>2, <2>1, <2>2, <2>3
<1> QED BY <1>2, <1>3

-----------------------------------------------------------------------------
(* One price after the other *)

Validation == [epoch: Nat, timestamp: Nat]

\* The fields after a price that was fresh: it was not older than what they
\* said by the validity period, and they say the newer of the two.
LEMMA ValidatedSound ==
  ASSUME NEW last \in Validation, last.epoch <= epoch, epoch \in Nat,
         NEW m \in Message, Verifies(m)
  PROVE  /\ Validated(last, m) \in Validation
         /\ Validated(last, m).epoch = epoch
         /\ Validated(last, m).timestamp >= m.timestamp
         /\ last.epoch = epoch => Validated(last, m).timestamp >= last.timestamp
         /\ \/ Validated(last, m).timestamp = m.timestamp
            \/ last.epoch = epoch /\ Validated(last, m).timestamp = last.timestamp
  BY DEF Validation, Validated, Message, Verifies

\* What the uses so far and those of the new transaction satisfy.
Admitted(messages, last) ==
  /\ \A n \in 1..Len(messages) :
       /\ messages[n].epoch_at = epoch
       /\ messages[n].timestamp <= last.timestamp
       /\ last_validation_epoch = epoch =>
            last_validation_timestamp - messages[n].timestamp < max_diff
  /\ last.epoch = epoch /\ last.timestamp \in 0..clock
  /\ last_validation_epoch = epoch => last_validation_timestamp <= last.timestamp
  /\ \/ \E m \in signed : m.timestamp = last.timestamp
     \/ last_validation_epoch = epoch /\ last_validation_timestamp = last.timestamp
  /\ \A n, k \in 1..Len(messages) :
       k < n => messages[k].timestamp - messages[n].timestamp < max_diff

LEMMA ValidateStep ==
  ASSUME IInv, NEW last, NEW messages \in Seq(Message), Admitted(messages, last),
         Validate(last, messages)
  PROVE  IInv'
<1> DEFINE use == [messages |-> messages, max_diff |-> max_diff]
<1>1. /\ last_validation_epoch' = last.epoch
      /\ last_validation_timestamp' = last.timestamp
      /\ shown' = Append(shown, use)
      /\ UNCHANGED <<known, pk_str, max_diff, epoch, clock, signed>>
  BY DEF Validate, settings, world
<1> HIDE DEF use
<1>2. use = [messages |-> messages, max_diff |-> max_diff]
  BY DEF use
<1>3. /\ shown' \in Seq(Use)
      /\ Len(shown') = Len(shown) + 1
      /\ \A u \in Uses' :
           \/ u \in Uses /\ At(u)' = At(u) /\ u[1] <= Len(shown)
                /\ shown'[u[1]] = shown[u[1]]
           \/ /\ u[1] = Len(shown) + 1 /\ u[2] \in {1, 2} /\ u[2] <= Len(messages)
              /\ At(u)' = messages[u[2]] /\ shown'[u[1]] = use
  BY <1>1, <1>2, UsesOfOneMore DEF IInv
<1>4. epoch \in Nat /\ max_diff \in Nat /\ last_validation_epoch \in Nat
      /\ last_validation_timestamp \in Nat /\ Len(shown) \in Nat /\ clock \in Nat
      /\ last.timestamp \in Nat /\ Len(messages) \in Nat
  BY DEF IInv, TypeOK, Admitted
<1>5. TypeOK'
  BY <1>1, <1>3, <1>4 DEF IInv, TypeOK, Admitted
<1>6. \A u \in Uses : At(u) \in Message /\ At(u).epoch_at \in Nat /\ At(u).timestamp \in Nat
  BY UseType DEF IInv
<1>7. \A n \in 1..Len(messages) : messages[n] \in Message /\ messages[n].timestamp \in Nat
  <2>1. \A n \in 1..Len(messages) : messages[n] \in Message
    OBVIOUS
  <2> QED BY <2>1 DEF Message
<1>8. SeenByLast'
  <2> SUFFICES ASSUME NEW u \in Uses'
               PROVE  /\ At(u)'.epoch_at <= epoch
                      /\ At(u)'.epoch_at = epoch => At(u)'.timestamp <= last.timestamp
    BY <1>1 DEF SeenByLast, Admitted
  <2>1. CASE u \in Uses /\ At(u)' = At(u)
    BY <1>4, <1>6, <2>1 DEF IInv, SeenByLast, Admitted
  <2>2. CASE u[2] \in {1, 2} /\ u[2] <= Len(messages) /\ At(u)' = messages[u[2]]
    <3>1. u[2] \in 1..Len(messages)
      BY <1>4, <2>2
    <3> QED BY <1>4, <2>2, <3>1 DEF Admitted
  <2> QED BY <1>3, <2>1, <2>2
<1>9. LastSigned'
  BY <1>1 DEF IInv, LastSigned, Admitted
<1>10. StaleRefused'
  <2> SUFFICES ASSUME NEW u \in Uses', NEW v \in Uses', Before(u, v),
                      At(u)'.epoch_at = At(v)'.epoch_at
               PROVE  At(u)'.timestamp - At(v)'.timestamp < shown'[v[1]].max_diff
    BY DEF StaleRefused, Before
  <2>1. CASE u \in Uses /\ At(u)' = At(u) /\ v \in Uses /\ At(v)' = At(v)
             /\ shown'[v[1]] = shown[v[1]]
    BY <2>1 DEF IInv, StaleRefused
  <2>2. CASE u \in Uses /\ At(u)' = At(u) /\ v[1] = Len(shown) + 1 /\ v[2] \in {1, 2}
             /\ v[2] <= Len(messages) /\ At(v)' = messages[v[2]] /\ shown'[v[1]] = use
    <3>1. v[2] \in 1..Len(messages)
      BY <1>4, <2>2
    <3>2. At(u).epoch_at = epoch
      BY <2>2, <3>1 DEF Admitted
    <3>3. /\ last_validation_epoch = epoch
          /\ At(u).timestamp <= last_validation_timestamp
      BY <2>2, <3>2 DEF IInv, SeenByLast
    <3>4. last_validation_timestamp - messages[v[2]].timestamp < max_diff
      BY <3>1, <3>3 DEF Admitted
    <3>5. use.max_diff = max_diff
      BY <1>2
    <3> QED BY <1>4, <1>6, <1>7, <2>2, <3>1, <3>3, <3>4, <3>5
  <2>3. CASE /\ u[1] = Len(shown) + 1 /\ u[2] \in {1, 2} /\ u[2] <= Len(messages)
             /\ At(u)' = messages[u[2]]
             /\ v[1] = Len(shown) + 1 /\ v[2] \in {1, 2}
             /\ v[2] <= Len(messages) /\ At(v)' = messages[v[2]] /\ shown'[v[1]] = use
    <3>1. u[2] \in 1..Len(messages) /\ v[2] \in 1..Len(messages) /\ u[2] < v[2]
      BY <1>4, <2>3 DEF Before
    <3>2. messages[u[2]].timestamp - messages[v[2]].timestamp < max_diff
      BY <3>1 DEF Admitted
    <3> QED BY <1>2, <2>3, <3>2
  <2>4. CASE u[1] = Len(shown) + 1 /\ v \in Uses /\ v[1] <= Len(shown)
    <3>1. v[1] \in Nat
      BY <2>4 DEF Uses
    <3> QED BY <1>4, <2>4, <3>1 DEF Before
  <2> QED BY <1>3, <2>1, <2>2, <2>3, <2>4
<1> QED BY <1>5, <1>8, <1>9, <1>10 DEF IInv

LEMMA LastSound ==
  ASSUME IInv
  PROVE  /\ Last \in Validation /\ Last.epoch <= epoch /\ epoch \in Nat
         /\ Last.epoch = last_validation_epoch
         /\ Last.timestamp = last_validation_timestamp
         /\ last_validation_timestamp \in Nat /\ last_validation_timestamp <= clock
         /\ clock \in Nat /\ max_diff \in Nat
  BY DEF IInv, TypeOK, Validation, Last

\* A message is signed with the time of the signers' clock.
SignedInTime == \A m \in signed : m.timestamp <= clock

LEMMA UsePriceStep ==
  ASSUME IInv, SignedInTime, NEW m \in signed, UsePrice(m)
  PROVE  IInv'
<1> DEFINE last == Validated(Last, m)
<1>1. m \in Message /\ Verifies(m) /\ Fresh(Last, m) /\ Validate(last, <<m>>)
  BY DEF IInv, TypeOK, UsePrice, CanUse
<1>2. /\ last \in Validation /\ last.epoch = epoch /\ last.timestamp >= m.timestamp
      /\ Last.epoch = epoch => last.timestamp >= Last.timestamp
      /\ \/ last.timestamp = m.timestamp
         \/ Last.epoch = epoch /\ last.timestamp = Last.timestamp
  BY <1>1, LastSound, ValidatedSound
<1> HIDE DEF last
<1>3. last.timestamp \in 0..clock
  BY <1>1, <1>2, LastSound DEF Validation, Message, SignedInTime
<1>4. \/ \E x \in signed : x.timestamp = last.timestamp
      \/ last_validation_epoch = epoch /\ last_validation_timestamp = last.timestamp
  BY <1>2, LastSound
<1>5. Admitted(<<m>>, last)
  BY <1>1, <1>2, <1>3, <1>4, LastSound DEF Admitted, Verifies, Fresh, Message
<1>6. <<m>> \in Seq(Message)
  BY <1>1
<1> QED BY <1>1, <1>5, <1>6, ValidateStep

LEMMA UsePairStep ==
  ASSUME IInv, SignedInTime, NEW m1 \in signed, NEW m2 \in signed, UsePair(m1, m2)
  PROVE  IInv'
<1> DEFINE mid  == Validated(Last, m1)
           last == Validated(mid, m2)
<1>1. /\ m1 \in Message /\ Verifies(m1) /\ Fresh(Last, m1)
      /\ m2 \in Message /\ Verifies(m2) /\ Fresh(mid, m2)
      /\ Validate(last, <<m1, m2>>)
  BY DEF IInv, TypeOK, UsePair, CanUse
<1>2. /\ mid \in Validation /\ mid.epoch = epoch /\ mid.timestamp >= m1.timestamp
      /\ Last.epoch = epoch => mid.timestamp >= Last.timestamp
      /\ \/ mid.timestamp = m1.timestamp
         \/ Last.epoch = epoch /\ mid.timestamp = Last.timestamp
  BY <1>1, LastSound, ValidatedSound
<1> HIDE DEF mid
<1>3. /\ last \in Validation /\ last.epoch = epoch /\ last.timestamp >= m2.timestamp
      /\ last.timestamp >= mid.timestamp
      /\ last.timestamp = m2.timestamp \/ last.timestamp = mid.timestamp
  BY <1>1, <1>2, LastSound, ValidatedSound
<1> HIDE DEF last
<1>4. last.timestamp \in 0..clock
  BY <1>1, <1>2, <1>3, LastSound DEF Validation, Message, SignedInTime
<1>5. \/ \E x \in signed : x.timestamp = last.timestamp
      \/ last_validation_epoch = epoch /\ last_validation_timestamp = last.timestamp
  BY <1>2, <1>3, LastSound
<1>6. /\ mid.timestamp - m2.timestamp < max_diff
      /\ Last.epoch = epoch => Last.timestamp - m1.timestamp < max_diff
  BY <1>1, <1>2 DEF Fresh
<1>7. /\ {m1.timestamp, m2.timestamp, mid.timestamp, last.timestamp} \subseteq Nat
      /\ m1.epoch_at = epoch /\ m2.epoch_at = epoch
  BY <1>1, <1>2, <1>3 DEF Message, Validation, Verifies
<1>8. Admitted(<<m1, m2>>, last)
  <2> DEFINE ms == <<m1, m2>>
  <2>1. Len(ms) = 2 /\ ms[1] = m1 /\ ms[2] = m2
    OBVIOUS
  <2> HIDE DEF ms
  <2>2. \A n \in 1..Len(ms) :
          /\ ms[n].epoch_at = epoch
          /\ ms[n].timestamp <= last.timestamp
          /\ last_validation_epoch = epoch =>
               last_validation_timestamp - ms[n].timestamp < max_diff
    <3> SUFFICES ASSUME NEW n \in {1, 2}
                 PROVE  /\ ms[n].epoch_at = epoch
                        /\ ms[n].timestamp <= last.timestamp
                        /\ last_validation_epoch = epoch =>
                             last_validation_timestamp - ms[n].timestamp < max_diff
      BY <2>1
    <3>1. CASE n = 1
      BY <1>2, <1>3, <1>6, <1>7, <2>1, <3>1, LastSound
    <3>2. CASE n = 2
      BY <1>2, <1>3, <1>6, <1>7, <2>1, <3>2, LastSound
    <3> QED BY <3>1, <3>2
  <2>3. \A n, k \in 1..Len(ms) : k < n => ms[k].timestamp - ms[n].timestamp < max_diff
    <3>1. m1.timestamp - m2.timestamp < max_diff
      BY <1>2, <1>6, <1>7, LastSound
    <3> QED BY <2>1, <3>1
  <2>4. last_validation_epoch = epoch => last_validation_timestamp <= last.timestamp
    BY <1>2, <1>3, <1>7, LastSound
  <2>5. Admitted(ms, last)
    BY <1>3, <1>4, <1>5, <2>2, <2>3, <2>4 DEF Admitted
  <2> QED BY <2>5 DEF ms
<1>9. <<m1, m2>> \in Seq(Message)
  BY <1>1
<1> QED BY <1>1, <1>8, <1>9, ValidateStep

-----------------------------------------------------------------------------
(* The other steps *)

\* Settings, signing and the passing of time leave the uses alone.
LEMMA QuietStep ==
  ASSUME IInv, UNCHANGED <<validation, shown>>, epoch' \in Nat, epoch' >= epoch,
         clock' \in Nat, clock' >= clock, signed \subseteq signed', signed' \subseteq Message,
         known' \subseteq Quotes, pk_str' \in Keys, max_diff' \in Nat
  PROVE  IInv'
<1>1. UNCHANGED <<last_validation_epoch, last_validation_timestamp, shown>>
  BY DEF validation
<1>2. Uses' = Uses /\ \A u \in Uses : At(u)' = At(u)
  BY <1>1, UsesKept
<1>3. TypeOK'
  BY <1>1 DEF IInv, TypeOK
<1>4. \A u \in Uses : At(u).epoch_at \in Nat /\ At(u).timestamp \in Nat
  BY UseType DEF IInv
<1>5. epoch \in Nat /\ last_validation_epoch \in Nat /\ last_validation_epoch <= epoch
  BY DEF IInv, TypeOK
<1>6. SeenByLast'
  <2> SUFFICES ASSUME NEW u \in Uses
               PROVE  /\ At(u).epoch_at <= epoch'
                      /\ At(u).epoch_at = epoch' =>
                           /\ last_validation_epoch = epoch'
                           /\ At(u).timestamp <= last_validation_timestamp
    BY <1>1, <1>2 DEF SeenByLast
  <2> QED BY <1>4, <1>5 DEF IInv, SeenByLast
<1>7. LastSigned'
  BY <1>1, <1>5 DEF IInv, LastSigned
<1>8. StaleRefused'
  BY <1>1, <1>2 DEF IInv, StaleRefused, Before
<1> QED BY <1>3, <1>6, <1>7, <1>8 DEF IInv

LEMMA InitInv == Init => IInv /\ SignedInTime
<1> SUFFICES ASSUME Init PROVE IInv /\ SignedInTime
  OBVIOUS
<1>1. Uses = {}
  BY DEF Init, Uses
<1>2. TypeOK
  BY OracleAssumption DEF Init, TypeOK
<1> QED BY <1>1, <1>2 DEF Init, IInv, SeenByLast, LastSigned, StaleRefused, SignedInTime

LEMMA NextInv == IInv /\ SignedInTime /\ [Next]_vars => IInv' /\ SignedInTime'
<1> SUFFICES ASSUME IInv, SignedInTime, [Next]_vars PROVE IInv' /\ SignedInTime'
  OBVIOUS
<1> USE DEF settings, validation, world
<1>1. /\ epoch \in Nat /\ clock \in Nat /\ signed \subseteq Message
      /\ known \subseteq Quotes /\ pk_str \in Keys /\ max_diff \in Nat
      /\ \A m \in signed : m.timestamp \in Nat
  BY DEF IInv, TypeOK, Message
<1>2. CASE \E m \in signed : UsePrice(m)
  <2>1. PICK m \in signed : UsePrice(m)
    BY <1>2
  <2>2. UNCHANGED <<signed, clock>>
    BY <2>1 DEF UsePrice, Validate
  <2> QED BY <2>1, <2>2, UsePriceStep DEF SignedInTime
<1>3. CASE \E m1, m2 \in signed : UsePair(m1, m2)
  <2>1. PICK m1 \in signed, m2 \in signed : UsePair(m1, m2)
    BY <1>3
  <2>2. UNCHANGED <<signed, clock>>
    BY <2>1 DEF UsePair, Validate
  <2> QED BY <2>1, <2>2, UsePairStep DEF SignedInTime
<1>4. CASE \E quote \in Quotes : SetPriceQuoteInXrd(quote)
  BY <1>1, <1>4, QuietStep DEF SetPriceQuoteInXrd, SignedInTime
<1>5. CASE \E period \in Periods : SetValidityPeriod(period)
  BY <1>1, <1>5, QuietStep, OracleAssumption DEF SetValidityPeriod, SignedInTime
<1>6. CASE \E key \in Keys : SetVerifyPublicKey(key)
  BY <1>1, <1>6, QuietStep DEF SetVerifyPublicKey, SignedInTime
<1>7. CASE \E key \in Keys, quote \in Quotes : Sign(key, quote)
  <2>1. PICK key \in Keys, quote \in Quotes : Sign(key, quote)
    BY <1>7
  <2> DEFINE m == [quote |-> quote, epoch_at |-> epoch, timestamp |-> clock, key |-> key]
  <2>2. /\ m \in Message /\ m.timestamp = clock
        /\ signed' = signed \cup {m}
        /\ UNCHANGED <<settings, validation, epoch, clock, shown>>
    BY <1>1, <2>1 DEF Sign, Message
  <2> HIDE DEF m
  <2> QED BY <1>1, <2>2, QuietStep DEF SignedInTime
<1>8. CASE \E epochs \in {0, 1} : Pass(epochs)
  <2>1. /\ epoch' \in Nat /\ epoch' >= epoch /\ clock' = clock + 1
        /\ UNCHANGED <<settings, validation, signed, shown>>
    BY <1>1, <1>8 DEF Pass
  <2> QED BY <1>1, <2>1, QuietStep DEF SignedInTime
<1>9. CASE UNCHANGED vars
  BY <1>1, <1>9, QuietStep DEF vars, SignedInTime
<1> QED BY <1>2, <1>3, <1>4, <1>5, <1>6, <1>7, <1>8, <1>9 DEF Next

-----------------------------------------------------------------------------
(* What holds of every behaviour *)

\* The invariant of the oracle, with what it relies on of the signers' clock.
THEOREM OracleInvariant == Spec => [](IInv /\ SignedInTime)
<1> QED BY InitInv, NextInv, PTL DEF Spec

\* No price is used once a price newer by the validity period has been.
THEOREM StaleRefusedHolds == Spec => []StaleRefused
<1>1. IInv /\ SignedInTime => StaleRefused
  BY DEF IInv
<1> QED BY <1>1, OracleInvariant, PTL

\* The newest price signed in an epoch is accepted, whatever was used before.
THEOREM NewestAcceptedHolds == Spec => []NewestAccepted
<1>1. ASSUME IInv PROVE NewestAccepted
  <2> SUFFICES ASSUME NEW m \in signed, m.quote \in known, Verifies(m), max_diff > 0,
                      \A other \in signed : other.timestamp <= m.timestamp
               PROVE  CanUse(Last, m)
    BY DEF NewestAccepted
  <2>1. m.timestamp \in Nat /\ max_diff \in Nat /\ last_validation_timestamp \in Nat
    BY <1>1 DEF IInv, TypeOK, Message
  <2>2. last_validation_epoch = epoch => last_validation_timestamp <= m.timestamp
    BY <1>1, <2>1 DEF IInv, LastSigned
  <2> QED BY <2>1, <2>2 DEF CanUse, Fresh, Last
<1> QED BY <1>1, OracleInvariant, PTL
=============================================================================
