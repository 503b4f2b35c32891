----------------------------- MODULE KeeperProofs -----------------------------
(***************************************************************************)
(* Proofs about the validator keeper's logs, for any validators, weeks and *)
(* rewards: however they are logged, filled in and inserted, an entry of a *)
(* log that was given none its validator never had is what the validator   *)
(* had then, and a log that the admin left alone has an entry a week, the  *)
(* newest first.                                                           *)
(***************************************************************************)
EXTENDS KeeperProperties, LendResourcePoolProofs

\* The weeks of a log fall from one entry to the next.
Descending(log) == \A j, k \in 1..Len(log) : j < k => Week(log[k]) < Week(log[j])

TrueLog(v, log) == \A k \in 1..Len(log) : IsTrue(v, log[k])

\* What the log of v may be.
LogOf(v) ==
  {log \in Seq(StakeData) : /\ Len(log) > 0
                            /\ v \notin misstated => TrueLog(v, log)
                            /\ v \notin handled => Descending(log)}

KeeperInv ==
  /\ epoch \in Nat
  /\ staked \in [Validators -> Seq(Nat)]
  /\ \A v \in Validators : /\ Len(staked[v]) = epoch + 1
                            /\ \A e \in 1..epoch : staked[v][e] <= staked[v][e + 1]
  /\ DOMAIN validator_map \subseteq Validators /\ misstated \subseteq handled
  /\ \A v \in DOMAIN validator_map : validator_map[v] \in LogOf(v)

-----------------------------------------------------------------------------
(* Weeks *)

LEMMA WeekBounds ==
  ASSUME NEW e \in Nat
  PROVE  LET w == GetWeekIndex(e)
         IN  /\ w \in Nat /\ e <= w * A_WEEK_EPOCHS
             /\ w = 0 \/ (w - 1) * A_WEEK_EPOCHS < e
             /\ e > 0 => w > 0
<1> DEFINE A == A_WEEK_EPOCHS
           q == e \div A
<1>1. A \in Nat \ {0}
  BY KeeperAssumption
<1> HIDE DEF A
<1>2. q \in Nat /\ q * A <= e /\ e < q * A + A
  <2>1. e = A * q + (e % A) /\ e % A \in 0..(A - 1) /\ q \in Int
    BY <1>1
  <2>2. q \in Nat
    BY <1>1
  <2> HIDE DEF q
  <2>3. A * q = q * A /\ A * q \in Int
    BY <1>1, <2>2
  <2> QED BY <1>1, <2>1, <2>2, <2>3
<1> HIDE DEF q
<1>3. GetWeekIndex(e) = IF q * A < e THEN q + 1 ELSE q
  BY DEF GetWeekIndex, q, A
<1>4. /\ (q + 1) * A = q * A + A /\ (q + 1) - 1 = q /\ q * A \in Nat
      /\ q > 0 => (q - 1) * A = q * A - A
  BY <1>1, <1>2
<1>5. q = 0 => q * A = 0
  BY <1>1
<1>6. CASE q * A < e
  BY <1>1, <1>2, <1>3, <1>4, <1>6 DEF A
<1>7. CASE ~(q * A < e)
  <2>1. q * A = e
    BY <1>2, <1>4, <1>7
  <2>2. q = 0 \/ (q - 1) * A < e
    BY <1>1, <1>2, <1>4, <2>1
  <2>3. e > 0 => q > 0
    BY <1>2, <1>5, <2>1
  <2> QED BY <1>2, <1>3, <1>7, <2>1, <2>2, <2>3 DEF A
<1> QED BY <1>6, <1>7

\* A later epoch is in no earlier week.
LEMMA WeekMonotone ==
  ASSUME NEW d \in Nat, NEW e \in Nat, d <= e
  PROVE  GetWeekIndex(d) <= GetWeekIndex(e)
<1> DEFINE A == A_WEEK_EPOCHS
           v == GetWeekIndex(d)
           w == GetWeekIndex(e)
<1>1. /\ v \in Nat /\ w \in Nat /\ A \in Nat
      /\ e <= w * A
      /\ v = 0 \/ (v - 1) * A < d
  BY WeekBounds, KeeperAssumption
<1> HIDE DEF v, w, A
<1> SUFFICES ASSUME v > w PROVE FALSE
  BY <1>1 DEF v, w
<1>2. v - 1 \in Nat /\ w <= v - 1
  BY <1>1
<1>3. w * A <= (v - 1) * A
  BY <1>1, <1>2, TimesMonotone
<1>4. w * A \in Int /\ (v - 1) * A \in Int
  BY <1>1, <1>2
<1> QED BY <1>1, <1>3, <1>4

-----------------------------------------------------------------------------
(* Logs *)

LEMMA DataType == \A data \in StakeData : data.last_stake_epoch \in Nat
BY DEF StakeData

LEMMA EntryType ==
  ASSUME KeeperInv, NEW v \in Validators, NEW e \in Nat, e <= epoch
  PROVE  /\ StakeAt(v, e) \in StakeData
         /\ StakeAt(v, e).last_lsu = Units[v] /\ StakeAt(v, e).last_stake_epoch = e
         /\ Week(StakeAt(v, e)) = GetWeekIndex(e)
<1>1. Units[v] \in Nat
  BY KeeperAssumption
<1>2. staked[v][e + 1] \in Nat
  <2>1. staked[v] \in Seq(Nat) /\ Len(staked[v]) = epoch + 1 /\ epoch \in Nat
    BY DEF KeeperInv
  <2>2. e + 1 \in 1..Len(staked[v])
    BY <2>1
  <2> QED BY <2>1, <2>2
<1> QED BY <1>1, <1>2 DEF StakeAt, StakeData, Week

LEMMA LoggedIsLog ==
  ASSUME KeeperInv, NEW v \in DOMAIN validator_map
  PROVE  LET log == validator_map[v]
         IN  /\ Logged(v, log) \in LogOf(v)
             /\ NewWeek(log) =>
                  /\ Len(Logged(v, log)) > 1
                  /\ Logged(v, log)[1] = StakeAt(v, epoch) /\ Logged(v, log)[2] = log[1]
<1> DEFINE log == validator_map[v]
           x   == StakeAt(v, epoch)
           new == Logged(v, log)
<1>1. /\ v \in Validators /\ epoch \in Nat /\ log \in LogOf(v)
  BY DEF KeeperInv
<1>2. /\ log \in Seq(StakeData) /\ Len(log) \in Nat /\ Len(log) > 0
      /\ v \notin misstated => TrueLog(v, log)
      /\ v \notin handled => TrueLog(v, log) /\ Descending(log)
  BY <1>1 DEF LogOf, KeeperInv
<1>3. /\ x \in StakeData /\ IsTrue(v, x)
      /\ Week(x) = GetWeekIndex(epoch) /\ Week(x) \in Nat
  BY <1>1, EntryType, WeekBounds DEF IsTrue
<1>4. ASSUME TrueLog(v, log), NEW k \in 1..Len(log)
      PROVE  Week(log[k]) \in Nat /\ Week(log[k]) <= Week(x)
  <2>1. log[k] \in StakeData /\ log[k].last_stake_epoch <= epoch
    BY <1>2, <1>4 DEF TrueLog, IsTrue
  <2>2. log[k].last_stake_epoch \in Nat
    BY <2>1 DEF StakeData
  <2> QED BY <1>1, <1>3, <2>1, <2>2, WeekMonotone, WeekBounds DEF Week
<1>5. 1 \in 1..Len(log)
  BY <1>2
<1>6. CASE NewWeek(log)
  <2>1. new = <<x>> \o log
    BY <1>6 DEF Logged
  <2>2. Week(x) > Week(log[1])
    BY <1>3, <1>6 DEF NewWeek
  <2> HIDE DEF x, new, log
  <2>3. /\ new \in Seq(StakeData) /\ Len(new) = Len(log) + 1 /\ new[1] = x
        /\ \A k \in 2..Len(new) : new[k] = log[k - 1]
    BY <1>2, <1>3, <2>1
  <2>4. \A k \in 1..Len(new) : k = 1 \/ (k \in 2..Len(new) /\ k - 1 \in 1..Len(log))
    BY <1>2, <2>3
  <2>5. ASSUME v \notin misstated PROVE TrueLog(v, new)
    BY <1>2, <1>3, <2>3, <2>4, <2>5 DEF TrueLog
  <2>6. ASSUME v \notin handled, NEW j \in 1..Len(new), NEW k \in 1..Len(new), j < k
        PROVE  Week(new[k]) < Week(new[j])
    <3>1. TrueLog(v, log) /\ Descending(log)
      BY <1>2, <2>6
    <3>2. k \in 2..Len(new) /\ k - 1 \in 1..Len(log) /\ new[k] = log[k - 1]
      BY <1>2, <2>3, <2>4, <2>6
    <3>3. CASE j = 1
      <4>1. Week(log[k - 1]) \in Nat /\ Week(log[1]) \in Nat
        BY <1>4, <1>5, <3>1, <3>2
      <4>2. Week(log[k - 1]) <= Week(log[1])
        <5>1. k - 1 = 1 \/ 1 < k - 1
          BY <1>2, <3>2
        <5>2. 1 < k - 1 => Week(log[k - 1]) < Week(log[1])
          BY <1>5, <3>1, <3>2 DEF Descending
        <5> QED BY <4>1, <5>1, <5>2
      <4> QED BY <1>3, <2>2, <2>3, <3>2, <3>3, <4>1, <4>2
    <3>4. CASE j # 1
      <4>1. j - 1 \in 1..Len(log) /\ new[j] = log[j - 1] /\ j - 1 < k - 1
        BY <1>2, <2>3, <2>4, <2>6, <3>4
      <4> QED BY <3>1, <3>2, <4>1 DEF Descending
    <3> QED BY <3>3, <3>4
  <2>7. new \in LogOf(v) /\ Len(new) > 1 /\ new[2] = log[1]
    BY <1>2, <2>3, <2>5, <2>6 DEF LogOf, Descending
  <2> QED BY <2>3, <2>7 DEF new, x, log
<1>7. CASE ~NewWeek(log)
  <2>1. new = [log EXCEPT ![1] = x]
    BY <1>7 DEF Logged
  <2>2. ~(Week(x) > Week(log[1]))
    BY <1>3, <1>7 DEF NewWeek
  <2> HIDE DEF x, new, log
  <2>3. /\ new \in Seq(StakeData) /\ Len(new) = Len(log) /\ new[1] = x
        /\ \A k \in 1..Len(new) : k # 1 => new[k] = log[k]
    BY <1>2, <1>3, <2>1
  <2>4. ASSUME v \notin misstated PROVE TrueLog(v, new)
    BY <1>2, <1>3, <2>3, <2>4 DEF TrueLog
  <2>5. ASSUME v \notin handled PROVE Descending(new)
    <3>1. TrueLog(v, log) /\ Descending(log)
      BY <1>2, <2>5
    <3>2. Week(x) = Week(log[1])
      BY <1>3, <1>4, <1>5, <2>2, <3>1
    <3>3. \A k \in 1..Len(new) : Week(new[k]) = Week(log[k])
      BY <2>3, <3>2
    <3> QED BY <2>3, <3>1, <3>3 DEF Descending
  <2> QED BY <1>2, <1>7, <2>3, <2>4, <2>5 DEF LogOf, new, x, log
<1> QED BY <1>6, <1>7

LEMMA Concatenated ==
  ASSUME NEW S, NEW s \in Seq(S), NEW t \in Seq(S)
  PROVE  /\ s \o t \in Seq(S) /\ Len(s \o t) = Len(s) + Len(t)
         /\ \A j \in 1..(Len(s) + Len(t)) :
               (s \o t)[j] = IF j <= Len(s) THEN s[j] ELSE t[j - Len(s)]
  OBVIOUS

LEMMA InsertedEntries ==
  ASSUME NEW log \in Seq(StakeData), NEW x \in StakeData, NEW k \in 1..(Len(log) + 1)
  PROVE  LET new == InsertAt(log, k, x)
         IN  /\ new \in Seq(StakeData) /\ Len(new) = Len(log) + 1
             /\ \A j \in 1..Len(new) : new[j] = x \/ \E i \in 1..Len(log) : new[j] = log[i]
<1> DEFINE n   == Len(log)
           new == InsertAt(log, k, x)
<1>2. log \in Seq(StakeData) /\ n \in Nat
  OBVIOUS
<1>3. x \in StakeData
  OBVIOUS
<1>5. k \in 1..(n + 1)
  OBVIOUS
<1>6. new = SubSeq(log, 1, k - 1) \o <<x>> \o SubSeq(log, k, n)
  BY DEF InsertAt
<1> HIDE DEF new, n
<1>7. /\ new \in Seq(StakeData) /\ Len(new) = n + 1 /\ new[k] = x
      /\ \A j \in 1..(n + 1) : /\ j < k => new[j] = log[j]
                               /\ j > k => new[j] = log[j - 1]
  <2>1. n = Len(log)
    BY DEF n
  <2> DEFINE front == SubSeq(log, 1, k - 1)   back == SubSeq(log, k, n)
  <2>2. /\ front \in Seq(StakeData) /\ Len(front) = k - 1
        /\ \A j \in 1..(k - 1) : front[j] = log[j]
    BY <1>2, <1>5, <2>1
  <2>3. /\ back \in Seq(StakeData) /\ Len(back) = (n + 1) - k
        /\ \A j \in 1..((n + 1) - k) : back[j] = log[(j + k) - 1]
    BY <1>2, <1>5, <2>1
  <2> HIDE DEF front, back
  <2> DEFINE most == front \o <<x>>
  <2>4. /\ most \in Seq(StakeData) /\ Len(most) = k /\ most[k] = x
        /\ \A j \in 1..(k - 1) : most[j] = log[j]
    <3> DEFINE one == <<x>>
    <3>1. one \in Seq(StakeData) /\ Len(one) = 1 /\ one[1] = x
      OBVIOUS
    <3> HIDE DEF one
    <3>2. /\ front \o one \in Seq(StakeData) /\ Len(front \o one) = Len(front) + Len(one)
          /\ \A j \in 1..(Len(front) + Len(one)) :
                (front \o one)[j] = IF j <= Len(front) THEN front[j] ELSE one[j - Len(front)]
      BY ONLY <2>2, <3>1, Concatenated, Zenon
    <3>3. Len(front) + Len(one) = k /\ k \in 1..k /\ ~(k <= k - 1) /\ k - (k - 1) = 1
      BY <1>2, <1>5, <2>2, <3>1
    <3>4. \A j \in 1..(k - 1) : j \in 1..k /\ j <= k - 1
      BY <1>2, <1>5
    <3> QED BY <2>2, <3>1, <3>2, <3>3, <3>4 DEF one
  <2> HIDE DEF most
  <2>5. new = most \o back
    BY <1>6 DEF most, front, back
  <2>6. /\ new \in Seq(StakeData) /\ Len(new) = n + 1
        /\ \A j \in 1..k : new[j] = most[j]
        /\ \A j \in (k + 1)..(n + 1) : new[j] = back[j - k]
    <3>1. k \in Nat /\ Len(most) = k /\ Len(back) \in Nat /\ Len(most) + Len(back) = n + 1
      BY <1>2, <1>5, <2>3, <2>4
    <3>2. /\ new \in Seq(StakeData) /\ Len(new) = Len(most) + Len(back)
          /\ \A j \in 1..(Len(most) + Len(back)) :
                new[j] = IF j <= Len(most) THEN most[j] ELSE back[j - Len(most)]
      <4> DEFINE all == most \o back
      <4>1. most \in Seq(StakeData) /\ back \in Seq(StakeData)
        BY <2>3, <2>4
      <4>2. /\ all \in Seq(StakeData) /\ Len(all) = Len(most) + Len(back)
            /\ \A j \in 1..(Len(most) + Len(back)) :
                  all[j] = IF j <= Len(most) THEN most[j] ELSE back[j - Len(most)]
        BY ONLY <4>1, Concatenated, Zenon
      <4> QED BY <2>5, <4>2
    <3> QED BY <1>2, <1>5, <3>1, <3>2
  <2>7. new[k] = x /\ \A j \in 1..(n + 1) : j < k => new[j] = log[j]
    <3>1. k \in 1..k /\ \A j \in 1..(n + 1) : j < k => j \in 1..(k - 1) /\ j \in 1..k
      BY <1>2, <1>5
    <3> QED BY <2>4, <2>6, <3>1
  <2>8. ASSUME NEW j \in 1..(n + 1), j > k PROVE new[j] = log[j - 1]
    <3>1. j \in (k + 1)..(n + 1) /\ j - k \in 1..((n + 1) - k) /\ ((j - k) + k) - 1 = j - 1
      BY <1>2, <1>5, <2>8
    <3> QED BY <2>3, <2>6, <3>1
  <2> QED BY <2>6, <2>7, <2>8
<1>8. ASSUME NEW j \in 1..(n + 1) PROVE new[j] = x \/ \E i \in 1..n : new[j] = log[i]
  <2>1. j < k \/ j = k \/ j > k
    BY <1>5
  <2>2. (j < k => j \in 1..n) /\ (j > k => j - 1 \in 1..n)
    BY <1>2, <1>5
  <2> QED BY <1>7, <2>1, <2>2
<1> QED BY <1>2, <1>7, <1>8 DEF new, n

\* What the admin gives.
LEMMA EntriesType ==
  ASSUME KeeperInv, NEW v \in Validators
  PROVE  Entries(v) \subseteq StakeData
<1>1. Misstated[v] \subseteq StakeData /\ Backfills[v] \subseteq Nat /\ epoch \in Nat
  BY KeeperAssumption DEF KeeperInv
<1>2. \A e \in Backfills[v] \cap 0..epoch : e \in Nat /\ e <= epoch
  BY <1>1
<1> QED BY <1>1, <1>2, EntryType DEF Entries

\* The first entry of a validator that has no log.
LEMMA FirstIsLog ==
  ASSUME KeeperInv, NEW v \in Validators
  PROVE  LET log == <<StakeAt(v, epoch)>>
         IN  log \in Seq(StakeData) /\ Len(log) > 0 /\ TrueLog(v, log) /\ Descending(log)
<1> DEFINE x == StakeAt(v, epoch)   log == <<x>>
<1>1. x \in StakeData /\ IsTrue(v, x)
  BY EntryType DEF KeeperInv, IsTrue
<1> HIDE DEF x
<1>2. log \in Seq(StakeData) /\ Len(log) = 1 /\ log[1] = x
  BY <1>1
<1> HIDE DEF log
<1>3. \A k \in 1..Len(log) : k = 1
  BY <1>2
<1>4. Descending(log) /\ TrueLog(v, log)
  BY <1>1, <1>2, <1>3 DEF Descending, TrueLog
<1> QED BY <1>2, <1>4 DEF log, x

\* Time takes no entry out of a log.
LEMMA LogsStay ==
  ASSUME NEW v, epoch \in Nat, epoch' \in Nat, epoch <= epoch',
         \A e \in 0..epoch : StakeAt(v, e)' = StakeAt(v, e),
         NEW log \in Seq(StakeData), Len(log) > 0,
         v \notin misstated' => TrueLog(v, log), v \notin handled' => Descending(log)
  PROVE  log \in LogOf(v)'
<1>1. ASSUME v \notin misstated', NEW k \in 1..Len(log) PROVE IsTrue(v, log[k])'
  <2>1. log[k] \in StakeData /\ IsTrue(v, log[k])
    BY <1>1 DEF TrueLog
  <2>2. log[k].last_stake_epoch \in 0..epoch
    BY <2>1, DataType DEF IsTrue
  <2> QED BY <2>1, <2>2 DEF IsTrue
<1>2. (Descending(log))' <=> Descending(log)
  BY DEF Descending, Week, GetWeekIndex
<1> QED BY <1>1, <1>2 DEF LogOf, TrueLog

-----------------------------------------------------------------------------
(* Yields *)

\* Of the steps from d to e one is no larger, and one no smaller, than their mean.
LEMMA MeanOfSteps ==
  ASSUME NEW d \in Nat, NEW e \in Nat, d < e, NEW s, \A i \in d..e : s[i] \in Int
  PROVE  \E i \in (d + 1)..e : (e - d) * (s[i] - s[i - 1]) <= s[e] - s[d]
<1> SUFFICES ASSUME \A i \in (d + 1)..e : (e - d) * (s[i] - s[i - 1]) > s[e] - s[d]
             PROVE  FALSE
  <2>1. \A i \in (d + 1)..e : (e - d) * (s[i] - s[i - 1]) \in Int
    <3> TAKE i \in (d + 1)..e
    <3>1. s[i] \in Int /\ s[i - 1] \in Int /\ e - d \in Int
      OBVIOUS
    <3> QED BY <3>1
  <2>2. s[e] - s[d] \in Int
    OBVIOUS
  <2> QED BY <2>1, <2>2
<1> DEFINE n == e - d
           D == s[e] - s[d]
           A == {k \in Nat : k <= n => n * (s[d + k] - s[d]) >= k * (D + 1)}
<1>1. n \in Nat /\ n > 0 /\ D \in Int /\ d + n = e
  OBVIOUS
<1>2. 0 \in A
  <2>1. s[d] \in Int /\ d + 0 = d
    OBVIOUS
  <2>2. n * (s[d + 0] - s[d]) = 0 /\ 0 * (D + 1) = 0
    BY <1>1, <2>1
  <2> QED BY <2>2
<1>3. ASSUME NEW k \in A PROVE k + 1 \in A
  <2> SUFFICES ASSUME k + 1 <= n PROVE n * (s[d + (k + 1)] - s[d]) >= (k + 1) * (D + 1)
    OBVIOUS
  <2> DEFINE x == s[d + k] - s[d]
             i == d + (k + 1)
             y == s[i] - s[i - 1]
             z == s[i] - s[d]
  <2>1. k \in Nat /\ i \in (d + 1)..e /\ i - 1 = d + k /\ d + k \in d..e
    BY <1>1
  <2>2. x \in Int /\ y \in Int /\ z = x + y
    <3>1. s[d] \in Int /\ s[d + k] \in Int /\ s[i] \in Int
      BY <2>1
    <3> QED BY <2>1, <3>1
  <2>3. n * x >= k * (D + 1)
    BY <1>1
  <2>4. n * y > D
    BY <2>1
  <2> HIDE DEF x, y, z, n, D, A, i
  <2>5. n * z = n * x + n * y /\ n * x \in Int /\ n * y \in Int
    BY <1>1, <2>2
  <2>6. (k + 1) * (D + 1) = k * (D + 1) + D + 1 /\ k * (D + 1) \in Int
    BY <1>1, <2>1
  <2>7. n * z >= (k + 1) * (D + 1)
    BY <1>1, <2>3, <2>4, <2>5, <2>6
  <2> QED BY <2>7 DEF z, i
<1>4. A = Nat
  <2>1. A \in SUBSET Nat
    OBVIOUS
  <2> HIDE DEF A
  <2> QED BY <1>2, <1>3, <2>1, SetInduction
<1>5. n * (s[d + n] - s[d]) >= n * (D + 1)
  BY <1>1, <1>4
<1>6. s[d + n] - s[d] = D
  BY <1>1
<1> HIDE DEF n, D, A
<1>7. n * (D + 1) = n * D + n /\ n * D \in Int
  BY <1>1
<1> QED BY <1>1, <1>5, <1>6, <1>7

LEMMA MeanOfFalls ==
  ASSUME NEW d \in Nat, NEW e \in Nat, d < e, NEW s, \A i \in d..e : s[i] \in Int
  PROVE  \E i \in (d + 1)..e : (e - d) * (s[i] - s[i - 1]) >= s[e] - s[d]
<1> DEFINE r == [i \in d..e |-> -s[i]]
<1>1. \A i \in d..e : r[i] = -s[i] /\ r[i] \in Int
  OBVIOUS
<1> HIDE DEF r
<1>2. PICK i \in (d + 1)..e : (e - d) * (r[i] - r[i - 1]) <= r[e] - r[d]
  BY <1>1, MeanOfSteps
<1>3. i \in d..e /\ i - 1 \in d..e /\ e \in d..e /\ d \in d..e
  OBVIOUS
<1> DEFINE n == e - d   x == s[i] - s[i - 1]   D == s[e] - s[d]
<1>4. n \in Int /\ x \in Int /\ D \in Int /\ r[i] - r[i - 1] = -x /\ r[e] - r[d] = -D
  BY <1>1, <1>3
<1>5. n * (-x) <= -D
  BY <1>2, <1>4
<1> HIDE DEF n, x, D
<1>6. n * (-x) = -(n * x) /\ n * x \in Int
  BY <1>4
<1>7. n * x >= D
  BY <1>4, <1>5, <1>6
<1> QED BY <1>7 DEF n, x, D

\* What a year earns at the difference of two values of a unit, n epochs apart,
\* is what it earns at their mean difference, to the last digit of the values.
LEMMA YearOfDifference ==
  ASSUME NEW a \in Nat, NEW b \in Nat, b <= a, NEW u \in Nat \ {0}, NEW n \in Nat \ {0},
         NEW m \in Int
  PROVE  LET diff == DDiv(a, u) - DDiv(b, u)
             year == (m * ONE * EPOCH_OF_YEAR) \div u
             apy  == Trunc(diff * EPOCH_OF_YEAR, n)
         IN  /\ apy \in Int /\ year \in Int
             /\ n * m <= a - b => apy >= year - EPOCH_OF_YEAR
             /\ n * m >= a - b => apy <= year + EPOCH_OF_YEAR
<1> DEFINE p    == DDiv(a, u)
           q    == DDiv(b, u)
           E    == EPOCH_OF_YEAR
           diff == p - q
           top  == m * ONE * E
           year == top \div u
           apy  == Trunc(diff * E, n)
           D    == a - b
<1>1. /\ p \in Nat /\ p * u <= a * ONE /\ a * ONE < p * u + u /\ p * u \in Nat
      /\ q \in Nat /\ q * u <= b * ONE /\ b * ONE < q * u + u /\ q * u \in Nat
      /\ a * ONE \in Nat /\ b * ONE \in Nat
  BY DDivBounds
<1>2. ONE \in Nat \ {0} /\ E \in Nat \ {0}
  BY DecimalsAssumption
<1>3. D \in Nat /\ a * ONE - b * ONE = D * ONE /\ D * ONE \in Nat
  BY <1>2
<1> HIDE DEF E, p, q
<1>4. p >= q
  <2>1. b * ONE <= a * ONE
    BY <1>2, TimesMonotone
  <2> SUFFICES ASSUME p + 1 <= q PROVE FALSE
    BY <1>1
  <2>2. (p + 1) * u <= q * u
    BY <1>1, TimesMonotone
  <2>3. (p + 1) * u = p * u + u
    BY <1>1
  <2> QED BY <1>1, <2>1, <2>2, <2>3
<1>5. /\ diff \in Nat /\ diff * u = p * u - q * u
      /\ diff * u > D * ONE - u /\ diff * u < D * ONE + u /\ diff * u \in Int
  <2>1. diff \in Nat /\ diff * u = p * u - q * u
    BY <1>1, <1>4
  <2> HIDE DEF D, diff
  <2> QED BY <1>1, <1>3, <2>1
<1>6. diff * E \in Nat
  BY <1>2, <1>5
<1>7. top \in Int
  <2>1. m * ONE \in Int
    BY <1>2
  <2> QED BY <1>2, <2>1
<1> HIDE DEF top, diff, D
<1>8. year \in Int /\ year * u <= top /\ top < year * u + u /\ year * u \in Int
  BY <1>7
<1>9. apy \in Int /\ apy * n \in Int /\ apy * n <= diff * E /\ diff * E < apy * n + n
  BY <1>6, TruncBounds
<1> HIDE DEF year, apy
\* Everything times n * u, the two denominators.
<1> DEFINE N == n * u   dE == (diff * E) * u
<1>10. N \in Nat /\ dE \in Int
  BY <1>6
<1>11. /\ (apy * n) * u = apy * N /\ (apy * n + n) * u = apy * N + N
       /\ apy * N \in Int /\ year * N \in Int
       /\ (year * u) * n = year * N /\ (year * u + u) * n = year * N + N
       /\ E * N \in Int
  BY <1>2, <1>8, <1>9, <1>10
<1>12. apy * N <= dE /\ dE < apy * N + N
  <2>1. (apy * n) * u <= dE
    BY <1>6, <1>9, TimesMonotone
  <2>2. (diff * E + 1) * u <= (apy * n + n) * u
    BY <1>6, <1>9, TimesMonotone
  <2>3. (diff * E + 1) * u = dE + u
    BY <1>6
  <2> QED BY <1>10, <1>11, <2>1, <2>2, <2>3
<1>13. /\ dE = (diff * u) * E
       /\ (D * ONE) * E \in Int /\ u * E \in Int
       /\ (D * ONE - u) * E = (D * ONE) * E - u * E
       /\ (D * ONE + u) * E = (D * ONE) * E + u * E
  BY <1>2, <1>3, <1>5
<1>14. /\ (D * ONE) * E - u * E + E <= dE
       /\ dE + E <= (D * ONE) * E + u * E
  <2>1. (D * ONE - u + 1) * E <= (diff * u) * E
    BY <1>2, <1>3, <1>5, TimesMonotone
  <2>2. (D * ONE - u + 1) * E = (D * ONE) * E - u * E + E
    BY <1>2, <1>3
  <2>3. (diff * u + 1) * E <= (D * ONE + u) * E
    BY <1>2, <1>3, <1>5, TimesMonotone
  <2>4. (diff * u + 1) * E = (diff * u) * E + E
    BY <1>2, <1>5
  <2> QED BY <1>2, <1>5, <1>10, <1>13, <2>1, <2>2, <2>3, <2>4
<1>15. u * E <= E * N
  <2>1. 1 * (u * E) <= n * (u * E)
    BY <1>2, <1>13, TimesMonotone
  <2>2. n * (u * E) = E * N /\ 1 * (u * E) = u * E
    BY <1>2
  <2> QED BY <2>1, <2>2
<1>16. top * n = ((n * m) * ONE) * E /\ top * n \in Int
  BY <1>2, <1>7 DEF top
<1>17. ASSUME n * m <= D PROVE apy >= year - E
  <2> SUFFICES ASSUME apy + 1 + E <= year PROVE FALSE
    BY <1>2, <1>8, <1>9
  <2>1. top * n <= (D * ONE) * E
    <3>1. n * m \in Int
      OBVIOUS
    <3>2. (n * m) * ONE <= D * ONE /\ (n * m) * ONE \in Int
      BY <1>2, <1>3, <1>17, <3>1, TimesMonotone
    <3>3. ((n * m) * ONE) * E <= (D * ONE) * E
      BY <1>2, <1>3, <3>2, TimesMonotone
    <3> QED BY <1>16, <3>3
  <2>2. year * N <= top * n
    BY <1>7, <1>8, <1>11, TimesMonotone
  <2>3. (apy + 1 + E) * N <= year * N
    BY <1>2, <1>8, <1>9, <1>10, TimesMonotone
  <2>4. (apy + 1 + E) * N = apy * N + N + E * N
    BY <1>2, <1>9, <1>10
  <2> QED BY <1>2, <1>10, <1>11, <1>12, <1>13, <1>14, <1>15, <1>16, <2>1, <2>2, <2>3, <2>4
<1>18. ASSUME n * m >= D PROVE apy <= year + E
  <2> SUFFICES ASSUME year + E + 1 <= apy PROVE FALSE
    BY <1>2, <1>8, <1>9
  <2>1. top * n >= (D * ONE) * E
    <3>1. n * m \in Int
      OBVIOUS
    <3>2. D * ONE <= (n * m) * ONE /\ (n * m) * ONE \in Int
      BY <1>2, <1>3, <1>18, <3>1, TimesMonotone
    <3>3. (D * ONE) * E <= ((n * m) * ONE) * E
      BY <1>2, <1>3, <3>2, TimesMonotone
    <3> QED BY <1>16, <3>3
  <2>2. top * n <= (year * u + u) * n
    BY <1>7, <1>8, TimesMonotone
  <2>3. (year + E + 1) * N <= apy * N
    BY <1>2, <1>8, <1>9, <1>10, TimesMonotone
  <2>4. (year + E + 1) * N = year * N + E * N + N
    BY <1>2, <1>8, <1>10
  <2> QED BY <1>2, <1>10, <1>11, <1>12, <1>13, <1>14, <1>15, <1>16, <2>1, <2>2, <2>3, <2>4
<1> QED BY <1>8, <1>9, <1>17, <1>18 DEF apy, year, top, diff, D, p, q, E

\* Each yield lies between what the validator made in two of the recent epochs.
LEMMA ApyOfOne ==
  ASSUME KeeperInv, NEW v \in ActiveSet, v \notin misstated
  PROVE  LET apy == ValidatorApy(validator_map[v])
         IN  /\ apy \in Int
             /\ \A e \in Recent : YearOf(v, Earned(v, e)) \in Int
             /\ \E e \in Recent : apy >= YearOf(v, Earned(v, e)) - EPOCH_OF_YEAR
             /\ \E e \in Recent : apy <= YearOf(v, Earned(v, e)) + EPOCH_OF_YEAR
<1> DEFINE log == validator_map[v]
           e1  == log[1].last_stake_epoch
           e2  == log[2].last_stake_epoch
           s   == [i \in 0..epoch |-> staked[v][i + 1]]
           u   == Units[v]
<1>1. v \in DOMAIN validator_map /\ HasApy(log)
  BY DEF ActiveSet
<1>2. v \in Validators /\ log \in LogOf(v) /\ epoch \in Nat
  BY <1>1 DEF KeeperInv
<1>3. 1 \in 1..Len(log) /\ 2 \in 1..Len(log)
  <2>1. log \in Seq(StakeData)
    BY <1>2 DEF LogOf
  <2> HIDE DEF log
  <2>2. Len(log) \in Nat /\ Len(log) > 1
    BY <1>1, <2>1 DEF HasApy
  <2> QED BY <2>2
<1>4. /\ log[1] \in StakeData /\ log[1] = StakeAt(v, e1) /\ e1 <= epoch
      /\ log[2] \in StakeData /\ log[2] = StakeAt(v, e2) /\ e2 <= epoch
  <2>1. /\ log \in Seq(StakeData)
        /\ \A k \in 1..Len(log) : /\ log[k] = StakeAt(v, log[k].last_stake_epoch)
                                  /\ log[k].last_stake_epoch <= epoch
    BY <1>2 DEF LogOf, TrueLog, IsTrue
  <2> QED BY <1>3, <2>1
<1>5. /\ Week(log[1]) >= GetWeekIndex(epoch) - 1 /\ Week(log[2]) = Week(log[1]) - 1
      /\ log[1].last_lsu # 0
  BY <1>1 DEF HasApy
<1>6. ValidatorApy(log) = Trunc((Index(log[1]) - Index(log[2])) * EPOCH_OF_YEAR, e1 - e2)
  BY DEF ValidatorApy
<1> HIDE DEF log
<1>7. /\ e1 \in Nat /\ e2 \in Nat
      /\ Week(log[1]) = GetWeekIndex(e1) /\ Week(log[2]) = GetWeekIndex(e2)
  BY <1>4 DEF StakeData, Week
<1> HIDE DEF e1, e2
<1>8. GetWeekIndex(e1) \in Nat /\ GetWeekIndex(e2) \in Nat /\ GetWeekIndex(epoch) \in Nat
  BY <1>2, <1>7, WeekBounds
<1>9. e2 < e1
  <2>1. e1 <= e2 => GetWeekIndex(e1) <= GetWeekIndex(e2)
    BY <1>7, WeekMonotone
  <2> QED BY <1>5, <1>7, <1>8, <2>1
<1>10. ASSUME NEW i \in (e2 + 1)..e1 PROVE i \in Recent /\ Earned(v, i) = s[i] - s[i - 1]
  <2>1. i \in Nat /\ i \in 1..epoch /\ e2 <= i /\ i - 1 \in 0..epoch /\ (i - 1) + 1 = i
    BY <1>2, <1>4, <1>7
  <2>2. GetWeekIndex(i) >= GetWeekIndex(e2) /\ GetWeekIndex(i) \in Nat
    BY <1>7, <2>1, WeekMonotone, WeekBounds
  <2>3. GetWeekIndex(i) >= GetWeekIndex(epoch) - 2
    BY <1>5, <1>7, <1>8, <2>2
  <2> QED BY <2>1, <2>3 DEF Recent, Earned
<1>11. \A i \in 0..epoch : s[i] \in Nat
  <2> TAKE i \in 0..epoch
  <2>1. staked[v] \in Seq(Nat) /\ Len(staked[v]) = epoch + 1
    BY <1>2 DEF KeeperInv
  <2>2. i + 1 \in 1..Len(staked[v])
    BY <1>2, <2>1
  <2>3. staked[v][i + 1] \in Nat
    BY <2>1, <2>2
  <2> QED BY <2>3
<1>12. \A i \in 1..epoch : s[i - 1] <= s[i]
  <2> TAKE i \in 1..epoch
  <2>1. staked[v][i] <= staked[v][i + 1]
    BY <1>2 DEF KeeperInv
  <2>2. i - 1 \in 0..epoch /\ i \in 0..epoch /\ (i - 1) + 1 = i
    BY <1>2
  <2> QED BY <2>1, <2>2
<1>13. e1 \in 0..epoch /\ e2 \in 0..epoch
  BY <1>2, <1>4, <1>7
<1>14. /\ Index(log[1]) = DDiv(s[e1], u) /\ Index(log[2]) = DDiv(s[e2], u)
       /\ u \in Nat \ {0}
  <2>1. log[1].last_staked = s[e1] /\ log[1].last_lsu = u
    BY <1>4, <1>13 DEF StakeAt
  <2>2. log[2].last_staked = s[e2] /\ log[2].last_lsu = u
    BY <1>4, <1>13 DEF StakeAt
  <2>3. u \in Nat
    BY <1>2, KeeperAssumption
  <2> QED BY <1>5, <2>1, <2>2, <2>3 DEF Index
<1> HIDE DEF s, u
<1>15. \A i \in e2..e1 : s[i] \in Int
  <2>1. \A i \in e2..e1 : i \in 0..epoch
    BY <1>2, <1>13
  <2> QED BY <1>11, <2>1
<1>16. PICK i \in (e2 + 1)..e1 : (e1 - e2) * (s[i] - s[i - 1]) <= s[e1] - s[e2]
  BY <1>7, <1>9, <1>15, MeanOfSteps
<1>17. PICK j \in (e2 + 1)..e1 : (e1 - e2) * (s[j] - s[j - 1]) >= s[e1] - s[e2]
  BY <1>7, <1>9, <1>15, MeanOfFalls
<1>18. s[e2] <= s[e1]
  <2>1. \A a, b \in Nat : a > b => a - b \in Nat \ {0}
    OBVIOUS
  <2>2. j - 1 \in 0..epoch /\ j \in 0..epoch /\ i - 1 \in 0..epoch /\ i \in 1..epoch
    BY <1>2, <1>7, <1>13
  <2> DEFINE n == e1 - e2   x == s[i] - s[i - 1]
  <2>3. n \in Nat /\ x \in Nat
    <3>1. s[i] \in Nat /\ s[i - 1] \in Nat /\ s[i - 1] <= s[i]
      BY <1>11, <1>12, <2>2
    <3> QED BY <1>7, <1>9, <3>1
  <2>4. n * x <= s[e1] - s[e2]
    BY <1>16
  <2> HIDE DEF n, x
  <2>5. n * x \in Nat
    BY <2>3
  <2>6. s[e1] \in Nat /\ s[e2] \in Nat
    BY <1>11, <1>13
  <2> QED BY <2>4, <2>5, <2>6
<1> DEFINE apy  == ValidatorApy(validator_map[v])
           a    == s[e1]
           b    == s[e2]
           n    == e1 - e2
<1>19. a \in Nat /\ b \in Nat /\ n \in Nat \ {0}
  BY <1>7, <1>9, <1>11, <1>13
<1>20. apy = Trunc((DDiv(a, u) - DDiv(b, u)) * EPOCH_OF_YEAR, n)
  BY <1>6, <1>14 DEF log
<1>21. \A e \in Recent : Earned(v, e) \in Int
  <2> TAKE e \in Recent
  <2>1. e \in 1..epoch /\ e \in 0..epoch /\ e - 1 \in 0..epoch /\ (e - 1) + 1 = e
    BY <1>2 DEF Recent
  <2>2. Earned(v, e) = s[e] - s[e - 1] /\ s[e] \in Nat /\ s[e - 1] \in Nat
    BY <1>11, <2>1 DEF Earned, s
  <2> QED BY <2>2
<1> HIDE DEF apy, a, b, n
<1>22. ASSUME NEW m \in Int
       PROVE  /\ apy \in Int /\ YearOf(v, m) \in Int
              /\ n * m <= a - b => apy >= YearOf(v, m) - EPOCH_OF_YEAR
              /\ n * m >= a - b => apy <= YearOf(v, m) + EPOCH_OF_YEAR
  BY <1>14, <1>18, <1>19, <1>20, YearOfDifference DEF YearOf, u, a, b
<1>23. n * Earned(v, i) <= a - b /\ i \in Recent
  BY <1>10, <1>16 DEF a, b, n
<1>24. n * Earned(v, j) >= a - b /\ j \in Recent
  BY <1>10, <1>17 DEF a, b, n
<1>25. apy \in Int /\ \A e \in Recent : YearOf(v, Earned(v, e)) \in Int
  BY <1>21, <1>22, <1>23
<1>26. apy >= YearOf(v, Earned(v, i)) - EPOCH_OF_YEAR
  BY <1>21, <1>22, <1>23
<1>27. apy <= YearOf(v, Earned(v, j)) + EPOCH_OF_YEAR
  BY <1>21, <1>22, <1>24
<1> QED BY <1>23, <1>24, <1>25, <1>26, <1>27 DEF apy

\* So does the mean of the yields of the active set.
LEMMA ApyOfSet ==
  ASSUME KeeperInv
  PROVE  ApyWithinEarnings
<1> DEFINE S == ActiveSet
           f == [v \in S |-> ValidatorApy(validator_map[v])]
           E == EPOCH_OF_YEAR
           apy == GetActiveSetApy
           sum == SetSum(f, S)
           n == Cardinality(S)
<1> SUFFICES ASSUME S # {}, S \cap misstated = {}
             PROVE  /\ \E v \in S, e \in Recent : apy >= YearOf(v, Earned(v, e)) - E
                    /\ \E v \in S, e \in Recent : apy <= YearOf(v, Earned(v, e)) + E
  BY DEF ApyWithinEarnings
<1>1. IsFiniteSet(S)
  <2>1. S \subseteq Validators
    BY DEF ActiveSet, KeeperInv
  <2> QED BY <2>1, KeeperAssumption, FS_Subset
<1>2. n \in Nat \ {0}
  BY <1>1, FS_CardinalityType, FS_EmptySet
<1>3. \A v \in S : f[v] = ValidatorApy(validator_map[v])
  OBVIOUS
<1>4. MapThenSumSet(LAMBDA v : ValidatorApy(validator_map[v]), S) = SetSum(f, S)
  <2> DEFINE F(g) == [s \in SUBSET S |->
                        IF s = {} THEN 0
                        ELSE ValidatorApy(validator_map[OneOf(s)]) + g[s \ {OneOf(s)}]]
             H(g) == [s \in SUBSET S |->
                        IF s = {} THEN 0 ELSE f[OneOf(s)] + g[s \ {OneOf(s)}]]
  <2> HIDE DEF S, f
  <2>1. \A s \in SUBSET S : s # {} => f[OneOf(s)] = ValidatorApy(validator_map[OneOf(s)])
    BY <1>3, OneOfType
  <2>2. \A g : F(g) = H(g)
    BY <2>1
  <2>3. MapThenSumSet(LAMBDA v : ValidatorApy(validator_map[v]), S) = (CHOOSE g : g = F(g))[S]
    BY Zenon DEF MapThenSumSet, MapThenFoldSet, OneOf
  <2>4. SetSum(f, S) = (CHOOSE g : g = H(g))[S]
    BY Zenon, SetSumDef DEF Adds
  <2> HIDE DEF F, H
  <2>5. (CHOOSE g : g = F(g)) = (CHOOSE g : g = H(g))
    BY <2>2, Zenon
  <2> QED BY <2>3, <2>4, <2>5, Zenon
<1>5. apy = Trunc(sum, n)
  BY <1>4 DEF GetActiveSetApy
<1>6. /\ \A v \in S : f[v] \in Int
      /\ \A v \in S, e \in Recent : YearOf(v, Earned(v, e)) \in Int
      /\ \A v \in S : \E e \in Recent : f[v] >= YearOf(v, Earned(v, e)) - E
      /\ \A v \in S : \E e \in Recent : f[v] <= YearOf(v, Earned(v, e)) + E
  <2>1. \A v \in S : v \notin misstated
    OBVIOUS
  <2> QED BY <1>3, <2>1, ApyOfOne
<1> HIDE DEF f, S
<1>7. sum \in Int
  BY <1>1, <1>6, SetSumType
<1> HIDE DEF apy, n, sum
<1>8. apy \in Int /\ E \in Int
  BY <1>2, <1>5, <1>7, TruncType, DecimalsAssumption
<1>9. \E v \in S : f[v] <= apy
  <2> SUFFICES ASSUME \A v \in S : apy + 1 <= f[v] PROVE FALSE
    BY <1>6, <1>8
  <2>1. (apy + 1) * n <= sum
    BY <1>1, <1>6, <1>8, SetSumBounds DEF sum, n
  <2>2. (apy + 1) * n = apy * n + n /\ apy * n \in Int
    BY <1>2, <1>8
  <2>3. sum < apy * n + n
    BY <1>2, <1>5, <1>7, TruncBounds
  <2> QED BY <1>2, <1>7, <2>1, <2>2, <2>3
<1>10. \E v \in S : apy <= f[v]
  <2> SUFFICES ASSUME \A v \in S : f[v] <= apy - 1 PROVE FALSE
    BY <1>6, <1>8
  <2>1. sum <= (apy - 1) * n
    BY <1>1, <1>6, <1>8, SetSumBounds DEF sum, n
  <2>2. (apy - 1) * n = apy * n - n /\ apy * n \in Int
    BY <1>2, <1>8
  <2>3. apy * n < sum + n
    BY <1>2, <1>5, <1>7, TruncBounds
  <2> QED BY <1>2, <1>7, <2>1, <2>2, <2>3
<1>11. \E v \in S, e \in Recent : apy >= YearOf(v, Earned(v, e)) - E
  <2>1. PICK v \in S : f[v] <= apy
    BY <1>9
  <2>2. PICK e \in Recent : f[v] >= YearOf(v, Earned(v, e)) - E
    BY <1>6
  <2>3. f[v] \in Int /\ YearOf(v, Earned(v, e)) \in Int
    BY <1>6
  <2>4. apy >= YearOf(v, Earned(v, e)) - E
    BY <1>8, <2>1, <2>2, <2>3
  <2> QED BY <2>4
<1>12. \E v \in S, e \in Recent : apy <= YearOf(v, Earned(v, e)) + E
  <2>1. PICK v \in S : apy <= f[v]
    BY <1>10
  <2>2. PICK e \in Recent : f[v] <= YearOf(v, Earned(v, e)) + E
    BY <1>6
  <2>3. f[v] \in Int /\ YearOf(v, Earned(v, e)) \in Int
    BY <1>6
  <2>4. apy <= YearOf(v, Earned(v, e)) + E
    BY <1>8, <2>1, <2>2, <2>3
  <2> QED BY <2>4
<1> QED BY <1>11, <1>12

-----------------------------------------------------------------------------
(* Steps *)

LEMMA KeeperStays == KeeperInv /\ UNCHANGED vars => KeeperInv'
BY DEF vars, KeeperInv, LogOf, TrueLog, IsTrue, Descending, Week, StakeAt

LEMMA LogStep ==
  ASSUME KeeperInv, NEW add \in SUBSET Validators, NEW remove \in SUBSET Validators,
         LogValidatorStaking(add, remove)
  PROVE  KeeperInv'
<1> DEFINE kept == DOMAIN validator_map \ remove
           Entry(v) == IF v \in kept THEN Logged(v, validator_map[v]) ELSE <<StakeAt(v, epoch)>>
<1>1. /\ validator_map' = [v \in kept \cup add |-> Entry(v)]
      /\ epoch' = epoch /\ staked' = staked
      /\ handled' = handled \cap kept /\ misstated' = misstated \cap kept
  BY Zenon DEF LogValidatorStaking
<1>2. /\ kept \subseteq DOMAIN validator_map /\ kept \cup add \subseteq Validators
      /\ epoch \in Nat /\ misstated \subseteq handled
  BY DEF KeeperInv
<1>3. ASSUME NEW v \in kept \cup add
      PROVE  /\ Entry(v) \in Seq(StakeData) /\ Len(Entry(v)) > 0
             /\ v \notin misstated' => TrueLog(v, Entry(v))
             /\ v \notin handled' => Descending(Entry(v))
  <2>1. CASE v \in kept
    <3>1. Entry(v) = Logged(v, validator_map[v]) /\ Logged(v, validator_map[v]) \in LogOf(v)
      BY <1>2, <2>1, LoggedIsLog
    <3>2. (v \in misstated' <=> v \in misstated) /\ (v \in handled' <=> v \in handled)
      BY <1>1, <2>1
    <3> QED BY <3>1, <3>2 DEF LogOf
  <2>2. CASE v \notin kept
    BY <1>2, <2>2, FirstIsLog
  <2> QED BY <2>1, <2>2
<1> HIDE DEF Entry, kept
<1>4. DOMAIN validator_map' = kept \cup add
  BY <1>1
<1>5. ASSUME NEW v \in DOMAIN validator_map' PROVE validator_map'[v] \in LogOf(v)'
  <2>1. validator_map'[v] = Entry(v) /\ v \in kept \cup add
    BY <1>1, <1>4
  <2>2. epoch' \in Nat /\ epoch <= epoch' /\ \A e \in 0..epoch : StakeAt(v, e)' = StakeAt(v, e)
    BY <1>1, <1>2 DEF StakeAt
  <2> QED BY <1>2, <1>3, <2>1, <2>2, LogsStay
<1>6. misstated' \subseteq handled'
  BY <1>1, <1>2
<1> QED BY <1>1, <1>2, <1>4, <1>5, <1>6 DEF KeeperInv

\* What the admin gave a validator's log, and the other logs.
LEMMA GivenStep ==
  ASSUME KeeperInv, NEW v \in Validators, NEW data, NEW log,
         Given(v, data),
         log \in Seq(StakeData), Len(log) > 0,
         v \notin misstated' => TrueLog(v, log),
         DOMAIN validator_map' = DOMAIN validator_map \cup {v},
         validator_map'[v] = log,
         \A w \in DOMAIN validator_map : w # v => validator_map'[w] = validator_map[w]
  PROVE  KeeperInv'
<1>1. /\ epoch' = epoch /\ staked' = staked /\ handled' = handled \cup {v}
      /\ misstated' = misstated \/ misstated' = misstated \cup {v}
  BY Zenon DEF Given
<1>2. /\ epoch \in Nat /\ DOMAIN validator_map \subseteq Validators /\ misstated \subseteq handled
  BY DEF KeeperInv
<1>3. ASSUME NEW w \in DOMAIN validator_map' PROVE validator_map'[w] \in LogOf(w)'
  <2>1. epoch' \in Nat /\ epoch <= epoch' /\ \A e \in 0..epoch : StakeAt(w, e)' = StakeAt(w, e)
    BY <1>1, <1>2 DEF StakeAt
  <2>2. CASE w = v
    <3>1. w \in handled'
      BY <1>1, <2>2
    <3> QED BY <1>2, <2>1, <2>2, <3>1, LogsStay
  <2>3. CASE w # v
    <3>1. /\ validator_map'[w] = validator_map[w] /\ validator_map[w] \in LogOf(w)
      BY <2>3 DEF KeeperInv
    <3>2. (w \in misstated' <=> w \in misstated) /\ (w \in handled' <=> w \in handled)
      BY <1>1, <2>3
    <3>3. /\ validator_map[w] \in Seq(StakeData) /\ Len(validator_map[w]) > 0
          /\ w \notin misstated' => TrueLog(w, validator_map[w])
          /\ w \notin handled' => Descending(validator_map[w])
      BY <3>1, <3>2 DEF LogOf
    <3> QED BY <1>2, <2>1, <3>1, <3>3, LogsStay
  <2> QED BY <2>2, <2>3
<1>4. misstated' \subseteq handled' /\ DOMAIN validator_map' \subseteq Validators
  BY <1>1, <1>2
<1> QED BY <1>1, <1>3, <1>4 DEF KeeperInv

LEMMA FillStep ==
  ASSUME KeeperInv, NEW v \in Validators, NEW data \in BoundedSeq(Entries(v), MaxFill),
         FillValidatorStaking(v, data)
  PROVE  KeeperInv'
<1>1. PICK m \in 0..MaxFill : data \in [1..m -> Entries(v)]
  BY DEF BoundedSeq, SeqOf
<1>2. data \in Seq(StakeData) /\ data # <<>>
  <2>1. m \in Nat /\ Entries(v) \subseteq StakeData
    BY <1>1, KeeperAssumption, EntriesType
  <2>2. data \in Seq(StakeData)
    BY <1>1, <2>1
  <2> QED BY <2>2 DEF FillValidatorStaking
<1>3. Len(data) > 0
  BY <1>2
<1>4. CASE v \in DOMAIN validator_map
  <2>1. UNCHANGED vars
    BY <1>4 DEF FillValidatorStaking
  <2> QED BY <2>1, KeeperStays
<1>5. CASE v \notin DOMAIN validator_map
  <2>1. /\ validator_map' = [w \in DOMAIN validator_map \cup {v} |->
                               IF w = v THEN data ELSE validator_map[w]]
        /\ Given(v, data)
    BY <1>5 DEF FillValidatorStaking
  <2>2. v \notin misstated' => TrueLog(v, data)
    BY <2>1 DEF Given, TrueLog
  <2>3. /\ DOMAIN validator_map' = DOMAIN validator_map \cup {v}
        /\ validator_map'[v] = data
        /\ \A w \in DOMAIN validator_map : w # v => validator_map'[w] = validator_map[w]
    BY <2>1
  <2> QED BY <1>2, <1>3, <2>1, <2>2, <2>3, GivenStep
<1> QED BY <1>4, <1>5

LEMMA InsertStep ==
  ASSUME KeeperInv, NEW v \in Validators, NEW k, NEW data \in Entries(v),
         InsertValidatorStaking(v, k, data)
  PROVE  KeeperInv'
<1> DEFINE log == validator_map[v]
           new == InsertAt(log, k, data)
<1>1. /\ v \in DOMAIN validator_map /\ k \in 1..(Len(log) + 1)
      /\ validator_map' = [validator_map EXCEPT ![v] = InsertAt(@, k, data)]
      /\ Given(v, <<data>>)
  BY Zenon DEF InsertValidatorStaking
<1>2. log \in LogOf(v)
  BY <1>1 DEF KeeperInv
<1>3. log \in Seq(StakeData) /\ (v \notin misstated => TrueLog(v, log))
  BY <1>2 DEF LogOf
<1>4. data \in StakeData
  BY EntriesType
<1>5. /\ DOMAIN validator_map' = DOMAIN validator_map \cup {v}
      /\ validator_map'[v] = new
      /\ \A w \in DOMAIN validator_map : w # v => validator_map'[w] = validator_map[w]
  BY <1>1
<1>6. /\ v \notin misstated' => v \notin misstated /\ IsTrue(v, data)
  <2> DEFINE one == <<data>>
  <2>1. Len(one) = 1 /\ one[1] = data /\ 1 \in 1..1
    OBVIOUS
  <2>2. misstated' = IF \A i \in 1..Len(one) : IsTrue(v, one[i])
                     THEN misstated ELSE misstated \cup {v}
    BY <1>1 DEF Given
  <2> HIDE DEF one
  <2> QED BY <2>1, <2>2
<1>7. /\ new \in Seq(StakeData) /\ Len(new) = Len(log) + 1
      /\ \A j \in 1..Len(new) : new[j] = data \/ \E i \in 1..Len(log) : new[j] = log[i]
  BY <1>1, <1>3, <1>4, InsertedEntries
<1> HIDE DEF new, log
<1>8. Len(new) > 0
  BY <1>3, <1>7
<1>9. v \notin misstated' => TrueLog(v, new)
  BY <1>3, <1>6, <1>7 DEF TrueLog
<1> QED BY <1>1, <1>5, <1>7, <1>8, <1>9, GivenStep

LEMMA PassStep ==
  ASSUME KeeperInv, NEW span \in Spans, NEW rewards, Pass(span, rewards)
  PROVE  KeeperInv'
<1> DEFINE more(v) == [k \in 1..span |-> Last(staked[v]) + k * rewards[v]]
<1>1. /\ epoch' = epoch + span /\ validator_map' = validator_map
      /\ handled' = handled /\ misstated' = misstated
      /\ staked' = [v \in Validators |-> staked[v] \o more(v)]
      /\ \A v \in Validators : rewards[v] \in Rewards[v]
  BY Zenon DEF Pass, auxVars
<1>2. span \in Nat /\ epoch \in Nat
  BY KeeperAssumption DEF KeeperInv
<1>3. ASSUME NEW v \in Validators
      PROVE  LET all == staked[v] \o more(v)
             IN  /\ all \in Seq(Nat) /\ Len(all) = epoch + span + 1
                 /\ \A e \in 0..epoch : all[e + 1] = staked[v][e + 1]
                 /\ \A e \in 1..(epoch + span) : all[e] <= all[e + 1]
  <2> DEFINE s == staked[v]   t == more(v)   all == s \o t
             r == rewards[v]  l == Last(s)
  <2>1. s \in Seq(Nat) /\ Len(s) = epoch + 1 /\ \A e \in 1..epoch : s[e] <= s[e + 1]
    BY DEF KeeperInv
  <2>2. r \in Nat
    BY <1>1, KeeperAssumption
  <2>3. l \in Nat /\ l = s[epoch + 1]
    BY <1>2, <2>1 DEF Last
  <2>4. t = [k \in 1..span |-> l + k * r]
    OBVIOUS
  <2> HIDE DEF s, t, r, l
  <2>5. \A k \in 1..span : l + k * r \in Nat
    BY <1>2, <2>2, <2>3
  <2>6. t \in Seq(Nat) /\ Len(t) = span /\ \A k \in 1..span : t[k] = l + k * r
    BY <1>2, <2>4, <2>5
  <2>7. /\ all \in Seq(Nat) /\ Len(all) = Len(s) + Len(t)
        /\ \A j \in 1..(Len(s) + Len(t)) :
              all[j] = IF j <= Len(s) THEN s[j] ELSE t[j - Len(s)]
    BY ONLY <2>1, <2>6, Concatenated, Zenon
  <2> HIDE DEF all
  <2>8. Len(s) + Len(t) = epoch + span + 1
    BY <1>2, <2>1, <2>6
  <2>9. \A e \in 0..epoch : all[e + 1] = s[e + 1]
    <3> TAKE e \in 0..epoch
    <3>1. e + 1 \in 1..(Len(s) + Len(t)) /\ e + 1 <= Len(s)
      BY <1>2, <2>1, <2>8
    <3> QED BY <2>7, <3>1
  <2>10. ASSUME NEW k \in 0..span PROVE all[(epoch + 1) + k] = l + k * r
    <3>1. (epoch + 1) + k \in 1..(Len(s) + Len(t)) /\ ((epoch + 1) + k) - Len(s) = k
      BY <1>2, <2>1, <2>8
    <3>2. CASE k = 0
      <4>1. k * r = 0
        BY <2>2, <3>2
      <4>2. (epoch + 1) + k = epoch + 1 /\ epoch \in 0..epoch
        BY <1>2, <3>2
      <4> QED BY <2>3, <2>9, <4>1, <4>2
    <3>3. CASE k # 0
      <4>1. ~((epoch + 1) + k <= Len(s)) /\ k \in 1..span
        BY <1>2, <2>1, <3>3
      <4> QED BY <2>6, <2>7, <3>1, <4>1
    <3> QED BY <3>2, <3>3
  <2>11. ASSUME NEW e \in 1..(epoch + span) PROVE all[e] <= all[e + 1]
    <3>1. CASE e <= epoch
      <4>1. e \in 1..epoch /\ e \in 0..epoch /\ e - 1 \in 0..epoch /\ (e - 1) + 1 = e
        BY <1>2, <3>1
      <4>2. all[e + 1] = s[e + 1] /\ all[(e - 1) + 1] = s[(e - 1) + 1]
        BY <2>9, <4>1
      <4> QED BY <2>1, <4>1, <4>2
    <3>2. CASE e > epoch
      <4> DEFINE k == e - (epoch + 1)
      <4>1. /\ k \in 0..span /\ k + 1 \in 0..span
            /\ e = (epoch + 1) + k /\ e + 1 = (epoch + 1) + (k + 1)
        BY <1>2, <3>2
      <4> HIDE DEF k
      <4>2. all[e] = l + k * r /\ all[e + 1] = l + (k + 1) * r
        BY <2>10, <4>1
      <4>3. (k + 1) * r = k * r + r /\ k * r \in Int
        BY <2>2, <4>1
      <4> QED BY <2>2, <2>3, <4>2, <4>3
    <3> QED BY <1>2, <3>1, <3>2
  <2> QED BY <2>7, <2>8, <2>9, <2>11 DEF all, s, t
<1> HIDE DEF more
<1>4. ASSUME NEW v \in Validators
      PROVE  /\ staked'[v] \in Seq(Nat) /\ Len(staked'[v]) = epoch' + 1
             /\ \A e \in 0..epoch : staked'[v][e + 1] = staked[v][e + 1]
             /\ \A e \in 1..epoch' : staked'[v][e] <= staked'[v][e + 1]
  <2>1. staked'[v] = staked[v] \o more(v)
    BY <1>1
  <2> QED BY <1>1, <1>3, <2>1
<1>5. staked' \in [Validators -> Seq(Nat)]
  BY <1>1, <1>4
<1>6. epoch' \in Nat /\ epoch <= epoch'
  BY <1>1, <1>2
<1>7. ASSUME NEW v \in DOMAIN validator_map' PROVE validator_map'[v] \in LogOf(v)'
  <2>1. v \in Validators /\ validator_map'[v] \in LogOf(v)
    BY <1>1 DEF KeeperInv
  <2>2. \A e \in 0..epoch : StakeAt(v, e)' = StakeAt(v, e)
    BY <1>4, <2>1 DEF StakeAt
  <2>3. /\ validator_map[v] \in Seq(StakeData) /\ Len(validator_map[v]) > 0
        /\ v \notin misstated' => TrueLog(v, validator_map[v])
        /\ v \notin handled' => Descending(validator_map[v])
    <3>1. validator_map[v] \in LogOf(v)
      BY <1>1, <2>1
    <3> QED BY <1>1, <3>1 DEF LogOf
  <2> QED BY <1>1, <1>2, <1>6, <2>2, <2>3, LogsStay
<1>8. DOMAIN validator_map' \subseteq Validators /\ misstated' \subseteq handled'
  BY <1>1 DEF KeeperInv
<1> QED BY <1>4, <1>5, <1>6, <1>7, <1>8 DEF KeeperInv

-----------------------------------------------------------------------------
(* Theorems *)

LEMMA KeeperInit == Init => KeeperInv
<1> SUFFICES ASSUME Init PROVE KeeperInv
  OBVIOUS
<1>1. \A v \in Validators : FirstStaked[v] \in Nat
  BY KeeperAssumption
<1>2. epoch = 0 /\ \A e \in 1..epoch : FALSE
  BY DEF Init
<1>3. ASSUME NEW v \in Validators PROVE staked[v] \in Seq(Nat) /\ Len(staked[v]) = epoch + 1
  BY <1>1, <1>2 DEF Init
<1>4. /\ staked \in [Validators -> Seq(Nat)] /\ DOMAIN validator_map = {}
      /\ misstated \subseteq handled
  BY <1>3 DEF Init
<1> QED BY <1>2, <1>3, <1>4 DEF KeeperInv

LEMMA KeeperNext == KeeperInv /\ [Next]_vars => KeeperInv'
<1> SUFFICES ASSUME KeeperInv, [Next]_vars PROVE KeeperInv'
  OBVIOUS
<1>1. ASSUME NEW add \in SUBSET Validators, NEW remove \in SUBSET Validators,
             LogValidatorStaking(add, remove)
      PROVE  KeeperInv'
  BY <1>1, LogStep
<1>2. ASSUME NEW v \in Validators, NEW data \in BoundedSeq(Entries(v), MaxFill),
             FillValidatorStaking(v, data)
      PROVE  KeeperInv'
  BY <1>2, FillStep
<1>3. ASSUME NEW v \in Validators, NEW k, NEW data \in Entries(v),
             InsertValidatorStaking(v, k, data)
      PROVE  KeeperInv'
  BY <1>3, InsertStep
<1>4. ASSUME NEW span \in Spans, NEW rewards, Pass(span, rewards)
      PROVE  KeeperInv'
  BY <1>4, PassStep
<1>5. CASE UNCHANGED vars
  BY <1>5, KeeperStays
<1> QED BY <1>1, <1>2, <1>3, <1>4, <1>5 DEF Next

\* Logging keeps a log that the admin gave nothing at one entry a week, the newest
\* first; and whatever it is given, at any index, every entry of a log is what its
\* validator had in an epoch until now, as long as all that were given were.
THEOREM LogsInOrder ==
  Spec => [](\A v \in DOMAIN validator_map :
               /\ v \notin handled => Descending(validator_map[v])
               /\ v \notin misstated => TrueLog(v, validator_map[v]))
<1>1. KeeperInv => \A v \in DOMAIN validator_map :
                     /\ v \notin handled => Descending(validator_map[v])
                     /\ v \notin misstated => TrueLog(v, validator_map[v])
  BY DEF KeeperInv, LogOf
<1> QED BY <1>1, KeeperInit, KeeperNext, PTL DEF Spec

LEMMA KeeperInvariant == Spec => []KeeperInv
BY KeeperInit, KeeperNext, PTL DEF Spec

\* The keeper answers from the second week on whatever the admin put in a log, and
\* from epoch 1 on if it put nothing there: no week index and no epoch is taken
\* from a smaller one.
THEOREM AlwaysAnswersHolds == Spec => []AlwaysAnswers
<1>1. KeeperInv => AlwaysAnswers
  <2> SUFFICES ASSUME KeeperInv, epoch >= 1, NEW v \in DOMAIN validator_map,
                      v \notin handled \/ GetWeekIndex(epoch) >= 2
               PROVE  NoUnderflow(validator_map[v])
    BY DEF AlwaysAnswers
  <2> DEFINE log == validator_map[v]
  <2>1. epoch \in Nat /\ log \in LogOf(v)
    BY DEF KeeperInv
  <2>2. log \in Seq(StakeData) /\ (v \notin handled => Descending(log))
    BY <2>1 DEF LogOf
  <2> HIDE DEF log
  <2>3. GetWeekIndex(epoch) \in Nat /\ GetWeekIndex(epoch) >= 1
    BY <2>1, WeekBounds
  <2>4. ASSUME Len(log) > 1, Week(log[1]) >= GetWeekIndex(epoch) - 1
        PROVE  /\ Week(log[1]) >= 1
               /\ Week(log[2]) = Week(log[1]) - 1 =>
                    log[1].last_stake_epoch >= log[2].last_stake_epoch
    <3>1. 1 \in 1..Len(log) /\ 2 \in 1..Len(log)
      BY <2>2, <2>4
    <3> DEFINE d == log[1].last_stake_epoch   e == log[2].last_stake_epoch
    <3>2. log[1] \in StakeData /\ log[2] \in StakeData
      BY <2>2, <3>1
    <3>3. d \in Nat /\ e \in Nat /\ Week(log[1]) = GetWeekIndex(d) /\ Week(log[2]) = GetWeekIndex(e)
      BY <3>2 DEF StakeData, Week
    <3> HIDE DEF d, e
    <3>4. GetWeekIndex(d) \in Nat /\ GetWeekIndex(e) \in Nat
      BY <3>3, WeekBounds
    <3>5. Week(log[1]) >= 1
      <4>1. v \notin handled => Week(log[2]) < Week(log[1])
        BY <2>2, <3>1 DEF Descending
      <4> QED BY <2>3, <2>4, <3>3, <3>4, <4>1
    <3>6. d <= e => GetWeekIndex(d) <= GetWeekIndex(e)
      BY <3>3, WeekMonotone
    <3>7. Week(log[2]) = Week(log[1]) - 1 => d >= e
      BY <3>3, <3>4, <3>6
    <3> QED BY <3>5, <3>7 DEF d, e
  <2> QED BY <2>3, <2>4 DEF NoUnderflow, log
<1> QED BY <1>1, KeeperInvariant, PTL

\* The yield that the active set tells is never above what its fastest earner nor
\* below what its slowest made in an epoch of the last three weeks, wherever and
\* however often the admin put entries, as long as their validators had them.
THEOREM ApyWithinEarningsHolds == Spec => []ApyWithinEarnings
BY KeeperInvariant, ApyOfSet, PTL

\* The step that logs this week's entry over one of the week before puts the
\* validator in the active set, if both have stake units.
THEOREM ActiveOnceLoggedHolds == Spec => ActiveOnceLogged
<1> DEFINE Act == \A add, remove \in SUBSET Validators :
                    LogValidatorStaking(add, remove) =>
                      \A v \in DOMAIN validator_map \ remove :
                        /\ Units[v] # 0 /\ validator_map[v][1].last_lsu # 0
                        /\ Week(validator_map[v][1]) = GetWeekIndex(epoch) - 1
                        => v \in ActiveSet'
<1>1. KeeperInv /\ [Next]_vars => [Act]_vars
  <2> SUFFICES ASSUME KeeperInv, NEW add \in SUBSET Validators, NEW remove \in SUBSET Validators,
                      LogValidatorStaking(add, remove),
                      NEW v \in DOMAIN validator_map \ remove,
                      Units[v] # 0, validator_map[v][1].last_lsu # 0,
                      Week(validator_map[v][1]) = GetWeekIndex(epoch) - 1
               PROVE  v \in ActiveSet'
    BY Zenon
  <2> DEFINE log == validator_map[v]   new == validator_map'[v]
  <2>1. v \in DOMAIN validator_map' /\ new = Logged(v, log) /\ epoch' = epoch
    BY DEF LogValidatorStaking
  <2>2. epoch \in Nat /\ GetWeekIndex(epoch) \in Nat /\ v \in Validators
    BY WeekBounds DEF KeeperInv
  <2>3. NewWeek(log)
    BY <2>2 DEF NewWeek
  <2>4. Logged(v, log) \in LogOf(v)
    BY LoggedIsLog
  <2>5. new \in LogOf(v) /\ Len(new) > 1 /\ new[1] = StakeAt(v, epoch) /\ new[2] = log[1]
    BY <2>1, <2>3, <2>4, LoggedIsLog
  <2>6. Week(new[1]) = GetWeekIndex(epoch) /\ Week(new[2]) = GetWeekIndex(epoch) - 1
    <3>1. Week(StakeAt(v, epoch)) = GetWeekIndex(epoch)
      BY <2>2, EntryType
    <3> QED BY <2>5, <3>1
  <2>7. new[1].last_lsu # 0 /\ new[2].last_lsu # 0
    <3>1. StakeAt(v, epoch).last_lsu = Units[v]
      BY DEF StakeAt
    <3> QED BY <2>5, <3>1
  <2>8. HasApy(validator_map[v])'
    <3>1. /\ Week(new[1]) >= GetWeekIndex(epoch) - 1
          /\ Week(new[2]) = Week(new[1]) - 1
      BY <2>2, <2>6
    <3> QED BY <2>1, <2>5, <2>7, <3>1 DEF HasApy, Week
  <2> QED BY <2>1, <2>8 DEF ActiveSet
<1>2. ActiveOnceLogged <=> [][Act]_vars
  BY DEF ActiveOnceLogged
<1> QED BY <1>1, <1>2, KeeperInvariant, PTL DEF Spec
=============================================================================
