----------------------------- MODULE Redemption -----------------------------
(***************************************************************************)
(* What the staking earning component promises to those who redeem, to the *)
(* depositors whose XRD it lends them and to the relayers, apart from the  *)
(* amounts: a claim on unstaked XRD is paid once and only when it has      *)
(* matured; it goes into escrow for a loan only, and loans stay open for   *)
(* as many claims are in escrow.                                           *)
(*                                                                         *)
(* StakingEarning implements it.                                           *)
(***************************************************************************)
EXTENDS Naturals, FiniteSets

CONSTANTS Claims, Loans   \* every claim NFT and every CDP there may ever be

VARIABLES
  held,       \* claims in the wallets of those who redeemed
  escrowed,   \* claims the component keeps, each for a loan
  paid,       \* claims the validator has paid and burned
  mature,     \* claims whose epoch has come
  open,       \* loans given for claims in escrow
  closed      \* loans that a settlement has ended

redemption == <<held, escrowed, paid, mature, open, closed>>

Init == /\ held = {} /\ escrowed = {} /\ paid = {} /\ mature = {}
        /\ open = {} /\ closed = {}

\* The validator issues a claim, which is not mature yet.
Issue(c) ==
  /\ c \notin held \cup escrowed \cup paid \cup mature
  /\ held' = held \cup {c}
  /\ UNCHANGED <<escrowed, paid, mature, open, closed>>

\* A claim, held until now or just issued, is exchanged for a loan.
Escrow(c, l) ==
  /\ c \notin escrowed \cup paid \cup mature
  /\ l \notin open \cup closed
  /\ held' = held \ {c}
  /\ escrowed' = escrowed \cup {c}
  /\ open' = open \cup {l}
  /\ UNCHANGED <<paid, mature, closed>>

Ripen(S) ==
  /\ S \subseteq held \cup escrowed
  /\ mature' = mature \cup S
  /\ UNCHANGED <<held, escrowed, paid, open, closed>>

\* A mature claim is paid to its holder ...
Cash(c) ==
  /\ c \in held \cap mature
  /\ held' = held \ {c}
  /\ paid' = paid \cup {c}
  /\ UNCHANGED <<escrowed, mature, open, closed>>

\* ... or, out of escrow, to a loan.
Settle(c, l) ==
  /\ c \in escrowed \cap mature
  /\ l \in open
  /\ escrowed' = escrowed \ {c}
  /\ paid' = paid \cup {c}
  /\ open' = open \ {l}
  /\ closed' = closed \cup {l}
  /\ UNCHANGED <<held, mature>>

Next == \/ \E c \in Claims : Issue(c) \/ Cash(c)
        \/ \E c \in Claims, l \in Loans : Escrow(c, l) \/ Settle(c, l)
        \/ \E S \in SUBSET Claims : Ripen(S)

Spec == Init /\ [][Next]_redemption

-----------------------------------------------------------------------------
Type ==
  /\ {held, escrowed, paid, mature} \subseteq SUBSET Claims
  /\ {open, closed} \subseteq SUBSET Loans

\* A claim is in one place, so that it is paid to one party only.
Apart == held \cap escrowed = {} /\ held \cap paid = {} /\ escrowed \cap paid = {}

OnlyMaturePaid == paid \subseteq mature

\* There are as many open loans as claims in escrow.
Matched == Cardinality(escrowed) = Cardinality(open)
=============================================================================
