---------------------------- MODULE OrderLedger ----------------------------
(***************************************************************************)
(* What the trading system promises of its orders, however they travel:    *)
(* each is sent, filled and confirmed once, one after the other, and the   *)
(* position never leaves its limit, neither the one that is believed nor   *)
(* the one that has been traded.                                           *)
(*                                                                         *)
(* The promise may be void: a system that remembers nothing of its earlier *)
(* life can keep it only until one of its processes is started again.      *)
(***************************************************************************)
EXTENDS Integers

CONSTANTS Symbols, Lot, MaxPos

VARIABLES
  sent,       \* orders sent so far
  filled,     \* of these, filled at the exchange
  confirmed,  \* of these, confirmed to the one who sent them
  believed,   \* the position each stock has if all that was sent is filled
  traded,     \* the position that has been traded
  void        \* is the promise void?

vars == <<sent, filled, confirmed, believed, traded, void>>

Allowed == -MaxPos .. MaxPos

Init ==
  /\ sent = 0
  /\ filled = 0
  /\ confirmed = 0
  /\ believed = [s \in Symbols |-> 0]
  /\ traded = [s \in Symbols |-> 0]
  /\ void \in BOOLEAN

\* One lot more or less of a stock, within the limit.
OneLot(pos, s, after) ==
  /\ after \in [Symbols -> Allowed]
  /\ \E d \in {Lot, -Lot} : after = [pos EXCEPT ![s] = @ + d]

\* What was traded is what is believed as soon as nothing is on its way.
Settled == filled' = sent' => traded' = believed'

Send ==
  /\ sent' = sent + 1
  /\ \E s \in Symbols : OneLot(believed, s, believed')
  /\ UNCHANGED <<filled, confirmed, traded>>

Fill ==
  /\ filled < sent
  /\ filled' = filled + 1
  /\ \E s \in Symbols : OneLot(traded, s, traded')
  /\ Settled
  /\ UNCHANGED <<sent, confirmed, believed>>

\* An order that is filled as it is sent.
SendFilled ==
  /\ filled = sent
  /\ sent' = sent + 1
  /\ filled' = filled + 1
  /\ \E s \in Symbols : OneLot(believed, s, believed')
  /\ traded' = believed'
  /\ UNCHANGED confirmed

Confirm ==
  /\ confirmed < filled
  /\ confirmed' = confirmed + 1
  /\ UNCHANGED <<sent, filled, believed, traded>>

Kept == (Send \/ Fill \/ SendFilled \/ Confirm) /\ UNCHANGED void

Next == void' \/ (~void /\ Kept)

Spec == Init /\ [][Next]_vars

=============================================================================
