----------------------------- MODULE LiveSystem -----------------------------
(***************************************************************************)
(* The live system: apps/live-engine (the market handler with ShmGateway), *)
(* apps/execution-engine and apps/execution-sim, with the order in which   *)
(* they start and what is left of them when one ends and is started again. *)
(*                                                                         *)
(* Unit of everything is a whole message: ShmRing models the memory of the *)
(* two rings, ExecutionEngine the bytes of the connection.  A ring is what *)
(* has been written since its header was last set up; that it may lap its  *)
(* reader is left to those two modules.  The files outlive the processes.  *)
(***************************************************************************)
EXTENDS MarketHandler, FiniteSets, Sequences

CONSTANTS
  MaxStarts,   \* bound: starts of the live engine, those that fail included
  MaxSessions, \* bound: connections of the execution engine
  MaxSims      \* bound: starts of the exchange

ASSUME StartAssumption == {MaxStarts, MaxSessions, MaxSims} \subseteq Nat

VARIABLES
  orderFile,   \* is there a /dev/shm/hft_execution?
  reportFile,  \* is there a /dev/shm/hft_exchange_info?
  orders,      \* the orders in the first
  reports,     \* the reports in the second
  opening,     \* the live engine is between the two steps of ShmGateway::new
  liveUp,      \* the live engine is in its loop
  nextSeq,     \* ShmGateway.next_seq
  found,       \* history: how many of the reports it found there
  engineUp,    \* the execution engine is in its loop
  taken,       \* consumerSmhDetails.read_write_index
  linked,      \* is the engine's connection the one that the exchange serves?
  sim,         \* the exchange: "down", "listening", "serving"
  out,         \* orders on their way to the exchange
  in,          \* reports on their way to the engine
  filled,      \* orders filled so far
  traded,      \* the position that they make
  starts,      \* starts of the live engine
  lives,       \* of these, the ones that came to its loop
  sessions,    \* connections so far
  sims,        \* starts of the exchange
  calm         \* no process has ended yet

files == <<orderFile, reportFile>>
gateway == <<opening, liveUp, nextSeq, found>>
engine == <<engineUp, taken>>
wire == <<out, in>>
exchange == <<filled, traded>>
counts == <<starts, lives, sessions, sims>>
vars == <<handlerVars, files, orders, reports, gateway, engine, linked, sim,
          wire, exchange, counts, calm>>

Init ==
  /\ HandlerInit
  /\ orderFile = FALSE /\ reportFile = FALSE
  /\ orders = <<>> /\ reports = <<>>
  /\ opening = FALSE /\ liveUp = FALSE /\ nextSeq = 0 /\ found = 0
  /\ engineUp = FALSE /\ taken = 0
  /\ linked = FALSE /\ sim = "down"
  /\ out = <<>> /\ in = <<>>
  /\ filled = 0 /\ traded = [s \in Symbols |-> 0]
  /\ starts = 0 /\ lives = 0 /\ sessions = 0 /\ sims = 0
  /\ calm = TRUE

----------------------------------------------------------------------------
(* The live engine.                                                        *)

\* ShmGateway::new, its first step: create_producer sets the order ring up anew.
StartLive ==
  /\ ~liveUp /\ ~opening
  /\ starts < MaxStarts
  /\ starts' = starts + 1
  /\ orderFile' = TRUE
  /\ orders' = <<>>
  /\ opening' = TRUE
  /\ UNCHANGED <<handlerVars, reportFile, reports, liveUp, nextSeq, found, engine,
                 linked, sim, wire, exchange, lives, sessions, sims, calm>>

\* Its second step: create_consumer finds the report ring, or the engine panics.
OpenReports ==
  /\ opening
  /\ opening' = FALSE
  /\ liveUp' = reportFile
  /\ lives' = IF reportFile THEN lives + 1 ELSE lives
  /\ found' = Len(reports)
  /\ UNCHANGED <<handlerVars, files, orders, reports, nextSeq, engine, linked,
                 sim, wire, exchange, starts, sessions, sims, calm>>

\* It ends, and its memory with it.
EndLive ==
  /\ liveUp \/ opening
  /\ opening' = FALSE
  /\ liveUp' = FALSE
  /\ Forget
  /\ nextSeq' = 0
  /\ calm' = FALSE
  /\ UNCHANGED <<found, files, orders, reports, engine, linked, sim, wire,
                 exchange, counts>>

\* send_order.
SendOrder(o) == orders' = Append(orders, o)

\* A packet, or WouldBlock, which leads to the same polling loop.
Packet ==
  /\ liveUp
  /\ \/ IgnorePacket /\ UNCHANGED orders
     \/ \E s \in Symbols : HandleStockDirectory(s) /\ UNCHANGED orders
     \/ \E s \in Symbols, b \in Bids, a \in Asks :
          \/ Quiet(s, b, a) /\ UNCHANGED orders
          \/ \E side \in {"Buy", "Sell"} :
               Trade(s, b, a, side) /\ SendOrder(OrderOf(s, b, a, side))
  /\ UNCHANGED <<files, reports, gateway, engine, linked, sim, wire, exchange,
                 counts, calm>>

\* poll_confirmed_orders of a gateway that reads a report and stays on it.
PollInPlace ==
  /\ liveUp
  /\ nextSeq < Len(reports)
  /\ Confirm(reports[nextSeq + 1])
  /\ UNCHANGED <<gateway, files, orders, reports, engine, linked, sim,
                 wire, exchange, counts, calm>>

\* poll_confirmed_orders of the gateway: the next report.
PollReport ==
  /\ liveUp
  /\ nextSeq < Len(reports)
  /\ Confirm(reports[nextSeq + 1])
  /\ nextSeq' = nextSeq + 1
  /\ UNCHANGED <<files, orders, reports, opening, liveUp, found, engine, linked,
                 sim, wire, exchange, counts, calm>>

\* A polling loop that looks once.
PollOnce ==
  /\ liveUp
  /\ PollDone
  /\ UNCHANGED <<files, orders, reports, gateway, engine, linked, sim, wire,
                 exchange, counts, calm>>

\* None, also when the ring has been set back below next_seq.
PollEmpty ==
  /\ liveUp
  /\ nextSeq >= Len(reports)
  /\ PollDone
  /\ UNCHANGED <<files, orders, reports, gateway, engine, linked, sim, wire,
                 exchange, counts, calm>>

----------------------------------------------------------------------------
(* The execution engine.                                                   *)

\* main() up to its loop: the order ring must be there and is read from its
\* beginning, the report ring is set up anew, and the exchange must listen.
\* A connection it has not accepted is one it never will.
StartEngine ==
  /\ ~engineUp
  /\ sessions < MaxSessions
  /\ orderFile
  /\ reportFile' = TRUE
  /\ reports' = <<>> /\ found' = 0
  /\ engineUp' = (sim # "down")
  /\ sessions' = IF sim = "down" THEN sessions ELSE sessions + 1
  /\ taken' = 0
  /\ linked' = (sim = "listening")
  /\ sim' = IF sim = "listening" THEN "serving" ELSE sim
  /\ UNCHANGED <<handlerVars, orderFile, orders, opening, liveUp, nextSeq, wire,
                 exchange, starts, lives, sims, calm>>

\* It ends: stopped from outside, or because the exchange has gone.  What it
\* has sent may still be filled.
EndEngine ==
  /\ engineUp
  /\ engineUp' = FALSE
  /\ taken' = 0
  /\ linked' = FALSE
  /\ in' = <<>>
  /\ calm' = FALSE
  /\ UNCHANGED <<handlerVars, files, orders, reports, gateway, sim, out,
                 exchange, counts>>

\* A loop that sends the order and forgets to move on.
ForwardAgain ==
  /\ engineUp
  /\ taken < Len(orders)
  /\ Len(out) < MaxOrders
  /\ out' = IF linked THEN Append(out, orders[taken + 1]) ELSE out
  /\ UNCHANGED <<taken, handlerVars, files, orders, reports, gateway, engineUp,
                 linked, sim, in, exchange, counts, calm>>

\* The next order goes to the exchange; what is sent on a connection that
\* nobody serves is lost, and send() does not tell.
Forward ==
  /\ engineUp
  /\ taken < Len(orders)
  /\ taken' = taken + 1
  /\ out' = IF linked THEN Append(out, orders[taken + 1]) ELSE out
  /\ UNCHANGED <<handlerVars, files, orders, reports, gateway, engineUp,
                 linked, sim, in, exchange, counts, calm>>

\* processExecution.
Publish ==
  /\ engineUp
  /\ in # <<>>
  /\ reports' = Append(reports, Head(in))
  /\ in' = Tail(in)
  /\ UNCHANGED <<handlerVars, files, orders, gateway, engine, linked, sim, out,
                 exchange, counts, calm>>

----------------------------------------------------------------------------
(* The exchange.                                                           *)

StartSim ==
  /\ sim = "down"
  /\ sims < MaxSims
  /\ sims' = sims + 1
  /\ sim' = "listening"
  /\ UNCHANGED <<handlerVars, files, orders, reports, gateway, engine, linked,
                 wire, exchange, starts, lives, sessions, calm>>

\* It ends: stopped from outside, or because the engine has gone.
EndSim ==
  /\ sim # "down"
  /\ sim' = "down"
  /\ linked' = FALSE
  /\ out' = <<>>
  /\ calm' = FALSE
  /\ UNCHANGED <<handlerVars, files, orders, reports, gateway, engine, in,
                 exchange, counts>>

\* Every order is filled in full, and answered if there is anyone to answer.
FillOrder ==
  LET o == Head(out) IN
    /\ sim = "serving"
    /\ out # <<>>
    /\ out' = Tail(out)
    /\ filled' = filled + 1
    /\ traded' = [traded EXCEPT ![o.symbol] =
                    IF o.side = "Buy" THEN @ + o.qty ELSE @ - o.qty]
    /\ in' = IF linked
             THEN Append(in, [id |-> o.id, symbol |-> o.symbol, px |-> o.px, qty |-> o.qty])
             ELSE in
    /\ UNCHANGED <<handlerVars, files, orders, reports, gateway, engine,
                   linked, sim, counts, calm>>

----------------------------------------------------------------------------

Live == Packet \/ PollReport \/ PollEmpty

Engine == Forward \/ Publish

Next ==
  \/ StartLive \/ OpenReports \/ StartEngine \/ StartSim
  \/ EndLive \/ EndEngine \/ EndSim
  \/ Live \/ Engine \/ FillOrder

Spec == Init /\ [][Next]_vars

\* Each process is a loop that never waits for long; the engine's takes an
\* order and reports by turns.  Nobody is bound to start or to stay up.
FairSpec ==
  Spec /\ WF_vars(Live) /\ WF_vars(Forward) /\ WF_vars(Publish) /\ WF_vars(FillOrder)

----------------------------------------------------------------------------
(* Properties.                                                             *)

Message == [id : Nat, symbol : Symbols, px : Nat, qty : {Lot}]

\* Types; a process that is down has no memory and no connection.
TypeOK ==
  /\ HandlerTypeOK
  /\ liveUp \/ (nextSeq = 0 /\ nextId = 0)
  /\ opening => ~liveUp /\ orders = <<>>
  /\ engineUp \/ (taken = 0 /\ ~linked /\ in = <<>>)
  /\ linked => sim = "serving"
  /\ reports \in Seq(Message) /\ in \in Seq(Message)
  /\ nextSeq \in Nat /\ taken \in Nat /\ filled \in Nat
  /\ traded \in [Symbols -> Int]

\* Orders and reports are told apart by id alone, and the ids begin again with
\* each life of the live engine, which reads the report ring from its
\* beginning.  Whatever of earlier lives it finds there when it opens the ring
\* has been read, and ignored, before its first order goes out: such a report
\* never confirms an order of this life.
NothingStale == \A i \in nextSeq + 1 .. found : ~Expected(reports[i])

\* The limit of LocalRisk at the exchange, over restarts: each connection of
\* the execution engine may trade a whole ring from its beginning once more,
\* and each live engine that starts with position 0 under a running execution
\* engine is read from where its predecessor was left.
ExposureOverRestarts ==
  \A s \in Symbols :
    LET limit == MaxPos * (sessions + 2 * (lives - 1)) IN
      traded[s] # 0 => traded[s] \in -limit .. limit

\* As long as no process has ended, each order is sent, filled and confirmed
\* once, and the position at the exchange is within the limit and, once all is
\* filled, the one the risk engine believes in.
Ledger == INSTANCE OrderLedger WITH
  sent <- nextId,
  filled <- filled,
  confirmed <- nextId - Cardinality(UNION {tracker[s] : s \in Symbols}),
  believed <- risk,
  traded <- traded,
  void <- ~calm

KeepsLedger == Ledger!Spec

\* Every order is confirmed in the end, however late the execution engine was
\* started, unless a process ends.
AllConfirmed ==
  \A n \in 0 .. MaxOrders - 1 :
    nextId > n /\ engineUp
      ~> (~calm \/ \A s \in Symbols : n \notin tracker[s])

=============================================================================
