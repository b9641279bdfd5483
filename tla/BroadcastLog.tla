--------------------------- MODULE BroadcastLog ---------------------------
(***************************************************************************)
(* What the shared-memory ring promises its consumers: a log that one      *)
(* producer appends to and any number of readers follow, each at its own   *)
(* pace.  The log remembers a window of the last messages.  A reader gets  *)
(* the message at its cursor, or is moved forward to the oldest message    *)
(* remembered, and is told that there is nothing only when there is        *)
(* nothing.  The promise has four limits, each written down here:          *)
(*   - a message delivered when exactly Window newer ones exist may be     *)
(*     mixed with its successor in the same place;                         *)
(*   - the places in Holes keep nothing: what is read there is arbitrary;  *)
(*   - before the log is opened again, the Fragile parts of the messages   *)
(*     may be damaged, in one place after the other;                       *)
(*   - what a reader gets that was caught by Reopen in mid-read is         *)
(*     arbitrary too.                                                      *)
(***************************************************************************)
EXTENDS Integers

CONSTANTS Window, Parts, Fragile, Readers, Holes

VARIABLES
  era,         \* incarnation of the log
  published,   \* messages appended in this incarnation
  damaged,     \* places whose messages are damaged
  cursor,      \* next message of each reader
  straddling,  \* readers in the middle of a read begun in an earlier era
  delivered    \* what the last read of each reader delivered

vars == <<era, published, damaged, cursor, straddling, delivered>>

Msg(e, n) == [era |-> e, n |-> n]
NoParts == [p \in Parts |-> Msg(0, 0)]
Nothing == [what |-> "nothing", n |-> 0, parts |-> NoParts]
CaughtUp == [what |-> "caught up", n |-> 0, parts |-> NoParts]

Init ==
  /\ era = 1
  /\ published = 0
  /\ damaged = {}
  /\ cursor = [r \in Readers |-> 0]
  /\ straddling = {}
  /\ delivered = [r \in Readers |-> Nothing]

\* Nothing is appended to a log that is damaged: it has to be opened again.
Append ==
  /\ damaged = {}
  /\ published' = published + 1
  /\ UNCHANGED <<era, damaged, cursor, straddling, delivered>>

Damage(i) ==
  /\ damaged' = damaged \union {i}
  /\ UNCHANGED <<era, published, cursor, straddling, delivered>>

\* The log starts again from nothing; cursors are not told.
Reopen ==
  /\ era' = era + 1
  /\ published' = 0
  /\ damaged' = {}
  /\ straddling' \in SUBSET Readers
  /\ straddling \subseteq straddling'
  /\ UNCHANGED <<cursor, delivered>>

\* f may be handed to reader r as message n.
Acceptable(r, n, f) ==
  r \in straddling \/ n % Window \in Holes \/
    \A p \in Parts :
      \/ f[p] = Msg(era, n)
      \/ published = n + Window /\ f[p] = Msg(era, n + Window)
      \/ p \in Fragile /\ n % Window \in damaged

\* The message is constrained by Acceptable, not computed.
Deliver(r) ==
  /\ r \in straddling \/ cursor[r] < published
  /\ published <= cursor[r] + Window
  /\ UNCHANGED <<era, published, damaged>>
  /\ cursor' = [cursor EXCEPT ![r] = @ + 1]
  /\ straddling' = straddling \ {r}
  /\ delivered' = [delivered EXCEPT ![r] =
       [what |-> "message", n |-> cursor[r], parts |-> delivered'[r].parts]]
  /\ Acceptable(r, cursor[r], delivered'[r].parts)

\* A reader that was overrun goes on with the oldest message remembered.
Skip(r) ==
  /\ published > cursor[r] + Window
  /\ UNCHANGED <<era, published, damaged>>
  /\ cursor' = [cursor EXCEPT ![r] = published - Window]
  /\ straddling' = straddling \ {r}
  /\ delivered' = [delivered EXCEPT ![r] = Nothing]

\* A reader is told that there is nothing to read.
Idle(r) ==
  /\ cursor[r] >= published
  /\ UNCHANGED <<era, published, damaged, cursor, straddling>>
  /\ delivered' = [delivered EXCEPT ![r] = CaughtUp]

\* A read begins, or the reader ends, or one that is overrun gives up.
Drop(r) ==
  /\ UNCHANGED <<era, published, damaged, cursor>>
  /\ straddling' \in {straddling, straddling \ {r}}
  /\ delivered' = [delivered EXCEPT ![r] = Nothing]

\* A reader starts from the beginning.
Join(r) ==
  /\ UNCHANGED <<era, published, damaged, straddling>>
  /\ cursor' = [cursor EXCEPT ![r] = 0]
  /\ delivered' = [delivered EXCEPT ![r] = Nothing]

Next ==
  \/ Append
  \/ \E i \in 0 .. Window - 1 : Damage(i)
  \/ Reopen
  \/ \E r \in Readers : Deliver(r) \/ Skip(r) \/ Idle(r) \/ Drop(r) \/ Join(r)

Spec == Init /\ [][Next]_vars

=============================================================================
