----------------------------- MODULE FifoQueue -----------------------------
(***************************************************************************)
(* What the torrents collection promises as a queue, without documents,    *)
(* sessions or leases: items wait in one line, the first one that is open  *)
(* is taken, and an item's place changes in one way only, to the tail.     *)
(***************************************************************************)
EXTENDS Naturals

CONSTANTS Item, Tie

VARIABLES
    phase,   \* where each item is
    open,    \* whether a waiting item may be taken now
    ahead    \* <<i, j>>: i stands ahead of j

vars == <<phase, open, ahead>>

Ready(i) == phase[i] = "waiting" /\ open[i]

Join(S) ==
    ahead' = {p \in ahead : p[1] \notin S /\ p[2] \notin S}
             \cup ((Item \ S) \X S)
             \cup (Tie \cap (S \X S))

Init ==
    /\ phase \in [Item -> {"waiting", "settled"}]
    /\ open = [i \in Item |-> TRUE]
    /\ ahead = Tie

\* A worker takes the first open item.
Take(i) ==
    /\ Ready(i)
    /\ \A j \in Item : Ready(j) => <<j, i>> \notin ahead
    /\ phase' = [phase EXCEPT ![i] = "active"]
    /\ UNCHANGED <<open, ahead>>

\* The worker puts an item back, closed for a while after a failure.
GiveBack(i, opens) ==
    /\ phase[i] = "active"
    /\ phase' = [phase EXCEPT ![i] = "waiting"]
    /\ open' = [open EXCEPT ![i] = opens]
    /\ Join({i})

\* Items are put (back) in line from outside, several at once.
Enqueue(S) ==
    /\ phase' = [i \in Item |-> IF i \in S THEN "waiting" ELSE phase[i]]
    /\ open' = [i \in Item |-> i \in S \/ open[i]]
    /\ Join(S)

\* The worker is done with an item.
Settle(i) ==
    /\ phase[i] = "active"
    /\ phase' = [phase EXCEPT ![i] = "settled"]
    /\ UNCHANGED <<open, ahead>>

\* An item is taken out of the line, or from under the worker.
Withdraw(i) ==
    /\ phase' = [phase EXCEPT ![i] = "settled"]
    /\ UNCHANGED <<open, ahead>>

Open(i) ==
    /\ open' = [open EXCEPT ![i] = TRUE]
    /\ UNCHANGED <<phase, ahead>>

Next ==
    \/ \E i \in Item :
         \/ Take(i) \/ Settle(i) \/ Withdraw(i) \/ Open(i)
         \/ \E opens \in BOOLEAN : GiveBack(i, opens)
    \/ \E S \in SUBSET Item : Enqueue(S)

Spec == Init /\ [][Next]_vars
=============================================================================
