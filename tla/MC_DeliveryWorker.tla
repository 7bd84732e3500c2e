--------------------------- MODULE MC_DeliveryWorker ---------------------------
(* Instances of the delivery workers for TLC.  "orders" is configured with  *)
(* one slot and two attempts; "gone" is a listener whose rows outlived its  *)
(* configuration.                                                           *)
EXTENDS DeliveryWorker, TLC

CONSTANTS e1, e2, e3, e4, w1, w2

MCListenerOf == [e \in Events |-> IF e = e3 THEN "gone" ELSE "orders"]
MCOrder       == SelectSeq(<<"orders", "gone">>, LAMBDA l : l \in Listeners)
MCCap         == [l \in Listeners |-> 1]
MCMaxAttempts == [l \in Listeners |-> 2]
MCPartitions  == {Events}

\* Events are written in this order.  A claim takes any of the rows that are
\* due, so every mix of them still meets in a batch.
MCArrivals == <<e4, e3, e2, e1>>
MCInOrder  == \A i, j \in 1..4 : i < j /\ MCArrivals[j] \in log => MCArrivals[i] \in log

\* Interchangeable processes.
MCWorkerSymmetry == Permutations({w1, w2})

===============================================================================
