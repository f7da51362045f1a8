---------------------------- MODULE EventBatches ----------------------------
(***************************************************************************)
(* Batches of events, as the dispatcher (src/hal/dispatcher.rs) hands them *)
(* to channels.  An event is a record whose field n is its number, in the  *)
(* order in which events are decoded or in which they stand in a file.     *)
(***************************************************************************)
EXTENDS Integers, SequencesExt

Before(es, fs) == \A e \in es, f \in fs : e.n < f.n
Ascending(s) == \A i, j \in DOMAIN s : i < j => s[i].n < s[j].n
Events(batches) == UNION {Range(b) : b \in Range(batches)}
InOrder(batches) ==
    /\ \A i \in DOMAIN batches : Ascending(batches[i])
    /\ \A i, j \in DOMAIN batches : i < j => Before(Range(batches[i]), Range(batches[j]))

=============================================================================
