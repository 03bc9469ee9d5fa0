--------------------------- MODULE RecordTransfer ---------------------------
(***************************************************************************)
(* What the agent promises the ingestion service about the records of one  *)
(* run: each is put on the wire at most once, in the order it was sampled, *)
(* in gap-free blocks no longer than a batch.  Records may be skipped      *)
(* (dropped), but a skipped record never comes later.                      *)
(***************************************************************************)
EXTENDS Integers

CONSTANTS MaxBatchSize, MaxRecords

VARIABLES
    produced,   \* records 1 .. produced exist
    sent        \* records that are on the wire

vars == <<produced, sent>>

Init == produced = 0 /\ sent = {}

Produce ==
    /\ produced < MaxRecords
    /\ produced' = produced + 1
    /\ UNCHANGED sent

Send ==
    /\ \E first, last \in 1 .. produced :
          /\ first <= last
          /\ last - first < MaxBatchSize
          /\ \A s \in sent : s < first
          /\ sent' = sent \cup first .. last
    /\ UNCHANGED produced

Next == Produce \/ Send

Spec == Init /\ [][Next]_vars
=============================================================================
