----------------------------- MODULE MCEntryGuard -----------------------------
(* Instances of EntryGuard for TLC. *)
EXTENDS EntryGuard

\* With and without a target, and without an entry; the distances are no whole numbers
\* of steps, and the last one's target would be below zero.
MCSignals ==
    {[side |-> "BUY", entry |-> 20, stop |-> 15, target |-> 30],
     [side |-> "BUY", entry |-> 20, stop |-> 17, target |-> 0],
     [side |-> "SELL", entry |-> 20, stop |-> 25, target |-> 10],
     [side |-> "BUY", entry |-> 0, stop |-> 16, target |-> 31],
     [side |-> "SELL", entry |-> 20, stop |-> 31, target |-> 0]}

MCTicks == {[bid |-> 20, ask |-> 22]}

\* The second has a coarser step, a dearer tick and a wider stops level.
MCSpecs ==
    {[volume_min |-> 1, volume_max |-> 8, volume_step |-> 1, tick_size |-> 1,
      tick_value |-> 1, contract_size |-> 1, margin_per_lot |-> 0, stops |-> 2],
     [volume_min |-> 2, volume_max |-> 8, volume_step |-> 2, tick_size |-> 0,
      tick_value |-> 0, contract_size |-> 2, margin_per_lot |-> 3, stops |-> 6]}

MCRatio == [num |-> 2, den |-> 1]
=============================================================================
