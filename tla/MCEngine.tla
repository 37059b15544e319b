------------------------------ MODULE MCEngine ------------------------------
(* Instantiation of Engine for TLC: the constants of a run are the lengths *)
(* of the address lists and source.parallel of one conf.Options record.    *)
EXTENDS Engine, Configuration

MCRunOptions ==
  Loaded(
    [ Parallel |-> 1, SourceParallel |-> SourceParallel, TargetDB |-> -1,
      FilterKey |-> << >>, FilterSlot |-> << >>, Psync |-> TRUE, Metric |-> TRUE,
      SenderSize |-> 104857600, SenderCount |-> 4095,
      SenderDelayChannelSize |-> 65535,
      SourceAddressList |-> [i \in 1..NSources |-> "source"],
      TargetAddressList |-> [i \in 1..NTargets |-> "target"] ])

ASSUME /\ CoreAssumptions(MCRunOptions)
       /\ NSources = Len(MCRunOptions.SourceAddressList)
       /\ NTargets = Len(MCRunOptions.TargetAddressList)
=============================================================================
