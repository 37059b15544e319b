------------------------ MODULE MCCommandPipeline ------------------------
(* Instantiation of CommandPipeline for TLC.                              *)
EXTENDS CommandPipeline, Configuration

SE == INSTANCE SequencesExt

(* Two keys as model values: user1 ("user:1") starts with the configured *)
(* prefix "user:", order1 ("order:1") does not.                          *)
CONSTANTS user1, order1

MCKeys == {user1, order1}
MCFilterKey == {"user:"}
MCKeyPrefixes == [k \in MCKeys |-> IF k = user1 THEN {"user:"} ELSE {}]
MCNoPrefixes == [k \in MCKeys |-> {}]
MCNoOverride == -1   \* conf.Options.TargetDB unset

(* addDelayChan's bands 4096/1024/128 and moduli 10/100/1000, scaled to a *)
(* delay channel of capacity 3 so that every band and a full channel occur. *)
MCSampleBand == <<3, 2, 1>>
MCSampleRate == <<2, 4, 8>>

(* The conf.Options record a run's constants come from: conf.FilterKey is *)
(* a list, the module keeps the set of its prefixes.                       *)
MCRunOptions ==
  Loaded(
    [ Parallel |-> 1, SourceParallel |-> 1, TargetDB |-> TargetDB,
      FilterKey |-> SE!SetToSeq(FilterKey), FilterSlot |-> << >>, Psync |-> TRUE,
      Metric |-> Metric, SenderSize |-> 104857600, SenderCount |-> SenderCount,
      SenderDelayChannelSize |-> DelayCap,
      SourceAddressList |-> <<"127.0.0.1:6379">>,
      TargetAddressList |-> <<"127.0.0.1:6380">> ])

(* addDelayChan at the thresholds of the code.                           *)
CodeSampling == INSTANCE CommandPipeline
                  WITH SampleBand <- <<4096, 1024, 128>>,
                       SampleRate <- <<10, 100, 1000>>

(* The table of spec 4.8: the free-space band selects one sampling rate. *)
TableRate(free) ==
  CASE free >= 4096 -> 1
    [] free >= 1024 -> 10
    [] free >= 128  -> 100
    [] OTHER        -> 1000

(* Free space at each edge of a band, and the default channel size.     *)
SampleFrees == {0, 127, 128, 1023, 1024, 4095, 4096, 65535}
SampleIds == 1..2000

(* addDelayChan's four-way disjunction samples exactly the sends the     *)
(* table of spec 4.8 selects, for every send id and at every band edge:  *)
(* the disjuncts of the lower bands never admit a send their band's      *)
(* rate would skip, because 10, 100 and 1000 divide one another.  The    *)
(* rule depends on no state, so it is checked once, in the state before   *)
(* the source has emitted anything.                                       *)
SamplingFollowsTable ==
  srcLog = << >> =>
  \A id \in SampleIds, free \in SampleFrees :
    CodeSampling!SampleDue(id, free) <=> id % TableRate(free) = 0

ASSUME CoreAssumptions(MCRunOptions)
=============================================================================
