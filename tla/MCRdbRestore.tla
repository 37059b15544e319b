---------------------------- MODULE MCRdbRestore ----------------------------
(* Four entries over three dbs, one or two restorers, two prefixes that   *)
(* each match one key.                                                     *)
EXTENDS RdbRestore

CONSTANTS kUser, kAdmin, kOrder

MCKeys == {kUser, kAdmin, kOrder}
MCRecords == << [db |-> 1, key |-> kUser],
                [db |-> 0, key |-> kAdmin],
                [db |-> 2, key |-> kOrder],
                [db |-> 0, key |-> kOrder] >>
MCPrefixes == {"user:", "admin:"}

(* A conf.Options record with the given restorer pool, db override and    *)
(* filters; the other fields the core reads take the sample              *)
(* configuration's values, and the rest keep their zero value.            *)
MCConf(parallel, targetDB, filterKey, filterSlot) ==
  Loaded(
    [ Parallel |-> parallel, SourceParallel |-> 1, TargetDB |-> targetDB,
      FilterKey |-> filterKey, FilterSlot |-> filterSlot, Psync |-> TRUE,
      Metric |-> TRUE, SenderSize |-> 104857600, SenderCount |-> 4095,
      SenderDelayChannelSize |-> 65535,
      SourceAddressList |-> <<"127.0.0.1:6379">>,
      TargetAddressList |-> <<"127.0.0.1:6380">> ])

(* Two restorers with a two-prefix key filter and no override; two        *)
(* restorers with target.db = 1 and a slot filter; one restorer with no   *)
(* filter at all.                                                          *)
MCOptions == { MCConf(2, -1, <<"user:", "admin:">>, << >>),
               MCConf(2, 1, << >>, <<"3">>),
               MCConf(1, -1, << >>, << >>) }
MCAtoi == [s \in {"3", "7"} |-> IF s = "3" THEN 3 ELSE 7]
MCKeyPrefixes == [k \in MCKeys |-> CASE k = kUser -> {"user:"}
                                     [] k = kAdmin -> {"admin:"}
                                     [] OTHER -> {}]
MCKeySlot == [k \in MCKeys |-> IF k = kOrder THEN 7 ELSE 3]
=============================================================================
