---------------------------- MODULE Configuration ----------------------------
(***************************************************************************)
(* conf.Configuration and conf.Options (configure/configure.go).  The     *)
(* record is filled once by the configuration loader, which is not in this *)
(* repository, before CmdSync.Main starts any syncer, and nothing in the   *)
(* replication core writes it afterwards; every module therefore takes     *)
(* the fields it reads as constants.                                       *)
(*                                                                         *)
(* Each field keeps its Go type: string -> STRING, int -> Int, uint,       *)
(* uint32 and uint64 -> Nat, bool -> BOOLEAN, []string -> Seq(STRING),     *)
(* time.Duration (an int64 of nanoseconds) -> Int.  The core              *)
(* (run/part_000) reads Parallel, SourceParallel, TargetDB, FilterKey,     *)
(* FilterSlot, Psync, Metric, the three Sender fields and the two address  *)
(* lists into its control; CoreAssumptions constrains those.               *)
(***************************************************************************)
EXTENDS Integers, Sequences

(* type Configuration struct.                                              *)
Configuration ==
  [ Id : STRING, LogFile : STRING, LogLevel : STRING,
    SystemProfile : Int, HttpProfile : Int, NCpu : Int,
    Parallel : Int,                          \* restorers per syncRDBFile
    SourceType : STRING, SourceAddress : STRING,
    SourcePasswordRaw : STRING, SourcePasswordEncoding : STRING,
    SourceVersion : Nat, SourceAuthType : STRING,
    SourceParallel : Nat,                    \* dispatch workers of Main
    TargetAddress : STRING, TargetPasswordRaw : STRING,
    TargetPasswordEncoding : STRING, TargetVersion : Nat,
    TargetDB : Int,                          \* db override; -1 = none
    TargetAuthType : STRING, TargetType : STRING,
    RdbInput : Seq(STRING), RdbOutput : STRING, RdbParallel : Int,
    FakeTime : STRING, Rewrite : BOOLEAN, FilterDB : STRING,
    FilterKey : Seq(STRING),                 \* key prefixes
    FilterSlot : Seq(STRING),                \* slots, parsed by strconv.Atoi
    BigKeyThreshold : Nat,
    Psync : BOOLEAN,                         \* PSYNC handshake, else SYNC
    Metric : BOOLEAN, MetricPrintLog : BOOLEAN,
    HeartbeatUrl : STRING, HeartbeatInterval : Nat,
    HeartbeatExternal : STRING, HeartbeatNetworkInterface : STRING,
    SenderSize : Nat,                        \* flush threshold in bytes
    SenderCount : Nat,                       \* sendBuf capacity, flush batch
    SenderDelayChannelSize : Nat,            \* delayChannel capacity
    KeepAlive : Nat, PidPath : STRING,
    ScanKeyNumber : Nat, ScanSpecialCloud : STRING, ScanKeyFile : STRING,
    ReplaceHashTag : BOOLEAN, ExtraInfo : BOOLEAN,
    SockFileName : STRING, SockFileSize : Nat,
    SourceAddressList : Seq(STRING), TargetAddressList : Seq(STRING),
    HeartbeatIp : STRING, ShiftTime : Int,
    TargetRedisVersion : STRING, TargetReplace : BOOLEAN ]

(* var Options Configuration: every field at its Go zero value until the   *)
(* loader assigns it.                                                      *)
ZeroOptions ==
  [ Id |-> "", LogFile |-> "", LogLevel |-> "",
    SystemProfile |-> 0, HttpProfile |-> 0, NCpu |-> 0, Parallel |-> 0,
    SourceType |-> "", SourceAddress |-> "", SourcePasswordRaw |-> "",
    SourcePasswordEncoding |-> "", SourceVersion |-> 0, SourceAuthType |-> "",
    SourceParallel |-> 0, TargetAddress |-> "", TargetPasswordRaw |-> "",
    TargetPasswordEncoding |-> "", TargetVersion |-> 0, TargetDB |-> 0,
    TargetAuthType |-> "", TargetType |-> "",
    RdbInput |-> << >>, RdbOutput |-> "", RdbParallel |-> 0,
    FakeTime |-> "", Rewrite |-> FALSE, FilterDB |-> "",
    FilterKey |-> << >>, FilterSlot |-> << >>, BigKeyThreshold |-> 0,
    Psync |-> FALSE, Metric |-> FALSE, MetricPrintLog |-> FALSE,
    HeartbeatUrl |-> "", HeartbeatInterval |-> 0, HeartbeatExternal |-> "",
    HeartbeatNetworkInterface |-> "",
    SenderSize |-> 0, SenderCount |-> 0, SenderDelayChannelSize |-> 0,
    KeepAlive |-> 0, PidPath |-> "",
    ScanKeyNumber |-> 0, ScanSpecialCloud |-> "", ScanKeyFile |-> "",
    ReplaceHashTag |-> FALSE, ExtraInfo |-> FALSE,
    SockFileName |-> "", SockFileSize |-> 0,
    SourceAddressList |-> << >>, TargetAddressList |-> << >>,
    HeartbeatIp |-> "", ShiftTime |-> 0,
    TargetRedisVersion |-> "", TargetReplace |-> FALSE ]

(* Options after the loader has assigned the fields of the record set;    *)
(* every other field keeps its zero value.                                 *)
Loaded(set) ==
  [f \in DOMAIN ZeroOptions |-> IF f \in DOMAIN set THEN set[f]
                                                   ELSE ZeroOptions[f]]

(* What the modules assume of the loaded record.  The loader that would   *)
(* enforce it is not in this repository; README section 5 lists what the *)
(* core does when a field is outside it.                                   *)
CoreAssumptions(c) ==
  /\ c \in Configuration
  /\ c.Parallel >= 1 /\ c.SourceParallel >= 1 /\ c.SenderCount >= 1
  /\ c.TargetDB >= -1
  /\ Len(c.SourceAddressList) >= 1 /\ Len(c.TargetAddressList) >= 1
=============================================================================
