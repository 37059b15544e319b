-------------------------- MODULE CommandPipeline --------------------------
(***************************************************************************)
(* The incremental phase of one dbSyncer (dbSyncer.syncCommand, run/       *)
(* part_000): three goroutines joined by two channels and one target       *)
(* connection.                                                             *)
(*   parser   : decodes the replication stream, filters it, pushes to      *)
(*              sendBuf (cap SenderCount);                                 *)
(*   sender   : Send (buffered write) -> addDelayChan -> maybe Flush;      *)
(*   receiver : Receive one reply, recvId++, match the sampled delayNode.  *)
(* The target (a Redis server) applies flushed commands in order and       *)
(* replies in order; it is the environment and is not mapped to code.      *)
(***************************************************************************)
EXTENDS Integers, Sequences

CONSTANTS
  DBs, AcceptedDBs, Keys, FilterKey, KeyPrefixes, TargetDB, MaxPull, NoDb,
  SenderCount,    \* conf.Options.SenderCount: sendBuf capacity, flush batch
  DelayCap,       \* conf.Options.SenderDelayChannelSize
  SampleBand,     \* free-space bands of addDelayChan (4096, 1024, 128)
  SampleRate,     \* sampling moduli of the lower bands (10, 100, 1000)
  Metric,         \* conf.Options.Metric
  TargetErr       \* the target may answer a command with an error reply

ASSUME /\ SenderCount \in Nat \ {0}
       /\ DelayCap \in Nat
       /\ SampleBand \in Seq(Nat) /\ Len(SampleBand) = 3
       /\ SampleRate \in Seq(Nat \ {0}) /\ Len(SampleRate) = 3
       /\ Metric \in BOOLEAN /\ TargetErr \in BOOLEAN

VARIABLES
  srcDb, srcLog,              \* the source: current db, history emitted
  lastdb, bypass, pending,    \* parser goroutine locals; pending = blocked push
  nbypass,                    \* ds.nbypass
  sendBuf,                    \* ds.sendBuf
  spc, noFlushCount, sendId,  \* sender goroutine: program point and locals
  wbuf,                       \* commands Send has buffered on c, not flushed
  delayChannel,               \* ds.delayChannel (ids of sampled sends)
  wire,                       \* flushed commands the target has not applied
  tdb, tlog,                  \* target: selected db, applied commands
  replies,                    \* replies the receiver has not read
  recvId, node,               \* receiver goroutine
  fatal                       \* why the process panicked ("none" = running)

vars == <<srcDb, srcLog, lastdb, bypass, pending, nbypass, sendBuf, spc,
          noFlushCount, sendId, wbuf, delayChannel, wire, tdb, tlog, replies,
          recvId, node, fatal>>

Nil == 0            \* a nil *delayNode; sendIds start at 1
KeyedCmds == {"set"} \* verbs command.RedisCommands gives key positions for

-----------------------------------------------------------------------------
(* Source and target: the environment.                                     *)

Delivered ==
  LET sets == SelectSeq(tlog, LAMBDA e : e.cmd = "set")
  IN  [i \in 1..Len(sets) |-> [key |-> sets[i].arg, db |-> sets[i].db]]

RS == INSTANCE ReplicaStream WITH delivered <- Delivered

TargetApply ==
  /\ wire # <<>>
  /\ LET c == Head(wire) IN
       /\ tlog' = Append(tlog, [cmd |-> c.cmd, arg |-> c.arg, db |-> tdb])
       /\ tdb' = IF c.cmd = "select" THEN c.arg ELSE tdb
  /\ wire' = Tail(wire)
  /\ \E r \in IF TargetErr THEN {"ok", "err"} ELSE {"ok"} :
       replies' = Append(replies, r)
  /\ UNCHANGED <<srcDb, srcLog, lastdb, bypass, pending, nbypass, sendBuf, spc,
                 noFlushCount, sendId, wbuf, delayChannel, recvId, node, fatal>>

-----------------------------------------------------------------------------
(* Parser goroutine.                                                       *)

(* Whether the command-filter stage drops c, bypassing it.                 *)
Dropped(c, byp) ==
  \/ byp
  \/ c.cmd = "opinfo"
  \/ /\ FilterKey # {}
     /\ c.cmd \in KeyedCmds
     /\ ~RS!KeyMatches(c.arg)

(* Mutant of ParseCommand: the override branch compares the source's db  *)
(* with lastdb instead of target.db.                                       *)
ParseCommandCmpSourceDb ==
  /\ pending = <<>>
  /\ Len(srcLog) < MaxPull
  /\ \E c \in RS!SourceCmds(srcDb) :
       LET byp == IF c.cmd = "select" THEN c.arg \notin AcceptedDBs ELSE bypass
       IN /\ srcLog' = Append(srcLog, c)
          /\ srcDb' = IF c.cmd = "select" THEN c.arg ELSE srcDb
          /\ bypass' = byp
          /\ CASE Dropped(c, byp) ->
                    /\ nbypass' = nbypass + 1
                    /\ UNCHANGED <<lastdb, pending>>
               [] c.cmd = "select" /\ TargetDB # -1 /\ c.arg # lastdb ->
                    /\ lastdb' = TargetDB
                    /\ pending' = <<[cmd |-> "select", arg |-> TargetDB]>>
                    /\ UNCHANGED nbypass
               [] c.cmd = "select" /\ TargetDB # -1 ->
                    /\ nbypass' = nbypass + 1
                    /\ UNCHANGED <<lastdb, pending>>
               [] OTHER ->
                    /\ pending' = <<[cmd |-> c.cmd, arg |-> c.arg]>>
                    /\ UNCHANGED <<lastdb, nbypass>>
  /\ UNCHANGED <<sendBuf, spc, noFlushCount, sendId, wbuf, delayChannel, wire,
                 tdb, tlog, replies, recvId, node, fatal>>

(* Mutant of ParseCommand: lastdb is not updated when the translated       *)
(* SELECT is emitted.                                                      *)
ParseCommandNoLastdb ==
  /\ pending = <<>>
  /\ Len(srcLog) < MaxPull
  /\ \E c \in RS!SourceCmds(srcDb) :
       LET byp == IF c.cmd = "select" THEN c.arg \notin AcceptedDBs ELSE bypass
       IN /\ srcLog' = Append(srcLog, c)
          /\ srcDb' = IF c.cmd = "select" THEN c.arg ELSE srcDb
          /\ bypass' = byp
          /\ CASE Dropped(c, byp) ->
                    /\ nbypass' = nbypass + 1
                    /\ UNCHANGED <<lastdb, pending>>
               [] c.cmd = "select" /\ TargetDB # -1 /\ TargetDB # lastdb ->
                    /\ pending' = <<[cmd |-> "select", arg |-> TargetDB]>>
                    /\ UNCHANGED <<lastdb, nbypass>>
               [] c.cmd = "select" /\ TargetDB # -1 ->
                    /\ nbypass' = nbypass + 1
                    /\ UNCHANGED <<lastdb, pending>>
               [] OTHER ->
                    /\ pending' = <<[cmd |-> c.cmd, arg |-> c.arg]>>
                    /\ UNCHANGED <<lastdb, nbypass>>
  /\ UNCHANGED <<sendBuf, spc, noFlushCount, sendId, wbuf, delayChannel, wire,
                 tdb, tlog, replies, recvId, node, fatal>>

(* One loop iteration: decode c, then filter it, translate a SELECT under  *)
(* the target.db override, and either count it bypassed or hold it for the *)
(* push into sendBuf.                                                      *)
ParseCommand ==
  /\ pending = <<>>
  /\ Len(srcLog) < MaxPull
  /\ \E c \in RS!SourceCmds(srcDb) :
       LET byp == IF c.cmd = "select" THEN c.arg \notin AcceptedDBs ELSE bypass
       IN /\ srcLog' = Append(srcLog, c)
          /\ srcDb' = IF c.cmd = "select" THEN c.arg ELSE srcDb
          /\ bypass' = byp
          /\ CASE Dropped(c, byp) ->
                    /\ nbypass' = nbypass + 1
                    /\ UNCHANGED <<lastdb, pending>>
               [] c.cmd = "select" /\ TargetDB # -1 /\ TargetDB # lastdb ->
                    /\ lastdb' = TargetDB
                    /\ pending' = <<[cmd |-> "select", arg |-> TargetDB]>>
                    /\ UNCHANGED nbypass
               [] c.cmd = "select" /\ TargetDB # -1 ->
                    /\ nbypass' = nbypass + 1
                    /\ UNCHANGED <<lastdb, pending>>
               [] OTHER ->
                    /\ pending' = <<[cmd |-> c.cmd, arg |-> c.arg]>>
                    /\ UNCHANGED <<lastdb, nbypass>>
  /\ UNCHANGED <<sendBuf, spc, noFlushCount, sendId, wbuf, delayChannel, wire,
                 tdb, tlog, replies, recvId, node, fatal>>

(* ds.sendBuf <- cmd: blocks while the channel is full.                    *)
PushSendBuf ==
  /\ pending # <<>>
  /\ Len(sendBuf) < SenderCount
  /\ sendBuf' = sendBuf \o pending
  /\ pending' = <<>>
  /\ UNCHANGED <<srcDb, srcLog, lastdb, bypass, nbypass, spc, noFlushCount,
                 sendId, wbuf, delayChannel, wire, tdb, tlog, replies, recvId,
                 node, fatal>>

-----------------------------------------------------------------------------
(* Sender goroutine: one iteration of `for item := range ds.sendBuf`.      *)

(* Mutant of SenderSend: the write goes straight to the wire, as with an  *)
(* unbuffered connection, before the delay node is queued.                 *)
SenderSendWriteThrough ==
  /\ spc = "send"
  /\ sendBuf # <<>>
  /\ sendBuf' = Tail(sendBuf)
  /\ wire' = wire \o Append(wbuf, Head(sendBuf))
  /\ wbuf' = <<>>
  /\ noFlushCount' = noFlushCount + 1
  /\ sendId' = sendId + 1
  /\ spc' = IF Metric THEN "delay" ELSE "flush"
  /\ UNCHANGED <<srcDb, srcLog, lastdb, bypass, pending, nbypass, delayChannel,
                 tdb, tlog, replies, recvId, node, fatal>>

SenderSend ==
  /\ spc = "send"
  /\ sendBuf # <<>>
  /\ sendBuf' = Tail(sendBuf)
  /\ wbuf' = Append(wbuf, Head(sendBuf))
  /\ noFlushCount' = noFlushCount + 1
  /\ sendId' = sendId + 1
  /\ spc' = IF Metric THEN "delay" ELSE "flush"
  /\ UNCHANGED <<srcDb, srcLog, lastdb, bypass, pending, nbypass, delayChannel,
                 wire, tdb, tlog, replies, recvId, node, fatal>>

(* Mutant of SampleDue: a band is entered only above its threshold.      *)
SampleDueStrict(id, free) ==
  \/ free > SampleBand[1]
  \/ free > SampleBand[2] /\ id % SampleRate[1] = 0
  \/ free > SampleBand[3] /\ id % SampleRate[2] = 0
  \/ id % SampleRate[3] = 0

(* The sampling rule of addDelayChan, free = cap - len.                    *)
SampleDue(id, free) ==
  \/ free >= SampleBand[1]
  \/ free >= SampleBand[2] /\ id % SampleRate[1] = 0
  \/ free >= SampleBand[3] /\ id % SampleRate[2] = 0
  \/ id % SampleRate[3] = 0

(* addDelayChan: a non-blocking push; a sample is dropped when full.       *)
AddDelayChan ==
  /\ spc = "delay"
  /\ delayChannel' =
       IF SampleDue(sendId, DelayCap - Len(delayChannel))
          /\ Len(delayChannel) < DelayCap
       THEN Append(delayChannel, sendId) ELSE delayChannel
  /\ spc' = "flush"
  /\ UNCHANGED <<srcDb, srcLog, lastdb, bypass, pending, nbypass, sendBuf,
                 noFlushCount, sendId, wbuf, wire, tdb, tlog, replies, recvId,
                 node, fatal>>

(* Mutant of SenderFlush: noFlushCount is not reset after a flush.        *)
SenderFlushNoReset ==
  /\ spc = "flush"
  /\ IF noFlushCount > SenderCount \/ sendBuf = <<>>
     THEN /\ wire' = wire \o wbuf
          /\ wbuf' = <<>>
     ELSE UNCHANGED <<wire, wbuf>>
  /\ spc' = "send"
  /\ UNCHANGED <<srcDb, srcLog, lastdb, bypass, pending, nbypass, sendBuf,
                 noFlushCount, sendId, delayChannel, tdb, tlog, replies, recvId,
                 node, fatal>>

(* Flush when the batch is over SenderCount or sendBuf is empty.  The      *)
(* cachedSize > SenderSize test is never true: cachedSize stays 0.         *)
SenderFlush ==
  /\ spc = "flush"
  /\ IF noFlushCount > SenderCount \/ sendBuf = <<>>
     THEN /\ wire' = wire \o wbuf
          /\ wbuf' = <<>>
          /\ noFlushCount' = 0
     ELSE UNCHANGED <<wire, wbuf, noFlushCount>>
  /\ spc' = "send"
  /\ UNCHANGED <<srcDb, srcLog, lastdb, bypass, pending, nbypass, sendBuf,
                 sendId, delayChannel, tdb, tlog, replies, recvId, node, fatal>>

-----------------------------------------------------------------------------
(* Receiver goroutine: one iteration of its loop.                          *)

Receive ==
  /\ replies # <<>>
  /\ replies' = Tail(replies)
  /\ recvId' = recvId + 1
  /\ LET id == recvId + 1
         popped == node = Nil /\ delayChannel # <<>>
         n == IF popped THEN Head(delayChannel) ELSE node
     IN CASE ~Metric ->
               UNCHANGED <<node, delayChannel, fatal>>
          [] Head(replies) = "err" ->
               /\ fatal' = "ErrorReply"
               /\ UNCHANGED <<node, delayChannel>>
          [] n # Nil /\ n < id ->
               /\ fatal' = "RecvIdInvalid"
               /\ UNCHANGED <<node, delayChannel>>
          [] OTHER ->
               /\ delayChannel' = IF popped THEN Tail(delayChannel)
                                  ELSE delayChannel
               /\ node' = IF n = id THEN Nil ELSE n
               /\ UNCHANGED fatal
  /\ UNCHANGED <<srcDb, srcLog, lastdb, bypass, pending, nbypass, sendBuf, spc,
                 noFlushCount, sendId, wbuf, wire, tdb, tlog>>

-----------------------------------------------------------------------------

Init ==
  /\ srcDb = NoDb /\ srcLog = <<>>
  /\ lastdb = 0 /\ bypass = FALSE /\ pending = <<>> /\ nbypass = 0
  /\ sendBuf = <<>>
  /\ spc = "send" /\ noFlushCount = 0 /\ sendId = 0 /\ wbuf = <<>>
  /\ delayChannel = <<>>
  /\ wire = <<>> /\ tdb = 0 /\ tlog = <<>> /\ replies = <<>>
  /\ recvId = 0 /\ node = Nil
  /\ fatal = "none"

(* A panic in any goroutine ends the process.                             *)
Running == fatal = "none"

(* When the source has nothing more to send and the pipeline has drained,  *)
(* or after a panic, no step is enabled: the process idles or is gone.     *)
Next ==
  \/ Running /\ ParseCommand
  \/ Running /\ PushSendBuf
  \/ Running /\ SenderSend
  \/ Running /\ AddDelayChan
  \/ Running /\ SenderFlush
  \/ Running /\ TargetApply
  \/ Running /\ Receive

(* Every goroutine that can run is eventually scheduled, and the target    *)
(* eventually serves what it has read; the source owes nothing.            *)
Fairness ==
  /\ WF_vars(Running /\ PushSendBuf)
  /\ WF_vars(Running /\ (SenderSend \/ AddDelayChan \/ SenderFlush))
  /\ WF_vars(Running /\ TargetApply)
  /\ WF_vars(Running /\ Receive)

Spec == Init /\ [][Next]_vars /\ Fairness

-----------------------------------------------------------------------------
(* Properties.                                                             *)

TypeOK ==
  /\ srcLog \in Seq([cmd : {"ping", "opinfo", "select", "set"},
                     arg : DBs \cup Keys \cup {NoDb}, db : DBs \cup {NoDb}])
  /\ lastdb \in DBs \cup {0} /\ bypass \in BOOLEAN
  /\ Len(pending) <= 1 /\ Len(sendBuf) <= SenderCount
  /\ spc \in {"send", "delay", "flush"}
  /\ noFlushCount \in 0..SenderCount + 1
  /\ Len(delayChannel) <= DelayCap
  /\ node \in Nat /\ recvId <= sendId
  /\ fatal \in {"none", "ErrorReply", "RecvIdInvalid"}

(* Receiver: the sampled delayNode it holds is never behind the reply it   *)
(* is reading (the log.Panicf "receive id invalid" branch is unreachable). *)
(* It needs the sender to queue node k before command k can be answered.   *)
DelayNodeNotBehind == fatal # "RecvIdInvalid"

(* Select coalescing (spec P5): the target is never sent a SELECT of the   *)
(* db its connection is already on; the parser's lastdb has to track the  *)
(* db of a connection that is three goroutine hops downstream.            *)
SelectCoalesced ==
  \A i \in 1..Len(tlog) : tlog[i].cmd = "select" => tlog[i].arg # tlog[i].db

(* Spec 4.5: the parser passes PING through unconditionally.  Every PING  *)
(* decoded from the source is in flight or applied on the target.          *)
PingsIn(s) == Len(SelectSeq(s, LAMBDA e : e.cmd = "ping"))
PingForwarded ==
  PingsIn(srcLog) = PingsIn(tlog \o wire \o wbuf \o sendBuf \o pending)

(* Spec 4.7: every failed reply is fatal to the syncer.  A receiver step   *)
(* that reads an error reply leaves the process panicked.                  *)
ErrorReplyFatal ==
  [][replies # <<>> /\ Head(replies) = "err" /\ replies' = Tail(replies)
     => fatal' # "none"]_vars

(* The pipeline implements ReplicaStream: the target applies exactly the   *)
(* filtered source writes, in order, each in its destination db, and      *)
(* eventually applies every one of them.                                  *)
ForwardSpec == RS!Spec
=============================================================================
