----------------------------- MODULE PSyncLink -----------------------------
(***************************************************************************)
(* The source side of one dbSyncer in psync mode, after the FULLRESYNC     *)
(* reply (dbSyncer.sendPSyncCmd and pSyncPipeCopy, run/part_000): the copy *)
(* goroutine moves the nsize RDB bytes and then the command stream from    *)
(* the source connection into a bounded pipe; a per-connection ACK         *)
(* goroutine reports the offset once a second; when the connection breaks *)
(* the reopen loop reconnects and resumes with PSYNC runid offset.         *)
(* The master, the network, the passing of seconds and the pipe's reader   *)
(* (RDB loader, then command parser) are the environment.                  *)
(*                                                                         *)
(* Bytes are abstracted to their identity: the RDB byte i is [k|->"rdb",   *)
(* n|->i] and the stream byte at replication offset o is [k|->"cmd",n|->o] *)
(* (offsets counted from the FULLRESYNC offset, which is 0 here).          *)
(***************************************************************************)
EXTENDS Naturals, Sequences

CONSTANTS
  NSize,          \* RDB size announced by the master ($<nsize>)
  MaxStream,      \* bound on the bytes of command stream the master writes
  PipeCap,        \* capacity of pipe.NewSize(utils.ReaderBufferSize)
  LinkCap,        \* bytes the network holds in flight on one connection
  Backlog,        \* the master's repl-backlog size, in bytes
  MaxDrops,       \* bound on network failures of the source connection
  MasterTimeout   \* the master's repl-timeout in seconds; 0 = disabled

ASSUME /\ NSize \in Nat \ {0} /\ MaxStream \in Nat
       /\ PipeCap \in Nat \ {0} /\ LinkCap \in Nat \ {0}
       /\ Backlog \in Nat /\ MaxDrops \in Nat /\ MaxStream \in Nat
       /\ MasterTimeout \in Nat

VARIABLES
  mOff,        \* master_repl_offset: stream bytes the master has produced
  sentOff,     \* last offset the master put on the current connection
  rdbSent,     \* RDB bytes the master has put on the connection
  mState,      \* master's view of this replica: "bulk" | "online" | "handshake"
  link,        \* the current source connection: "up" | "down"
  inflight,    \* bytes on the current connection the replica has not read
  drops,       \* network failures so far
  silence,     \* seconds since the master last heard an ACK (while online)
  ackDue,      \* the running ACK goroutine owes this second's ACK
  masterAck,   \* last offset the master received in REPLCONF ACK
  pc,          \* copy goroutine: "rdb" | "startcopy" | "copy" | "reopen" | "resume"
  rdbsize,     \* RDB bytes still to copy
  offset,      \* the goroutine's offset: start of the current connection
  nread,       \* pSyncPipeCopy's nread on the current connection
  ackOn,       \* an ACK goroutine runs on the current, live connection
  pipe,        \* bytes written into pipew and not yet read from piper
  delivered,   \* bytes read from piper so far
  waitFull,    \* ds.waitFull closed (the RDB has been restored)
  targetOffset,\* ds.targetOffset
  status,      \* base.Status as this syncer sets it
  fatal        \* why the process panicked ("none" = running)

vars == <<mOff, sentOff, rdbSent, mState, link, inflight, drops, silence,
          ackDue, masterAck, pc, rdbsize, offset, nread, ackOn, pipe,
          delivered, waitFull, targetOffset, status, fatal>>

master == <<mOff, sentOff, rdbSent, mState, silence, masterAck>>
replica == <<pc, rdbsize, offset, nread, ackOn, targetOffset, status>>

RdbByte(i) == [k |-> "rdb", n |-> i]
CmdByte(o) == [k |-> "cmd", n |-> o]

-----------------------------------------------------------------------------
(* The master and the network.                                             *)

MasterSendRdb ==
  /\ link = "up" /\ mState = "bulk" /\ rdbSent < NSize
  /\ Len(inflight) < LinkCap
  /\ inflight' = Append(inflight, RdbByte(rdbSent + 1))
  /\ rdbSent' = rdbSent + 1
  \* the whole payload is written: the master puts the replica online
  /\ IF rdbSent + 1 = NSize THEN mState' = "online" /\ silence' = 0
                           ELSE UNCHANGED <<mState, silence>>
  /\ UNCHANGED <<mOff, sentOff, link, drops, ackDue, masterAck, replica, pipe,
                 delivered, waitFull, fatal>>

(* A write on the master produces stream bytes, whether or not a replica   *)
(* is connected; they go into the backlog.                                 *)
MasterWrite ==
  /\ mOff < MaxStream
  /\ mOff' = mOff + 1
  /\ UNCHANGED <<sentOff, rdbSent, mState, link, inflight, drops, silence,
                 ackDue, masterAck, replica, pipe, delivered, waitFull, fatal>>

MasterPush ==
  /\ link = "up" /\ mState = "online" /\ sentOff < mOff
  /\ Len(inflight) < LinkCap
  /\ inflight' = Append(inflight, CmdByte(sentOff + 1))
  /\ sentOff' = sentOff + 1
  /\ UNCHANGED <<mOff, rdbSent, mState, link, drops, silence, ackDue,
                 masterAck, replica, pipe, delivered, waitFull, fatal>>

(* The connection breaks; what was in flight is lost.                      *)
LinkDrop ==
  /\ link = "up" /\ drops < MaxDrops
  /\ link' = "down" /\ inflight' = <<>> /\ drops' = drops + 1
  /\ UNCHANGED <<master, ackDue, replica, pipe, delivered, waitFull, fatal>>

(* One second passes.  It cannot pass while the ACK goroutine still owes  *)
(* the previous second's ACK (it sleeps 1 s between ACKs).                 *)
Tick ==
  /\ MasterTimeout > 0
  /\ link = "up" /\ mState = "online" /\ silence < MasterTimeout
  /\ ~ackDue
  /\ silence' = silence + 1
  /\ ackDue' = ackOn
  /\ UNCHANGED <<mOff, sentOff, rdbSent, mState, link, inflight, drops,
                 masterAck, replica, pipe, delivered, waitFull, fatal>>

(* replicationCron drops an online replica that has not ACKed in time.     *)
MasterTimeoutDrop ==
  /\ MasterTimeout > 0
  /\ link = "up" /\ mState = "online" /\ silence = MasterTimeout
  /\ link' = "down" /\ inflight' = <<>>
  /\ UNCHANGED <<master, drops, ackDue, replica, pipe, delivered, waitFull,
                 fatal>>

-----------------------------------------------------------------------------
(* The pipe's reader: the RDB loader, and after waitFull the parser.       *)

ReadPipe ==
  /\ pipe # <<>>
  /\ Head(pipe).k = "rdb" \/ waitFull
  /\ pipe' = Tail(pipe)
  /\ delivered' = Append(delivered, Head(pipe))
  /\ UNCHANGED <<mOff, sentOff, rdbSent, mState, link, inflight, drops,
                 silence, ackDue, masterAck, replica, waitFull, fatal>>

(* The restorers have applied the whole RDB: close(ds.waitFull).           *)
CloseWaitFull ==
  /\ ~waitFull
  /\ Len(SelectSeq(delivered, LAMBDA b : b.k = "rdb")) = NSize
  /\ waitFull' = TRUE
  /\ status' = "incr"
  /\ UNCHANGED <<mOff, sentOff, rdbSent, mState, link, inflight, drops,
                 silence, ackDue, masterAck, pc, rdbsize, offset, nread, ackOn,
                 targetOffset, pipe, delivered, fatal>>

-----------------------------------------------------------------------------
(* The copy goroutine of sendPSyncCmd.                                     *)

(* Mutant: the RDB loop stops one copy late (rdbsize != 0 tested before   *)
(* the decrement is applied).                                              *)
CopyRdbOffByOne ==
  /\ pc = "rdb"
  /\ inflight # <<>> /\ Len(pipe) < PipeCap
  /\ pipe' = Append(pipe, Head(inflight))
  /\ inflight' = Tail(inflight)
  /\ rdbsize' = rdbsize - 1
  /\ pc' = IF rdbsize = 0 THEN "startcopy" ELSE "rdb"
  /\ UNCHANGED <<master, link, drops, ackDue, offset, nread, ackOn,
                 targetOffset, status, delivered, waitFull, fatal>>

(* rdbsize -= utils.Iocopy(br, pipew, p, rdbsize): RDB bytes only.        *)
CopyRdb ==
  /\ pc = "rdb"
  /\ inflight # <<>> /\ Len(pipe) < PipeCap
  /\ pipe' = Append(pipe, Head(inflight))
  /\ inflight' = Tail(inflight)
  /\ rdbsize' = rdbsize - 1
  /\ pc' = IF rdbsize = 1 THEN "startcopy" ELSE "rdb"
  /\ UNCHANGED <<master, link, drops, ackDue, offset, nread, ackOn,
                 targetOffset, status, delivered, waitFull, fatal>>

(* The source connection fails while the RDB is being copied: Iocopy's     *)
(* read error is fatal, there is no reopen before pSyncPipeCopy.           *)
CopyRdbBroken ==
  /\ pc = "rdb" /\ link = "down"
  /\ fatal' = "RdbBroken"
  /\ UNCHANGED <<master, link, inflight, drops, ackDue, replica, pipe,
                 delivered, waitFull>>

(* Mutant: nread shared across calls instead of a fresh local.            *)
StartPipeCopyKeepNread ==
  /\ pc = "startcopy"
  /\ ackOn' = TRUE /\ ackDue' = FALSE
  /\ pc' = "copy"
  /\ UNCHANGED <<master, link, inflight, drops, rdbsize, offset, nread,
                 targetOffset, status, pipe, delivered, waitFull, fatal>>

(* pSyncPipeCopy is entered: nread = 0 and a new ACK goroutine starts.     *)
StartPipeCopy ==
  /\ pc = "startcopy"
  /\ nread' = 0
  /\ ackOn' = TRUE /\ ackDue' = FALSE
  /\ pc' = "copy"
  /\ UNCHANGED <<master, link, inflight, drops, rdbsize, offset, targetOffset,
                 status, pipe, delivered, waitFull, fatal>>

(* br.Read(p), copyto.Write(p[:n]), nread.Add(n).                          *)
PipeCopyRead ==
  /\ pc = "copy"
  /\ inflight # <<>> /\ Len(pipe) < PipeCap
  /\ pipe' = Append(pipe, Head(inflight))
  /\ inflight' = Tail(inflight)
  /\ nread' = nread + 1
  /\ UNCHANGED <<master, link, drops, ackDue, pc, rdbsize, offset, ackOn,
                 targetOffset, status, delivered, waitFull, fatal>>

(* Mutant: offset += n forgotten; the resume asks for the old offset.     *)
PipeCopyEndNoAdvance ==
  /\ pc = "copy" /\ link = "down"
  /\ targetOffset' = offset + nread
  /\ ackOn' = FALSE /\ ackDue' = FALSE
  /\ status' = "reopen"
  /\ pc' = "reopen"
  /\ UNCHANGED <<master, link, inflight, drops, rdbsize, offset, nread, pipe,
                 delivered, waitFull, fatal>>

(* The read fails: pSyncPipeCopy returns nread; offset += n,               *)
(* targetOffset.Set(offset), and the reopen loop begins.  The ACK          *)
(* goroutine dies on the closed connection.                                *)
PipeCopyEnd ==
  /\ pc = "copy" /\ link = "down"
  /\ offset' = offset + nread
  /\ targetOffset' = offset + nread
  /\ ackOn' = FALSE /\ ackDue' = FALSE
  /\ status' = "reopen"
  /\ pc' = "reopen"
  /\ UNCHANGED <<master, link, inflight, drops, rdbsize, nread, pipe,
                 delivered, waitFull, fatal>>

(* Mutant: the reconnected link goes straight back to copying, without    *)
(* SendPSyncContinue.                                                      *)
ReopenNoResume ==
  /\ pc = "reopen" /\ link = "down"
  /\ link' = "up" /\ inflight' = <<>>
  /\ mState' = "handshake"
  /\ status' = "incr"
  /\ pc' = "startcopy"
  /\ UNCHANGED <<mOff, sentOff, rdbSent, silence, masterAck, drops,
                 ackDue, rdbsize, offset, nread, ackOn, targetOffset, pipe,
                 delivered, waitFull, fatal>>

(* OpenNetConnSoft succeeds (a failed attempt changes nothing but logs).   *)
Reopen ==
  /\ pc = "reopen" /\ link = "down"
  /\ link' = "up" /\ inflight' = <<>>
  \* a fresh connection: the master streams nothing before the PSYNC
  /\ mState' = "handshake"
  /\ status' = "incr"
  /\ pc' = "resume"
  /\ UNCHANGED <<mOff, sentOff, rdbSent, silence, masterAck, drops, ackDue, rdbsize, offset, nread, ackOn,
                 targetOffset, pipe, delivered, waitFull, fatal>>

(* AuthPassword, SendPSyncListeningPort, SendPSyncContinue(runid, offset): *)
(* the master continues from offset when its backlog still holds it.       *)
Resume ==
  /\ pc = "resume" /\ link = "up"
  /\ IF mOff - offset <= Backlog
     THEN /\ sentOff' = offset
          /\ mState' = "online" /\ silence' = 0
          /\ pc' = "startcopy"
          /\ UNCHANGED fatal
     ELSE /\ fatal' = "ResyncRefused"
          /\ UNCHANGED <<sentOff, mState, silence, pc>>
  /\ UNCHANGED <<mOff, rdbSent, masterAck, link, inflight, drops, ackDue,
                 rdbsize, offset, nread, ackOn, targetOffset, status, pipe,
                 delivered, waitFull>>

(* The connection breaks again before the CONTINUE reply: the handshake   *)
(* helpers treat the read error as fatal.                                  *)
ResumeBroken ==
  /\ pc = "resume" /\ link = "down"
  /\ fatal' = "ResumeBroken"
  /\ UNCHANGED <<master, link, inflight, drops, ackDue, replica, pipe,
                 delivered, waitFull>>

(* The ACK goroutine's once-a-second SendPSyncAck: 0 until waitFull is     *)
(* closed, offset + nread after.  The master keeps the largest offset.     *)
AckSend ==
  /\ ackOn /\ ackDue /\ link = "up"
  /\ LET v == IF waitFull THEN offset + nread ELSE 0
     IN masterAck' = IF v > masterAck THEN v ELSE masterAck
  /\ silence' = 0 /\ ackDue' = FALSE
  /\ UNCHANGED <<mOff, sentOff, rdbSent, mState, link, inflight, drops,
                 replica, pipe, delivered, waitFull, fatal>>

-----------------------------------------------------------------------------

Init ==
  /\ mOff = 0 /\ sentOff = 0 /\ rdbSent = 0 /\ mState = "bulk"
  /\ link = "up" /\ inflight = <<>> /\ drops = 0
  /\ silence = 0 /\ ackDue = FALSE /\ masterAck = 0
  /\ pc = "rdb" /\ rdbsize = NSize /\ offset = 0 /\ nread = 0
  /\ ackOn = FALSE
  /\ pipe = <<>> /\ delivered = <<>> /\ waitFull = FALSE
  /\ targetOffset = 0 /\ status = "full"
  /\ fatal = "none"

Running == fatal = "none"

Next ==
  \/ Running /\ MasterSendRdb
  \/ Running /\ MasterWrite
  \/ Running /\ MasterPush
  \/ Running /\ LinkDrop
  \/ Running /\ Tick
  \/ Running /\ MasterTimeoutDrop
  \/ Running /\ ReadPipe
  \/ Running /\ CloseWaitFull
  \/ Running /\ CopyRdb
  \/ Running /\ CopyRdbBroken
  \/ Running /\ StartPipeCopy
  \/ Running /\ PipeCopyRead
  \/ Running /\ PipeCopyEnd
  \/ Running /\ Reopen
  \/ Running /\ Resume
  \/ Running /\ ResumeBroken
  \/ Running /\ AckSend

(* The copy and ACK goroutines, the pipe's reader and the master's output *)
(* are weakly fair; a reconnect eventually succeeds (the loop retries     *)
(* every second for ever).  Failures and the passing of time are not.     *)
Fairness ==
  /\ WF_vars(Running /\ (MasterSendRdb \/ MasterPush))
  /\ WF_vars(Running /\ (ReadPipe \/ CloseWaitFull))
  /\ WF_vars(Running /\ (CopyRdb \/ CopyRdbBroken \/ StartPipeCopy \/ PipeCopyRead
                        \/ PipeCopyEnd))
  /\ WF_vars(Running /\ (Reopen \/ Resume \/ ResumeBroken))
  /\ WF_vars(Running /\ AckSend)

Spec == Init /\ [][Next]_vars /\ Fairness

-----------------------------------------------------------------------------
(* Properties.                                                             *)

TypeOK ==
  /\ mOff \in 0..MaxStream /\ sentOff \in 0..mOff /\ rdbSent \in 0..NSize
  /\ mState \in {"bulk", "online", "handshake"} /\ link \in {"up", "down"}
  /\ Len(inflight) <= LinkCap /\ Len(pipe) <= PipeCap
  /\ pc \in {"rdb", "startcopy", "copy", "reopen", "resume"}
  /\ rdbsize \in 0..NSize /\ offset \in Nat /\ nread \in Nat
  /\ status \in {"full", "incr", "reopen"}
  /\ fatal \in {"none", "RdbBroken", "ResyncRefused", "ResumeBroken"}

(* The bytes the pipe hands on, read and unread, are the RDB followed by  *)
(* the master's stream from the FULLRESYNC offset, with nothing lost or   *)
(* repeated across any number of reopens (spec P7).                        *)
Expected(n) == [i \in 1..n |-> IF i <= NSize THEN RdbByte(i) ELSE CmdByte(i - NSize)]
StreamIntact ==
  delivered \o pipe = Expected(Len(delivered \o pipe))

(* The offset the master believes this replica has reached never exceeds  *)
(* the stream bytes the replica has actually taken off the connection.     *)
AckNeverAhead ==
  masterAck <= Len(SelectSeq(delivered \o pipe, LAMBDA b : b.k = "cmd"))

(* Spec 4.10: status "incr" means the snapshot is done and the source link *)
(* is not being reopened.                                                  *)
StatusTruthful ==
  status = "incr" => waitFull /\ pc \notin {"reopen", "resume"}

(* Once the master has written its whole stream, every byte of it reaches *)
(* the parser, whatever the link failures, unless the process panicked:   *)
(* the reopen loop and PSYNC CONTINUE always bring the stream back.        *)
AllDelivered ==
  (mOff = MaxStream) ~> (~Running \/ Len(delivered) = NSize + MaxStream)

(* Spec 4.3: the AckLoop runs while the snapshot is taken, "so the source  *)
(* does not consider the replica dead"; on a network that never fails,    *)
(* the RDB copy is never cut off.                                          *)
SnapshotNotTimedOut ==
  fatal # "RdbBroken"
=====
