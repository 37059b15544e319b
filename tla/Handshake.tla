------------------------------ MODULE Handshake ------------------------------
(***************************************************************************)
(* The handshake of one dbSyncer (run/part_000): sync() chooses            *)
(* sendPSyncCmd or sendSyncCmd by conf.Options.Psync.  Both open a         *)
(* connection, request a full sync and then read the snapshot size from   *)
(* the wait channel that utils' reader goroutine feeds: 0 for each         *)
(* keepalive marker the master sends while it prepares the snapshot, and   *)
(* the announced size N once the snapshot starts.  The handshaker treats   *)
(* 0 as a keepalive and keeps waiting; the one-second time.After case of   *)
(* its select only logs, so it is left out.                                *)
(*                                                                         *)
(* The master and the reader goroutine of utils are the environment.       *)
(***************************************************************************)
EXTENDS Integers, Sequences

CONSTANTS
  PsyncModes,     \* the values of conf.Options.Psync to check
  Sizes,          \* snapshot sizes the master may announce
  MasterOffset,   \* the offset of the master's +FULLRESYNC reply
  MaxKeepalives   \* bound on the keepalive markers the master sends

ASSUME /\ PsyncModes \subseteq BOOLEAN /\ Sizes \subseteq Nat
       /\ MasterOffset \in Nat /\ MaxKeepalives \in Nat

VARIABLES
  psync,          \* conf.Options.Psync, fixed for the run
  hpc,            \* handshaker: "open" | "fullsync" | "wait" | "done"
  waitCh,         \* the wait channel: sizes read from the master
  keepalives,     \* keepalive markers the master has sent
  announced,      \* the size the master announced (-1: not yet)
  nsize,          \* the size the handshake returns to sync()
  targetOffset    \* ds.targetOffset

vars == <<psync, hpc, waitCh, keepalives, announced, nsize, targetOffset>>

-----------------------------------------------------------------------------
(* The master: keepalives while it prepares the snapshot, then the size.  *)

Requested == hpc \in {"wait", "done"}

MasterKeepalive ==
  /\ Requested /\ announced = -1 /\ keepalives < MaxKeepalives
  /\ waitCh' = Append(waitCh, 0)
  /\ keepalives' = keepalives + 1
  /\ UNCHANGED <<psync, hpc, announced, nsize, targetOffset>>

MasterAnnounce ==
  /\ Requested /\ announced = -1
  /\ \E n \in Sizes : /\ waitCh' = Append(waitCh, n)
                      /\ announced' = n
  /\ UNCHANGED <<psync, hpc, keepalives, nsize, targetOffset>>

-----------------------------------------------------------------------------
(* The handshaker.                                                         *)

(* sendSyncCmd: utils.OpenSyncConn opens, authenticates and sends SYNC.    *)
OpenSyncConn ==
  /\ hpc = "open" /\ ~psync
  /\ hpc' = "wait"
  /\ UNCHANGED <<psync, waitCh, keepalives, announced, nsize, targetOffset>>

(* sendPSyncCmd: utils.OpenNetConn, the listening port, the buffers.       *)
OpenPSyncConn ==
  /\ hpc = "open" /\ psync
  /\ hpc' = "fullsync"
  /\ UNCHANGED <<psync, waitCh, keepalives, announced, nsize, targetOffset>>

(* utils.SendPSyncFullsync: PSYNC ? -1, the +FULLRESYNC reply, and         *)
(* ds.targetOffset.Set(offset).                                            *)
PSyncFullsync ==
  /\ hpc = "fullsync"
  /\ targetOffset' = MasterOffset
  /\ hpc' = "wait"
  /\ UNCHANGED <<psync, waitCh, keepalives, announced, nsize>>

(* One value from the wait channel: 0 is logged as a keepalive and the    *)
(* loop goes on; anything else is the size, and the handshake returns.    *)
ReadSize ==
  /\ hpc = "wait" /\ waitCh # <<>>
  /\ waitCh' = Tail(waitCh)
  /\ IF Head(waitCh) = 0
     THEN UNCHANGED <<hpc, nsize>>
     ELSE /\ nsize' = Head(waitCh)
          /\ hpc' = "done"
  /\ UNCHANGED <<psync, keepalives, announced, targetOffset>>

(* sendSyncCmd's for/select loop.                                          *)
SyncReadSize == ~psync /\ ReadSize

(* sendPSyncCmd's for nsize == 0 loop.                                     *)
PSyncReadSize == psync /\ ReadSize

-----------------------------------------------------------------------------

(* sync(): base.Status = "waitfull", then the handshake Psync selects.     *)
Init ==
  /\ psync \in PsyncModes
  /\ hpc = "open" /\ waitCh = <<>> /\ keepalives = 0 /\ announced = -1
  /\ nsize = 0 /\ targetOffset = 0

Next ==
  \/ MasterKeepalive
  \/ MasterAnnounce
  \/ OpenSyncConn
  \/ OpenPSyncConn
  \/ PSyncFullsync
  \/ SyncReadSize
  \/ PSyncReadSize

(* The handshaker goroutine runs when it can, and the master eventually    *)
(* finishes preparing the snapshot and announces its size.                 *)
Fairness ==
  /\ WF_vars(OpenSyncConn \/ OpenPSyncConn \/ PSyncFullsync \/ SyncReadSize
             \/ PSyncReadSize)
  /\ WF_vars(MasterAnnounce)

Spec == Init /\ [][Next]_vars /\ Fairness

-----------------------------------------------------------------------------
(* Properties.                                                             *)

(* Spec 8, scenario 1: when the source announces size 0 (an empty db),     *)
(* snapshotDone fires at once, i.e. the handshake returns and the RDB      *)
(* phase, which then has nothing to restore, can complete.                 *)
EmptySnapshotHandedOver == (announced = 0) ~> (hpc = "done")
=============================================================================
