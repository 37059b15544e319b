------------------------------- MODULE Engine -------------------------------
(***************************************************************************)
(* CmdSync.Main (run/part_000): every source is paired with a target      *)
(* round-robin and queued on syncChan; SourceParallel dispatch workers     *)
(* take a node, build its dbSyncer, start ds.sync() and wait for its      *)
(* waitFull before taking the next; Main waits on a WaitGroup of one count *)
(* per source, closes syncChan and blocks for ever.  Each syncer's         *)
(* lifecycle is reduced to the three writes of base.Status in sync() and   *)
(* the close of waitFull; RdbRestore and PSyncLink model what happens in  *)
(* between.  GetDetailedInfo, called from outside, reads cmd.dbSyncers.    *)
(***************************************************************************)
EXTENDS Naturals, Sequences, FiniteSets

CONSTANTS
  NSources,        \* len(conf.Options.SourceAddressList)
  NTargets,        \* len(conf.Options.TargetAddressList)
  SourceParallel   \* conf.Options.SourceParallel

ASSUME NSources \in Nat \ {0} /\ NTargets \in Nat \ {0} /\ SourceParallel \in Nat

Ids == 1..NSources
Workers == 1..SourceParallel

VARIABLES
  mpc,        \* Main: "enqueue" | "spawn" | "wait" | "blocked"
  rr,         \* utils.PickTargetRoundRobin's counter
  syncChan,   \* queued syncNodes, as [id, target]
  chanClosed, \* close(syncChan) has run
  wg,         \* the WaitGroup counter
  wpc,        \* dispatch worker: "none" | "recv" | "wait" | "exit"
  wnode,      \* the id of the syncer a worker waits for
  dbSyncers,  \* cmd.dbSyncers[id] is non-nil
  target,     \* the target each syncer was given (0 = none yet)
  sst,        \* syncer: "none" | "spawned" | "waitfull" | "full" | "incr"
  status,     \* base.Status
  fatal       \* the process panicked ("none" = running)

vars == <<mpc, rr, syncChan, chanClosed, wg, wpc, wnode, dbSyncers, target,
          sst, status, fatal>>

syncers == <<dbSyncers, target, sst>>

-----------------------------------------------------------------------------
(* Main.                                                                   *)

(* utils.PickTargetRoundRobin (not in this repository; spec 4.1).         *)
PickTargetRoundRobin == (rr % NTargets) + 1

(* One iteration of the SourceAddressList loop: syncChan <- nd.  The      *)
(* channel has capacity GetTotalLink() = NSources, so it never blocks.     *)
Enqueue ==
  /\ mpc = "enqueue" /\ Len(syncChan) < NSources
  /\ syncChan' = Append(syncChan,
                        [id |-> Len(syncChan) + 1, target |-> PickTargetRoundRobin])
  /\ rr' = rr + 1
  /\ mpc' = IF Len(syncChan) + 1 = NSources THEN "spawn" ELSE "enqueue"
  /\ UNCHANGED <<chanClosed, wg, wpc, wnode, syncers, status, fatal>>

(* Mutant: wg.Add(n + 1).                                                 *)
SpawnAddExtra ==
  /\ mpc = "spawn"
  /\ wg' = NSources + 1
  /\ wpc' = [w \in Workers |-> "recv"]
  /\ mpc' = "wait"
  /\ UNCHANGED <<rr, syncChan, chanClosed, wnode, syncers, status, fatal>>

(* Mutant: wg.Add(n - 1).                                                 *)
SpawnAddShort ==
  /\ mpc = "spawn"
  /\ wg' = NSources - 1
  /\ wpc' = [w \in Workers |-> "recv"]
  /\ mpc' = "wait"
  /\ UNCHANGED <<rr, syncChan, chanClosed, wnode, syncers, status, fatal>>

(* wg.Add(len(SourceAddressList)) and the loop that starts the workers.  *)
Spawn ==
  /\ mpc = "spawn"
  /\ wg' = NSources
  /\ wpc' = [w \in Workers |-> "recv"]
  /\ mpc' = "wait"
  /\ UNCHANGED <<rr, syncChan, chanClosed, wnode, syncers, status, fatal>>

(* wg.Wait() returns; close(syncChan); select{}.                          *)
MainWaitDone ==
  /\ mpc = "wait" /\ wg = 0
  /\ chanClosed' = TRUE
  /\ mpc' = "blocked"
  /\ UNCHANGED <<rr, syncChan, wg, wpc, wnode, syncers, status, fatal>>

-----------------------------------------------------------------------------
(* Dispatch workers.                                                       *)

(* Mutant: the worker does not wait for waitFull before wg.Done.          *)
WorkerRecvNoWait(w) ==
  /\ wpc[w] = "recv" /\ syncChan # <<>>
  /\ LET nd == Head(syncChan) IN
       /\ syncChan' = Tail(syncChan)
       /\ dbSyncers' = [dbSyncers EXCEPT ![nd.id] = TRUE]
       /\ target' = [target EXCEPT ![nd.id] = nd.target]
       /\ sst' = [sst EXCEPT ![nd.id] = "spawned"]
       /\ wnode' = [wnode EXCEPT ![w] = nd.id]
  /\ wg' = wg - 1
  /\ UNCHANGED <<wpc, mpc, rr, chanClosed, status, fatal>>

(* nd, ok := <-syncChan with a node: NewDbSyncer, cmd.dbSyncers[nd.id] =  *)
(* ds, go ds.sync(), then block on <-ds.waitFull.                          *)
WorkerRecv(w) ==
  /\ wpc[w] = "recv" /\ syncChan # <<>>
  /\ LET nd == Head(syncChan) IN
       /\ syncChan' = Tail(syncChan)
       /\ dbSyncers' = [dbSyncers EXCEPT ![nd.id] = TRUE]
       /\ target' = [target EXCEPT ![nd.id] = nd.target]
       /\ sst' = [sst EXCEPT ![nd.id] = "spawned"]
       /\ wnode' = [wnode EXCEPT ![w] = nd.id]
  /\ wpc' = [wpc EXCEPT ![w] = "wait"]
  /\ UNCHANGED <<mpc, rr, chanClosed, wg, status, fatal>>

(* Mutant: the worker breaks out of its loop after one syncer.           *)
WorkerDoneBreak(w) ==
  /\ wpc[w] = "wait" /\ sst[wnode[w]] = "incr"
  /\ wg' = wg - 1
  /\ wpc' = [wpc EXCEPT ![w] = "exit"]
  /\ UNCHANGED <<mpc, rr, syncChan, chanClosed, wnode, syncers, status, fatal>>

(* ds.waitFull is closed: wg.Done() and back to the channel.              *)
WorkerDone(w) ==
  /\ wpc[w] = "wait" /\ sst[wnode[w]] = "incr"
  /\ wg' = wg - 1
  /\ wpc' = [wpc EXCEPT ![w] = "recv"]
  /\ UNCHANGED <<mpc, rr, syncChan, chanClosed, wnode, syncers, status, fatal>>

(* !ok on the closed, drained channel: the worker breaks out.             *)
WorkerExit(w) ==
  /\ wpc[w] = "recv" /\ syncChan = <<>> /\ chanClosed
  /\ wpc' = [wpc EXCEPT ![w] = "exit"]
  /\ UNCHANGED <<mpc, rr, syncChan, chanClosed, wg, wnode, syncers, status,
                 fatal>>

-----------------------------------------------------------------------------
(* The status writes and waitFull of each syncer's sync().                *)

SyncStart(i) ==
  /\ sst[i] = "spawned"
  /\ sst' = [sst EXCEPT ![i] = "waitfull"] /\ status' = "waitfull"
  /\ UNCHANGED <<mpc, rr, syncChan, chanClosed, wg, wpc, wnode, dbSyncers,
                 target, fatal>>

(* The handshake has returned the RDB size.                               *)
SyncFull(i) ==
  /\ sst[i] = "waitfull"
  /\ sst' = [sst EXCEPT ![i] = "full"] /\ status' = "full"
  /\ UNCHANGED <<mpc, rr, syncChan, chanClosed, wg, wpc, wnode, dbSyncers,
                 target, fatal>>

(* syncRDBFile has returned: base.Status = "incr"; close(ds.waitFull).   *)
SyncIncr(i) ==
  /\ sst[i] = "full"
  /\ sst' = [sst EXCEPT ![i] = "incr"] /\ status' = "incr"
  /\ UNCHANGED <<mpc, rr, syncChan, chanClosed, wg, wpc, wnode, dbSyncers,
                 target, fatal>>

-----------------------------------------------------------------------------

Init ==
  /\ mpc = "enqueue" /\ rr = 0 /\ syncChan = <<>> /\ chanClosed = FALSE
  /\ wg = 0
  /\ wpc = [w \in Workers |-> "none"]
  /\ wnode = [w \in Workers |-> 1]
  /\ dbSyncers = [i \in Ids |-> FALSE]
  /\ target = [i \in Ids |-> 0]
  /\ sst = [i \in Ids |-> "none"]
  /\ status = ""
  /\ fatal = "none"

Next ==
  \/ Enqueue
  \/ Spawn
  \/ MainWaitDone
  \/ \E w \in Workers : WorkerRecv(w)
  \/ \E w \in Workers : WorkerDone(w)
  \/ \E w \in Workers : WorkerExit(w)
  \/ \E i \in Ids : SyncStart(i)
  \/ \E i \in Ids : SyncFull(i)
  \/ \E i \in Ids : SyncIncr(i)

(* Every goroutine runs when it can; each syncer's full sync finishes     *)
(* (what RdbRestore's RestoreTerminates and PSyncLink show of it).         *)
Fairness ==
  /\ WF_vars(Enqueue \/ Spawn \/ MainWaitDone)
  /\ \A w \in Workers : WF_vars(WorkerRecv(w) \/ WorkerDone(w) \/ WorkerExit(w))
  /\ \A i \in Ids : WF_vars(SyncStart(i) \/ SyncFull(i) \/ SyncIncr(i))

Spec == Init /\ [][Next]_vars /\ Fairness

(* GetDetailedInfo, called by the process's info endpoint while syncers   *)
(* run: syncer.GetExtraInfo() on a nil *dbSyncer dereferences nil.        *)
GetDetailedInfo ==
  /\ fatal = "none"
  /\ \E i \in Ids : dbSyncers[i]
  /\ \E i \in Ids : ~dbSyncers[i]
  /\ fatal' = "NilSyncer"
  /\ UNCHANGED <<mpc, rr, syncChan, chanClosed, wg, wpc, wnode, syncers, status>>

SpecWithInfo == Init /\ [][Next \/ GetDetailedInfo]_vars /\ Fairness

-----------------------------------------------------------------------------
(* Properties.                                                             *)

TypeOK ==
  /\ mpc \in {"enqueue", "spawn", "wait", "blocked"}
  /\ Len(syncChan) <= NSources /\ wg \in 0..NSources
  /\ wpc \in [Workers -> {"none", "recv", "wait", "exit"}]
  /\ sst \in [Ids -> {"none", "spawned", "waitfull", "full", "incr"}]
  /\ target \in [Ids -> 0..NTargets]

(* The worker pool bounds the full syncs in progress: no more than        *)
(* SourceParallel syncers are between start and waitFull at once.          *)
FullSyncsBounded ==
  Cardinality({i \in Ids : sst[i] \in {"spawned", "waitfull", "full"}}) <= SourceParallel

(* Main gets past wg.Wait only when every source's syncer has closed       *)
(* waitFull (spec 4.1: waits for every syncer to signal snapshot-done).   *)
MainWaitsForAll ==
  mpc = "blocked" => \A i \in Ids : sst[i] = "incr"

(* Every source eventually gets a syncer that reaches the incremental     *)
(* phase, and Main eventually reaches its final select{}.                  *)
AllSynced ==
  <>(mpc = "blocked" /\ \A i \in Ids : sst[i] = "incr")

(* Spec 4.1: Info() returns the state of every syncer; it never panics.   *)
InfoNeverNil == fatal # "NilSyncer"
=============================================================================
