----------------------------- MODULE RdbRestore -----------------------------
(***************************************************************************)
(* The RDB phase of one dbSyncer (dbSyncer.syncRDBFile, run/part_000):     *)
(* the RDB loader pushes the parsed entries into a bounded channel;        *)
(* conf.Options.Parallel restorers, each with its own target connection    *)
(* and its own lastdb, drain it; each entry is counted, routed to its      *)
(* destination db and, if the key or slot filter lets it through,         *)
(* RESTOREd; a WaitGroup goroutine closes wait when every restorer has    *)
(* finished, and the progress loop then returns.                           *)
(*                                                                         *)
(* An entry is [db, key]; the keys of one RDB are distinct.  KeyPrefixes   *)
(* and KeySlot give what strings.HasPrefix and utils.KeyToSlot return.     *)
(* The configuration is chosen in Init among Options and never changes;    *)
(* restorer ids above its Parallel are goroutines that were never started. *)
(***************************************************************************)
EXTENDS Integers, Sequences, FiniteSets, Configuration

CONSTANTS
  MaxParallel,   \* the largest Parallel among Options
  Records,       \* the entries of the RDB, in file order
  DBs,           \* db indexes occurring in the RDB
  AcceptedDBs,   \* the dbs base.AcceptDB accepts
  Options,       \* the conf.Options records to check
  Keys,
  Prefixes,      \* the key prefixes the configurations use
  KeyPrefixes,   \* KeyPrefixes[k]: the prefixes key k starts with
  KeySlot,       \* KeySlot[k]: utils.KeyToSlot(k)
  Atoi,          \* Atoi[s]: strconv.Atoi(s), 0 when s is not a number
  RDBPipeSize    \* capacity of the loader's channel (base.RDBPipeSize)

ASSUME /\ Records \in Seq([db : DBs, key : Keys])
       /\ AcceptedDBs \subseteq DBs
       /\ \A c \in Options : /\ CoreAssumptions(c) /\ c.Parallel <= MaxParallel
                             /\ c.TargetDB \in DBs \cup {-1}
                             /\ \A i \in DOMAIN c.FilterKey : c.FilterKey[i] \in Prefixes
                             /\ \A i \in DOMAIN c.FilterSlot : c.FilterSlot[i] \in DOMAIN Atoi
       /\ KeyPrefixes \in [Keys -> SUBSET Prefixes]
       /\ RDBPipeSize \in Nat \ {0}

VARIABLES
  loaded,     \* entries the loader has pushed into the channel
  pipe,       \* the loader's channel
  closed,     \* the loader has closed the channel
  rpc,        \* restorer: "open" | "recv" | "apply" | "exit"
  cur,        \* the entry a restorer has received
  lastdb,     \* each restorer's lastdb
  conndb,     \* the db each restorer's target connection has selected
  restored,   \* the entries RESTOREd on the target, as [key, db]
  nentry,     \* ds.nentry
  ignore,     \* ds.ignore
  wait,       \* the wait channel is closed
  phase,      \* syncRDBFile: "full" while the progress loop runs, "done"
  opts        \* conf.Options, fixed for the run

vars == <<loaded, pipe, closed, rpc, cur, lastdb, conndb, restored, nentry,
          ignore, wait, phase, opts>>

Restorers == 1..MaxParallel

TargetDB == opts.TargetDB       \* conf.Options.TargetDB; -1 = no override
FilterKey == opts.FilterKey     \* conf.Options.FilterKey
FilterSlot == opts.FilterSlot   \* conf.Options.FilterSlot
FilterKeySet == {FilterKey[i] : i \in DOMAIN FilterKey}

(* wg.Add(Parallel) and the loop that starts the Parallel restorers.      *)
Pool == {r \in Restorers : r <= opts.Parallel}

NoEntry == [db |-> -1, key |-> -1]

AcceptDB(d) == d \in AcceptedDBs

(* The filter chain: key prefixes if configured, else slots, else all.    *)
KeyPasses(k) ==
  IF FilterKey # <<>> THEN \E i \in 1..Len(FilterKey) : FilterKey[i] \in KeyPrefixes[k]
  ELSE IF FilterSlot # <<>> THEN \E i \in 1..Len(FilterSlot) : KeySlot[k] = Atoi[FilterSlot[i]]
  ELSE TRUE

Dest(d) == IF TargetDB = -1 THEN d ELSE TargetDB

(* Spec 4.4 step 3, the reference for the filter chain: a key passes if   *)
(* it starts with a configured prefix, else if its slot is configured,    *)
(* else always.                                                            *)
SpecAdmits(k) ==
  CASE FilterKey # <<>> -> KeyPrefixes[k] \cap FilterKeySet # {}
    [] FilterSlot # <<>> -> KeySlot[k] \in {Atoi[FilterSlot[i]] : i \in DOMAIN FilterSlot}
    [] OTHER            -> TRUE

(* What the RDB phase must leave on the target (spec 4.4, P4).            *)
ExpectedSet ==
  {[key |-> Records[i].key, db |-> Dest(Records[i].db)] :
      i \in {j \in 1..Len(Records) : Records[j].db \in AcceptedDBs
                                       /\ SpecAdmits(Records[j].key)}}

-----------------------------------------------------------------------------

(* Mutant: the loader ignores the channel's capacity.                     *)
LoaderPushNoBound ==
  /\ loaded < Len(Records)
  /\ pipe' = Append(pipe, Records[loaded + 1])
  /\ loaded' = loaded + 1
  /\ UNCHANGED <<opts, closed, rpc, cur, lastdb, conndb, restored, nentry, ignore,
                 wait, phase>>

(* utils.NewRDBLoader: the next parsed entry into the bounded channel.    *)
LoaderPush ==
  /\ loaded < Len(Records) /\ Len(pipe) < RDBPipeSize
  /\ pipe' = Append(pipe, Records[loaded + 1])
  /\ loaded' = loaded + 1
  /\ UNCHANGED <<opts, closed, rpc, cur, lastdb, conndb, restored, nentry, ignore,
                 wait, phase>>

(* The loader reaches the end of the RDB and closes the channel.          *)
LoaderClose ==
  /\ loaded = Len(Records) /\ ~closed
  /\ closed' = TRUE
  /\ UNCHANGED <<opts, loaded, pipe, rpc, cur, lastdb, conndb, restored, nentry,
                 ignore, wait, phase>>

(* utils.OpenRedisConn: a new connection, on db 0, lastdb = 0.            *)
OpenConn(r) ==
  /\ rpc[r] = "open"
  /\ rpc' = [rpc EXCEPT ![r] = "recv"]
  /\ UNCHANGED <<opts, loaded, pipe, closed, cur, lastdb, conndb, restored, nentry,
                 ignore, wait, phase>>

(* for e := range pipe: take the next entry.                               *)
Receive(r) ==
  /\ rpc[r] = "recv" /\ pipe # <<>>
  /\ cur' = [cur EXCEPT ![r] = Head(pipe)]
  /\ pipe' = Tail(pipe)
  /\ rpc' = [rpc EXCEPT ![r] = "apply"]
  /\ UNCHANGED <<opts, loaded, closed, lastdb, conndb, restored, nentry, ignore,
                 wait, phase>>

(* The db a restorer's connection must SELECT for entry e, or -1 if none. *)
SelectFor(r, e) ==
  IF TargetDB # -1 THEN IF TargetDB # lastdb[r] THEN TargetDB ELSE -1
  ELSE IF e.db # lastdb[r] THEN e.db ELSE -1

(* Mutant: SELECT is sent but lastdb is not updated.                      *)
ApplyNoLastdb(r) ==
  /\ rpc[r] = "apply"
  /\ LET e == cur[r]
         s == SelectFor(r, e)
         db == IF s = -1 THEN conndb[r] ELSE s
     IN IF ~AcceptDB(e.db)
        THEN /\ ignore' = ignore + 1
             /\ UNCHANGED <<opts, nentry, lastdb, conndb, restored>>
        ELSE /\ nentry' = nentry + 1
             /\ conndb' = [conndb EXCEPT ![r] = db]
             /\ restored' = IF KeyPasses(e.key)
                            THEN restored \cup {[key |-> e.key, db |-> db]}
                            ELSE restored
             /\ UNCHANGED <<opts, ignore, lastdb>>
  /\ rpc' = [rpc EXCEPT ![r] = "recv"]
  /\ cur' = [cur EXCEPT ![r] = NoEntry]
  /\ UNCHANGED <<opts, loaded, pipe, closed, wait, phase>>

(* One iteration of the loop body: AcceptDB, the counters, SELECT, the    *)
(* filter chain and RESTORE.                                               *)
Apply(r) ==
  /\ rpc[r] = "apply"
  /\ LET e == cur[r]
         s == SelectFor(r, e)
         db == IF s = -1 THEN conndb[r] ELSE s
     IN IF ~AcceptDB(e.db)
        THEN /\ ignore' = ignore + 1
             /\ UNCHANGED <<opts, nentry, lastdb, conndb, restored>>
        ELSE /\ nentry' = nentry + 1
             /\ lastdb' = [lastdb EXCEPT ![r] = IF s = -1 THEN @ ELSE s]
             /\ conndb' = [conndb EXCEPT ![r] = db]
             /\ restored' = IF KeyPasses(e.key)
                            THEN restored \cup {[key |-> e.key, db |-> db]}
                            ELSE restored
             /\ UNCHANGED ignore
  /\ rpc' = [rpc EXCEPT ![r] = "recv"]
  /\ cur' = [cur EXCEPT ![r] = NoEntry]
  /\ UNCHANGED <<opts, loaded, pipe, closed, wait, phase>>

(* The range loop ends on the closed, drained channel: wg.Done.           *)
RestorerExit(r) ==
  /\ rpc[r] = "recv" /\ pipe = <<>> /\ closed
  /\ rpc' = [rpc EXCEPT ![r] = "exit"]
  /\ UNCHANGED <<opts, loaded, pipe, closed, cur, lastdb, conndb, restored, nentry,
                 ignore, wait, phase>>

(* Mutant: wg.Add(Parallel - 1): wait closes one restorer early.          *)
WaitCloseEarly ==
  /\ ~wait
  /\ Cardinality({r \in Pool : rpc[r] = "exit"}) >= Cardinality(Pool) - 1
  /\ wait' = TRUE
  /\ UNCHANGED <<opts, loaded, pipe, closed, rpc, cur, lastdb, conndb, restored,
                 nentry, ignore, phase>>

(* Mutant: wg.Add(Parallel + 1): wg.Wait never returns.                   *)
WaitCloseExtra ==
  /\ ~wait
  /\ Cardinality({r \in Pool : rpc[r] = "exit"}) = Cardinality(Pool) + 1
  /\ wait' = TRUE
  /\ UNCHANGED <<opts, loaded, pipe, closed, rpc, cur, lastdb, conndb, restored,
                 nentry, ignore, phase>>

(* wg.Wait returns: close(wait).                                           *)
WaitClose ==
  /\ ~wait /\ \A r \in Pool : rpc[r] = "exit"
  /\ wait' = TRUE
  /\ UNCHANGED <<opts, loaded, pipe, closed, rpc, cur, lastdb, conndb, restored,
                 nentry, ignore, phase>>

(* The progress loop sees wait closed, logs once more and returns.        *)
ProgressDone ==
  /\ wait /\ phase = "full"
  /\ phase' = "done"
  /\ UNCHANGED <<opts, loaded, pipe, closed, rpc, cur, lastdb, conndb, restored,
                 nentry, ignore, wait>>

-----------------------------------------------------------------------------

Init ==
  /\ opts \in Options
  /\ loaded = 0 /\ pipe = <<>> /\ closed = FALSE
  /\ rpc = [r \in Restorers |-> IF r \in Pool THEN "open" ELSE "none"]
  /\ cur = [r \in Restorers |-> NoEntry]
  /\ lastdb = [r \in Restorers |-> 0]
  /\ conndb = [r \in Restorers |-> 0]
  /\ restored = {} /\ nentry = 0 /\ ignore = 0
  /\ wait = FALSE /\ phase = "full"

Next ==
  \/ LoaderPush
  \/ LoaderClose
  \/ \E r \in Restorers : OpenConn(r)
  \/ \E r \in Restorers : Receive(r)
  \/ \E r \in Restorers : Apply(r)
  \/ \E r \in Restorers : RestorerExit(r)
  \/ WaitClose
  \/ ProgressDone

(* Every goroutine here is runnable whenever its action is enabled: the   *)
(* loader, each restorer, the WaitGroup goroutine and the progress loop.  *)
Fairness ==
  /\ WF_vars(LoaderPush \/ LoaderClose)
  /\ \A r \in Restorers :
       WF_vars(OpenConn(r) \/ Receive(r) \/ Apply(r) \/ RestorerExit(r))
  /\ WF_vars(WaitClose)
  /\ WF_vars(ProgressDone)

Spec == Init /\ [][Next]_vars /\ Fairness

-----------------------------------------------------------------------------
(* Properties.                                                             *)

TypeOK ==
  /\ loaded \in 0..Len(Records) /\ Len(pipe) <= RDBPipeSize
  /\ rpc \in [Restorers -> {"none", "open", "recv", "apply", "exit"}]
  /\ lastdb \in [Restorers -> DBs] /\ conndb \in [Restorers -> DBs]
  /\ restored \subseteq [key : Keys, db : DBs]
  /\ nentry \in 0..Len(Records) /\ ignore \in 0..Len(Records)
  /\ phase \in {"full", "done"}

(* Every RESTORE lands in the destination db of its entry and only        *)
(* entries the db and key/slot filters accept are restored, whatever the  *)
(* interleaving of the restorers and their per-connection lastdb.          *)
RestoredInDest == restored \subseteq ExpectedSet

(* When syncRDBFile returns (and waitFull is about to close) every entry  *)
(* the filters accept has been restored.                                   *)
RestoreComplete == phase = "done" => restored = ExpectedSet

(* syncRDBFile eventually returns.                                         *)
RestoreTerminates == <>(phase = "done")

(* Entries the restorers have finished with.                              *)
Processed == loaded - Len(pipe) - Cardinality({r \in Restorers : rpc[r] = "apply"})

(* Spec 4.4: nentry counts the restored entries, ignore the others.       *)
CountersExact ==
  /\ nentry = Cardinality(restored)
  /\ ignore = Processed - Cardinality(restored)
=============================================================================
