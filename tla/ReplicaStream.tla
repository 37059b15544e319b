--------------------------- MODULE ReplicaStream ---------------------------
(***************************************************************************)
(* What the incremental phase of one dbSyncer promises (spec.md 4.5, P1,   *)
(* P4, P5): the source emits a replication stream of commands; the target  *)
(* applies, in the source's order, exactly the keyed writes whose source   *)
(* db passes the db filter and whose key passes the key-prefix filter,     *)
(* each one in its destination db (the target.db override when set, else  *)
(* the db it was written to on the source).  Nothing else about the        *)
(* pipeline is visible here.                                               *)
(***************************************************************************)
EXTENDS Integers, Sequences

CONSTANTS
  DBs,          \* db indexes the source writes to
  AcceptedDBs,  \* the dbs base.AcceptDB accepts (filter.db)
  Keys,         \* keys the source writes
  FilterKey,    \* configured key prefixes (conf.Options.FilterKey); {} = off
  KeyPrefixes,  \* KeyPrefixes[k]: the configured prefixes key k starts with
  TargetDB,     \* conf.Options.TargetDB; -1 = no override
  MaxPull,      \* bound on the number of commands the source emits
  NoDb          \* the source has not selected a db on this link yet

ASSUME /\ AcceptedDBs \subseteq DBs
       /\ KeyPrefixes \in [Keys -> SUBSET FilterKey]
       /\ TargetDB \in DBs \cup {-1}
       /\ MaxPull \in Nat
       /\ NoDb \notin DBs

(* Commands of the replication stream.  A SET carries the key in arg and  *)
(* the source db it was written to in db; a SELECT carries the db in arg. *)
SourceCmds(sdb) ==
     {[cmd |-> "ping", arg |-> NoDb, db |-> sdb],
      [cmd |-> "opinfo", arg |-> NoDb, db |-> sdb]}
  \cup {[cmd |-> "select", arg |-> d, db |-> sdb] : d \in DBs}
     \* a master always selects a db before the first write it propagates
  \cup IF sdb = NoDb THEN {}
       ELSE {[cmd |-> "set", arg |-> k, db |-> sdb] : k \in Keys}

KeyMatches(k) == FilterKey = {} \/ KeyPrefixes[k] # {}

Dest(d) == IF TargetDB = -1 THEN d ELSE TargetDB

Wanted(e) == e.cmd = "set" /\ e.db \in AcceptedDBs /\ KeyMatches(e.arg)

(* The writes the target must apply for a given source history.           *)
Expected(log) ==
  LET w == SelectSeq(log, Wanted)
  IN  [i \in 1..Len(w) |-> [key |-> w[i].arg, db |-> Dest(w[i].db)]]

VARIABLES srcDb, srcLog, delivered
vars == <<srcDb, srcLog, delivered>>

Init ==
  /\ srcDb = NoDb
  /\ srcLog = <<>>
  /\ delivered = <<>>

Emit ==
  /\ Len(srcLog) < MaxPull
  /\ \E c \in SourceCmds(srcDb) :
       /\ srcLog' = Append(srcLog, c)
       /\ srcDb' = IF c.cmd = "select" THEN c.arg ELSE srcDb
  /\ UNCHANGED delivered

Deliver ==
  /\ Len(delivered) < Len(Expected(srcLog))
  /\ delivered' = Append(delivered, Expected(srcLog)[Len(delivered) + 1])
  /\ UNCHANGED <<srcDb, srcLog>>

Next == Emit \/ Deliver

Spec == Init /\ [][Next]_vars /\ WF_vars(Deliver)
=============================================================================
