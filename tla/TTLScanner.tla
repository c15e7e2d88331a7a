----------------------------- MODULE TTLScanner -----------------------------
(***************************************************************************)
(* The TTL scan (internal/ttl).  A scan lists the keys of one shard after  *)
(* the other, looks each key's write time up and deletes the key when the  *)
(* entry is too old.  Listing, looking up and deleting are three critical  *)
(* sections of Store.mu.  One scan runs at a time: /api/ttl-scan is sent   *)
(* by one operator.                                                        *)
(***************************************************************************)
EXTENDS Store

CONSTANT TTL  \* the configured time to live

ASSUME TTLAssumption == TTL \in Nat \ {0}

VARIABLE scan  \* the locals of Scan and ExpireKey

(* at: the time the scan was asked for; count: the shard count it read;    *)
(* keys: what is left of the shard's keys; key: the one to be deleted.     *)
(* old and young are history: the keys whose entry was, or was not, too    *)
(* old when the scan began and was not touched by anybody else since.      *)
NoScan == [pc |-> "idle", at |-> ZeroTime, count |-> 0, shard |-> 0,
           keys |-> {}, key |-> None, old |-> {}, young |-> {}]

IsExpiredMeanwhile(t, writtenAt) == now > writtenAt + TTL

(* age > ttl *)
IsExpired(t, writtenAt) == t > writtenAt + TTL

TooOld(entry, t) == entry # None /\ entry.at + TTL < t

(* What other actors write or re-route is no longer the scan's business.   *)
ObserveScan ==
  scan' = [scan EXCEPT !.old = {k \in @ : Undisturbed(k)},
                       !.young = {k \in @ : Undisturbed(k)}]

(* The handler's time.Now() and ShardCount(): the count cannot change in   *)
(* between unless the shards are expanded.                                 *)
StartScan ==
  /\ scan.pc = "idle"
  /\ scan' = [NoScan EXCEPT !.pc = "list", !.at = now, !.count = shardLen,
                            !.old = {k \in Keys : TooOld(Live(k), now)},
                            !.young = {k \in Keys : Live(k) # None /\ ~TooOld(Live(k), now)}]
  /\ UNCHANGED storeVars

ListKeys ==
  /\ scan.pc = "list"
  /\ scan' = [scan EXCEPT !.pc = "check", !.keys = ShardKeys(scan.shard)]
  /\ UNCHANGED storeVars

(* The listed shard need not be the one the key is routed to. *)
CheckKey(k) ==
  /\ scan.pc = "check" /\ k \in scan.keys
  /\ IF Live(k) # None /\ IsExpired(scan.at, Live(k).at)
     THEN scan' = [scan EXCEPT !.pc = "delete", !.keys = @ \ {k}, !.key = k]
     ELSE scan' = [scan EXCEPT !.keys = @ \ {k}]
  /\ UNCHANGED storeVars

DeleteKey ==
  /\ scan.pc = "delete"
  /\ Delete(scan.key)
  /\ scan' = [scan EXCEPT !.pc = "check", !.key = None, !.old = @ \ {scan.key}]

IsLastShardEarly(i) == i + 2 >= scan.count

IsLastShard(i) == i + 1 = scan.count

NextShard ==
  /\ scan.pc = "check" /\ scan.keys = {}
  /\ scan' = IF IsLastShard(scan.shard) THEN NoScan
             ELSE [scan EXCEPT !.pc = "list", !.shard = @ + 1]
  /\ UNCHANGED storeVars

Scan == StartScan \/ ListKeys \/ (\E k \in Keys : CheckKey(k)) \/ DeleteKey \/ NextShard

-----------------------------------------------------------------------------
(* Properties *)

(* A scan leaves alone what was not older than the TTL when it was asked   *)
(* for, however long the scan takes and whatever it lists twice: as long   *)
(* as nobody else writes or re-routes the key, its entry is there.         *)
ScanSparesYoung == \A k \in scan.young : Live(k) # None

(* Scan "removes every entry older than the TTL at the given time": when   *)
(* it ends, each entry that was too old when it began has been deleted or  *)
(* written anew or re-routed, whatever was done to other keys meanwhile.   *)
ScanIsComplete ==
  [][(scan.pc = "check" /\ scan'.pc = "idle") => scan.old = {}]_<<storeVars, scan>>
=============================================================================
