---------------------------- MODULE StorageHealth ----------------------------
(***************************************************************************)
(* The server's view of its disk (atalk/server.py): requests that write,   *)
(* the latch that a failed write sets and a successful one clears, and the *)
(* health request that probes a latched store.                             *)
(*                                                                         *)
(* A request is handled by a thread of its own.  What it calls and for     *)
(* whom, and what the store then holds, is up to the module that extends   *)
(* this one; here a request either changes the store, or finds that it has *)
(* nothing to change.                                                      *)
(***************************************************************************)
EXTENDS Naturals

CONSTANTS
    Conns,   \* request threads
    Calls    \* what a request asks for; a record with a field op

VARIABLES
    disk,    \* what a write to the store's file system meets
    latch,   \* _storage_error
    conn,    \* the request each thread is handling
    health   \* the thread of GET /health or /readiness

storageVars == <<disk, latch, conn, health>>

Disks == {"ok", "full", "broken"}
Errors == {"storage_full", "storage_io_error"}
Idle == [pc |-> "idle"]
Request == [pc : {"arrived", "store", "classify", "failed", "stored"}, call : Calls,
            retry : {"yes", "no"}, error : Errors \cup {"none"}]

At(c, pc) == conn[c].pc = pc

-----------------------------------------------------------------------------
\* A request arrives; only that of a message asks the store before it writes.
Arrive(c, call, pc) ==
    /\ At(c, "idle")
    /\ conn' = [conn EXCEPT ![c] = [pc |-> pc, call |-> call, retry |-> "no", error |-> "none"]]
    /\ UNCHANGED <<disk, latch, health>>

\* do_POST: is this a message the store has already?  known: it is there now.
ProbeKnown(c, known) ==
    /\ At(c, "arrived")
    /\ conn' = [conn EXCEPT ![c].pc = "store", ![c].retry = IF known THEN "yes" ELSE "no"]
    /\ UNCHANGED <<disk, latch, health>>

\* The store's transaction commits, or finds nothing to write (writes = FALSE),
\* which no disk prevents.
StoreCommits(c, writes) ==
    /\ At(c, "store")
    /\ writes => disk = "ok"
    /\ conn' = [conn EXCEPT ![c].pc = "stored"]
    /\ UNCHANGED <<disk, latch, health>>

\* The transaction fails with OperationalError.  SQLITE_FULL is classified at once,
\* SQLITE_IOERR (an exhausted quota, or a broken disk) needs a probe.  Other errors (a
\* locked database) are answered 500 and change nothing.
StoreFails(c) ==
    /\ At(c, "store")
    /\ \/ /\ disk = "full"
          /\ conn' = [conn EXCEPT ![c].pc = "failed", ![c].error = "storage_full"]
       \/ /\ disk \in {"full", "broken"}
          /\ conn' = [conn EXCEPT ![c].pc = "classify"]
    /\ UNCHANGED <<disk, latch, health>>

\* classify_storage_error, from the errno of a write beside the database.
Classification == IF disk = "full" THEN "storage_full" ELSE "storage_io_error"

Classify(c) ==
    /\ At(c, "classify")
    /\ conn' = [conn EXCEPT ![c].pc = "failed", ![c].error = Classification]
    /\ UNCHANGED <<disk, latch, health>>

\* mark_storage_failure, and the answer 507 or 503.
MarkFailure(c) ==
    /\ At(c, "failed")
    /\ latch' = conn[c].error
    /\ conn' = [conn EXCEPT ![c] = Idle]
    /\ UNCHANGED <<disk, health>>

\* Mutant of MarkSuccess: a repeated message clears the latch too.
MarkEverySuccess(c) ==
    /\ At(c, "stored")
    /\ latch' = "none"
    /\ conn' = [conn EXCEPT ![c] = Idle]
    /\ UNCHANGED <<disk, health>>

\* mark_storage_success, but not for a message that was known before, and the answer.
MarkSuccess(c) ==
    /\ At(c, "stored")
    /\ latch' = IF conn[c].retry = "yes" THEN latch ELSE "none"
    /\ conn' = [conn EXCEPT ![c] = Idle]
    /\ UNCHANGED <<disk, health>>

\* refresh_storage_health: nothing to do unless the latch is set.
HealthReads ==
    /\ health = "idle"
    /\ latch # "none"
    /\ health' = "probe"
    /\ UNCHANGED <<disk, latch, conn>>

\* Mutant of HealthProbes: only a full disk is probed, an I/O error is final.
ProbeWhenFull ==
    /\ health = "probe"
    /\ health' = IF disk = "ok" /\ latch = "storage_full" THEN "clear" ELSE "idle"
    /\ UNCHANGED <<disk, latch, conn>>

\* write_probe, outside the lock; a failure of any kind leaves the latch alone.
HealthProbes ==
    /\ health = "probe"
    /\ health' = IF disk = "ok" THEN "clear" ELSE "idle"
    /\ UNCHANGED <<disk, latch, conn>>

\* mark_storage_success: clears whatever is latched by now.
HealthClears ==
    /\ health = "clear"
    /\ latch' = "none"
    /\ health' = "idle"
    /\ UNCHANGED <<disk, conn>>

\* The file system fills up, breaks or recovers.
DiskTurns(d) ==
    /\ d # disk
    /\ disk' = d
    /\ UNCHANGED <<latch, conn, health>>

StorageInit ==
    /\ disk = "ok"
    /\ latch = "none"
    /\ conn = [c \in Conns |-> Idle]
    /\ health = "idle"

-----------------------------------------------------------------------------
(* Properties *)

\* Every variable has its type.
StorageTypeOK ==
    /\ disk \in Disks
    /\ latch \in Errors \cup {"none"}
    /\ conn \in [Conns -> Request \cup {Idle}]
    /\ health \in {"idle", "probe", "clear"}

\* Once the disk is good again the latch clears and stays clear, whichever failures
\* are still being reported ("A metadata-only durability probe clears the degraded
\* latch after capacity is restored", docs/PROTOCOL.md).
LatchClears == <>[](disk = "ok") => <>[](latch = "none")
=============================================================================
