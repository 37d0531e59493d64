------------------------------ MODULE GraphStore ------------------------------
(***************************************************************************)
(* The SQLite file of the graph (sqlite-store.ts), as the processes that   *)
(* use it see it.  A reader sees what is committed when its statement      *)
(* runs, a writer's transaction is its own until it commits, and only one  *)
(* process can hold the write lock: another one's statement fails at once, *)
(* there is no busy timeout.  A process that dies loses its transaction    *)
(* and its lock.                                                           *)
(***************************************************************************)
EXTENDS Naturals, FiniteSets

CONSTANTS
    Writers,     \* processes that build or clear
    None,        \* no build, no writer
    MaxFailures  \* statements that fail for another reason than the lock

Tables == {"builds", "nodes", "edges", "evidence"}
Empty == [t \in Tables |-> {}]

VARIABLES
    made,      \* have the tables been created
    disk,      \* the committed rows, by table
    latest,    \* the committed latest_build_id of graph_metadata
    tx,        \* by writer: the rows of its transaction
    txLatest,  \* by writer: the latest_build_id of its transaction
    lock,      \* the writer that holds the write lock, or None
    snapshot,  \* by writer: the graph that it has to write
    step,      \* by writer: the statement that comes next
    failures

storeVars == <<made, disk, latest, tx, txLatest, lock, snapshot, step, failures>>

NoSnapshot == [id |-> None, nodes |-> {}, edges |-> {}, evidence |-> {}]

StoreInit ==
    /\ made = FALSE /\ disk = Empty /\ latest = None
    /\ tx = [w \in Writers |-> Empty] /\ txLatest = [w \in Writers |-> None]
    /\ lock = None
    /\ snapshot = [w \in Writers |-> NoSnapshot]
    /\ step = [w \in Writers |-> "idle"]
    /\ failures = 0

\* No other process has a write transaction open.
Free(w) == lock \in {w, None}
At(w, here) == step[w] = here
Go(w, there) == step' = [step EXCEPT ![w] = there]

\* The directories are made and the tables created; the version is upserted outside of a transaction.
Ensure(w) ==
    /\ At(w, "ensure") /\ Free(w)
    /\ made' = TRUE
    /\ Go(w, "begin")
    /\ UNCHANGED <<disk, latest, tx, txLatest, lock, snapshot, failures>>

\* BEGIN takes no lock yet: the transaction sees the rows of its first statement.
Begin(w) ==
    /\ At(w, "begin")
    /\ Go(w, "delete")
    /\ UNCHANGED <<made, disk, latest, tx, txLatest, lock, snapshot, failures>>

DeleteRows(w) ==
    /\ At(w, "delete") /\ Free(w)
    /\ lock' = w
    /\ tx' = [tx EXCEPT ![w] = Empty]
    /\ txLatest' = [txLatest EXCEPT ![w] = latest]
    /\ Go(w, "builds")
    /\ UNCHANGED <<made, disk, latest, snapshot, failures>>

InsertOrder == [builds |-> "nodes", nodes |-> "edges", edges |-> "evidence", evidence |-> "latest"]
RowsOf(s, table) == IF table = "builds" THEN {s.id} ELSE s[table]

\* Bug: rows are inserted outside the transaction.
InsertAtOnce(w, table) ==
    /\ At(w, table)
    /\ tx' = [tx EXCEPT ![w][table] = RowsOf(snapshot[w], table)]
    /\ disk' = [disk EXCEPT ![table] = RowsOf(snapshot[w], table)]
    /\ Go(w, InsertOrder[table])
    /\ UNCHANGED <<made, latest, txLatest, lock, snapshot, failures>>

Insert(w, table) ==
    /\ At(w, table)
    /\ tx' = [tx EXCEPT ![w][table] = RowsOf(snapshot[w], table)]
    /\ Go(w, InsertOrder[table])
    /\ UNCHANGED <<made, disk, latest, txLatest, lock, snapshot, failures>>

SetLatest(w) ==
    /\ At(w, "latest")
    /\ txLatest' = [txLatest EXCEPT ![w] = snapshot[w].id]
    /\ Go(w, "commit")
    /\ UNCHANGED <<made, disk, latest, tx, lock, snapshot, failures>>

Commit(w) ==
    /\ At(w, "commit")
    /\ disk' = tx[w] /\ latest' = txLatest[w]
    /\ lock' = None
    /\ snapshot' = [snapshot EXCEPT ![w] = NoSnapshot]
    /\ Go(w, "done")
    /\ UNCHANGED <<made, tx, txLatest, failures>>

\* clear has no transaction: each of its statements is committed by itself.
ClearOrder ==
    [t \in {"clear-builds", "clear-nodes", "clear-edges", "clear-evidence", "clear-latest"} |->
        CASE t = "clear-builds"   -> "clear-nodes"
          [] t = "clear-nodes"    -> "clear-edges"
          [] t = "clear-edges"    -> "clear-evidence"
          [] t = "clear-evidence" -> "clear-latest"
          [] t = "clear-latest"   -> "done"]
Cleared == [t \in DOMAIN ClearOrder \ {"clear-latest"} |->
    CASE t = "clear-builds" -> "builds" [] t = "clear-nodes" -> "nodes"
      [] t = "clear-edges" -> "edges" [] t = "clear-evidence" -> "evidence"]

NeedsLock(w) == step[w] \in {"ensure", "delete"} \cup DOMAIN ClearOrder

\* A process ends with an error, or dies, with its transaction rolled back.
Ended(w, how) ==
    /\ lock' = IF lock = w THEN None ELSE lock
    /\ snapshot' = [snapshot EXCEPT ![w] = NoSnapshot]
    /\ Go(w, how)
    /\ UNCHANGED <<made, disk, latest, tx, txLatest>>

\* SQLITE_BUSY, with another writer in a transaction, and a clear of tables that are not there.
Refused(w) ==
    /\ NeedsLock(w) /\ (~Free(w) \/ (step[w] \in DOMAIN ClearOrder /\ ~made))
    /\ Ended(w, "failed") /\ UNCHANGED failures

\* Any other error of a statement, and the death of the process between two.
Failing(w) ==
    /\ step[w] \notin {"idle", "done", "failed"} /\ failures < MaxFailures
    /\ Ended(w, "failed")
    /\ failures' = failures + 1

ClearStatement(w) ==
    /\ step[w] \in DOMAIN ClearOrder /\ Free(w) /\ made
    /\ IF At(w, "clear-latest") THEN latest' = None /\ disk' = disk
       ELSE disk' = [disk EXCEPT ![Cleared[step[w]]] = {}] /\ latest' = latest
    /\ Go(w, ClearOrder[step[w]])
    /\ UNCHANGED <<made, tx, txLatest, lock, snapshot, failures>>

StoreStep(w) ==
    \/ Ensure(w) \/ Begin(w) \/ DeleteRows(w)
    \/ \E t \in DOMAIN InsertOrder : Insert(w, t)
    \/ SetLatest(w) \/ Commit(w) \/ ClearStatement(w)
    \/ Refused(w) \/ Failing(w)

---------------------------------------------------------------------------
(* Reads of committed rows. *)

BuildRow(id) == IF id \in disk.builds THEN id ELSE None
NodeRow(id) == {n \in disk.nodes : n.id = id}
=============================================================================
