----------------------------- MODULE ReconcileTx -----------------------------
(***************************************************************************)
(* ReconcileScan statement by statement (internal/catalog/store.go).  The  *)
(* transaction works on the rows it will commit: it parks every known      *)
(* appearance of the provider, writes the observations one by one, gives   *)
(* the appearances it did not see their locators back, and commits.  The   *)
(* unique index on available locators is checked by SQLite after each      *)
(* statement; any statement may fail, and the process may die between two. *)
(*                                                                         *)
(* The variables of Reconciliation are what is committed.  The store has   *)
(* one connection, so nothing else reads or writes while a transaction is  *)
(* open, and the rows loaded at its start are the committed ones.          *)
(***************************************************************************)
EXTENDS Reconciliation

CONSTANT NoTx   \* no transaction is open

VARIABLE tx     \* the open transaction: its scan, its progress and its rows

txVars == <<vars, tx>>

ASSUME TxAssumption == AppId \cap Locator = {}

TxInit == Init /\ tx = NoTx

-----------------------------------------------------------------------------
(* "__sampo_reconcile__/" and the id: a locator no file has. *)
Temporary(a) == a

(* Mutant: the appearances are not parked. *)
BeginTx_NotParked(p, obs, bad, at) ==
    /\ tx = NoTx /\ p \in running
    /\ \E first \in FirstPass(OwnRows(p), obs) :
         tx' = [prov |-> p, obs |-> obs, bad |-> bad, at |-> at, first |-> first,
                match |-> MatchObservations(OwnRows(p), obs, first, at),
                park |-> {}, id |-> <<>>, restore |-> Own(p),
                rows |-> rows, contents |-> contents, events |-> events]
    /\ UNCHANGED vars

(* The transaction begins: the appearances are loaded and matched. *)
BeginTx(p, obs, bad, at) ==
    /\ tx = NoTx /\ p \in running
    /\ \E first \in FirstPass(OwnRows(p), obs) :
         tx' = [prov |-> p, obs |-> obs, bad |-> bad, at |-> at, first |-> first,
                match |-> MatchObservations(OwnRows(p), obs, first, at),
                park |-> Own(p), id |-> <<>>, restore |-> Own(p),
                rows |-> rows, contents |-> contents, events |-> events]
    /\ UNCHANGED vars

(* The first loop: one UPDATE per known appearance. *)
Park(a) ==
    /\ tx # NoTx /\ a \in tx.park
    /\ tx' = [tx EXCEPT !.park = @ \ {a},
                        !.rows[a].locator = Temporary(a),
                        !.rows[a].availability = "unavailable"]
    /\ UNCHANGED vars

(* appearances_available_locator_idx admits an available row at (p, l). *)
Admitted(p, l, a) ==
    \A b \in DOMAIN tx.rows \ {a} :
        ~ (tx.rows[b].prov = p /\ tx.rows[b].locator = l /\ tx.rows[b].availability = "available")

(* The event for an observation of a that is written at l. *)
ObservedEvent(l, a) ==
    IF tx.match[l] = New THEN <<[kind |-> "discovered", old |-> NoLoc, new |-> l]>>
    ELSE IF rows[a].locator # l
    THEN <<[kind |-> Continuity(OwnRows(tx.prov), tx.first, tx.match, l),
            old |-> rows[a].locator, new |-> l]>>
    ELSE <<>>

Unwritten == DOMAIN tx.obs \ DOMAIN tx.id

(* The second loop, in walk order: the content, the appearance (INSERT for *)
(* an observation that matched nothing, UPDATE otherwise) and the event.   *)
Write(l) ==
    /\ tx # NoTx /\ tx.park = {}
    /\ l \in Unwritten /\ \A k \in Unwritten : l <= k
    /\ \E a \in IF tx.match[l] = New THEN AppId \ DOMAIN tx.rows ELSE {tx.match[l]} :
         LET row == ObservedRow(tx.prov, l, tx.obs[l],
                        Continuity(OwnRows(tx.prov), tx.first, tx.match, l), tx.at)
         IN  /\ Admitted(tx.prov, l, a)
             /\ tx' = [tx EXCEPT
                  !.id = [k \in DOMAIN @ \cup {l} |-> IF k = l THEN a ELSE @[k]],
                  !.rows = [b \in DOMAIN @ \cup {a} |-> IF b = a THEN row ELSE @[b]],
                  !.contents = @ \cup {tx.obs[l].content},
                  !.events[a] = @ \o ObservedEvent(l, a)]
    /\ UNCHANGED vars

(* Mutants: a restored appearance stays available; or keeps its temporary  *)
(* locator.                                                                *)
Restore_Available(a) ==
    /\ tx # NoTx /\ tx.park = {} /\ Unwritten = {}
    /\ a \in tx.restore /\ \A l \in DOMAIN tx.id : tx.id[l] # a
    /\ tx' = [tx EXCEPT !.restore = @ \ {a}, !.rows[a] = rows[a]]
    /\ UNCHANGED vars

Restore_Parked(a) ==
    /\ tx # NoTx /\ tx.park = {} /\ Unwritten = {}
    /\ a \in tx.restore /\ \A l \in DOMAIN tx.id : tx.id[l] # a
    /\ tx' = [tx EXCEPT !.restore = @ \ {a}]
    /\ UNCHANGED vars

Seen(a) == \E l \in DOMAIN tx.id : tx.id[l] = a

(* The third loop: an appearance that was not seen gets its locator back   *)
(* and stays unavailable.                                                  *)
Restore(a) ==
    /\ tx # NoTx /\ tx.park = {} /\ Unwritten = {}
    /\ a \in tx.restore /\ ~ Seen(a)
    /\ tx' = [tx EXCEPT
         !.restore = @ \ {a},
         !.rows[a].locator = rows[a].locator,
         !.rows[a].availability = "unavailable",
         !.events[a] = IF rows[a].availability = "available"
                       THEN @ \o <<[kind |-> "not-observed", old |-> rows[a].locator, new |-> NoLoc]>>
                       ELSE @]
    /\ UNCHANGED vars

(* The issues and the provider's status are written, COMMIT succeeds, and  *)
(* Scan gives the provider back.                                           *)
Commit ==
    /\ tx # NoTx /\ tx.park = {} /\ Unwritten = {}
    /\ \A a \in tx.restore : Seen(a)
    /\ rows' = tx.rows /\ contents' = tx.contents /\ events' = tx.events
    /\ issues' = [issues EXCEPT ![tx.prov] = tx.bad]
    /\ status' = [status EXCEPT ![tx.prov] =
                     IF tx.bad = {} THEN "complete" ELSE "complete-with-issues"]
    /\ last' = [last EXCEPT ![tx.prov] = [obs |-> tx.obs, id |-> tx.id]]
    /\ running' = running \ {tx.prov}
    /\ UNCHANGED scans
    /\ tx' = NoTx

(* Mutant: what was written before the failure stays. *)
Rollback_Keeps ==
    /\ tx # NoTx /\ tx' = NoTx
    /\ rows' = tx.rows /\ contents' = tx.contents /\ events' = tx.events
    /\ UNCHANGED <<issues, status, running, scans, last>>

(* A statement or the COMMIT fails: the deferred Rollback undoes all of it.*)
(* Scan then calls FailScan.                                               *)
Rollback == tx # NoTx /\ tx' = NoTx /\ UNCHANGED vars

(* The process dies: SQLite rolls the journal back when it is opened. *)
Die == Restart /\ tx' = NoTx

TxNext ==
    \/ tx = NoTx /\ tx' = NoTx /\ \E p \in Provider : BeginScan(p)
    \/ tx = NoTx /\ tx' = NoTx /\ \E p \in Provider : FailScan(p)
    \/ tx = NoTx /\ tx' = NoTx /\ \E p \in Provider : GiveUp(p)
    \/ \E p \in Provider, obs \in Observations, at \in Time :
         \E bad \in SUBSET (Locator \ DOMAIN obs) : BeginTx(p, obs, bad, at)
    \/ \E a \in AppId : Park(a)
    \/ \E l \in Locator : Write(l)
    \/ \E a \in AppId : Restore(a)
    \/ Commit \/ Rollback \/ Die

TxSpec == TxInit /\ [][TxNext]_txVars

-----------------------------------------------------------------------------
(* Properties.                                                             *)

(* Statement by statement, with failures and crashes in between, the       *)
(* catalogue changes as if ReconcileScan were one step: this is Spec, with *)
(* the steps that change nothing committed named first.                    *)
ImplementsReconciliation == Init /\ [][UNCHANGED vars \/ Next]_vars

(* The unique index refuses no statement: when an observation is about to  *)
(* be written, no other row is available at its locator, whatever files    *)
(* have swapped names.  Without the parking loop it would.                 *)
IndexRefusesNothing ==
    tx # NoTx /\ tx.park = {} =>
        \A l \in Unwritten : Admitted(tx.prov, l, tx.match[l])

(* The rows of the open transaction at every point of its progress: other  *)
(* providers' rows as they were, own rows as loaded, parked, written or    *)
(* restored, and nothing else.                                             *)
WorkFollowsProgress ==
    tx # NoTx =>
        LET own   == OwnRows(tx.prov)
            row(l) == ObservedRow(tx.prov, l, tx.obs[l], Continuity(own, tx.first, tx.match, l), tx.at)
        IN  /\ DOMAIN tx.rows = DOMAIN rows \cup {tx.id[l] : l \in DOMAIN tx.id}
            /\ \A l \in DOMAIN tx.id : tx.rows[tx.id[l]] = row(l)
            /\ \A a \in DOMAIN rows :
                 ~ Seen(a) =>
                   tx.rows[a] =
                     IF a \notin Own(tx.prov) \/ a \in tx.park THEN rows[a]
                     ELSE IF a \in tx.restore
                     THEN [rows[a] EXCEPT !.locator = Temporary(a), !.availability = "unavailable"]
                     ELSE [rows[a] EXCEPT !.availability = "unavailable"]
=============================================================================
