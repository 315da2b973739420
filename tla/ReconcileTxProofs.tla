--------------------------- MODULE ReconcileTxProofs ---------------------------
(* ReconcileScan, statement by statement, implements its one-step          *)
(* description, for every number of files and however often a transaction  *)
(* fails or the process dies.                                              *)
EXTENDS ReconcileTx, ReconciliationProofs

(* The row and the event of the observation at l. *)
WrittenRow(l) ==
    ObservedRow(tx.prov, l, tx.obs[l],
                Continuity(OwnRows(tx.prov), tx.first, tx.match, l), tx.at)

(* The row of an appearance that no observation has been given. *)
WaitingRow(a) ==
    IF a \notin Own(tx.prov) \/ a \in tx.park THEN rows[a]
    ELSE IF a \in tx.restore
    THEN [rows[a] EXCEPT !.locator = Temporary(a), !.availability = "unavailable"]
    ELSE [rows[a] EXCEPT !.availability = "unavailable"]

(* The events of an appearance that no observation has been given. *)
WaitingEvents(a) ==
    IF a \in Own(tx.prov) \ tx.restore /\ rows[a].availability = "available"
    THEN events[a] \o <<[kind |-> "not-observed", old |-> rows[a].locator, new |-> NoLoc]>>
    ELSE events[a]

(* The fields of an open transaction. *)
TxShape ==
    tx = [prov |-> tx.prov, obs |-> tx.obs, bad |-> tx.bad, at |-> tx.at, first |-> tx.first,
          match |-> tx.match, park |-> tx.park, id |-> tx.id, restore |-> tx.restore,
          rows |-> tx.rows, contents |-> tx.contents, events |-> tx.events]

(* It commits the scan of a provider whose scan is in progress. *)
ScanInv ==
    /\ tx.prov \in Provider /\ tx.prov \in running
    /\ tx.obs \in Observations /\ tx.at \in Time
    /\ tx.bad \in SUBSET (Locator \ DOMAIN tx.obs)
    /\ tx.first \in FirstPass(OwnRows(tx.prov), tx.obs)
    /\ tx.match = MatchObservations(OwnRows(tx.prov), tx.obs, tx.first, tx.at)

(* The loops run one after the other. *)
OrderInv ==
    /\ tx.park \subseteq Own(tx.prov) /\ tx.restore \subseteq Own(tx.prov)
    /\ tx.park # {} => DOMAIN tx.id = {}
    /\ tx.park # {} \/ Unwritten # {} => tx.restore = Own(tx.prov)

(* What the observations written so far were given. *)
IdInv ==
    /\ tx.id = [l \in DOMAIN tx.id |-> tx.id[l]]
    /\ DOMAIN tx.id \subseteq DOMAIN tx.obs
    /\ \A l \in DOMAIN tx.id :
         IF tx.match[l] = New THEN tx.id[l] \in AppId \ DOMAIN rows ELSE tx.id[l] = tx.match[l]
    /\ \A k, l \in DOMAIN tx.id : tx.id[k] = tx.id[l] => k = l

(* What the statements so far have made of the tables. *)
RowsInv ==
    /\ tx.rows = [a \in DOMAIN rows \cup {tx.id[l] : l \in DOMAIN tx.id} |-> tx.rows[a]]
    /\ \A l \in DOMAIN tx.id : tx.rows[tx.id[l]] = WrittenRow(l)
    /\ \A a \in DOMAIN rows : ~ Seen(a) => tx.rows[a] = WaitingRow(a)

ContentsInv == tx.contents = contents \cup {tx.obs[l].content : l \in DOMAIN tx.id}

EventsInv ==
    /\ tx.events = [a \in AppId |-> tx.events[a]]
    /\ \A l \in DOMAIN tx.id :
         tx.events[tx.id[l]] = events[tx.id[l]] \o ObservedEvent(l, tx.id[l])
    /\ \A a \in AppId : ~ Seen(a) => tx.events[a] = WaitingEvents(a)

OpenInv ==
    TxShape /\ ScanInv /\ OrderInv /\ IdInv /\ RowsInv /\ ContentsInv /\ EventsInv

TxInv == tx # NoTx => OpenInv

-----------------------------------------------------------------------------
(* An open transaction begins with nothing written. *)
LEMMA BeginKeeps ==
    ASSUME TypeOK, NEW p \in Provider, NEW obs \in Observations, NEW at \in Time,
           NEW bad \in SUBSET (Locator \ DOMAIN obs), BeginTx(p, obs, bad, at)
    PROVE  OpenInv'
<1>1. PICK first \in FirstPass(OwnRows(p), obs) :
        tx' = [prov |-> p, obs |-> obs, bad |-> bad, at |-> at, first |-> first,
               match |-> MatchObservations(OwnRows(p), obs, first, at),
               park |-> Own(p), id |-> <<>>, restore |-> Own(p),
               rows |-> rows, contents |-> contents, events |-> events]
  BY DEF BeginTx
<1>2. UNCHANGED vars /\ p \in running
  BY DEF BeginTx
<1>3. rows' = rows /\ contents' = contents /\ events' = events /\ running' = running
  BY <1>2 DEF vars
<1>4. /\ tx'.prov = p /\ tx'.obs = obs /\ tx'.bad = bad /\ tx'.at = at /\ tx'.first = first
      /\ tx'.match = MatchObservations(OwnRows(p), obs, first, at)
      /\ tx'.park = Own(p) /\ tx'.id = <<>> /\ tx'.restore = Own(p)
      /\ tx'.rows = rows /\ tx'.contents = contents /\ tx'.events = events
  BY <1>1
<1>5. Own(tx.prov)' = Own(p) /\ OwnRows(tx.prov)' = OwnRows(p)
  BY <1>3, <1>4 DEF Own, OwnRows
<1>6. DOMAIN tx'.id = {} /\ tx'.id = [l \in DOMAIN tx'.id |-> tx'.id[l]]
  BY <1>4
<1>7. TxShape'
  BY <1>1, <1>4 DEF TxShape
<1>8. ScanInv'
  BY <1>2, <1>3, <1>4, <1>5 DEF ScanInv
<1>9. OrderInv'
  BY <1>4, <1>5, <1>6 DEF OrderInv
<1>10. IdInv'
  BY <1>6 DEF IdInv
<1>11. RowsInv'
  <2>1. \A a \in DOMAIN rows : WaitingRow(a)' = rows[a]
    BY <1>3, <1>4, <1>5 DEF WaitingRow
  <2>2. rows = [a \in DOMAIN rows |-> rows[a]]
    BY DEF TypeOK
  <2>3. {tx'.id[l] : l \in DOMAIN tx'.id} = {}
    BY <1>6
  <2>4. tx'.rows = [a \in DOMAIN rows' \cup {tx'.id[l] : l \in DOMAIN tx'.id} |-> tx'.rows[a]]
    BY <1>3, <1>4, <2>2, <2>3
  <2> QED
    BY <1>3, <1>4, <1>6, <2>1, <2>4 DEF RowsInv
<1>12. ContentsInv'
  BY <1>3, <1>4, <1>6 DEF ContentsInv
<1>13. EventsInv'
  <2>1. \A a \in AppId : WaitingEvents(a)' = events[a]
    BY <1>3, <1>4, <1>5 DEF WaitingEvents
  <2>2. events = [a \in AppId |-> events[a]]
    BY DEF TypeOK
  <2> QED
    BY <1>3, <1>4, <1>6, <2>1, <2>2 DEF EventsInv
<1> QED
  BY <1>7, <1>8, <1>9, <1>10, <1>11, <1>12, <1>13 DEF OpenInv

(* A statement changes nothing that is committed, and nothing of the scan. *)
SameScan ==
    /\ UNCHANGED vars
    /\ tx'.prov = tx.prov /\ tx'.obs = tx.obs /\ tx'.bad = tx.bad /\ tx'.at = tx.at
    /\ tx'.first = tx.first /\ tx'.match = tx.match

(* Then the rows and events to be written are what they were. *)
LEMMA SameScanKept ==
    ASSUME SameScan
    PROVE  /\ rows' = rows /\ contents' = contents /\ events' = events
           /\ Own(tx.prov)' = Own(tx.prov) /\ OwnRows(tx.prov)' = OwnRows(tx.prov)
           /\ \A l : WrittenRow(l)' = WrittenRow(l)
           /\ \A l, a : ObservedEvent(l, a)' = ObservedEvent(l, a)
           /\ ScanInv => ScanInv'
<1>1. /\ rows' = rows /\ contents' = contents /\ events' = events /\ running' = running
      /\ tx'.prov = tx.prov /\ tx'.obs = tx.obs /\ tx'.bad = tx.bad /\ tx'.at = tx.at
      /\ tx'.first = tx.first /\ tx'.match = tx.match
  BY DEF SameScan, vars
<1>2. Own(tx.prov)' = Own(tx.prov) /\ OwnRows(tx.prov)' = OwnRows(tx.prov)
  BY <1>1 DEF Own, OwnRows
<1>3. \A l : WrittenRow(l)' = WrittenRow(l)
  BY <1>1, <1>2 DEF WrittenRow
<1>4. \A l, a : ObservedEvent(l, a)' = ObservedEvent(l, a)
  BY <1>1, <1>2 DEF ObservedEvent
<1>5. ScanInv => ScanInv'
  BY <1>1, <1>2 DEF ScanInv
<1> QED
  BY <1>1, <1>2, <1>3, <1>4, <1>5

(* The appearances of the provider are in the catalogue. *)
LEMMA OwnAreKnown ==
    ASSUME TypeOK, NEW p
    PROVE  Own(p) \subseteq DOMAIN rows /\ Own(p) \subseteq AppId
BY DEF Own, TypeOK

(* An appearance is parked. *)
LEMMA ParkKeeps ==
    ASSUME TypeOK, OpenInv, NEW a, Park(a)
    PROVE  OpenInv'
<1>1. tx # NoTx /\ a \in tx.park
  BY DEF Park
<1> DEFINE parked == [tx.rows[a] EXCEPT !.locator = Temporary(a), !.availability = "unavailable"]
<1>2. /\ tx'.prov = tx.prov /\ tx'.obs = tx.obs /\ tx'.bad = tx.bad /\ tx'.at = tx.at
      /\ tx'.first = tx.first /\ tx'.match = tx.match
      /\ tx'.park = tx.park \ {a} /\ tx'.id = tx.id /\ tx'.restore = tx.restore
      /\ tx'.contents = tx.contents /\ tx'.events = tx.events
      /\ TxShape'
  BY DEF Park, OpenInv, TxShape
<1>3. tx'.rows = [tx.rows EXCEPT ![a] = parked]
  BY DEF Park, OpenInv, TxShape
<1>4. SameScan
  BY <1>2 DEF Park, SameScan
<1>5. /\ rows' = rows /\ contents' = contents /\ events' = events
      /\ Own(tx.prov)' = Own(tx.prov) /\ OwnRows(tx.prov)' = OwnRows(tx.prov)
      /\ \A l : WrittenRow(l)' = WrittenRow(l)
      /\ \A l, b : ObservedEvent(l, b)' = ObservedEvent(l, b)
      /\ ScanInv'
  BY <1>4, SameScanKept DEF OpenInv
<1>6. a \in Own(tx.prov) /\ a \in DOMAIN rows /\ DOMAIN tx.id = {} /\ tx.restore = Own(tx.prov)
  BY <1>1, OwnAreKnown DEF OpenInv, OrderInv
<1>7. OrderInv'
  BY <1>2, <1>5, <1>6 DEF OpenInv, OrderInv, Unwritten
<1>8. IdInv'
  BY <1>2, <1>5 DEF OpenInv, IdInv
<1>9. RowsInv'
  <2>1. /\ DOMAIN tx.rows = DOMAIN rows
        /\ \A b \in DOMAIN rows : tx.rows[b] = WaitingRow(b)
    BY <1>6 DEF OpenInv, RowsInv, Seen
  <2>2. tx.rows[a] = rows[a]
    BY <1>1, <1>6, <2>1 DEF WaitingRow
  <2>3. ASSUME NEW b \in DOMAIN rows PROVE tx'.rows[b] = WaitingRow(b)'
    <3>1. CASE b = a
      <4>1. tx'.rows[b] = [rows[b] EXCEPT !.locator = Temporary(b), !.availability = "unavailable"]
        BY <1>3, <2>1, <2>2, <3>1
      <4> QED
        BY <1>2, <1>5, <1>6, <3>1, <4>1 DEF WaitingRow, Temporary
    <3>2. CASE b # a
      <4>1. tx'.rows[b] = tx.rows[b]
        BY <1>3, <2>1, <3>2
      <4>2. WaitingRow(b)' = WaitingRow(b)
        BY <1>2, <1>5, <3>2 DEF WaitingRow, Temporary
      <4> QED
        BY <2>1, <4>1, <4>2
    <3> QED
      BY <3>1, <3>2
  <2>4. tx'.rows = [b \in DOMAIN rows |-> tx'.rows[b]]
    BY <1>3, <2>1
  <2>5. DOMAIN tx'.id = {} /\ {tx'.id[l] : l \in DOMAIN tx'.id} = {}
    BY <1>2, <1>6
  <2>6. tx'.rows = [b \in DOMAIN rows' \cup {tx'.id[l] : l \in DOMAIN tx'.id} |-> tx'.rows[b]]
    BY <1>5, <2>4, <2>5
  <2> QED
    BY <1>5, <2>3, <2>5, <2>6 DEF RowsInv
<1>10. ContentsInv'
  BY <1>2, <1>5 DEF OpenInv, ContentsInv
<1>11. EventsInv'
  <2>1. \A b : WaitingEvents(b)' = WaitingEvents(b) /\ Seen(b)' = Seen(b)
    BY <1>2, <1>5 DEF WaitingEvents, Seen
  <2> QED
    BY <1>2, <1>5, <2>1 DEF OpenInv, EventsInv
<1> QED
  BY <1>2, <1>5, <1>7, <1>8, <1>9, <1>10, <1>11 DEF OpenInv

(* No two observations match one appearance, and what is matched is known. *)
LEMMA MatchedOnce ==
    ASSUME ScanInv
    PROVE  /\ \A l \in DOMAIN tx.obs : tx.match[l] # New => tx.match[l] \in Own(tx.prov)
           /\ \A k, l \in DOMAIN tx.obs :
                (tx.match[k] = tx.match[l] /\ tx.match[l] # New) => k = l
<1>1. DOMAIN OwnRows(tx.prov) = Own(tx.prov)
  BY DEF OwnRows
<1>2. DOMAIN tx.obs \subseteq Int
  BY ObservationDomain DEF ScanInv
<1> QED
  BY <1>1, <1>2, MatchSound DEF ScanInv

(* An observation is written. *)
LEMMA WriteKeeps ==
    ASSUME TypeOK, OpenInv, NEW l, Write(l)
    PROVE  OpenInv'
<1>1. tx # NoTx /\ tx.park = {} /\ l \in Unwritten
  BY DEF Write
<1>2. PICK a \in (IF tx.match[l] = New THEN AppId \ DOMAIN tx.rows ELSE {tx.match[l]}) :
        tx' = [tx EXCEPT
                 !.id = [k \in DOMAIN @ \cup {l} |-> IF k = l THEN a ELSE @[k]],
                 !.rows = [b \in DOMAIN @ \cup {a} |-> IF b = a THEN WrittenRow(l) ELSE @[b]],
                 !.contents = @ \cup {tx.obs[l].content},
                 !.events[a] = @ \o ObservedEvent(l, a)]
  BY DEF Write, WrittenRow
<1>3. /\ tx'.prov = tx.prov /\ tx'.obs = tx.obs /\ tx'.bad = tx.bad /\ tx'.at = tx.at
      /\ tx'.first = tx.first /\ tx'.match = tx.match
      /\ tx'.park = tx.park /\ tx'.restore = tx.restore
      /\ tx'.id = [k \in DOMAIN tx.id \cup {l} |-> IF k = l THEN a ELSE tx.id[k]]
      /\ tx'.rows = [b \in DOMAIN tx.rows \cup {a} |-> IF b = a THEN WrittenRow(l) ELSE tx.rows[b]]
      /\ tx'.contents = tx.contents \cup {tx.obs[l].content}
      /\ tx'.events = [tx.events EXCEPT ![a] = @ \o ObservedEvent(l, a)]
      /\ TxShape'
  BY <1>2 DEF OpenInv, TxShape
<1>4. SameScan
  BY <1>3 DEF Write, SameScan
<1>5. /\ rows' = rows /\ contents' = contents /\ events' = events
      /\ Own(tx.prov)' = Own(tx.prov) /\ OwnRows(tx.prov)' = OwnRows(tx.prov)
      /\ \A k : WrittenRow(k)' = WrittenRow(k)
      /\ \A k, b : ObservedEvent(k, b)' = ObservedEvent(k, b)
      /\ ScanInv'
  BY <1>4, SameScanKept DEF OpenInv
<1>6. /\ l \in DOMAIN tx.obs /\ l \notin DOMAIN tx.id
      /\ tx.restore = Own(tx.prov)
      /\ DOMAIN tx.rows = DOMAIN rows \cup {tx.id[k] : k \in DOMAIN tx.id}
  BY <1>1 DEF OpenInv, OrderInv, RowsInv, Unwritten
<1>7. IF tx.match[l] = New THEN a \in AppId \ DOMAIN rows ELSE a = tx.match[l] /\ a \in Own(tx.prov)
  BY <1>2, <1>6, MatchedOnce DEF OpenInv
<1>8. a \in AppId /\ \A k \in DOMAIN tx.id : tx.id[k] # a
  <2>1. CASE tx.match[l] = New
    BY <1>2, <1>6, <2>1
  <2>2. CASE tx.match[l] # New
    <3>1. a = tx.match[l] /\ a \in DOMAIN rows /\ a \in AppId
      BY <1>7, <2>2, OwnAreKnown
    <3>2. ASSUME NEW k \in DOMAIN tx.id, tx.id[k] = a PROVE FALSE
      <4>1. k \in DOMAIN tx.obs /\ tx.match[k] = tx.match[l]
        BY <3>1, <3>2 DEF OpenInv, IdInv
      <4> QED
        BY <1>6, <2>2, <4>1, MatchedOnce DEF OpenInv
    <3> QED
      BY <3>1, <3>2
  <2> QED
    BY <2>1, <2>2
<1>9. /\ DOMAIN tx'.id = DOMAIN tx.id \cup {l}
      /\ tx'.id[l] = a
      /\ \A k \in DOMAIN tx.id : tx'.id[k] = tx.id[k]
  BY <1>3, <1>6
<1>10. \A b : Seen(b)' <=> (b = a \/ Seen(b))
  BY <1>9 DEF Seen
<1>11. ~ Seen(a)
  BY <1>8 DEF Seen
<1>12. OrderInv'
  BY <1>1, <1>3, <1>5, <1>6 DEF OpenInv, OrderInv
<1>13. IdInv'
  <2>1. tx'.id = [k \in DOMAIN tx'.id |-> tx'.id[k]]
    BY <1>3
  <2>2. \A k \in DOMAIN tx'.id :
          IF tx'.match[k] = New THEN tx'.id[k] \in AppId \ DOMAIN rows ELSE tx'.id[k] = tx'.match[k]
    BY <1>3, <1>7, <1>9 DEF OpenInv, IdInv
  <2>3. \A j, k \in DOMAIN tx'.id : tx'.id[j] = tx'.id[k] => j = k
    BY <1>8, <1>9 DEF OpenInv, IdInv
  <2>4. DOMAIN tx'.id \subseteq DOMAIN tx'.obs
    BY <1>3, <1>6, <1>9 DEF OpenInv, IdInv
  <2> QED
    BY <1>5, <2>1, <2>2, <2>3, <2>4 DEF IdInv
<1>14. RowsInv'
  <2>1. DOMAIN tx.rows \cup {a} = DOMAIN rows' \cup {tx'.id[k] : k \in DOMAIN tx'.id}
    BY <1>5, <1>6, <1>9
  <2>2. tx'.rows = [b \in DOMAIN rows' \cup {tx'.id[k] : k \in DOMAIN tx'.id} |-> tx'.rows[b]]
    BY <1>3, <2>1
  <2>3. /\ tx'.rows[a] = WrittenRow(l)
        /\ \A b \in DOMAIN tx.rows : b # a => tx'.rows[b] = tx.rows[b]
    BY <1>3
  <2>4. ASSUME NEW k \in DOMAIN tx'.id PROVE tx'.rows[tx'.id[k]] = WrittenRow(k)'
    <3>1. CASE k = l
      BY <1>5, <1>9, <2>3, <3>1
    <3>2. CASE k # l
      <4>1. k \in DOMAIN tx.id /\ tx'.id[k] = tx.id[k] /\ tx.id[k] # a
        BY <1>8, <1>9, <3>2
      <4>2. tx.id[k] \in DOMAIN tx.rows
        BY <1>6, <4>1
      <4>3. tx.rows[tx.id[k]] = WrittenRow(k)
        BY <4>1 DEF OpenInv, RowsInv
      <4> QED
        BY <1>5, <2>3, <4>1, <4>2, <4>3
    <3> QED
      BY <3>1, <3>2
  <2>5. \A b : WaitingRow(b)' = WaitingRow(b)
    BY <1>3, <1>5 DEF WaitingRow, Temporary
  <2>6. \A b \in DOMAIN rows : ~ Seen(b)' => tx'.rows[b] = WaitingRow(b)'
    BY <1>6, <1>10, <2>3, <2>5 DEF OpenInv, RowsInv
  <2> QED
    BY <1>5, <2>2, <2>4, <2>6 DEF RowsInv
<1>15. ContentsInv'
  <2>1. {tx'.obs[k].content : k \in DOMAIN tx'.id}
          = {tx.obs[k].content : k \in DOMAIN tx.id} \cup {tx.obs[l].content}
    BY <1>3, <1>9
  <2> QED
    BY <1>3, <1>5, <2>1 DEF OpenInv, ContentsInv
<1>16. EventsInv'
  <2>1. tx.events[a] = events[a]
    <3>1. WaitingEvents(a) = events[a]
      BY <1>6 DEF WaitingEvents
    <3> QED
      BY <1>8, <1>11, <3>1 DEF OpenInv, EventsInv
  <2>2. tx.events = [b \in AppId |-> tx.events[b]]
    BY DEF OpenInv, EventsInv
  <2>3. /\ tx'.events = [b \in AppId |-> tx'.events[b]]
        /\ tx'.events[a] = events[a] \o ObservedEvent(l, a)
        /\ \A b \in AppId : b # a => tx'.events[b] = tx.events[b]
    BY <1>3, <1>8, <2>1, <2>2
  <2>4. \A k \in DOMAIN tx.id : tx.id[k] \in AppId
    <3>1. ASSUME NEW k \in DOMAIN tx.id PROVE tx.id[k] \in AppId
      <4>1. CASE tx.match[k] = New
        BY <4>1 DEF OpenInv, IdInv
      <4>2. CASE tx.match[k] # New
        BY <4>2, MatchedOnce, OwnAreKnown DEF OpenInv, IdInv
      <4> QED
        BY <4>1, <4>2
    <3> QED
      BY <3>1
  <2>5. ASSUME NEW k \in DOMAIN tx'.id
        PROVE  tx'.events[tx'.id[k]] = events'[tx'.id[k]] \o ObservedEvent(k, tx.id[k])'
    <3>1. ObservedEvent(k, tx.id[k])' = ObservedEvent(k, tx'.id[k])
      BY <1>3, <1>5 DEF ObservedEvent
    <3>2. CASE k = l
      BY <1>5, <1>9, <2>3, <3>1, <3>2
    <3>3. CASE k # l
      <4>1. k \in DOMAIN tx.id /\ tx'.id[k] = tx.id[k] /\ tx.id[k] # a
        BY <1>8, <1>9, <3>3
      <4>2. tx.events[tx.id[k]] = events[tx.id[k]] \o ObservedEvent(k, tx.id[k])
        BY <4>1 DEF OpenInv, EventsInv
      <4> QED
        BY <1>5, <2>3, <2>4, <3>1, <4>1, <4>2
    <3> QED
      BY <3>2, <3>3
  <2>6. \A b : WaitingEvents(b)' = WaitingEvents(b)
    BY <1>3, <1>5 DEF WaitingEvents
  <2>7. \A b \in AppId : ~ Seen(b)' => tx'.events[b] = WaitingEvents(b)'
    BY <1>10, <2>3, <2>6 DEF OpenInv, EventsInv
  <2> QED
    BY <2>3, <2>5, <2>7, <1>5 DEF EventsInv
<1> QED
  BY <1>3, <1>5, <1>12, <1>13, <1>14, <1>15, <1>16 DEF OpenInv

(* An appearance that was not seen gets its locator back. *)
LEMMA RestoreKeeps ==
    ASSUME TypeOK, OpenInv, NEW a, Restore(a)
    PROVE  OpenInv'
<1>1. tx # NoTx /\ tx.park = {} /\ Unwritten = {} /\ a \in tx.restore /\ ~ Seen(a)
  BY DEF Restore
<1> DEFINE back  == [tx.rows[a] EXCEPT !.locator = rows[a].locator, !.availability = "unavailable"]
           event == [kind |-> "not-observed", old |-> rows[a].locator, new |-> NoLoc]
<1>2. /\ tx'.prov = tx.prov /\ tx'.obs = tx.obs /\ tx'.bad = tx.bad /\ tx'.at = tx.at
      /\ tx'.first = tx.first /\ tx'.match = tx.match
      /\ tx'.park = tx.park /\ tx'.id = tx.id /\ tx'.restore = tx.restore \ {a}
      /\ tx'.contents = tx.contents
      /\ TxShape'
  BY DEF Restore, OpenInv, TxShape
<1>3. tx'.rows = [tx.rows EXCEPT ![a] = back]
  BY DEF Restore, OpenInv, TxShape
<1>4. tx'.events = [tx.events EXCEPT ![a] =
                      IF rows[a].availability = "available" THEN @ \o <<event>> ELSE @]
  BY DEF Restore, OpenInv, TxShape
<1>5. SameScan
  BY <1>2 DEF Restore, SameScan
<1>6. /\ rows' = rows /\ contents' = contents /\ events' = events
      /\ Own(tx.prov)' = Own(tx.prov) /\ OwnRows(tx.prov)' = OwnRows(tx.prov)
      /\ \A l : WrittenRow(l)' = WrittenRow(l)
      /\ \A l, b : ObservedEvent(l, b)' = ObservedEvent(l, b)
      /\ ScanInv'
  BY <1>5, SameScanKept DEF OpenInv
<1>7. a \in Own(tx.prov) /\ a \in DOMAIN rows /\ a \in AppId
  BY <1>1, OwnAreKnown DEF OpenInv, OrderInv
<1>8. \A b : Seen(b)' = Seen(b)
  BY <1>2 DEF Seen
<1>9. OrderInv'
  BY <1>1, <1>2, <1>6 DEF OpenInv, OrderInv, Unwritten
<1>10. IdInv'
  BY <1>2, <1>6 DEF OpenInv, IdInv
<1>11. \A l \in DOMAIN tx.id : tx.id[l] # a
  BY <1>1 DEF Seen
<1>12. RowsInv'
  <2>1. DOMAIN tx.rows = DOMAIN rows \cup {tx.id[l] : l \in DOMAIN tx.id}
    BY DEF OpenInv, RowsInv
  <2>2. tx.rows[a] = [rows[a] EXCEPT !.locator = Temporary(a), !.availability = "unavailable"]
    BY <1>1, <1>7 DEF OpenInv, RowsInv, WaitingRow
  <2>3. back = [rows[a] EXCEPT !.availability = "unavailable"]
    <3>1. rows[a] \in Row
      BY <1>7 DEF TypeOK
    <3> QED
      BY <2>2, <3>1 DEF Row
  <2>4. /\ tx'.rows[a] = [rows[a] EXCEPT !.availability = "unavailable"]
        /\ \A b \in DOMAIN tx.rows : b # a => tx'.rows[b] = tx.rows[b]
        /\ DOMAIN tx'.rows = DOMAIN tx.rows
        /\ tx'.rows = [b \in DOMAIN tx.rows |-> tx'.rows[b]]
    BY <1>3, <1>7, <2>1, <2>3
  <2>5. tx'.rows = [b \in DOMAIN rows' \cup {tx'.id[l] : l \in DOMAIN tx'.id} |-> tx'.rows[b]]
    BY <1>2, <1>6, <2>1, <2>4
  <2>6. ASSUME NEW l \in DOMAIN tx'.id PROVE tx'.rows[tx'.id[l]] = WrittenRow(l)'
    <3>1. l \in DOMAIN tx.id /\ tx'.id[l] = tx.id[l] /\ tx.id[l] # a
      BY <1>2, <1>11
    <3>2. tx.id[l] \in DOMAIN tx.rows
      BY <2>1, <3>1
    <3>3. tx.rows[tx.id[l]] = WrittenRow(l)
      BY <3>1 DEF OpenInv, RowsInv
    <3> QED
      BY <1>6, <2>4, <3>1, <3>2, <3>3
  <2>7. WaitingRow(a)' = [rows[a] EXCEPT !.availability = "unavailable"]
    BY <1>1, <1>2, <1>6, <1>7 DEF WaitingRow
  <2>8. \A b : b # a => WaitingRow(b)' = WaitingRow(b)
    BY <1>2, <1>6 DEF WaitingRow, Temporary
  <2>9. \A b \in DOMAIN rows : ~ Seen(b)' => tx'.rows[b] = WaitingRow(b)'
    BY <1>8, <2>1, <2>4, <2>7, <2>8 DEF OpenInv, RowsInv
  <2> QED
    BY <1>6, <2>5, <2>6, <2>9 DEF RowsInv
<1>13. ContentsInv'
  BY <1>2, <1>6 DEF OpenInv, ContentsInv
<1>14. EventsInv'
  <2>1. tx.events[a] = events[a]
    <3>1. WaitingEvents(a) = events[a]
      BY <1>1 DEF WaitingEvents
    <3> QED
      BY <1>1, <1>7, <3>1 DEF OpenInv, EventsInv
  <2>2. tx.events = [b \in AppId |-> tx.events[b]]
    BY DEF OpenInv, EventsInv
  <2>3. /\ tx'.events = [b \in AppId |-> tx'.events[b]]
        /\ tx'.events[a] = IF rows[a].availability = "available"
                            THEN events[a] \o <<event>> ELSE events[a]
        /\ \A b \in AppId : b # a => tx'.events[b] = tx.events[b]
    BY <1>4, <1>7, <2>1, <2>2
  <2>4. \A l \in DOMAIN tx.id : tx.id[l] \in AppId
    <3>1. ASSUME NEW l \in DOMAIN tx.id PROVE tx.id[l] \in AppId
      <4>1. CASE tx.match[l] = New
        BY <4>1 DEF OpenInv, IdInv
      <4>2. CASE tx.match[l] # New
        BY <4>2, MatchedOnce, OwnAreKnown DEF OpenInv, IdInv
      <4> QED
        BY <4>1, <4>2
    <3> QED
      BY <3>1
  <2>5. ASSUME NEW l \in DOMAIN tx'.id
        PROVE  tx'.events[tx'.id[l]] = events'[tx'.id[l]] \o ObservedEvent(l, tx.id[l])'
    <3>1. l \in DOMAIN tx.id /\ tx'.id[l] = tx.id[l] /\ tx.id[l] # a /\ tx.id[l] \in AppId
      BY <1>2, <1>11, <2>4
    <3>2. ObservedEvent(l, tx.id[l])' = ObservedEvent(l, tx.id[l])
      BY <1>2, <1>6 DEF ObservedEvent
    <3>3. tx.events[tx.id[l]] = events[tx.id[l]] \o ObservedEvent(l, tx.id[l])
      BY <3>1 DEF OpenInv, EventsInv
    <3> QED
      BY <1>6, <2>3, <3>1, <3>2, <3>3
  <2>6. WaitingEvents(a)' = tx'.events[a]
    BY <1>2, <1>6, <1>7, <2>3 DEF WaitingEvents
  <2>7. \A b : b # a => WaitingEvents(b)' = WaitingEvents(b)
    BY <1>2, <1>6 DEF WaitingEvents
  <2>8. \A b \in AppId : ~ Seen(b)' => tx'.events[b] = WaitingEvents(b)'
    BY <1>8, <2>3, <2>6, <2>7 DEF OpenInv, EventsInv
  <2> QED
    BY <1>6, <2>3, <2>5, <2>8 DEF EventsInv
<1> QED
  BY <1>2, <1>6, <1>9, <1>10, <1>12, <1>13, <1>14 DEF OpenInv

-----------------------------------------------------------------------------
(* What the committed transaction leaves is what ReconcileScan describes. *)
LEMMA CommitReconciles ==
    ASSUME TypeOK, OpenInv, Commit
    PROVE  ReconcileScan(tx.prov, tx.obs, tx.bad, tx.at)
<1> DEFINE p     == tx.prov
           match == tx.match
           fresh == [l \in {k \in DOMAIN match : match[k] = New} |-> tx.id[l]]
<1>1. /\ tx.park = {} /\ Unwritten = {} /\ \A a \in tx.restore : Seen(a)
      /\ rows' = tx.rows /\ contents' = tx.contents /\ events' = tx.events
      /\ issues' = [issues EXCEPT ![p] = tx.bad]
      /\ status' = [status EXCEPT ![p] = IF tx.bad = {} THEN "complete" ELSE "complete-with-issues"]
      /\ last' = [last EXCEPT ![p] = [obs |-> tx.obs, id |-> tx.id]]
      /\ running' = running \ {p}
      /\ UNCHANGED scans
  BY DEF Commit
<1>2. DOMAIN tx.id = DOMAIN tx.obs
  BY <1>1 DEF OpenInv, IdInv, Unwritten
<1>3. DOMAIN match = DOMAIN tx.obs /\ match = MatchObservations(OwnRows(p), tx.obs, tx.first, tx.at)
  BY DEF OpenInv, ScanInv, MatchObservations
<1>4. /\ \A l \in DOMAIN tx.obs :
           IF match[l] = New THEN tx.id[l] \in AppId \ DOMAIN rows ELSE tx.id[l] = match[l]
      /\ \A k, l \in DOMAIN tx.obs : tx.id[k] = tx.id[l] => k = l
  BY <1>2 DEF OpenInv, IdInv
<1>5. fresh \in FreshIds(match)
  BY <1>3, <1>4 DEF FreshIds
<1>6. Assigned(match, fresh) = tx.id
  <2>1. \A l \in DOMAIN match : (IF match[l] = New THEN fresh[l] ELSE match[l]) = tx.id[l]
    BY <1>3, <1>4
  <2>2. tx.id = [l \in DOMAIN match |-> tx.id[l]]
    BY <1>2, <1>3 DEF OpenInv, IdInv
  <2> QED
    BY <2>1, <2>2 DEF Assigned
<1>7. \A a \in DOMAIN rows : ~ Seen(a) => (a \in Unseen(p, tx.id) <=> a \in Own(p))
  BY DEF Seen, Unseen
<1>8. rows' = ReconciledRows(p, tx.obs, tx.first, match, tx.id, tx.at)
  <2> DEFINE S == DOMAIN rows \cup {tx.id[l] : l \in DOMAIN tx.id}
  <2>1. tx.rows = [a \in S |-> tx.rows[a]]
    BY DEF OpenInv, RowsInv
  <2>2. ASSUME NEW a \in S
        PROVE  tx.rows[a] = ReconciledRows(p, tx.obs, tx.first, match, tx.id, tx.at)[a]
    <3>1. CASE Seen(a)
      <4>1. PICK l \in DOMAIN tx.id : tx.id[l] = a
        BY <3>1 DEF Seen
      <4>2. (CHOOSE k \in DOMAIN tx.id : tx.id[k] = a) = l
        BY <1>2, <1>4, <4>1
      <4>3. tx.rows[a] = WrittenRow(l)
        BY <4>1 DEF OpenInv, RowsInv
      <4> QED
        BY <4>1, <4>2, <4>3 DEF ReconciledRows, WrittenRow
    <3>2. CASE ~ Seen(a)
      <4>1. a \in DOMAIN rows /\ ~ \E l \in DOMAIN tx.id : tx.id[l] = a
        BY <3>2 DEF Seen
      <4>2. tx.rows[a] = IF a \in Own(p) THEN [rows[a] EXCEPT !.availability = "unavailable"]
                                         ELSE rows[a]
        BY <1>1, <3>2, <4>1 DEF OpenInv, RowsInv, WaitingRow
      <4> QED
        BY <1>7, <3>2, <4>1, <4>2 DEF ReconciledRows
    <3> QED
      BY <3>1, <3>2
  <2> QED
    BY <1>1, <2>1, <2>2 DEF ReconciledRows
<1>9. contents' = contents \cup {tx.obs[l].content : l \in DOMAIN tx.obs}
  BY <1>1, <1>2 DEF OpenInv, ContentsInv
<1>10. events' = [a \in AppId |-> events[a] \o NewEvents(p, tx.first, match, tx.id, a)]
  <2>1. tx.events = [a \in AppId |-> tx.events[a]]
    BY DEF OpenInv, EventsInv
  <2>2. ASSUME NEW a \in AppId
        PROVE  tx.events[a] = events[a] \o NewEvents(p, tx.first, match, tx.id, a)
    <3>1. CASE Seen(a)
      <4>1. PICK l \in DOMAIN tx.id : tx.id[l] = a
        BY <3>1 DEF Seen
      <4>2. (CHOOSE k \in DOMAIN tx.id : tx.id[k] = a) = l
        BY <1>2, <1>4, <4>1
      <4>3. tx.events[a] = events[a] \o ObservedEvent(l, a)
        BY <4>1 DEF OpenInv, EventsInv
      <4>4. NewEvents(p, tx.first, match, tx.id, a) = ObservedEvent(l, a)
        BY <4>1, <4>2 DEF NewEvents, ObservedEvent
      <4> QED
        BY <4>3, <4>4
    <3>2. CASE ~ Seen(a)
      <4>1. ~ \E l \in DOMAIN tx.id : tx.id[l] = a
        BY <3>2 DEF Seen
      <4>2. a \in Own(p) => a \in DOMAIN rows
        BY OwnAreKnown
      <4>3. a \in Unseen(p, tx.id) <=> a \in Own(p)
        BY <3>2 DEF Seen, Unseen
      <4>4. tx.events[a] = WaitingEvents(a) /\ a \notin tx.restore
        BY <1>1, <3>2 DEF OpenInv, EventsInv
      <4>5. CASE a \in Own(p) /\ rows[a].availability = "available"
        BY <4>1, <4>3, <4>4, <4>5 DEF NewEvents, WaitingEvents
      <4>6. CASE ~ (a \in Own(p) /\ rows[a].availability = "available")
        <5>1. tx.events[a] = events[a]
          BY <4>4, <4>6 DEF WaitingEvents
        <5>2. NewEvents(p, tx.first, match, tx.id, a) = <<>>
          BY <4>1, <4>3, <4>6 DEF NewEvents
        <5>3. events[a] \in Seq(Event)
          BY DEF TypeOK
        <5> QED
          BY <5>1, <5>2, <5>3
      <4> QED
        BY <4>5, <4>6
    <3> QED
      BY <3>1, <3>2
  <2> QED
    BY <1>1, <2>1, <2>2
<1>11. tx.first \in FirstPass(OwnRows(p), tx.obs) /\ p \in running
  BY DEF OpenInv, ScanInv
<1> HIDE DEF match, fresh
<1> DEFINE Leaves(first, m) ==
             \E g \in FreshIds(m) :
               LET id == Assigned(m, g)
               IN  /\ rows' = ReconciledRows(p, tx.obs, first, m, id, tx.at)
                   /\ events' = [a \in AppId |-> events[a] \o NewEvents(p, first, m, id, a)]
                   /\ last' = [last EXCEPT ![p] = [obs |-> tx.obs, id |-> id]]
<1>12. Leaves(tx.first, match)
  BY <1>1, <1>5, <1>6, <1>8, <1>10
<1> HIDE DEF Leaves
<1>13. \E first \in FirstPass(OwnRows(p), tx.obs) :
         Leaves(first, MatchObservations(OwnRows(p), tx.obs, first, tx.at))
  BY <1>3, <1>11, <1>12
<1> QED
  BY <1>1, <1>9, <1>11, <1>13 DEF ReconcileScan, Leaves

(* Every step of a transaction keeps its invariant, and changes what is    *)
(* committed as a step of Reconciliation does.                             *)
LEMMA TxInductive ==
    TypeOK /\ TxInv /\ [TxNext]_txVars => TxInv' /\ (UNCHANGED vars \/ Next)
<1> SUFFICES ASSUME TypeOK, TxInv, [TxNext]_txVars
             PROVE  TxInv' /\ (UNCHANGED vars \/ Next)
  OBVIOUS
<1>1. ASSUME tx' = NoTx, \E p \in Provider : BeginScan(p) \/ FailScan(p) \/ GiveUp(p)
      PROVE  TxInv' /\ Next
  BY <1>1 DEF TxInv, Next
<1>2. ASSUME NEW p \in Provider, NEW obs \in Observations, NEW at \in Time,
             NEW bad \in SUBSET (Locator \ DOMAIN obs), BeginTx(p, obs, bad, at)
      PROVE  TxInv' /\ UNCHANGED vars
  BY <1>2, BeginKeeps DEF TxInv, BeginTx
<1>3. ASSUME NEW a, Park(a) PROVE TxInv' /\ UNCHANGED vars
  BY <1>3, ParkKeeps DEF TxInv, Park
<1>4. ASSUME NEW l, Write(l) PROVE TxInv' /\ UNCHANGED vars
  BY <1>4, WriteKeeps DEF TxInv, Write
<1>5. ASSUME NEW a, Restore(a) PROVE TxInv' /\ UNCHANGED vars
  BY <1>5, RestoreKeeps DEF TxInv, Restore
<1>6. CASE Commit
  <2>1. tx' = NoTx /\ OpenInv
    BY <1>6 DEF Commit, TxInv
  <2>2. ReconcileScan(tx.prov, tx.obs, tx.bad, tx.at)
    BY <1>6, <2>1, CommitReconciles
  <2>3. /\ tx.prov \in Provider /\ tx.obs \in Observations /\ tx.at \in Time
        /\ tx.bad \in SUBSET (Locator \ DOMAIN tx.obs)
    BY <2>1 DEF OpenInv, ScanInv
  <2> QED
    BY <2>1, <2>2, <2>3 DEF TxInv, Next
<1>7. CASE Rollback
  BY <1>7 DEF Rollback, TxInv
<1>8. CASE Die
  BY <1>8 DEF Die, TxInv, Next
<1>9. CASE UNCHANGED txVars
  <2>1. UNCHANGED vars /\ tx' = tx /\ SameScan
    BY <1>9 DEF txVars, SameScan
  <2>2. rows' = rows /\ contents' = contents /\ events' = events /\ running' = running
    BY <2>1 DEF vars
  <2>3. \A a : /\ WaitingRow(a)' = WaitingRow(a) /\ WaitingEvents(a)' = WaitingEvents(a)
               /\ Seen(a)' = Seen(a)
    BY <2>1, <2>2, SameScanKept DEF WaitingRow, WaitingEvents, Seen
  <2>4. OpenInv => OpenInv'
    <3> SUFFICES ASSUME OpenInv PROVE OpenInv'
      OBVIOUS
    <3>1. TxShape' /\ ScanInv'
      BY <2>1, SameScanKept DEF OpenInv, TxShape
    <3>2. OrderInv' /\ IdInv' /\ ContentsInv'
      BY <2>1, <2>2, SameScanKept DEF OpenInv, OrderInv, IdInv, ContentsInv, Unwritten
    <3>3. RowsInv'
      BY <2>1, <2>2, <2>3, SameScanKept DEF OpenInv, RowsInv
    <3>4. EventsInv'
      <4>1. \A l : ObservedEvent(l, tx.id[l])' = ObservedEvent(l, tx.id[l])
        BY <2>1, <2>2, SameScanKept DEF ObservedEvent
      <4> QED
        BY <2>1, <2>2, <2>3, <4>1 DEF OpenInv, EventsInv
    <3> QED
      BY <3>1, <3>2, <3>3, <3>4 DEF OpenInv
  <2> QED
    BY <2>1, <2>4 DEF TxInv
<1> QED
  BY <1>1, <1>2, <1>3, <1>4, <1>5, <1>6, <1>7, <1>8, <1>9 DEF TxNext

(* Statement by statement, whatever fails and whenever the process dies,   *)
(* the catalogue changes as if each ReconcileScan were one step.           *)
THEOREM TransactionsImplement == TxSpec => ImplementsReconciliation
<1>1. TxInit => Init /\ TypeOK /\ TxInv
  BY TypeInit DEF TxInit, TxInv
<1>2. TypeOK /\ TxInv /\ [TxNext]_txVars => TypeOK' /\ TxInv' /\ (UNCHANGED vars \/ Next)
  BY TxInductive, TypeInductive
<1> QED
  BY <1>1, <1>2, PTL DEF TxSpec, ImplementsReconciliation

(* The open transaction never gets out of step: at every point its rows    *)
(* are the loaded ones, parked, written or restored as far as it has come. *)
THEOREM ProgressCorrect == TxSpec => []WorkFollowsProgress
<1>1. TxInit => TypeOK /\ TxInv
  BY TypeInit DEF TxInit, TxInv
<1>2. TypeOK /\ TxInv /\ [TxNext]_txVars => TypeOK' /\ TxInv'
  BY TxInductive, TypeInductive
<1>3. TxInv => WorkFollowsProgress
  <2> SUFFICES ASSUME tx # NoTx, OpenInv PROVE WorkFollowsProgress
    BY DEF TxInv, WorkFollowsProgress
  <2>1. DOMAIN tx.rows = DOMAIN rows \cup {tx.id[l] : l \in DOMAIN tx.id}
    BY DEF OpenInv, RowsInv
  <2>2. \A l \in DOMAIN tx.id : tx.rows[tx.id[l]] = WrittenRow(l)
    BY DEF OpenInv, RowsInv
  <2>3. \A a \in DOMAIN rows : ~ Seen(a) => tx.rows[a] = WaitingRow(a)
    BY DEF OpenInv, RowsInv
  <2> QED
    BY <2>1, <2>2, <2>3 DEF WorkFollowsProgress, WrittenRow, WaitingRow
<1> QED
  BY <1>1, <1>2, <1>3, PTL DEF TxSpec

(* The unique index on available locators refuses no statement, however    *)
(* many files have swapped their names.                                    *)
THEOREM IndexCorrect == TxSpec => []IndexRefusesNothing
<1>1. TxInit => TypeOK /\ TxInv
  BY TypeInit DEF TxInit, TxInv
<1>2. TypeOK /\ TxInv /\ [TxNext]_txVars => TypeOK' /\ TxInv'
  BY TxInductive, TypeInductive
<1>3. TypeOK /\ TxInv => IndexRefusesNothing
  <2> SUFFICES ASSUME TypeOK, OpenInv, tx.park = {}, NEW l \in Unwritten,
                      NEW b \in DOMAIN tx.rows,
                      tx.rows[b].prov = tx.prov, tx.rows[b].locator = l,
                      tx.rows[b].availability = "available"
               PROVE  FALSE
    BY DEF TxInv, IndexRefusesNothing, Admitted
  <2>1. CASE Seen(b)
    <3>1. PICK k \in DOMAIN tx.id : tx.id[k] = b
      BY <2>1 DEF Seen
    <3>2. tx.rows[b] = WrittenRow(k)
      BY <3>1 DEF OpenInv, RowsInv
    <3>3. tx.rows[b].locator = k
      BY <3>2 DEF WrittenRow, ObservedRow
    <3> QED
      BY <3>1, <3>3 DEF Unwritten
  <2>2. CASE ~ Seen(b)
    <3>1. b \in DOMAIN rows /\ tx.rows[b] = WaitingRow(b)
      BY <2>2 DEF OpenInv, RowsInv, Seen
    <3>2. rows[b] \in Row
      BY <3>1 DEF TypeOK
    <3>3. CASE b \in Own(tx.prov)
      <4>1. tx.rows[b].availability = "unavailable"
        BY <3>1, <3>2, <3>3 DEF WaitingRow, Row
      <4> QED
        BY <4>1
    <3>4. CASE b \notin Own(tx.prov)
      BY <3>1, <3>4 DEF WaitingRow, Own
    <3> QED
      BY <3>3, <3>4
  <2> QED
    BY <2>1, <2>2
<1> QED
  BY <1>1, <1>2, <1>3, PTL DEF TxSpec

(* So everything proved of Reconciliation holds of the statements. *)
LEMMA TransactionsAreSteps == TxSpec => Spec
<1>1. TxSpec => Init /\ [][UNCHANGED vars \/ Next]_vars
  BY TransactionsImplement DEF ImplementsReconciliation
<1>2. [UNCHANGED vars \/ Next]_vars => [Next]_vars
  OBVIOUS
<1> QED
  BY <1>1, <1>2, PTL DEF Spec

(* The rows, the events and the contents keep what a scan may rely on.     *)
THEOREM TransactionsKeep ==
    TxSpec => [](TypeOK /\ AvailableLocatorsUnique /\ EventsExplainLocators)
              /\ ContentNeverRelabelled
BY TransactionsAreSteps, TypeCorrect, UniqueCorrect, EventsCorrect, ContentCorrect, PTL

(* What is available is what the last committed scan saw.                  *)
THEOREM TransactionsMirror == TxSpec => []AvailableMirrorsLastScan
BY TransactionsAreSteps, MirrorsCorrect, PTL

(* Observations that are replayed change nothing.                          *)
THEOREM TransactionsReplay == TxSpec => ReplayChangesNothing
BY TransactionsAreSteps, ReplayCorrect
=============================================================================
