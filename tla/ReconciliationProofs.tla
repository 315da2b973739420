------------------------ MODULE ReconciliationProofs ------------------------
(* The catalogue's invariants, for every number of providers, appearances, *)
(* contents, identities, locators and scans.                               *)
EXTENDS Reconciliation, MatchingProofs

(* What one committed scan does to the appearances: the observations are   *)
(* given distinct appearance ids, each new or of a known appearance of the *)
(* provider with the same content, and all other appearances of the        *)
(* provider become unavailable where they are.                             *)
Reconciled(p, obs, at, id) ==
    /\ DOMAIN id = DOMAIN obs /\ id = [l \in DOMAIN obs |-> id[l]]
    /\ \A k, l \in DOMAIN obs : id[k] = id[l] => k = l
    /\ \A l \in DOMAIN obs :
         /\ id[l] \in AppId
         /\ \/ id[l] \notin DOMAIN rows
            \/ id[l] \in Own(p) /\ rows[id[l]].content = obs[l].content
    /\ DOMAIN rows' = DOMAIN rows \cup {id[l] : l \in DOMAIN obs}
    /\ rows' = [a \in DOMAIN rows' |-> rows'[a]]
    /\ \A l \in DOMAIN obs : \E c \in {"discovered", "same-locator", "confirmed-rename", "probable-rename"} :
         rows'[id[l]] = ObservedRow(p, l, obs[l], c, at)
    /\ \A a \in DOMAIN rows :
         (\A l \in DOMAIN obs : id[l] # a) =>
            rows'[a] = IF a \in Own(p) THEN [rows[a] EXCEPT !.availability = "unavailable"]
                                       ELSE rows[a]
    /\ last' = [last EXCEPT ![p] = [obs |-> obs, id |-> id]]

(* The observations have the appearances the first pass chose for them.    *)
Follows(p, obs, id) ==
    \E first \in FirstPass(OwnRows(p), obs) :
        \A l \in DOMAIN obs : first[l] # New => id[l] = first[l]

(* The locators of an observation set are integers. *)
LEMMA ObservationDomain ==
    ASSUME NEW obs \in Observations
    PROVE  DOMAIN obs \subseteq Locator /\ DOMAIN obs \subseteq Int
           /\ \A l \in DOMAIN obs : obs[l] \in Observation
<1>1. PICK L \in SUBSET Locator : obs \in [L -> Observation]
  BY DEF Observations
<1> QED
  BY <1>1, CatalogueAssumption DEF Locator

(* Every label of an assignment is one of the four continuities. *)
LEMMA ContinuityType ==
    ASSUME NEW own, NEW first, NEW match, NEW l
    PROVE  Continuity(own, first, match, l)
             \in {"discovered", "same-locator", "confirmed-rename", "probable-rename"}
BY DEF Continuity

(* The ids a committed scan gives to its observations. *)
LEMMA IdsSound ==
    ASSUME DOMAIN rows \subseteq AppId,
           NEW p \in Provider, NEW obs \in Observations, NEW at,
           NEW first \in FirstPass(OwnRows(p), obs),
           NEW fresh \in FreshIds(MatchObservations(OwnRows(p), obs, first, at))
    PROVE  LET match == MatchObservations(OwnRows(p), obs, first, at)
               id    == Assigned(match, fresh)
           IN  /\ DOMAIN match = DOMAIN obs
               /\ DOMAIN id = DOMAIN obs
               /\ \A k, l \in DOMAIN obs : id[k] = id[l] => k = l
               /\ \A l \in DOMAIN obs : match[l] = New => id[l] \in AppId \ DOMAIN rows
               /\ \A l \in DOMAIN obs : match[l] # New =>
                    id[l] = match[l] /\ id[l] \in Own(p) /\ rows[id[l]].content = obs[l].content
<1> DEFINE match == MatchObservations(OwnRows(p), obs, first, at)
           id    == Assigned(match, fresh)
           L     == {l \in DOMAIN match : match[l] = New}
<1>1. /\ DOMAIN match = DOMAIN obs
      /\ \A l \in DOMAIN obs :
           match[l] # New => match[l] \in DOMAIN OwnRows(p)
                             /\ OwnRows(p)[match[l]].content = obs[l].content
      /\ \A k, l \in DOMAIN obs : (match[k] = match[l] /\ match[l] # New) => k = l
  BY ObservationDomain, MatchSound
<1>2. /\ fresh \in [L -> AppId \ DOMAIN rows]
      /\ \A k, l \in L : k # l => fresh[k] # fresh[l]
  BY DEF FreshIds
<1>3. /\ DOMAIN id = DOMAIN obs
      /\ \A l \in DOMAIN obs : id[l] = IF match[l] = New THEN fresh[l] ELSE match[l]
  BY <1>1 DEF Assigned
<1>4. DOMAIN OwnRows(p) = Own(p) /\ \A a \in Own(p) : OwnRows(p)[a] = rows[a]
  BY DEF OwnRows
<1>5. Own(p) \subseteq DOMAIN rows
  BY DEF Own
<1>6. \A l \in DOMAIN obs : match[l] = New => id[l] = fresh[l] /\ id[l] \in AppId \ DOMAIN rows
  BY <1>1, <1>2, <1>3
<1>7. \A l \in DOMAIN obs : match[l] # New =>
        id[l] = match[l] /\ id[l] \in Own(p) /\ rows[id[l]].content = obs[l].content
  BY <1>1, <1>3, <1>4
<1>8. ASSUME NEW k \in DOMAIN obs, NEW l \in DOMAIN obs, id[k] = id[l]
      PROVE  k = l
  <2>1. CASE match[k] = New /\ match[l] = New
    <3>1. k \in L /\ l \in L
      BY <1>1, <2>1
    <3> QED
      BY <3>1, <1>2, <1>6, <1>8, <2>1
  <2>2. CASE match[k] # New /\ match[l] # New
    BY <1>1, <1>7, <1>8, <2>2
  <2>3. CASE match[k] = New /\ match[l] # New
    BY <1>5, <1>6, <1>7, <1>8, <2>3
  <2>4. CASE match[k] # New /\ match[l] = New
    BY <1>5, <1>6, <1>7, <1>8, <2>4
  <2> QED
    BY <2>1, <2>2, <2>3, <2>4
<1> HIDE DEF match, id, L
<1>9. /\ DOMAIN match = DOMAIN obs
      /\ DOMAIN id = DOMAIN obs
      /\ \A k, l \in DOMAIN obs : id[k] = id[l] => k = l
      /\ \A l \in DOMAIN obs : match[l] = New => id[l] \in AppId \ DOMAIN rows
      /\ \A l \in DOMAIN obs : match[l] # New =>
           id[l] = match[l] /\ id[l] \in Own(p) /\ rows[id[l]].content = obs[l].content
  BY <1>1, <1>3, <1>6, <1>7, <1>8
<1> QED
  BY <1>9 DEF match, id

(* ReconcileScan does what Reconciled says. *)
LEMMA ReconcileIsReconciled ==
    ASSUME TypeOK,
           NEW p \in Provider, NEW obs \in Observations, NEW bad, NEW at,
           ReconcileScan(p, obs, bad, at)
    PROVE  \E id : Reconciled(p, obs, at, id) /\ Follows(p, obs, id)
<1>1. PICK first \in FirstPass(OwnRows(p), obs) :
        \E fresh \in FreshIds(MatchObservations(OwnRows(p), obs, first, at)) :
          LET match == MatchObservations(OwnRows(p), obs, first, at)
              id    == Assigned(match, fresh)
          IN  /\ rows' = ReconciledRows(p, obs, first, match, id, at)
              /\ last' = [last EXCEPT ![p] = [obs |-> obs, id |-> id]]
  BY DEF ReconcileScan
<1> DEFINE match == MatchObservations(OwnRows(p), obs, first, at)
<1>2. PICK fresh \in FreshIds(match) :
          /\ rows' = ReconciledRows(p, obs, first, match, Assigned(match, fresh), at)
          /\ last' = [last EXCEPT ![p] = [obs |-> obs, id |-> Assigned(match, fresh)]]
  BY <1>1
<1> DEFINE id == Assigned(match, fresh)
<1>3. /\ DOMAIN id = DOMAIN obs
      /\ \A k, l \in DOMAIN obs : id[k] = id[l] => k = l
      /\ \A l \in DOMAIN obs : match[l] = New => id[l] \in AppId \ DOMAIN rows
      /\ \A l \in DOMAIN obs : match[l] # New =>
           id[l] = match[l] /\ id[l] \in Own(p) /\ rows[id[l]].content = obs[l].content
      /\ id = [l \in DOMAIN obs |-> id[l]]
  <2>1. id = [l \in DOMAIN id |-> id[l]]
    BY DEF Assigned
  <2> QED
    BY <2>1, IdsSound DEF TypeOK
<1>4. Own(p) \subseteq DOMAIN rows /\ DOMAIN rows \subseteq AppId
  BY DEF Own, TypeOK
<1> DEFINE R == ReconciledRows(p, obs, first, match, id, at)
<1> HIDE DEF match, id
<1>5. /\ rows' = R
      /\ DOMAIN R = DOMAIN rows \cup {id[l] : l \in DOMAIN obs}
      /\ R = [a \in DOMAIN R |-> R[a]]
  BY <1>2, <1>3 DEF ReconciledRows, id
<1>6. ASSUME NEW l \in DOMAIN obs
      PROVE  R[id[l]] = ObservedRow(p, l, obs[l], Continuity(OwnRows(p), first, match, l), at)
  <2>1. (CHOOSE k \in DOMAIN id : id[k] = id[l]) = l
    BY <1>3
  <2>2. id[l] \in DOMAIN R
    BY <1>5
  <2> QED
    BY <1>3, <2>1, <2>2 DEF ReconciledRows
<1>7. ASSUME NEW a \in DOMAIN rows, \A l \in DOMAIN obs : id[l] # a
      PROVE  R[a] = IF a \in Own(p) THEN [rows[a] EXCEPT !.availability = "unavailable"]
                                    ELSE rows[a]
  <2>1. a \in Unseen(p, id) <=> a \in Own(p)
    BY <1>3, <1>7 DEF Unseen
  <2> QED
    BY <1>3, <1>5, <1>7, <2>1 DEF ReconciledRows
<1>8. \A l \in DOMAIN obs :
         /\ id[l] \in AppId
         /\ \/ id[l] \notin DOMAIN rows
            \/ id[l] \in Own(p) /\ rows[id[l]].content = obs[l].content
  BY <1>3, <1>4
<1>9. \A l \in DOMAIN obs : \E c \in {"discovered", "same-locator", "confirmed-rename", "probable-rename"} :
         R[id[l]] = ObservedRow(p, l, obs[l], c, at)
  BY <1>6, ContinuityType
<1>10. last' = [last EXCEPT ![p] = [obs |-> obs, id |-> id]]
  BY <1>2 DEF id
<1>11. \A l \in DOMAIN obs : first[l] # New => id[l] = first[l]
  <2>1. \A l \in DOMAIN obs : first[l] # New => match[l] = first[l]
    BY DEF match, MatchObservations
  <2> QED
    BY <1>3, <2>1
<1> HIDE DEF R
<1>12. Reconciled(p, obs, at, id)
  BY <1>3, <1>5, <1>7, <1>8, <1>9, <1>10 DEF Reconciled
<1>13. Follows(p, obs, id)
  BY <1>11 DEF Follows
<1> QED
  BY <1>12, <1>13

(* An appearance that becomes unavailable where it is keeps everything else. *)
LEMMA MadeUnavailable ==
    ASSUME NEW r \in Row
    PROVE  LET u == [r EXCEPT !.availability = "unavailable"]
           IN  /\ u \in Row
               /\ u.availability = "unavailable"
               /\ u.prov = r.prov /\ u.content = r.content /\ u.locator = r.locator
               /\ u.ident = r.ident
BY DEF Row

(* The event that a committed scan records for appearance a, if any: its   *)
(* discovery, its move from the locator in the old row to the one in the   *)
(* new row, or that it was not observed where it stays.                    *)
Recorded(a, ev) ==
    \/ /\ ev = <<>>
       /\ \/ a \notin DOMAIN rows'
          \/ a \in DOMAIN rows \cap DOMAIN rows' /\ rows'[a].locator = rows[a].locator
    \/ /\ a \in DOMAIN rows' \ DOMAIN rows
       /\ ev = <<[kind |-> "discovered", old |-> NoLoc, new |-> rows'[a].locator]>>
    \/ /\ a \in DOMAIN rows \cap DOMAIN rows'
       /\ rows'[a].locator # rows[a].locator
       /\ \E c \in {"confirmed-rename", "probable-rename"} :
            ev = <<[kind |-> c, old |-> rows[a].locator, new |-> rows'[a].locator]>>
    \/ /\ a \in DOMAIN rows \cap DOMAIN rows'
       /\ rows'[a].locator = rows[a].locator
       /\ rows[a].availability = "available" /\ rows'[a].availability = "unavailable"
       /\ ev = <<[kind |-> "not-observed", old |-> rows[a].locator, new |-> NoLoc]>>

(* ReconcileScan records the events that Recorded describes. *)
LEMMA ReconcileRecords ==
    ASSUME TypeOK,
           NEW p \in Provider, NEW obs \in Observations, NEW bad, NEW at,
           ReconcileScan(p, obs, bad, at)
    PROVE  /\ events' = [a \in AppId |-> events'[a]]
           /\ \A a \in AppId : \E ev : events'[a] = events[a] \o ev /\ Recorded(a, ev)
<1>1. PICK first \in FirstPass(OwnRows(p), obs) :
        \E fresh \in FreshIds(MatchObservations(OwnRows(p), obs, first, at)) :
          LET match == MatchObservations(OwnRows(p), obs, first, at)
              id    == Assigned(match, fresh)
          IN  /\ rows' = ReconciledRows(p, obs, first, match, id, at)
              /\ events' = [a \in AppId |-> events[a] \o NewEvents(p, first, match, id, a)]
  BY DEF ReconcileScan
<1> DEFINE match == MatchObservations(OwnRows(p), obs, first, at)
<1>2. PICK fresh \in FreshIds(match) :
          /\ rows' = ReconciledRows(p, obs, first, match, Assigned(match, fresh), at)
          /\ events' = [a \in AppId |->
                           events[a] \o NewEvents(p, first, match, Assigned(match, fresh), a)]
  BY <1>1
<1> DEFINE id == Assigned(match, fresh)
<1>3. /\ DOMAIN id = DOMAIN obs
      /\ \A k, l \in DOMAIN obs : id[k] = id[l] => k = l
      /\ \A l \in DOMAIN obs : match[l] = New => id[l] \in AppId \ DOMAIN rows
      /\ \A l \in DOMAIN obs : match[l] # New =>
           id[l] = match[l] /\ id[l] \in Own(p) /\ rows[id[l]].content = obs[l].content
  BY IdsSound DEF TypeOK
<1>4. /\ Own(p) \subseteq DOMAIN rows
      /\ \A a \in Own(p) : OwnRows(p)[a] = rows[a]
  BY DEF Own, OwnRows
<1> HIDE DEF match, id
<1>5. /\ DOMAIN rows' = DOMAIN rows \cup {id[l] : l \in DOMAIN obs}
      /\ \A a \in DOMAIN rows' : rows'[a] = ReconciledRows(p, obs, first, match, id, at)[a]
  BY <1>2, <1>3 DEF ReconciledRows, id
<1>6. ASSUME NEW l \in DOMAIN obs
      PROVE  /\ rows'[id[l]].locator = l
             /\ Recorded(id[l], NewEvents(p, first, match, id, id[l]))
  <2>1. (CHOOSE k \in DOMAIN id : id[k] = id[l]) = l
    BY <1>3
  <2>2. id[l] \in DOMAIN rows'
    BY <1>5
  <2>3. rows'[id[l]] = ObservedRow(p, l, obs[l], Continuity(OwnRows(p), first, match, l), at)
    BY <1>3, <1>5, <2>1, <2>2 DEF ReconciledRows
  <2>4. rows'[id[l]].locator = l
    BY <2>3 DEF ObservedRow
  <2>5. CASE match[l] = New
    <3>1. NewEvents(p, first, match, id, id[l])
            = <<[kind |-> "discovered", old |-> NoLoc, new |-> l]>>
      BY <1>3, <2>1, <2>5 DEF NewEvents
    <3>2. id[l] \in DOMAIN rows' \ DOMAIN rows
      BY <1>3, <2>2, <2>5
    <3> QED
      BY <2>4, <3>1, <3>2 DEF Recorded
  <2>6. CASE match[l] # New /\ rows[id[l]].locator = l
    <3>1. NewEvents(p, first, match, id, id[l]) = <<>>
      BY <1>3, <2>1, <2>6 DEF NewEvents
    <3>2. id[l] \in DOMAIN rows \cap DOMAIN rows'
      BY <1>3, <1>4, <2>2, <2>6
    <3> QED
      BY <2>4, <2>6, <3>1, <3>2 DEF Recorded
  <2>7. CASE match[l] # New /\ rows[id[l]].locator # l
    <3>1. NewEvents(p, first, match, id, id[l])
            = <<[kind |-> Continuity(OwnRows(p), first, match, l),
                 old |-> rows[id[l]].locator, new |-> l]>>
      BY <1>3, <2>1, <2>7 DEF NewEvents
    <3>2. id[l] \in DOMAIN rows \cap DOMAIN rows'
      BY <1>3, <1>4, <2>2, <2>7
    <3>3. OwnRows(p)[match[l]].locator # l
      BY <1>3, <1>4, <2>7
    <3>4. Continuity(OwnRows(p), first, match, l) \in {"confirmed-rename", "probable-rename"}
      BY <2>7, <3>3 DEF Continuity
    <3> QED
      BY <2>4, <2>7, <3>1, <3>2, <3>4 DEF Recorded
  <2> QED
    BY <2>4, <2>5, <2>6, <2>7
<1>7. ASSUME NEW a \in AppId, \A l \in DOMAIN obs : id[l] # a
      PROVE  Recorded(a, NewEvents(p, first, match, id, a))
  <2>1. ~ \E l \in DOMAIN id : id[l] = a
    BY <1>3, <1>7
  <2>2. a \in DOMAIN rows' <=> a \in DOMAIN rows
    BY <1>5, <1>7
  <2>3. a \in DOMAIN rows => rows'[a].locator = rows[a].locator
    <3> SUFFICES ASSUME a \in DOMAIN rows PROVE rows'[a].locator = rows[a].locator
      OBVIOUS
    <3>1. rows[a] \in Row
      BY DEF TypeOK
    <3>2. \/ rows'[a] = [rows[a] EXCEPT !.availability = "unavailable"]
          \/ rows'[a] = rows[a]
      BY <1>5, <2>1, <2>2 DEF ReconciledRows
    <3> QED
      BY <3>1, <3>2 DEF Row
  <2>4. CASE a \in Unseen(p, id) /\ rows[a].availability = "available"
    <3>1. a \in DOMAIN rows \cap DOMAIN rows'
      BY <1>4, <2>2, <2>4 DEF Unseen
    <3>2. NewEvents(p, first, match, id, a)
            = <<[kind |-> "not-observed", old |-> rows[a].locator, new |-> NoLoc]>>
      BY <2>1, <2>4 DEF NewEvents
    <3>3. rows'[a].availability = "unavailable"
      <4>1. rows[a] \in Row
        BY <3>1 DEF TypeOK
      <4>2. rows'[a] = [rows[a] EXCEPT !.availability = "unavailable"]
        BY <1>5, <2>1, <2>4, <3>1 DEF ReconciledRows
      <4> QED
        BY <4>1, <4>2, MadeUnavailable
    <3> QED
      BY <2>3, <2>4, <3>1, <3>2, <3>3 DEF Recorded
  <2>5. CASE ~ (a \in Unseen(p, id) /\ rows[a].availability = "available")
    <3>1. NewEvents(p, first, match, id, a) = <<>>
      BY <2>1, <2>5 DEF NewEvents
    <3> QED
      BY <2>2, <2>3, <3>1 DEF Recorded
  <2> QED
    BY <2>4, <2>5
<1>8. \A a \in AppId : Recorded(a, NewEvents(p, first, match, id, a))
  BY <1>6, <1>7
<1>9. events' = [a \in AppId |-> events[a] \o NewEvents(p, first, match, id, a)]
  BY <1>2 DEF id
<1> QED
  BY <1>8, <1>9

-----------------------------------------------------------------------------
(* Type correctness.                                                       *)

(* What FailScan does to the appearances. *)
LEMMA FailRows ==
    ASSUME TypeOK, NEW p \in Provider, FailScan(p)
    PROVE  /\ DOMAIN rows' = DOMAIN rows
           /\ rows' = [a \in DOMAIN rows' |-> rows'[a]]
           /\ \A a \in DOMAIN rows :
                rows'[a] = IF a \in Own(p) THEN [rows[a] EXCEPT !.availability = "unavailable"]
                                           ELSE rows[a]
BY DEF FailScan

(* The fields of the row written for an observation. *)
LEMMA ObservedRowFields ==
    ASSUME NEW p \in Provider, NEW l \in Locator, NEW o \in Observation, NEW at \in Time,
           NEW c \in {"discovered", "same-locator", "confirmed-rename", "probable-rename"}
    PROVE  LET r == ObservedRow(p, l, o, c, at)
           IN  /\ r \in Row
               /\ r.prov = p /\ r.content = o.content /\ r.locator = l /\ r.ident = o.ident
               /\ r.availability = "available"
BY DEF ObservedRow, Row, Observation

(* The rows after a committed scan. *)
LEMMA ReconciledRowsType ==
    ASSUME TypeOK, NEW p \in Provider, NEW obs \in Observations, NEW at \in Time,
           NEW id, Reconciled(p, obs, at, id)
    PROVE  /\ DOMAIN rows' \subseteq AppId
           /\ rows' \in [DOMAIN rows' -> Row]
<1>1. ASSUME NEW a \in DOMAIN rows' PROVE a \in AppId /\ rows'[a] \in Row
  <2>1. CASE \E l \in DOMAIN obs : id[l] = a
    <3>1. PICK l \in DOMAIN obs : id[l] = a
      BY <2>1
    <3>2. l \in Locator /\ obs[l] \in Observation
      BY ObservationDomain
    <3> QED
      BY <3>1, <3>2, ObservedRowFields DEF Reconciled
  <2>2. CASE \A l \in DOMAIN obs : id[l] # a
    <3>1. a \in DOMAIN rows
      BY <2>2 DEF Reconciled
    <3>2. a \in AppId /\ rows[a] \in Row
      BY <3>1 DEF TypeOK
    <3> QED
      BY <2>2, <3>1, <3>2, MadeUnavailable DEF Reconciled
  <2> QED
    BY <2>1, <2>2
<1>2. rows' = [a \in DOMAIN rows' |-> rows'[a]]
  BY DEF Reconciled
<1> HIDE DEF TypeOK
<1> QED
  BY <1>1, <1>2

(* The events after a committed scan. *)
LEMMA RecordedType ==
    ASSUME NEW a, NEW ev, Recorded(a, ev),
           rows \in [DOMAIN rows -> Row], rows' \in [DOMAIN rows' -> Row]
    PROVE  ev \in Seq(Event)
<1>1. \A b \in DOMAIN rows : rows[b].locator \in Locator
  BY DEF Row
<1>2. \A b \in DOMAIN rows' : rows'[b].locator \in Locator
  BY DEF Row
<1>3. CASE ev = <<>>
  BY <1>3
<1>4. CASE \E e \in Event : ev = <<e>>
  BY <1>4
<1> QED
  BY <1>1, <1>2, <1>3, <1>4 DEF Recorded, Event

(* Every step keeps the types. *)
LEMMA TypeInductive == TypeOK /\ [Next]_vars => TypeOK'
<1> SUFFICES ASSUME TypeOK, [Next]_vars PROVE TypeOK'
  OBVIOUS
<1>1. ASSUME NEW p \in Provider, BeginScan(p) PROVE TypeOK'
  <2>1. scans + 1 \in 0..MaxScans
    BY <1>1, CatalogueAssumption DEF TypeOK, BeginScan
  <2> QED
    BY <1>1, <2>1 DEF TypeOK, BeginScan, ScanStatus
<1>2. ASSUME NEW p \in Provider, FailScan(p) PROVE TypeOK'
  <2>1. DOMAIN rows' \subseteq AppId
    BY <1>2, FailRows DEF TypeOK
  <2>2. ASSUME NEW a \in DOMAIN rows' PROVE rows'[a] \in Row
    <3>1. a \in DOMAIN rows
      BY <1>2, FailRows
    <3>2. rows[a] \in Row
      BY <3>1 DEF TypeOK
    <3>3. \/ rows'[a] = [rows[a] EXCEPT !.availability = "unavailable"]
          \/ rows'[a] = rows[a]
      BY <1>2, <3>1, FailRows
    <3> QED
      BY <3>2, <3>3, MadeUnavailable
  <2>3. rows' \in [DOMAIN rows' -> Row]
    BY <1>2, <2>2, FailRows
  <2> QED
    BY <1>2, <2>1, <2>3 DEF TypeOK, FailScan, ScanStatus
<1>3. ASSUME NEW p \in Provider, GiveUp(p) PROVE TypeOK'
  BY <1>3 DEF TypeOK, GiveUp
<1>4. ASSUME NEW p \in Provider, NEW obs \in Observations, NEW at \in Time,
             NEW bad \in SUBSET (Locator \ DOMAIN obs), ReconcileScan(p, obs, bad, at)
      PROVE  TypeOK'
  <2>1. PICK id : Reconciled(p, obs, at, id)
    BY <1>4, ReconcileIsReconciled
  <2>2. DOMAIN rows' \subseteq AppId /\ rows' \in [DOMAIN rows' -> Row]
    BY <2>1, ReconciledRowsType
  <2>3. /\ events' = [a \in AppId |-> events'[a]]
        /\ \A a \in AppId : \E ev : events'[a] = events[a] \o ev /\ Recorded(a, ev)
    BY <1>4, ReconcileRecords
  <2>4. ASSUME NEW a \in AppId PROVE events'[a] \in Seq(Event)
    <3>1. PICK ev : events'[a] = events[a] \o ev /\ Recorded(a, ev)
      BY <2>3
    <3>2. ev \in Seq(Event)
      BY <2>2, <3>1, RecordedType DEF TypeOK
    <3>3. events[a] \in Seq(Event)
      BY DEF TypeOK
    <3> QED
      BY <3>1, <3>2, <3>3
  <2>5. events' \in [AppId -> Seq(Event)]
    BY <2>3, <2>4
  <2>6. \A l \in DOMAIN obs : obs[l].content \in Content
    BY ObservationDomain DEF Observation
  <2>7. contents' \in SUBSET Content
    BY <1>4, <2>6 DEF ReconcileScan, TypeOK
  <2>8. /\ DOMAIN last' = Provider
        /\ \A q \in Provider : last'[q].obs \in Observations
    BY <2>1 DEF Reconciled, TypeOK
  <2>9. /\ issues' \in [Provider -> SUBSET Locator]
        /\ status' \in [Provider -> ScanStatus]
        /\ running' \in SUBSET Provider
        /\ scans' \in 0..MaxScans
    BY <1>4 DEF ReconcileScan, TypeOK, ScanStatus
  <2> QED
    BY <2>2, <2>5, <2>7, <2>8, <2>9 DEF TypeOK
<1>5. ASSUME Restart PROVE TypeOK'
  BY <1>5 DEF TypeOK, Restart
<1>6. CASE UNCHANGED vars
  BY <1>6 DEF TypeOK, vars
<1> QED
  BY <1>1, <1>2, <1>3, <1>4, <1>5, <1>6 DEF Next

(* The initial state has its type. *)
LEMMA TypeInit == Init => TypeOK
<1> SUFFICES ASSUME Init PROVE TypeOK
  OBVIOUS
<1>1. rows = <<>> /\ DOMAIN rows = {}
  BY DEF Init
<1>2. rows \in [DOMAIN rows -> Row]
  BY <1>1
<1>3. \A p \in Provider : last[p].obs = <<>>
  BY DEF Init
<1>4. <<>> \in [{} -> Observation]
  OBVIOUS
<1>5. <<>> \in Observations
  BY <1>4 DEF Observations
<1> QED
  BY <1>1, <1>2, <1>3, <1>5, CatalogueAssumption DEF Init, TypeOK, ScanStatus

(* Every reachable state of the catalogue has its type. *)
THEOREM TypeCorrect == Spec => []TypeOK
<1>1. Init => TypeOK
  BY TypeInit
<1>2. TypeOK /\ [Next]_vars => TypeOK'
  BY TypeInductive
<1> QED
  BY <1>1, <1>2, PTL DEF Spec

-----------------------------------------------------------------------------
(* What the steps do to availability.                                      *)

(* Every step leaves the appearances alone, makes those of one provider    *)
(* unavailable, or commits one scan of one provider.                       *)
LEMMA RowSteps ==
    ASSUME TypeOK, [Next]_vars
    PROVE  \/ rows' = rows /\ last' = last
           \/ \E p \in Provider : FailScan(p)
           \/ \E p \in Provider, obs \in Observations, at \in Time : \E id :
                /\ \E bad : ReconcileScan(p, obs, bad, at)
                /\ Reconciled(p, obs, at, id)
<1>1. ASSUME NEW p \in Provider, BeginScan(p) PROVE rows' = rows /\ last' = last
  BY <1>1 DEF BeginScan
<1>2. ASSUME NEW p \in Provider, GiveUp(p) PROVE rows' = rows /\ last' = last
  BY <1>2 DEF GiveUp
<1>3. ASSUME NEW p \in Provider, NEW obs \in Observations, NEW at \in Time,
             NEW bad \in SUBSET (Locator \ DOMAIN obs), ReconcileScan(p, obs, bad, at)
      PROVE  \E id : Reconciled(p, obs, at, id)
  BY <1>3, ReconcileIsReconciled
<1>4. Restart => rows' = rows /\ last' = last
  BY DEF Restart
<1>5. UNCHANGED vars => rows' = rows /\ last' = last
  BY DEF vars
<1> QED
  BY <1>1, <1>2, <1>3, <1>4, <1>5 DEF Next

(* The same, with the whole of what the commit does. *)
LEMMA CommittedSteps ==
    ASSUME TypeOK, [Next]_vars
    PROVE  \/ rows' = rows /\ last' = last
           \/ \E p \in Provider : FailScan(p)
           \/ \E p \in Provider, obs \in Observations, at \in Time :
                \E bad \in SUBSET (Locator \ DOMAIN obs) : ReconcileScan(p, obs, bad, at)
<1>1. ASSUME NEW p \in Provider, BeginScan(p) \/ GiveUp(p) PROVE rows' = rows /\ last' = last
  BY <1>1 DEF BeginScan, GiveUp
<1>2. Restart \/ UNCHANGED vars => rows' = rows /\ last' = last
  BY DEF Restart, vars
<1> QED
  BY <1>1, <1>2 DEF Next

(* A row after a failed scan, for a provider's own appearances and others. *)
LEMMA FailScanRow ==
    ASSUME TypeOK, NEW p \in Provider, FailScan(p), NEW a \in DOMAIN rows'
    PROVE  /\ a \in DOMAIN rows
           /\ rows'[a].prov = rows[a].prov
           /\ rows'[a].content = rows[a].content
           /\ rows'[a].locator = rows[a].locator
           /\ rows[a].prov = p => rows'[a].availability = "unavailable"
           /\ rows[a].prov # p => rows'[a] = rows[a]
<1>1. a \in DOMAIN rows
  BY FailRows
<1>2. rows[a] \in Row
  BY <1>1 DEF TypeOK
<1>3. rows'[a] = IF a \in Own(p) THEN [rows[a] EXCEPT !.availability = "unavailable"]
                                 ELSE rows[a]
  BY <1>1, FailRows
<1>4. a \in Own(p) <=> rows[a].prov = p
  BY <1>1 DEF Own
<1> QED
  BY <1>1, <1>2, <1>3, <1>4, MadeUnavailable

(* A row after a committed scan: of an observed appearance, or of another. *)
LEMMA ObservedAfter ==
    ASSUME NEW p \in Provider, NEW obs \in Observations, NEW at \in Time,
           NEW id, Reconciled(p, obs, at, id), NEW l \in DOMAIN obs
    PROVE  /\ id[l] \in DOMAIN rows'
           /\ rows'[id[l]].prov = p
           /\ rows'[id[l]].content = obs[l].content
           /\ rows'[id[l]].locator = l
           /\ rows'[id[l]].ident = obs[l].ident
           /\ rows'[id[l]].availability = "available"
<1>1. l \in Locator /\ obs[l] \in Observation
  BY ObservationDomain
<1>2. PICK c \in {"discovered", "same-locator", "confirmed-rename", "probable-rename"} :
        rows'[id[l]] = ObservedRow(p, l, obs[l], c, at)
  BY DEF Reconciled
<1>3. id[l] \in DOMAIN rows'
  BY DEF Reconciled
<1> QED
  BY <1>1, <1>2, <1>3, ObservedRowFields

LEMMA UnobservedAfter ==
    ASSUME TypeOK, NEW p \in Provider, NEW obs \in Observations, NEW at \in Time,
           NEW id, Reconciled(p, obs, at, id),
           NEW a \in DOMAIN rows', \A l \in DOMAIN obs : id[l] # a
    PROVE  /\ a \in DOMAIN rows
           /\ rows'[a].prov = rows[a].prov
           /\ rows'[a].content = rows[a].content
           /\ rows'[a].locator = rows[a].locator
           /\ rows[a].prov = p => rows'[a].availability = "unavailable"
           /\ rows[a].prov # p => rows'[a] = rows[a]
<1>1. a \in DOMAIN rows
  BY DEF Reconciled
<1>2. rows[a] \in Row
  BY <1>1 DEF TypeOK
<1>3. rows'[a] = IF a \in Own(p) THEN [rows[a] EXCEPT !.availability = "unavailable"]
                                 ELSE rows[a]
  BY <1>1 DEF Reconciled
<1>4. a \in Own(p) <=> rows[a].prov = p
  BY <1>1 DEF Own
<1> QED
  BY <1>1, <1>2, <1>3, <1>4, MadeUnavailable

-----------------------------------------------------------------------------
(* Two available appearances are never at one locator.                     *)

(* A step keeps the locators of the available appearances distinct.        *)
LEMMA UniqueInductive ==
    TypeOK /\ AvailableLocatorsUnique /\ [Next]_vars => AvailableLocatorsUnique'
<1> SUFFICES ASSUME TypeOK, AvailableLocatorsUnique, [Next]_vars,
                    NEW q \in Provider, NEW a \in Available(q)', NEW b \in Available(q)',
                    rows'[a].locator = rows'[b].locator
             PROVE  a = b
  BY DEF AvailableLocatorsUnique
<1>1. /\ a \in DOMAIN rows' /\ rows'[a].prov = q /\ rows'[a].availability = "available"
      /\ b \in DOMAIN rows' /\ rows'[b].prov = q /\ rows'[b].availability = "available"
  BY DEF Available, Own
<1>2. ASSUME a \in DOMAIN rows, b \in DOMAIN rows, rows'[a] = rows[a], rows'[b] = rows[b]
      PROVE  a = b
  BY <1>1, <1>2 DEF AvailableLocatorsUnique, Available, Own
<1>3. CASE rows' = rows
  BY <1>1, <1>2, <1>3
<1>4. ASSUME NEW p \in Provider, FailScan(p) PROVE a = b
  BY <1>1, <1>2, <1>4, FailScanRow
<1>5. ASSUME NEW p \in Provider, NEW obs \in Observations, NEW at \in Time, NEW id,
             Reconciled(p, obs, at, id)
      PROVE  a = b
  <2>1. CASE q = p
    <3>1. PICK k \in DOMAIN obs : id[k] = a
      BY <1>1, <1>5, <2>1, UnobservedAfter
    <3>2. PICK l \in DOMAIN obs : id[l] = b
      BY <1>1, <1>5, <2>1, UnobservedAfter
    <3>3. rows'[a].locator = k /\ rows'[b].locator = l
      BY <1>5, <3>1, <3>2, ObservedAfter
    <3> QED
      BY <3>1, <3>2, <3>3
  <2>2. CASE q # p
    <3>1. \A l \in DOMAIN obs : id[l] # a /\ id[l] # b
      BY <1>1, <1>5, <2>2, ObservedAfter
    <3>2. a \in DOMAIN rows /\ rows'[a] = rows[a]
      BY <1>1, <1>5, <2>2, <3>1, UnobservedAfter
    <3>3. b \in DOMAIN rows /\ rows'[b] = rows[b]
      BY <1>1, <1>5, <2>2, <3>1, UnobservedAfter
    <3> QED
      BY <1>2, <3>2, <3>3
  <2> QED
    BY <2>1, <2>2
<1> QED
  BY <1>3, <1>4, <1>5, RowSteps

(* The unique index on the locators of available appearances holds after   *)
(* every commit, for every catalogue and every result of the matching.     *)
THEOREM UniqueCorrect == Spec => []AvailableLocatorsUnique
<1>1. Init => TypeOK /\ AvailableLocatorsUnique
  BY TypeInit DEF Init, AvailableLocatorsUnique, Available, Own
<1>2. TypeOK /\ AvailableLocatorsUnique /\ [Next]_vars => (TypeOK /\ AvailableLocatorsUnique)'
  BY TypeInductive, UniqueInductive
<1> QED
  BY <1>1, <1>2, PTL DEF Spec

-----------------------------------------------------------------------------
(* An appearance keeps its content and its provider.                       *)

LEMMA StepKeepsContent ==
    ASSUME TypeOK, [Next]_vars, NEW a \in DOMAIN rows
    PROVE  /\ a \in DOMAIN rows'
           /\ rows'[a].content = rows[a].content
           /\ rows'[a].prov = rows[a].prov
<1>1. ASSUME NEW p \in Provider, FailScan(p)
      PROVE  /\ a \in DOMAIN rows'
             /\ rows'[a].content = rows[a].content
             /\ rows'[a].prov = rows[a].prov
  BY <1>1, FailRows, FailScanRow
<1>2. ASSUME NEW p \in Provider, NEW obs \in Observations, NEW at \in Time, NEW id,
             Reconciled(p, obs, at, id)
      PROVE  /\ a \in DOMAIN rows'
             /\ rows'[a].content = rows[a].content
             /\ rows'[a].prov = rows[a].prov
  <2>1. a \in DOMAIN rows'
    BY <1>2 DEF Reconciled
  <2>2. ASSUME NEW l \in DOMAIN obs, id[l] = a
        PROVE  rows'[a].content = rows[a].content /\ rows'[a].prov = rows[a].prov
    <3>1. a \in Own(p) /\ rows[a].content = obs[l].content
      BY <1>2, <2>2 DEF Reconciled
    <3>2. rows'[a].prov = p /\ rows'[a].content = obs[l].content
      BY <1>2, <2>2, ObservedAfter
    <3> QED
      BY <3>1, <3>2 DEF Own
  <2> QED
    BY <1>2, <2>1, <2>2, UnobservedAfter
<1> QED
  BY <1>1, <1>2, RowSteps

(* No step of the catalogue turns an appearance into one of other bytes or *)
(* of another provider, or forgets it.                                     *)
THEOREM ContentCorrect == Spec => ContentNeverRelabelled
<1>1. TypeOK /\ [Next]_vars
      => [\A a \in DOMAIN rows :
            /\ a \in DOMAIN rows'
            /\ rows'[a].content = rows[a].content
            /\ rows'[a].prov = rows[a].prov]_vars
  BY StepKeepsContent
<1>2. Init /\ [][Next]_vars => []TypeOK
  BY TypeCorrect DEF Spec
<1> QED
  BY <1>1, <1>2, PTL DEF Spec, ContentNeverRelabelled

-----------------------------------------------------------------------------
(* The catalogue shows what the last committed scan saw.                   *)

(* Mirrors depends on the available appearances and the last scan only.    *)
LEMMA MirrorsKept ==
    ASSUME NEW q \in Provider,
           Available(q)' = Available(q),
           \A a \in Available(q) : rows'[a] = rows[a],
           last'[q] = last[q]
    PROVE  Mirrors(q)' <=> Mirrors(q)
<1>1. \A a \in Available(q)' : rows'[a] = rows[a]
  OBVIOUS
<1> HIDE DEF Available
<1> QED
  BY <1>1 DEF Mirrors

(* A step that concerns another provider leaves q's appearances alone.     *)
LEMMA OthersKept ==
    ASSUME NEW q \in Provider, DOMAIN rows \subseteq DOMAIN rows',
           \A a \in DOMAIN rows' : \/ a \in DOMAIN rows /\ rows'[a] = rows[a]
                                   \/ /\ rows'[a].prov # q
                                      /\ a \in DOMAIN rows => rows[a].prov # q
    PROVE  /\ Available(q)' = Available(q)
           /\ \A a \in Available(q) : rows'[a] = rows[a]
<1>1. \A a : a \in Available(q)' <=> a \in DOMAIN rows' /\ rows'[a].prov = q
                                     /\ rows'[a].availability = "available"
  BY DEF Available, Own
<1>2. \A a : a \in Available(q) <=> a \in DOMAIN rows /\ rows[a].prov = q
                                    /\ rows[a].availability = "available"
  BY DEF Available, Own
<1> HIDE DEF Available
<1>3. \A a : a \in Available(q)' <=> a \in Available(q)
  BY <1>1, <1>2
<1> QED
  BY <1>2, <1>3

(* What AvailableMirrorsLastScan says of one provider. *)
Mirrored(p) ==
    /\ status[p] \in Complete => Mirrors(p)
    /\ status[p] = "unavailable" => Available(p) = {}
    /\ Mirrors(p) \/ Available(p) = {}

(* A step that leaves q's appearances, q's last scan and q's status alone,  *)
(* or marks q as being scanned, keeps what holds of q.                     *)
LEMMA MirroredKept ==
    ASSUME NEW q \in Provider, Mirrored(q),
           Available(q)' = Available(q),
           \A a \in Available(q) : rows'[a] = rows[a],
           last'[q] = last[q],
           status'[q] \in {status[q], "scanning"}
    PROVE  Mirrored(q)'
<1>1. Mirrors(q)' <=> Mirrors(q)
  BY MirrorsKept
<1> HIDE DEF Available, Mirrors
<1> QED
  BY <1>1 DEF Mirrored, Complete

(* A committed scan leaves exactly the observed files available. *)
LEMMA ReconciledMirrors ==
    ASSUME TypeOK, NEW p \in Provider, NEW obs \in Observations, NEW at \in Time,
           NEW id, Reconciled(p, obs, at, id)
    PROVE  Mirrors(p)'
<1>1. last'[p].obs = obs
  BY DEF Reconciled, TypeOK
<1>2. \A a : a \in Available(p)' <=> a \in DOMAIN rows' /\ rows'[a].prov = p
                                     /\ rows'[a].availability = "available"
  BY DEF Available, Own
<1>3. ASSUME NEW l \in DOMAIN obs
      PROVE  \E a \in Available(p)' : rows'[a].locator = l
  BY <1>2, ObservedAfter
<1>4. ASSUME NEW a \in Available(p)'
      PROVE  /\ rows'[a].locator \in DOMAIN obs
             /\ obs[rows'[a].locator] = [content |-> rows'[a].content, ident |-> rows'[a].ident]
  <2>1. PICK l \in DOMAIN obs : id[l] = a
    BY <1>2, UnobservedAfter
  <2>2. /\ rows'[a].locator = l /\ rows'[a].content = obs[l].content
        /\ rows'[a].ident = obs[l].ident
    BY <2>1, ObservedAfter
  <2>3. obs[l] \in Observation
    BY ObservationDomain
  <2> QED
    BY <2>2, <2>3 DEF Observation
<1> HIDE DEF Available
<1> QED
  BY <1>1, <1>3, <1>4 DEF Mirrors

LEMMA MirrorsInductive ==
    TypeOK /\ AvailableMirrorsLastScan /\ [Next]_vars => AvailableMirrorsLastScan'
<1> SUFFICES ASSUME TypeOK, AvailableMirrorsLastScan, [Next]_vars, NEW q \in Provider
             PROVE  Mirrored(q)'
  BY DEF AvailableMirrorsLastScan, Mirrored
<1>1. Mirrored(q)
  BY DEF AvailableMirrorsLastScan, Mirrored
<1>2. rows' = rows => Available(q)' = Available(q) /\ \A a \in Available(q) : rows'[a] = rows[a]
  BY DEF Available, Own
<1>3. ASSUME NEW p \in Provider, BeginScan(p) PROVE Mirrored(q)'
  <2>1. rows' = rows /\ last' = last /\ status'[q] \in {status[q], "scanning"}
    BY <1>3 DEF BeginScan, TypeOK
  <2> QED
    BY <1>1, <1>2, <2>1, MirroredKept
<1>4. ASSUME NEW p \in Provider, GiveUp(p) PROVE Mirrored(q)'
  <2>1. rows' = rows /\ last' = last /\ status' = status
    BY <1>4 DEF GiveUp
  <2> QED
    BY <1>1, <1>2, <2>1, MirroredKept
<1>5. ASSUME NEW p \in Provider, FailScan(p) PROVE Mirrored(q)'
  <2>1. last' = last /\ status' = [status EXCEPT ![p] = "unavailable"]
    BY <1>5 DEF FailScan
  <2>2. CASE q = p
    <3>1. Available(q)' = {}
      BY <1>5, <2>2, FailScanRow DEF Available, Own
    <3>2. status'[q] = "unavailable"
      BY <2>1, <2>2 DEF TypeOK
    <3> QED
      BY <3>1, <3>2 DEF Mirrored, Complete
  <2>3. CASE q # p
    <3>1. DOMAIN rows' = DOMAIN rows
      BY <1>5, FailRows
    <3>2. \A a \in DOMAIN rows' : \/ a \in DOMAIN rows /\ rows'[a] = rows[a]
                                  \/ /\ rows'[a].prov # q
                                     /\ a \in DOMAIN rows => rows[a].prov # q
      BY <1>5, <2>3, FailScanRow
    <3>3. Available(q)' = Available(q) /\ \A a \in Available(q) : rows'[a] = rows[a]
      BY <3>1, <3>2, OthersKept
    <3>4. status'[q] = status[q]
      BY <2>1, <2>3 DEF TypeOK
    <3> QED
      BY <1>1, <2>1, <3>3, <3>4, MirroredKept
  <2> QED
    BY <2>2, <2>3
<1>6. ASSUME NEW p \in Provider, NEW obs \in Observations, NEW at \in Time,
             NEW bad \in SUBSET (Locator \ DOMAIN obs), ReconcileScan(p, obs, bad, at)
      PROVE  Mirrored(q)'
  <2>1. PICK id : Reconciled(p, obs, at, id)
    BY <1>6, ReconcileIsReconciled
  <2>2. /\ status' = [status EXCEPT ![p] = IF bad = {} THEN "complete" ELSE "complete-with-issues"]
        /\ last' = [last EXCEPT ![p] = [obs |-> obs, id |-> id]]
    BY <1>6, <2>1 DEF ReconcileScan, Reconciled
  <2>3. CASE q = p
    <3>1. Mirrors(q)'
      BY <2>1, <2>3, ReconciledMirrors
    <3>2. status'[q] \in Complete
      BY <2>2, <2>3 DEF TypeOK, Complete
    <3> QED
      BY <3>1, <3>2 DEF Mirrored, Complete
  <2>4. CASE q # p
    <3>1. DOMAIN rows \subseteq DOMAIN rows'
      BY <2>1 DEF Reconciled
    <3>2. ASSUME NEW a \in DOMAIN rows'
          PROVE  \/ a \in DOMAIN rows /\ rows'[a] = rows[a]
                 \/ /\ rows'[a].prov # q
                    /\ a \in DOMAIN rows => rows[a].prov # q
      <4>1. CASE \E l \in DOMAIN obs : id[l] = a
        <5>1. rows'[a].prov = p
          BY <2>1, <4>1, ObservedAfter
        <5>2. a \in DOMAIN rows => rows[a].prov = p
          BY <2>1, <4>1 DEF Reconciled, Own
        <5> QED
          BY <2>4, <5>1, <5>2
      <4>2. CASE \A l \in DOMAIN obs : id[l] # a
        BY <2>1, <2>4, <4>2, UnobservedAfter
      <4> QED
        BY <4>1, <4>2
    <3>3. Available(q)' = Available(q) /\ \A a \in Available(q) : rows'[a] = rows[a]
      BY <3>1, <3>2, OthersKept
    <3>4. status'[q] = status[q] /\ last'[q] = last[q]
      BY <2>2, <2>4 DEF TypeOK
    <3> QED
      BY <1>1, <3>3, <3>4, MirroredKept
  <2> QED
    BY <2>3, <2>4
<1>7. ASSUME Restart \/ UNCHANGED vars PROVE Mirrored(q)'
  <2>1. rows' = rows /\ last' = last /\ status' = status
    BY <1>7 DEF Restart, vars
  <2> QED
    BY <1>1, <1>2, <2>1, MirroredKept
<1> QED
  BY <1>3, <1>4, <1>5, <1>6, <1>7 DEF Next

(* What a provider's appearances say is available is always exactly what   *)
(* its last committed scan saw, or nothing after a failed one; scans of    *)
(* other providers, scans in progress and restarts do not disturb it.      *)
THEOREM MirrorsCorrect == Spec => []AvailableMirrorsLastScan
<1>1. Init => AvailableMirrorsLastScan
  <2> SUFFICES ASSUME Init PROVE AvailableMirrorsLastScan
    OBVIOUS
  <2>1. \A p \in Provider : Available(p) = {} /\ status[p] = "never-scanned"
    BY DEF Init, Available, Own
  <2> QED
    BY <2>1 DEF AvailableMirrorsLastScan, Complete
<1>2. TypeOK /\ AvailableMirrorsLastScan /\ [Next]_vars => AvailableMirrorsLastScan'
  BY MirrorsInductive
<1>3. Init => TypeOK
  BY TypeInit
<1>4. TypeOK /\ [Next]_vars => TypeOK'
  BY TypeInductive
<1> QED
  BY <1>1, <1>2, <1>3, <1>4, PTL DEF Spec

-----------------------------------------------------------------------------
(* The events explain the locators.                                        *)

(* What EventsExplainLocators says of a known appearance with history h at *)
(* locator l.                                                              *)
Explains(h, l) ==
    /\ Len(h) > 0 /\ h[1].kind = "discovered" /\ h[1].old = NoLoc
    /\ \A k \in 2..Len(h) : h[k].kind # "discovered" /\ h[k].old = LeavesAt(h[k - 1])
    /\ l = LeavesAt(h[Len(h)])

(* A history that explains l, extended by an event that departs from l,    *)
(* explains where that event leads.                                        *)
LEMMA ExplainsMore ==
    ASSUME NEW h \in Seq(Event), NEW l, Explains(h, l),
           NEW e \in Event, e.old = l, e.kind # "discovered"
    PROVE  Explains(h \o <<e>>, LeavesAt(e))
<1> DEFINE g == h \o <<e>>
<1>1. /\ Len(g) = Len(h) + 1 /\ Len(h) \in Nat
      /\ \A k \in 1..Len(h) : g[k] = h[k]
      /\ g[Len(h) + 1] = e
  OBVIOUS
<1> HIDE DEF g
<1>2. ASSUME NEW k \in 2..Len(g)
      PROVE  g[k].kind # "discovered" /\ g[k].old = LeavesAt(g[k - 1])
  <2>1. CASE k \in 2..Len(h)
    <3>1. g[k] = h[k] /\ g[k - 1] = h[k - 1]
      BY <1>1, <2>1
    <3> QED
      BY <2>1, <3>1 DEF Explains
  <2>2. CASE k = Len(h) + 1
    <3>1. g[k] = e /\ g[k - 1] = h[Len(h)]
      BY <1>1, <1>2, <2>2
    <3> QED
      BY <3>1 DEF Explains
  <2> QED
    BY <1>1, <2>1, <2>2
<1>3. Len(g) > 0 /\ g[1] = h[1] /\ g[Len(g)] = e
  BY <1>1 DEF Explains
<1>4. Explains(g, LeavesAt(e))
  BY <1>2, <1>3 DEF Explains
<1> QED
  BY <1>4 DEF g

(* An appearance that is where it was, and records nothing. *)
LEMMA ExplainsStill ==
    ASSUME EventsExplainLocators,
           DOMAIN rows' = DOMAIN rows, \A a \in DOMAIN rows : rows'[a].locator = rows[a].locator,
           events' = events
    PROVE  EventsExplainLocators'
BY DEF EventsExplainLocators

LEMMA EventsInductive ==
    TypeOK /\ EventsExplainLocators /\ [Next]_vars => EventsExplainLocators'
<1> SUFFICES ASSUME TypeOK, EventsExplainLocators, [Next]_vars PROVE EventsExplainLocators'
  OBVIOUS
<1>1. ASSUME NEW p \in Provider, FailScan(p) PROVE EventsExplainLocators'
  <2>1. events' = events
    BY <1>1 DEF FailScan
  <2>2. DOMAIN rows' = DOMAIN rows
    BY <1>1, FailRows
  <2>3. \A a \in DOMAIN rows : rows'[a].locator = rows[a].locator
    BY <1>1, <2>2, FailScanRow
  <2> QED
    BY <2>1, <2>2, <2>3, ExplainsStill
<1>2. ASSUME NEW p \in Provider, NEW obs \in Observations, NEW at \in Time,
             NEW bad \in SUBSET (Locator \ DOMAIN obs), ReconcileScan(p, obs, bad, at)
      PROVE  EventsExplainLocators'
  <2>1. \A a \in AppId : \E ev : events'[a] = events[a] \o ev /\ Recorded(a, ev)
    BY <1>2, ReconcileRecords
  <2>2. TypeOK'
    BY TypeInductive
  <2>3. ASSUME NEW a \in AppId
        PROVE  IF a \notin DOMAIN rows' THEN events'[a] = <<>>
               ELSE Explains(events'[a], rows'[a].locator)
    <3>1. PICK ev : events'[a] = events[a] \o ev /\ Recorded(a, ev)
      BY <2>1
    <3>2. /\ events[a] \in Seq(Event)
          /\ a \in DOMAIN rows => rows[a].locator \in Locator
          /\ a \in DOMAIN rows' => rows'[a].locator \in Locator
      BY <2>2 DEF TypeOK, Row
    <3>3. /\ a \notin DOMAIN rows => events[a] = <<>>
          /\ a \in DOMAIN rows => Explains(events[a], rows[a].locator)
      BY DEF EventsExplainLocators, Explains
    <3>4. a \in DOMAIN rows => a \in DOMAIN rows'
      BY StepKeepsContent
    <3>5. CASE /\ ev = <<>>
               /\ \/ a \notin DOMAIN rows'
                  \/ a \in DOMAIN rows \cap DOMAIN rows' /\ rows'[a].locator = rows[a].locator
      <4>1. events'[a] = events[a]
        BY <3>1, <3>2, <3>5
      <4> QED
        BY <3>3, <3>4, <3>5, <4>1
    <3>6. CASE /\ a \in DOMAIN rows' \ DOMAIN rows
               /\ ev = <<[kind |-> "discovered", old |-> NoLoc, new |-> rows'[a].locator]>>
      <4> DEFINE e == [kind |-> "discovered", old |-> NoLoc, new |-> rows'[a].locator]
      <4>1. events'[a] = <<e>>
        <5>1. events'[a] = <<>> \o <<e>>
          BY <3>1, <3>3, <3>6
        <5> HIDE DEF e
        <5>2. <<e>> \in Seq({e}) /\ \A s \in Seq({e}) : <<>> \o s = s
          OBVIOUS
        <5> QED
          BY <5>1, <5>2
      <4>2. LeavesAt(e) = rows'[a].locator
        BY <3>2, <3>6, CatalogueAssumption DEF LeavesAt
      <4>3. e.kind = "discovered" /\ e.old = NoLoc
        OBVIOUS
      <4> HIDE DEF e
      <4>4. Explains(<<e>>, rows'[a].locator)
        BY <4>2, <4>3 DEF Explains
      <4> QED
        BY <3>6, <4>1, <4>4
    <3>7. CASE /\ a \in DOMAIN rows \cap DOMAIN rows'
               /\ \E c \in {"confirmed-rename", "probable-rename"} :
                    ev = <<[kind |-> c, old |-> rows[a].locator, new |-> rows'[a].locator]>>
      <4>1. PICK c \in {"confirmed-rename", "probable-rename"} :
              ev = <<[kind |-> c, old |-> rows[a].locator, new |-> rows'[a].locator]>>
        BY <3>7
      <4> DEFINE e == [kind |-> c, old |-> rows[a].locator, new |-> rows'[a].locator]
      <4>2. LeavesAt(e) = rows'[a].locator
        BY <3>2, <3>7, CatalogueAssumption DEF LeavesAt
      <4>3. e \in Event /\ e.old = rows[a].locator /\ e.kind # "discovered"
        BY <3>2, <3>7 DEF Event
      <4>4. events'[a] = events[a] \o <<e>>
        BY <3>1, <4>1
      <4> HIDE DEF e
      <4>5. Explains(events[a] \o <<e>>, LeavesAt(e))
        BY <3>2, <3>3, <3>7, <4>3, ExplainsMore
      <4> QED
        BY <3>7, <4>2, <4>4, <4>5
    <3>8. CASE /\ a \in DOMAIN rows \cap DOMAIN rows'
               /\ rows'[a].locator = rows[a].locator
               /\ ev = <<[kind |-> "not-observed", old |-> rows[a].locator, new |-> NoLoc]>>
      <4> DEFINE e == [kind |-> "not-observed", old |-> rows[a].locator, new |-> NoLoc]
      <4>1. LeavesAt(e) = rows'[a].locator
        BY <3>8 DEF LeavesAt
      <4>2. e \in Event /\ e.old = rows[a].locator /\ e.kind # "discovered"
        BY <3>2, <3>8 DEF Event
      <4>3. events'[a] = events[a] \o <<e>>
        BY <3>1, <3>8
      <4> HIDE DEF e
      <4>4. Explains(events[a] \o <<e>>, LeavesAt(e))
        BY <3>2, <3>3, <3>8, <4>2, ExplainsMore
      <4> QED
        BY <3>8, <4>1, <4>3, <4>4
    <3> QED
      BY <3>1, <3>5, <3>6, <3>7, <3>8 DEF Recorded
  <2> QED
    BY <2>3 DEF EventsExplainLocators, Explains
<1>3. ASSUME NEW p \in Provider, BeginScan(p) PROVE EventsExplainLocators'
  BY <1>3, ExplainsStill DEF BeginScan
<1>4. ASSUME NEW p \in Provider, GiveUp(p) PROVE EventsExplainLocators'
  BY <1>4, ExplainsStill DEF GiveUp
<1>5. ASSUME Restart \/ UNCHANGED vars PROVE EventsExplainLocators'
  BY <1>5, ExplainsStill DEF Restart, vars
<1> QED
  BY <1>1, <1>2, <1>3, <1>4, <1>5 DEF Next

(* The locator in the row of an appearance is always where the chain of    *)
(* its recorded events leads, from its one discovery on.                   *)
THEOREM EventsCorrect == Spec => []EventsExplainLocators
<1>1. Init => EventsExplainLocators
  BY DEF Init, EventsExplainLocators
<1>2. TypeOK /\ EventsExplainLocators /\ [Next]_vars => EventsExplainLocators'
  BY EventsInductive
<1>3. Init => TypeOK
  BY TypeInit
<1>4. TypeOK /\ [Next]_vars => TypeOK'
  BY TypeInductive
<1> QED
  BY <1>1, <1>2, <1>3, <1>4, PTL DEF Spec

-----------------------------------------------------------------------------
(* Without native identities.                                              *)

(* Then the first pass sees the locator only: an observation gets the      *)
(* appearance of its content at its locator, if there is one.              *)
LEMMA SameFileSameAppearance ==
    ASSUME Ident = {}, TypeOK, OneAppearancePerFile, NEW p \in Provider,
           NEW obs \in Observations, NEW id, Follows(p, obs, id),
           NEW l \in DOMAIN obs, NEW a \in Own(p),
           rows[a].locator = l, rows[a].content = obs[l].content
    PROVE  id[l] = a
<1> DEFINE own == OwnRows(p)
<1>1. PICK first \in FirstPass(own, obs) : \A k \in DOMAIN obs : first[k] # New => id[k] = first[k]
  BY DEF Follows
<1>2. DOMAIN own = Own(p) /\ \A b \in Own(p) : own[b] = rows[b]
  BY DEF OwnRows
<1>3. New \notin DOMAIN own /\ a \in DOMAIN own /\ a # New
  BY <1>2, CatalogueAssumption DEF TypeOK, Own
<1>4. \A k \in DOMAIN obs : obs[k].ident = NoIdent
  BY ObservationDomain DEF Observation, NativeIdentity
<1>5. \A b \in DOMAIN own : own[b].locator = l /\ own[b].content = obs[l].content => b = a
  BY <1>2 DEF OneAppearancePerFile, Own
<1>6. own[a].locator = l /\ own[a].content = obs[l].content
  BY <1>2
<1> HIDE DEF own
<1>7. first[l] = a
  BY <1>1, <1>3, <1>4, <1>5, <1>6, ObservationDomain, MatchedByLocator
<1> QED
  BY <1>1, <1>3, <1>7

(* A step keeps the appearances of a content at a locator apart. *)
LEMMA OneInductive ==
    ASSUME Ident = {}, TypeOK, OneAppearancePerFile, [Next]_vars
    PROVE  OneAppearancePerFile'
<1> SUFFICES ASSUME NEW a \in DOMAIN rows', NEW b \in DOMAIN rows',
                    rows'[a].prov = rows'[b].prov, rows'[a].locator = rows'[b].locator,
                    rows'[a].content = rows'[b].content
             PROVE  a = b
  BY DEF OneAppearancePerFile
<1>1. ASSUME a \in DOMAIN rows, b \in DOMAIN rows,
             rows[a].prov = rows[b].prov, rows[a].locator = rows[b].locator,
             rows[a].content = rows[b].content
      PROVE  a = b
  BY <1>1 DEF OneAppearancePerFile
<1>2. CASE rows' = rows
  BY <1>1, <1>2
<1>3. ASSUME NEW p \in Provider, FailScan(p) PROVE a = b
  BY <1>1, <1>3, FailScanRow
<1>4. ASSUME NEW p \in Provider, NEW obs \in Observations, NEW at \in Time,
             NEW bad \in SUBSET (Locator \ DOMAIN obs), ReconcileScan(p, obs, bad, at)
      PROVE  a = b
  <2>1. PICK id : Reconciled(p, obs, at, id) /\ Follows(p, obs, id)
    BY <1>4, ReconcileIsReconciled
  <2>2. ASSUME NEW c \in DOMAIN rows', NEW d \in DOMAIN rows', NEW l \in DOMAIN obs, id[l] = c,
               \A k \in DOMAIN obs : id[k] # d,
               rows'[c].prov = rows'[d].prov, rows'[c].locator = rows'[d].locator,
               rows'[c].content = rows'[d].content
        PROVE  FALSE
    <3>1. rows'[c].prov = p /\ rows'[c].locator = l /\ rows'[c].content = obs[l].content
      BY <2>1, <2>2, ObservedAfter
    <3>2. /\ d \in DOMAIN rows /\ rows'[d].prov = rows[d].prov
          /\ rows'[d].content = rows[d].content /\ rows'[d].locator = rows[d].locator
      BY <2>1, <2>2, UnobservedAfter
    <3>3. d \in Own(p) /\ rows[d].locator = l /\ rows[d].content = obs[l].content
      BY <2>2, <3>1, <3>2 DEF Own
    <3> QED
      BY <2>1, <2>2, <3>3, SameFileSameAppearance
  <2>3. CASE (\E k \in DOMAIN obs : id[k] = a) /\ (\E l \in DOMAIN obs : id[l] = b)
    BY <2>1, <2>3, ObservedAfter
  <2>4. CASE (\A k \in DOMAIN obs : id[k] # a) /\ (\A l \in DOMAIN obs : id[l] # b)
    <3>1. /\ a \in DOMAIN rows /\ rows'[a].prov = rows[a].prov
          /\ rows'[a].content = rows[a].content /\ rows'[a].locator = rows[a].locator
      BY <2>1, <2>4, UnobservedAfter
    <3>2. /\ b \in DOMAIN rows /\ rows'[b].prov = rows[b].prov
          /\ rows'[b].content = rows[b].content /\ rows'[b].locator = rows[b].locator
      BY <2>1, <2>4, UnobservedAfter
    <3> QED
      BY <1>1, <3>1, <3>2
  <2> QED
    BY <2>2, <2>3, <2>4
<1> QED
  <2>1. CASE \E p \in Provider : FailScan(p)
    BY <1>3, <2>1
  <2>2. CASE ~ \E p \in Provider : FailScan(p)
    BY <1>2, <1>4, <2>2, CommittedSteps
  <2> QED
    BY <2>1, <2>2

(* On systems without native file identities no content has two            *)
(* appearances at one locator of a provider: files that vanish and come    *)
(* back, are swapped or copied never make a second one.                    *)
THEOREM OneCorrect == ASSUME Ident = {} PROVE Spec => []OneAppearancePerFile
<1>1. Init => TypeOK /\ OneAppearancePerFile
  BY TypeInit DEF Init, OneAppearancePerFile
<1>2. TypeOK /\ OneAppearancePerFile /\ [Next]_vars => TypeOK' /\ OneAppearancePerFile'
  BY TypeInductive, OneInductive
<1> QED
  BY <1>1, <1>2, PTL DEF Spec

(* A step that commits a scan of p is ReconcileScan. *)
LEMMA CommitIsReconcile ==
    ASSUME TypeOK, [Next]_vars, NEW p \in Provider, Commits(p)
    PROVE  \E obs \in Observations, at \in Time :
             \E bad \in SUBSET (Locator \ DOMAIN obs) : \E id :
               /\ ReconcileScan(p, obs, bad, at)
               /\ Reconciled(p, obs, at, id) /\ Follows(p, obs, id)
<1>1. status[p] = "scanning" /\ status'[p] \notin {"scanning", "unavailable"}
  BY DEF Commits, Complete
<1>2. ASSUME NEW q \in Provider, BeginScan(q) \/ FailScan(q) \/ GiveUp(q) PROVE FALSE
  BY <1>1, <1>2 DEF BeginScan, FailScan, GiveUp, TypeOK
<1>3. ~ Restart /\ ~ UNCHANGED vars
  BY <1>1 DEF Restart, vars
<1>4. ASSUME NEW q \in Provider, NEW obs \in Observations, NEW at \in Time,
             NEW bad \in SUBSET (Locator \ DOMAIN obs), ReconcileScan(q, obs, bad, at)
      PROVE  q = p
  BY <1>1, <1>4 DEF ReconcileScan, TypeOK
<1>5. \E obs \in Observations, at \in Time : \E bad \in SUBSET (Locator \ DOMAIN obs) :
        ReconcileScan(p, obs, bad, at)
  BY <1>2, <1>3, <1>4 DEF Next
<1> QED
  BY <1>5, ReconcileIsReconciled

(* A rename is never recorded for a file that the scan saw, unchanged,     *)
(* where it was.                                                           *)
THEOREM RenamedCorrect == ASSUME Ident = {} PROVE Spec => RenamedOnlyWhenMoved
<1>1. ASSUME TypeOK, OneAppearancePerFile, [Next]_vars,
             NEW p \in Provider, NEW a \in AppId, Commits(p), a \in Own(p), Renamed(a)
      PROVE  LET l == rows[a].locator
             IN  ~ /\ l \in DOMAIN last'[p].obs
                   /\ last'[p].obs[l] = [content |-> rows[a].content, ident |-> rows[a].ident]
  <2>0. PICK obs \in Observations, at \in Time : \E id :
               Reconciled(p, obs, at, id) /\ Follows(p, obs, id)
    BY <1>1, CommitIsReconcile
  <2>1. PICK id : Reconciled(p, obs, at, id) /\ Follows(p, obs, id)
    BY <2>0
  <2>2. last'[p].obs = obs
    BY <1>1, <2>1 DEF Reconciled, TypeOK
  <2> DEFINE l == rows[a].locator
  <2>3. SUFFICES ASSUME l \in DOMAIN obs,
                        obs[l] = [content |-> rows[a].content, ident |-> rows[a].ident]
                 PROVE  FALSE
    BY <2>2
  <2>4. obs[l].content = rows[a].content
    BY <2>3
  <2>5. id[l] = a
    BY <1>1, <2>1, <2>3, <2>4, SameFileSameAppearance
  <2>6. rows'[a].locator = l
    BY <2>1, <2>3, <2>5, ObservedAfter
  <2> QED
    BY <1>1, <2>6 DEF Renamed
<1>2. Init => TypeOK /\ OneAppearancePerFile
  BY TypeInit DEF Init, OneAppearancePerFile
<1>3. TypeOK /\ OneAppearancePerFile /\ [Next]_vars => TypeOK' /\ OneAppearancePerFile'
  BY TypeInductive, OneInductive
<1>4. TypeOK /\ OneAppearancePerFile /\ [Next]_vars =>
        [\A p \in Provider, a \in AppId :
           (Commits(p) /\ a \in Own(p) /\ Renamed(a)) =>
             LET l == rows[a].locator
             IN  ~ /\ l \in DOMAIN last'[p].obs
                   /\ last'[p].obs[l] = [content |-> rows[a].content, ident |-> rows[a].ident]]_vars
  BY <1>1
<1> QED
  BY <1>2, <1>3, <1>4, PTL DEF Spec, RenamedOnlyWhenMoved

(* The appearances the last committed scan of a provider gave to the files *)
(* are still where it saw them, with the content it saw.                   *)
StillThere(p) ==
    /\ last[p].id = [l \in DOMAIN last[p].obs |-> last[p].id[l]]
    /\ \A l \in DOMAIN last[p].obs :
         LET a == last[p].id[l]
         IN  a \in Own(p) /\ rows[a].locator = l /\ rows[a].content = last[p].obs[l].content

AllStillThere == \A p \in Provider : StillThere(p)

LEMMA StillThereInductive ==
    ASSUME TypeOK, AllStillThere, [Next]_vars
    PROVE  AllStillThere'
<1> SUFFICES ASSUME NEW q \in Provider PROVE StillThere(q)'
  BY DEF AllStillThere
<1>1. StillThere(q)
  BY DEF AllStillThere
<1>2. ASSUME last'[q] = last[q],
             \A a \in Own(q) : /\ a \in DOMAIN rows' /\ rows'[a].prov = rows[a].prov
                               /\ rows'[a].locator = rows[a].locator
                               /\ rows'[a].content = rows[a].content
      PROVE  StillThere(q)'
  BY <1>1, <1>2 DEF StillThere, Own
<1>3. CASE rows' = rows /\ last' = last
  BY <1>2, <1>3 DEF Own
<1>4. ASSUME NEW p \in Provider, FailScan(p) PROVE StillThere(q)'
  <2>1. last' = last /\ DOMAIN rows' = DOMAIN rows
    BY <1>4, FailRows DEF FailScan
  <2> QED
    BY <1>2, <1>4, <2>1, FailScanRow DEF Own
<1>5. ASSUME NEW p \in Provider, NEW obs \in Observations, NEW at \in Time, NEW id,
             Reconciled(p, obs, at, id)
      PROVE  StillThere(q)'
  <2>1. CASE q = p
    <3>1. last'[q].obs = obs /\ last'[q].id = id /\ id = [l \in DOMAIN obs |-> id[l]]
      BY <1>5, <2>1 DEF Reconciled, TypeOK
    <3>2. ASSUME NEW l \in DOMAIN obs
          PROVE  /\ id[l] \in DOMAIN rows' /\ rows'[id[l]].prov = p
                 /\ rows'[id[l]].locator = l /\ rows'[id[l]].content = obs[l].content
      BY <1>5, ObservedAfter
    <3> QED
      BY <2>1, <3>1, <3>2 DEF StillThere, Own
  <2>2. CASE q # p
    <3>1. last'[q] = last[q]
      BY <1>5, <2>2 DEF Reconciled, TypeOK
    <3>2. ASSUME NEW a \in Own(q)
          PROVE  a \in DOMAIN rows' /\ rows'[a] = rows[a]
      <4>1. a \in DOMAIN rows /\ rows[a].prov = q /\ a \notin Own(p)
        BY <2>2 DEF Own
      <4>2. a \in DOMAIN rows' /\ \A l \in DOMAIN obs : id[l] # a
        BY <1>5, <4>1 DEF Reconciled
      <4> QED
        BY <1>5, <2>2, <4>1, <4>2, UnobservedAfter
    <3> QED
      BY <1>2, <3>1, <3>2
  <2> QED
    BY <2>1, <2>2
<1> QED
  BY <1>3, <1>4, <1>5, RowSteps

(* A provider that comes back with the files it had gets the appearances   *)
(* it had, each for the same file.                                         *)
THEOREM ReconnectCorrect == ASSUME Ident = {} PROVE Spec => ReconnectKeepsAppearances
<1>1. ASSUME TypeOK, OneAppearancePerFile, AllStillThere, [Next]_vars,
             NEW p \in Provider, Commits(p), last'[p].obs = last[p].obs
      PROVE  last'[p].id = last[p].id
  <2>0. PICK obs \in Observations, at \in Time : \E id :
               Reconciled(p, obs, at, id) /\ Follows(p, obs, id)
    BY <1>1, CommitIsReconcile
  <2>1. PICK id : Reconciled(p, obs, at, id) /\ Follows(p, obs, id)
    BY <2>0
  <2>2. last'[p].obs = obs /\ last'[p].id = id /\ id = [l \in DOMAIN obs |-> id[l]]
    BY <1>1, <2>1 DEF Reconciled, TypeOK
  <2>3. StillThere(p) /\ last[p].obs = obs
    BY <1>1, <2>2 DEF AllStillThere
  <2>4. ASSUME NEW l \in DOMAIN obs PROVE id[l] = last[p].id[l]
    BY <1>1, <2>1, <2>3, SameFileSameAppearance DEF StillThere
  <2>5. last[p].id = [l \in DOMAIN obs |-> last[p].id[l]]
    BY <2>3 DEF StillThere
  <2>6. [l \in DOMAIN obs |-> id[l]] = [l \in DOMAIN obs |-> last[p].id[l]]
    BY <2>4
  <2> QED
    BY <2>2, <2>5, <2>6
<1>2. Init => TypeOK /\ OneAppearancePerFile /\ AllStillThere
  <2>1. Init => AllStillThere
    BY DEF Init, AllStillThere, StillThere
  <2> QED
    BY <2>1, TypeInit DEF Init, OneAppearancePerFile
<1>3. TypeOK /\ OneAppearancePerFile /\ AllStillThere /\ [Next]_vars =>
        TypeOK' /\ OneAppearancePerFile' /\ AllStillThere'
  BY TypeInductive, OneInductive, StillThereInductive
<1>4. TypeOK /\ OneAppearancePerFile /\ AllStillThere /\ [Next]_vars =>
        [\A p \in Provider :
           (Commits(p) /\ last'[p].obs = last[p].obs) => last'[p].id = last[p].id]_vars
  BY <1>1
<1> QED
  BY <1>2, <1>3, <1>4, PTL DEF Spec, ReconnectKeepsAppearances

-----------------------------------------------------------------------------
(* Observations that are replayed.                                         *)

(* The contents table has the content of every appearance. *)
ContentsKnown == \A a \in DOMAIN rows : rows[a].content \in contents

LEMMA ContentsInductive ==
    ASSUME TypeOK, ContentsKnown, [Next]_vars
    PROVE  ContentsKnown'
<1> SUFFICES ASSUME NEW a \in DOMAIN rows' PROVE rows'[a].content \in contents'
  BY DEF ContentsKnown
<1>1. ASSUME rows' = rows, contents' = contents PROVE rows'[a].content \in contents'
  BY <1>1 DEF ContentsKnown
<1>2. ASSUME NEW p \in Provider, FailScan(p) PROVE rows'[a].content \in contents'
  BY <1>2, FailScanRow DEF FailScan, ContentsKnown
<1>3. ASSUME NEW p \in Provider, NEW obs \in Observations, NEW at \in Time,
             NEW bad \in SUBSET (Locator \ DOMAIN obs), ReconcileScan(p, obs, bad, at)
      PROVE  rows'[a].content \in contents'
  <2>1. PICK id : Reconciled(p, obs, at, id)
    BY <1>3, ReconcileIsReconciled
  <2>2. contents' = contents \cup {obs[l].content : l \in DOMAIN obs}
    BY <1>3 DEF ReconcileScan
  <2>3. CASE \E l \in DOMAIN obs : id[l] = a
    BY <2>1, <2>2, <2>3, ObservedAfter
  <2>4. CASE \A l \in DOMAIN obs : id[l] # a
    <3>1. a \in DOMAIN rows /\ rows'[a].content = rows[a].content
      BY <2>1, <2>4, UnobservedAfter
    <3> QED
      BY <2>2, <3>1 DEF ContentsKnown
  <2> QED
    BY <2>3, <2>4
<1>4. ASSUME NEW p \in Provider, BeginScan(p) \/ GiveUp(p) PROVE rows'[a].content \in contents'
  BY <1>1, <1>4 DEF BeginScan, GiveUp
<1>5. Restart \/ UNCHANGED vars => rows'[a].content \in contents'
  BY <1>1 DEF Restart, vars
<1> QED
  BY <1>2, <1>3, <1>4, <1>5 DEF Next

(* When a scan sees what the catalogue shows, each observation is given    *)
(* the available appearance at its locator, native identities or not.      *)
LEMMA ReplayFindsTheSame ==
    ASSUME TypeOK, AvailableLocatorsUnique, NEW p \in Provider, Mirrors(p),
           NEW obs \in Observations, last[p].obs = obs, NEW id, Follows(p, obs, id)
    PROVE  /\ \A l \in DOMAIN obs :
                /\ id[l] \in Available(p) /\ rows[id[l]].locator = l
                /\ rows[id[l]].content = obs[l].content /\ rows[id[l]].ident = obs[l].ident
           /\ \A a \in Available(p) : rows[a].locator \in DOMAIN obs /\ id[rows[a].locator] = a
<1> DEFINE own == OwnRows(p)
           known == [l \in DOMAIN obs |-> CHOOSE a \in Available(p) : rows[a].locator = l]
<1>1. PICK first \in FirstPass(own, obs) : \A k \in DOMAIN obs : first[k] # New => id[k] = first[k]
  BY DEF Follows
<1>2. DOMAIN own = Own(p) /\ \A b \in Own(p) : own[b] = rows[b]
  BY DEF OwnRows
<1>3. New \notin DOMAIN own
  BY <1>2, CatalogueAssumption DEF TypeOK, Own
<1>4. ASSUME NEW l \in DOMAIN obs
      PROVE  known[l] \in Available(p) /\ rows[known[l]].locator = l
  BY DEF Mirrors
<1>5. ASSUME NEW a \in Available(p)
      PROVE  /\ rows[a].locator \in DOMAIN obs
             /\ rows[a].content = obs[rows[a].locator].content
             /\ rows[a].ident = obs[rows[a].locator].ident
             /\ known[rows[a].locator] = a
  <2>1. rows[a].locator \in DOMAIN obs
    BY DEF Mirrors
  <2>2. obs[rows[a].locator] = [content |-> rows[a].content, ident |-> rows[a].ident]
    BY DEF Mirrors
  <2>3. known[rows[a].locator] = a
    BY <1>4, <2>1 DEF AvailableLocatorsUnique
  <2> QED
    BY <2>1, <2>2, <2>3
<1>6. \A b \in Own(p) : rows[b].availability = "available" <=> b \in Available(p)
  BY DEF Available
<1>7. Available(p) \subseteq Own(p) /\ DOMAIN known = DOMAIN obs
  BY DEF Available
<1> HIDE DEF known, own
<1>8. ASSUME NEW l \in DOMAIN obs
      PROVE  /\ known[l] \in DOMAIN own
             /\ own[known[l]].locator = l /\ own[known[l]].content = obs[l].content
             /\ own[known[l]].ident = obs[l].ident
             /\ own[known[l]].availability = "available"
  BY <1>2, <1>4, <1>5, <1>6, <1>7
<1>9. \A a \in DOMAIN own : own[a].availability = "available" =>
        own[a].locator \in DOMAIN obs /\ known[own[a].locator] = a
  BY <1>2, <1>5, <1>6
<1>10. known \in [DOMAIN obs -> DOMAIN own] /\ DOMAIN obs \subseteq Nat
  <2>1. known = [l \in DOMAIN obs |-> known[l]]
    BY DEF known
  <2>2. Locator \subseteq Nat
    BY CatalogueAssumption DEF Locator
  <2> QED
    BY <1>8, <2>1, <2>2, ObservationDomain
<1>11. \A l \in DOMAIN obs : first[l] = known[l]
  BY <1>3, <1>8, <1>9, <1>10, MatchedAgain
<1>12. \A l \in DOMAIN obs : id[l] = known[l]
  BY <1>1, <1>3, <1>8, <1>11
<1> QED
  BY <1>4, <1>5, <1>12

(* A row but for its time and label. *)
Timeless(r) == [r EXCEPT !.observedAt = 0, !.continuity = "discovered"]

(* Rows written for the same observation differ in nothing else. *)
LEMMA TimesAndLabels ==
    ASSUME NEW p, NEW l, NEW o, NEW c, NEW d, NEW at, NEW was
    PROVE  Timeless(ObservedRow(p, l, o, c, at)) = Timeless(ObservedRow(p, l, o, d, was))
<1> DEFINE R(x, t) == [prov |-> p, content |-> o.content, locator |-> l, ident |-> o.ident,
                       availability |-> "available", continuity |-> x, observedAt |-> t]
<1>1. ASSUME NEW x, NEW t
      PROVE  [R(x, t) EXCEPT !.observedAt = 0, !.continuity = "discovered"] = R("discovered", 0)
  <2>1. [R(x, t) EXCEPT !.observedAt = 0] = R(x, 0)
    OBVIOUS
  <2>2. [R(x, 0) EXCEPT !.continuity = "discovered"] = R("discovered", 0)
    OBVIOUS
  <2> HIDE DEF R
  <2> QED
    BY <2>1, <2>2
<1> QED
  BY <1>1 DEF ObservedRow, Timeless

(* A scan that sees exactly what the catalogue shows changes nothing but   *)
(* the times and labels: no appearance is made, moved or taken away, and   *)
(* no event is recorded, whatever native identities the files share.       *)
THEOREM ReplayCorrect == Spec => ReplayChangesNothing
<1> DEFINE Same(a) == Timeless(rows'[a]) = Timeless(rows[a])
<1>1. ASSUME TypeOK, AvailableLocatorsUnique, ContentsKnown, [Next]_vars,
             NEW p \in Provider, Commits(p), Mirrors(p), last'[p].obs = last[p].obs
      PROVE  /\ events' = events /\ contents' = contents /\ DOMAIN rows' = DOMAIN rows
             /\ \A a \in DOMAIN rows : Same(a)
  <2>1. PICK obs \in Observations, at \in Time :
          \E bad \in SUBSET (Locator \ DOMAIN obs) : \E id :
               /\ ReconcileScan(p, obs, bad, at)
               /\ Reconciled(p, obs, at, id) /\ Follows(p, obs, id)
    BY <1>1, CommitIsReconcile
  <2>2. PICK id : \E bad \in SUBSET (Locator \ DOMAIN obs) :
               /\ ReconcileScan(p, obs, bad, at)
               /\ Reconciled(p, obs, at, id) /\ Follows(p, obs, id)
    BY <2>1
  <2>3. last[p].obs = obs
    BY <1>1, <2>2 DEF Reconciled, TypeOK
  <2>4. /\ \A l \in DOMAIN obs :
             /\ id[l] \in Available(p) /\ rows[id[l]].locator = l
             /\ rows[id[l]].content = obs[l].content /\ rows[id[l]].ident = obs[l].ident
        /\ \A a \in Available(p) : rows[a].locator \in DOMAIN obs /\ id[rows[a].locator] = a
    BY <1>1, <2>2, <2>3, ReplayFindsTheSame
  <2>5. DOMAIN rows' = DOMAIN rows
    <3>1. DOMAIN rows' = DOMAIN rows \cup {id[l] : l \in DOMAIN obs}
      BY <2>2 DEF Reconciled
    <3>2. \A l \in DOMAIN obs : id[l] \in DOMAIN rows
      BY <2>4 DEF Available, Own
    <3> QED
      BY <3>1, <3>2
  <2>6. contents' = contents
    <3>1. contents' = contents \cup {obs[l].content : l \in DOMAIN obs}
      BY <2>2 DEF ReconcileScan
    <3>2. \A l \in DOMAIN obs : obs[l].content \in contents
      BY <1>1, <2>4 DEF ContentsKnown, Available, Own
    <3> QED
      BY <3>1, <3>2
  <2>7. ASSUME NEW a \in DOMAIN rows
        PROVE  /\ Same(a) /\ rows'[a].locator = rows[a].locator
               /\ rows'[a].availability = rows[a].availability
    <3>1. rows[a] \in Row
      BY <1>1 DEF TypeOK
    <3>2. CASE \E l \in DOMAIN obs : id[l] = a
      <4>1. PICK l \in DOMAIN obs : id[l] = a
        BY <3>2
      <4>2. PICK c \in {"discovered", "same-locator", "confirmed-rename", "probable-rename"} :
              rows'[a] = ObservedRow(p, l, obs[l], c, at)
        BY <2>2, <4>1 DEF Reconciled
      <4>3. /\ rows[a].prov = p /\ rows[a].locator = l /\ rows[a].content = obs[l].content
            /\ rows[a].ident = obs[l].ident /\ rows[a].availability = "available"
        BY <2>4, <4>1 DEF Available, Own
      <4>4. rows[a] = ObservedRow(p, l, obs[l], rows[a].continuity, rows[a].observedAt)
        BY <3>1, <4>3 DEF ObservedRow, Row
      <4>5. PICK d, was : rows[a] = ObservedRow(p, l, obs[l], d, was)
        BY <4>4
      <4>6. Same(a)
        BY <4>2, <4>5, TimesAndLabels
      <4> QED
        BY <4>2, <4>3, <4>6 DEF ObservedRow
    <3>3. CASE \A l \in DOMAIN obs : id[l] # a
      <4>1. rows'[a] = IF a \in Own(p) THEN [rows[a] EXCEPT !.availability = "unavailable"]
                                        ELSE rows[a]
        BY <2>2, <3>3 DEF Reconciled
      <4>2. a \notin Available(p)
        BY <2>4, <3>3
      <4>3. a \in Own(p) => rows[a].availability = "unavailable"
        BY <3>1, <4>2 DEF Available, Row
      <4>4. rows'[a] = rows[a]
        BY <3>1, <4>1, <4>3 DEF Row
      <4> QED
        BY <4>4
    <3> QED
      BY <3>2, <3>3
  <2>8. events' = events
    <3>1. /\ events' = [a \in AppId |-> events'[a]]
          /\ \A a \in AppId : \E ev : events'[a] = events[a] \o ev /\ Recorded(a, ev)
      BY <1>1, <2>2, ReconcileRecords
    <3>2. ASSUME NEW a \in AppId PROVE events'[a] = events[a]
      <4>1. PICK ev : events'[a] = events[a] \o ev /\ Recorded(a, ev)
        BY <3>1
      <4>2. ev = <<>>
        <5>1. a \in DOMAIN rows => rows'[a].availability = rows[a].availability
                                    /\ rows'[a].locator = rows[a].locator
          BY <2>7
        <5>2. "available" # "unavailable"
          OBVIOUS
        <5> QED
          BY <2>5, <4>1, <5>1, <5>2 DEF Recorded
      <4>3. events[a] \in Seq(Event)
        BY <1>1 DEF TypeOK
      <4> QED
        BY <4>1, <4>2, <4>3
    <3>3. events = [a \in AppId |-> events[a]]
      BY <1>1 DEF TypeOK
    <3>4. [a \in AppId |-> events'[a]] = [a \in AppId |-> events[a]]
      BY <3>2
    <3> QED
      BY <3>1, <3>3, <3>4
  <2> QED
    BY <2>5, <2>6, <2>7, <2>8
<1>2. Init => TypeOK /\ AvailableLocatorsUnique /\ ContentsKnown
  BY TypeInit DEF Init, AvailableLocatorsUnique, Available, Own, ContentsKnown
<1>3. TypeOK /\ AvailableLocatorsUnique /\ ContentsKnown /\ [Next]_vars =>
        TypeOK' /\ AvailableLocatorsUnique' /\ ContentsKnown'
  BY TypeInductive, UniqueInductive, ContentsInductive
<1>4. TypeOK /\ AvailableLocatorsUnique /\ ContentsKnown /\ [Next]_vars =>
        [\A p \in Provider :
           (Commits(p) /\ Mirrors(p) /\ last'[p].obs = last[p].obs)
           => /\ events' = events /\ contents' = contents /\ DOMAIN rows' = DOMAIN rows
              /\ \A a \in DOMAIN rows :
                   [rows'[a] EXCEPT !.observedAt = 0, !.continuity = "discovered"]
                     = [rows[a] EXCEPT !.observedAt = 0, !.continuity = "discovered"]]_vars
  BY <1>1 DEF Timeless
<1> QED
  BY <1>2, <1>3, <1>4, PTL DEF Spec, ReplayChangesNothing
=============================================================================
