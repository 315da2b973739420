--------------------------- MODULE Reconciliation ---------------------------
(***************************************************************************)
(* The catalogue's side of scanning: the tables appearances, contents,     *)
(* appearance_events, scan_issues and the scan columns of providers, and   *)
(* the transactions BeginScan, FailScan and ReconcileScan that change them *)
(* (internal/catalog/store.go).  SQLite runs on one connection, so each    *)
(* transaction is one step.  Service.Scan (internal/app/service.go) calls  *)
(* BeginScan first and then exactly one of FailScan and ReconcileScan,     *)
(* with at most one scan of a provider in progress; the process may stop   *)
(* in between.                                                             *)
(***************************************************************************)
EXTENDS Matching, Sequences

CONSTANTS
    Provider,   \* enrolled providers
    AppId,      \* appearance ids NewID may return (a bound on appearances)
    Content,    \* what a file may contain: a (digest, length) pair
    Ident,      \* native file identities; {} on systems that have none
    NumLocs,    \* locators are 1..NumLocs
    MaxTime,    \* the wall clock shows 0..MaxTime, in any order
    MaxScans,   \* bound on the number of scans
    NoLoc       \* the empty locator of an event

VARIABLES
    rows,       \* appearances: partial function from AppId to Row
    contents,   \* the contents table
    events,     \* the appearance_events of every appearance, in order
    issues,     \* the locators in scan_issues, per provider
    status,     \* scan_status, per provider
    running,    \* Service.running: the providers being scanned
    scans,      \* scans begun (bounded by MaxScans)
    last        \* history: what the last committed scan of a provider saw

vars == <<rows, contents, events, issues, status, running, scans, last>>

Locator == 1..NumLocs
Time    == 0..MaxTime

ASSUME CatalogueAssumption ==
    /\ NumLocs \in Nat /\ MaxTime \in Nat /\ MaxScans \in Nat
    /\ New \notin AppId /\ NoIdent \notin Ident /\ NoLoc \notin Locator

(* nativeIdentityForPath: on Windows a file without an identity cannot be  *)
(* hashed and is an issue; on other systems the identity is always empty.  *)
NativeIdentity == IF Ident = {} THEN {NoIdent} ELSE Ident

Observation == [content : Content, ident : NativeIdentity]

(* What one walk can report: distinct locators with their observations. *)
Observations == UNION {[L -> Observation] : L \in SUBSET Locator}

Row == [prov : Provider, content : Content, locator : Locator,
        ident : NativeIdentity,
        availability : {"available", "unavailable"},
        continuity : {"discovered", "same-locator", "confirmed-rename", "probable-rename"},
        observedAt : Time]

Event == [kind : {"discovered", "confirmed-rename", "probable-rename", "not-observed"},
          old : Locator \cup {NoLoc}, new : Locator \cup {NoLoc}]

ScanStatus == {"never-scanned", "scanning", "complete", "complete-with-issues", "unavailable"}
Complete   == {"complete", "complete-with-issues"}

Init ==
    /\ rows = <<>>
    /\ contents = {}
    /\ events = [a \in AppId |-> <<>>]
    /\ issues = [p \in Provider |-> {}]
    /\ status = [p \in Provider |-> "never-scanned"]
    /\ running = {}
    /\ scans = 0
    /\ last = [p \in Provider |-> [obs |-> <<>>, id |-> <<>>]]

-----------------------------------------------------------------------------
(* Mutant: no WHERE provider_id. *)
Own_Everyone(p) == DOMAIN rows

(* loadAppearances: the appearances of provider p. *)
Own(p) == {a \in DOMAIN rows : rows[a].prov = p}
OwnRows(p) == [a \in Own(p) |-> rows[a]]

(* BeginScan.  It only marks the provider: its appearances stay as they    *)
(* are until the scan ends.                                                *)
BeginScan(p) ==
    /\ p \notin running
    /\ scans < MaxScans
    /\ scans' = scans + 1
    /\ running' = running \cup {p}
    /\ status' = [status EXCEPT ![p] = "scanning"]
    /\ UNCHANGED <<rows, contents, events, issues, last>>

(* FailScan: no appearance of the provider is available any more.  It      *)
(* keeps the issues of the last committed scan and records no event.       *)
FailScan(p) ==
    /\ p \in running
    /\ running' = running \ {p}
    /\ status' = [status EXCEPT ![p] = "unavailable"]
    /\ rows' = [a \in DOMAIN rows |->
                   IF a \in Own(p) THEN [rows[a] EXCEPT !.availability = "unavailable"]
                                   ELSE rows[a]]
    /\ UNCHANGED <<contents, events, issues, scans, last>>

(* The ways NewID can name the observations that match nothing. *)
FreshIds(match) ==
    LET L == {l \in DOMAIN match : match[l] = New}
    IN  {f \in [L -> AppId \ DOMAIN rows] : \A k, l \in L : k # l => f[k] # f[l]}

(* The appearance that stands for each observation after the scan. *)
Assigned(match, fresh) ==
    [l \in DOMAIN match |-> IF match[l] = New THEN fresh[l] ELSE match[l]]

(* The row INSERTed or UPDATEd for the observation o at locator l. *)
ObservedRow(p, l, o, continuity, at) ==
    [prov |-> p, content |-> o.content, locator |-> l, ident |-> o.ident,
     availability |-> "available", continuity |-> continuity, observedAt |-> at]

(* The appearances the scan did not observe: they get their parked locator *)
(* back and become unavailable.                                            *)
Unseen(p, id) == {a \in Own(p) : \A l \in DOMAIN id : id[l] # a}

ReconciledRows(p, obs, first, match, id, at) ==
    [a \in DOMAIN rows \cup {id[l] : l \in DOMAIN id} |->
        IF \E l \in DOMAIN id : id[l] = a
        THEN LET l == CHOOSE l \in DOMAIN id : id[l] = a
             IN  ObservedRow(p, l, obs[l], Continuity(OwnRows(p), first, match, l), at)
        ELSE IF a \in Unseen(p, id)
        THEN [rows[a] EXCEPT !.availability = "unavailable"]
        ELSE rows[a]]

(* The event a committed scan records for appearance a, if any. *)
NewEvents(p, first, match, id, a) ==
    IF \E l \in DOMAIN id : id[l] = a
    THEN LET l == CHOOSE l \in DOMAIN id : id[l] = a
         IN  IF match[l] = New
             THEN <<[kind |-> "discovered", old |-> NoLoc, new |-> l]>>
             ELSE IF rows[a].locator # l
             THEN <<[kind |-> Continuity(OwnRows(p), first, match, l),
                     old |-> rows[a].locator, new |-> l]>>
             ELSE <<>>
    ELSE IF a \in Unseen(p, id) /\ rows[a].availability = "available"
    THEN <<[kind |-> "not-observed", old |-> rows[a].locator, new |-> NoLoc]>>
    ELSE <<>>

(* ReconcileScan: the observations obs, the issues bad and the end time at *)
(* of one scan of p, committed in one transaction.                         *)
ReconcileScan(p, obs, bad, at) ==
    /\ p \in running
    /\ contents' = contents \cup {obs[l].content : l \in DOMAIN obs}
    /\ issues' = [issues EXCEPT ![p] = bad]
    /\ status' = [status EXCEPT ![p] = IF bad = {} THEN "complete" ELSE "complete-with-issues"]
    /\ running' = running \ {p}
    /\ UNCHANGED scans
    /\ \E first \in FirstPass(OwnRows(p), obs) :
         LET match == MatchObservations(OwnRows(p), obs, first, at)
         IN  \E fresh \in FreshIds(match) :
               LET id == Assigned(match, fresh)
               IN  /\ rows' = ReconciledRows(p, obs, first, match, id, at)
                   /\ events' = [a \in AppId |->
                                    events[a] \o NewEvents(p, first, match, id, a)]
                   /\ last' = [last EXCEPT ![p] = [obs |-> obs, id |-> id]]

(* FailScan's own transaction fails; Service.Scan ignores that. *)
GiveUp(p) ==
    /\ p \in running
    /\ running' = running \ {p}
    /\ UNCHANGED <<rows, contents, events, issues, status, scans, last>>

(* The process stops and is started again: nothing in the catalogue is     *)
(* touched, a provider being scanned stays "scanning".                     *)
Restart ==
    /\ running # {}
    /\ running' = {}
    /\ UNCHANGED <<rows, contents, events, issues, status, scans, last>>

Next ==
    \/ \E p \in Provider : BeginScan(p)
    \/ \E p \in Provider : FailScan(p)
    \/ \E p \in Provider : GiveUp(p)
    \/ \E p \in Provider, obs \in Observations, at \in Time :
         \E bad \in SUBSET (Locator \ DOMAIN obs) : ReconcileScan(p, obs, bad, at)
    \/ Restart

Spec == Init /\ [][Next]_vars

-----------------------------------------------------------------------------
(* Properties.                                                             *)

(* The state has its type. *)
TypeOK ==
    /\ DOMAIN rows \subseteq AppId
    /\ rows \in [DOMAIN rows -> Row]
    /\ contents \in SUBSET Content
    /\ events \in [AppId -> Seq(Event)]
    /\ issues \in [Provider -> SUBSET Locator]
    /\ status \in [Provider -> ScanStatus]
    /\ running \in SUBSET Provider
    /\ scans \in 0..MaxScans
    /\ DOMAIN last = Provider
    /\ \A p \in Provider : last[p].obs \in Observations

Available(p) == {a \in Own(p) : rows[a].availability = "available"}

(* No two available appearances of a provider are at one locator: the      *)
(* unique index appearances_available_locator_idx holds after every commit *)
(* whatever the matching does with files that swap names.                  *)
AvailableLocatorsUnique ==
    \A p \in Provider : \A a, b \in Available(p) :
        rows[a].locator = rows[b].locator => a = b

(* The available appearances of p are exactly the files seen. *)
Mirrors(p) ==
    /\ \A l \in DOMAIN last[p].obs : \E a \in Available(p) : rows[a].locator = l
    /\ \A a \in Available(p) :
          /\ rows[a].locator \in DOMAIN last[p].obs
          /\ last[p].obs[rows[a].locator] = [content |-> rows[a].content, ident |-> rows[a].ident]

(* What the catalogue calls available is what the last committed scan saw, *)
(* file by file, until a scan fails: then nothing is.  A scan in progress, *)
(* or one lost in a restart, leaves the earlier answer in place.           *)
AvailableMirrorsLastScan ==
    \A p \in Provider :
        /\ status[p] \in Complete => Mirrors(p)
        /\ status[p] = "unavailable" => Available(p) = {}
        /\ Mirrors(p) \/ Available(p) = {}

(* Where an event leaves its appearance. *)
LeavesAt(event) == IF event.new = NoLoc THEN event.old ELSE event.new

(* The events of an appearance are a chain that explains where it is: it   *)
(* starts with its only discovery, each later event departs from where the *)
(* one before left the appearance, and the last leaves it at the locator   *)
(* in the row.                                                             *)
EventsExplainLocators ==
    \A a \in AppId :
        IF a \notin DOMAIN rows THEN events[a] = <<>>
        ELSE LET n == Len(events[a])
             IN  /\ n > 0 /\ events[a][1].kind = "discovered" /\ events[a][1].old = NoLoc
                 /\ \A k \in 2..n : /\ events[a][k].kind # "discovered"
                                    /\ events[a][k].old = LeavesAt(events[a][k - 1])
                 /\ rows[a].locator = LeavesAt(events[a][n])

(* An appearance never becomes an appearance of another content or of      *)
(* another provider, and is never forgotten: changed bytes make a new one. *)
ContentNeverRelabelled ==
    [][\A a \in DOMAIN rows :
         /\ a \in DOMAIN rows'
         /\ rows'[a].content = rows[a].content
         /\ rows'[a].prov = rows[a].prov]_vars

(* A scan of p is committed in this step. *)
Commits(p) == status[p] = "scanning" /\ status'[p] \in Complete

(* A committed scan that sees exactly what the catalogue already shows as  *)
(* available changes no appearance, no content and records no event:       *)
(* replaying observations cannot duplicate anything.                       *)
ReplayChangesNothing ==
    [][\A p \in Provider :
         (Commits(p) /\ Mirrors(p) /\ last'[p].obs = last[p].obs)
         => /\ events' = events /\ contents' = contents /\ DOMAIN rows' = DOMAIN rows
            /\ \A a \in DOMAIN rows :
                 [rows'[a] EXCEPT !.observedAt = 0, !.continuity = "discovered"]
                   = [rows[a] EXCEPT !.observedAt = 0, !.continuity = "discovered"]]_vars

(* When a provider that failed comes back with the files of its last       *)
(* committed scan, each file is again the appearance it was.               *)
ReconnectKeepsAppearances ==
    [][\A p \in Provider :
         (Commits(p) /\ last'[p].obs = last[p].obs) => last'[p].id = last[p].id]_vars

(* Without native identities a provider has at most one appearance of a    *)
(* content at a locator, so that matching by locator is never ambiguous.   *)
OneAppearancePerFile ==
    \A a, b \in DOMAIN rows :
        (/\ rows[a].prov = rows[b].prov
         /\ rows[a].locator = rows[b].locator
         /\ rows[a].content = rows[b].content) => a = b

(* Appearance a is renamed in this step. *)
Renamed(a) == a \in DOMAIN rows /\ rows'[a].locator # rows[a].locator

(* If the file is still at its old locator it is not renamed: a rename is  *)
(* recorded only when the scan did not see the same file, with the same    *)
(* content and native identity, where the appearance was.                  *)
RenamedOnlyWhenMoved ==
    [][\A p \in Provider, a \in AppId :
         (Commits(p) /\ a \in Own(p) /\ Renamed(a)) =>
           LET l == rows[a].locator
           IN  ~ /\ l \in DOMAIN last'[p].obs
                 /\ last'[p].obs[l] = [content |-> rows[a].content, ident |-> rows[a].ident]]_vars

(* A probable rename is recorded only when the old locator was examined:   *)
(* it is not among the files the scan could not read.                      *)
RenamedOnlyWhenGone ==
    [][\A p \in Provider, a \in AppId :
         (Commits(p) /\ a \in Own(p) /\ Renamed(a) /\ rows'[a].continuity = "probable-rename")
         => rows[a].locator \notin issues'[p]]_vars
=============================================================================
