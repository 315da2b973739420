----------------------------- MODULE Enrollment -----------------------------
(***************************************************************************)
(* Enrolling providers: concurrent requests probe a directory, outside any *)
(* transaction, and then add it to the providers table; the first scan of  *)
(* a provider migrated from schema version 1 establishes the identity of   *)
(* its root (Service.EnrollFilesystem and Service.Scan up to the first     *)
(* verification, Store.AddFilesystemProvider, Store.EstablishProviderRoot). *)
(* Directories are moved, replaced and linked meanwhile.                   *)
(***************************************************************************)
EXTENDS RootIdentity, FiniteSets

CONSTANTS
    ProvId,      \* provider ids NewID may return (a bound on providers)
    Actor,       \* requests being served
    Locator,     \* submitted locators: paths
    Path,        \* the final paths they may resolve to
    Dir,         \* directory identities
    Grades,      \* how good the system's evidence can be: {"weak"} off Windows
    Missing,     \* a locator that does not resolve to a directory
    LegacyAt,    \* the locators of the providers of the version 1 catalogue
    MaxMoves     \* bound on the changes of the file system

ASSUME EnrollmentAssumption ==
    /\ Locator \subseteq Path /\ LegacyAt \subseteq Locator
    /\ \A path \in Path : path \in Seq(STRING)
    /\ NoId \notin Dir /\ MaxMoves \in Nat
    /\ Grades \subseteq {"strong", "fallback", "weak"}

VARIABLES
    providers,   \* the providers table: partial function from ProvId to Root
    actors,      \* what each request is doing
    running,     \* Service.running: providers whose scan verifies its root
    where,       \* the file system: what a locator resolves to
    moves        \* changes of the file system so far

vars == <<providers, actors, running, where, moves>>

Root == [submitted : Locator, path : Path, phys : Dir \cup {NoId},
         fallback : Dir \cup {NoId}, conf : Grades \cup {"legacy-unverified"}]

Place == [path : Path, dir : Dir]

(* A file system: one path leads to one directory.  One directory may be   *)
(* reached by several paths.                                               *)
FileSystem ==
    {w \in [Locator -> Place \cup {Missing}] :
        \A s, t \in Locator :
            (w[s] # Missing /\ w[t] # Missing /\ w[s].path = w[t].path) => w[s].dir = w[t].dir}

Idle == [kind |-> "idle"]

(* What a request is doing, with the evidence or the record it holds. *)
Request == [kind : {"idle"}]
           \cup [kind : {"enroll"}, root : Root]
           \cup [kind : {"load"}, prov : ProvId, known : Root]
           \cup [kind : {"establish"}, prov : ProvId, root : Root]

(* Mutant: the confidence column gets no default. *)
LegacyRoot_NoConfidence(s) ==
    [submitted |-> s, path |-> s, phys |-> NoId, fallback |-> NoId, conf |-> ""]

(* migrationV2: the rows of version 1 keep their root locator as all three *)
(* path columns and have no identity.                                      *)
LegacyRoot(s) == [submitted |-> s, path |-> s, phys |-> NoId, fallback |-> NoId,
                  conf |-> "legacy-unverified"]

Init ==
    /\ \E ids \in SUBSET ProvId :
         \E f \in [ids -> LegacyAt] :
            /\ {f[p] : p \in ids} = LegacyAt
            /\ Cardinality(ids) = Cardinality(LegacyAt)
            /\ providers = [p \in ids |-> LegacyRoot(f[p])]
    /\ actors = [r \in Actor |-> Idle]
    /\ running = {}
    /\ where \in FileSystem
    /\ moves = 0

-----------------------------------------------------------------------------
(* Mutant: no fallback identity when the full one is known. *)
Evidence_OneIdentity(s, conf) ==
    [submitted |-> s, path |-> where[s].path,
     phys |-> IF conf = "fallback" THEN NoId ELSE where[s].dir,
     fallback |-> IF conf = "fallback" THEN where[s].dir ELSE NoId, conf |-> conf]

(* The probe.  The file system, not the program, decides how good the      *)
(* evidence is; evidence from a remote path is weak whatever else is known, *)
(* and no identity in weak evidence is ever compared.                      *)
Evidence(s, conf) ==
    [submitted |-> s, path |-> where[s].path,
     phys |-> IF conf = "fallback" THEN NoId ELSE where[s].dir,
     fallback |-> where[s].dir, conf |-> conf]

(* EnrollFilesystem up to the probe; a failed probe ends the request. *)
ProbeForEnrollment(r, s, conf) ==
    /\ actors[r] = Idle
    /\ where[s] # Missing
    /\ actors' = [actors EXCEPT ![r] = [kind |-> "enroll", root |-> Evidence(s, conf)]]
    /\ UNCHANGED <<providers, running, where, moves>>

(* rejectRootConflict, inside the transaction. *)
RootConflict(excluded, candidate) ==
    \E p \in DOMAIN providers \ excluded :
        \/ SamePhysicalRoot(providers[p], candidate)
        \/ RootPathsOverlap(providers[p].path, candidate.path)

(* The UNIQUE column and the two partial unique indexes of providers. *)
UniqueViolation(excluded, candidate) ==
    \E p \in DOMAIN providers \ excluded :
        \/ providers[p].submitted = candidate.submitted
        \/ /\ providers[p].conf \in {"strong", "fallback"}
           /\ candidate.conf \in {"strong", "fallback"}
           /\ \/ candidate.phys # NoId /\ providers[p].phys = candidate.phys
              \/ candidate.fallback # NoId /\ providers[p].fallback = candidate.fallback

Accepted(excluded, candidate) ==
    /\ ValidProviderRoot(candidate)
    /\ ~ RootConflict(excluded, candidate)
    /\ ~ UniqueViolation(excluded, candidate)

(* AddFilesystemProvider: one transaction, or an error. *)
AddFilesystemProvider(r) ==
    /\ actors[r].kind = "enroll"
    /\ LET root == actors[r].root
       IN  IF Accepted({}, root)
           THEN \E id \in ProvId \ DOMAIN providers :
                   providers' = [p \in DOMAIN providers \cup {id} |->
                                    IF p = id THEN root ELSE providers[p]]
           ELSE UNCHANGED providers
    /\ actors' = [actors EXCEPT ![r] = Idle]
    /\ UNCHANGED <<running, where, moves>>

(* Scan: claims the provider and reads its record. *)
LoadForScan(r, p) ==
    /\ actors[r] = Idle
    /\ p \in DOMAIN providers \ running
    /\ running' = running \cup {p}
    /\ actors' = [actors EXCEPT ![r] = [kind |-> "load", prov |-> p, known |-> providers[p]]]
    /\ UNCHANGED <<providers, where, moves>>

(* Scan gives the provider up: after a refusal, or when it is over. *)
Release(r, p) ==
    /\ actors' = [actors EXCEPT ![r] = Idle]
    /\ running' = running \ {p}

(* Scan: probes the submitted locator of the record it read.  A root whose *)
(* identity is known is verified at once.                                  *)
ProbeForScan(r, conf) ==
    /\ actors[r].kind = "load"
    /\ LET known == actors[r].known
       IN  IF where[known.submitted] # Missing /\ known.conf = "legacy-unverified"
           THEN /\ actors' = [actors EXCEPT ![r] =
                                 [kind |-> "establish", prov |-> actors[r].prov,
                                  root |-> Evidence(known.submitted, conf)]]
                /\ UNCHANGED running
           ELSE Release(r, actors[r].prov)
    /\ UNCHANGED <<providers, where, moves>>

(* EstablishProviderRoot: only a legacy row is updated, once. *)
EstablishProviderRoot(r) ==
    /\ actors[r].kind = "establish"
    /\ LET p == actors[r].prov
       IN  /\ IF providers[p].conf = "legacy-unverified" /\ Accepted({p}, actors[r].root)
              THEN providers' = [providers EXCEPT ![p] = actors[r].root]
              ELSE UNCHANGED providers
           /\ Release(r, p)
    /\ UNCHANGED <<where, moves>>

(* The user moves, replaces, links, mounts or removes directories. *)
MoveDirectories ==
    /\ moves < MaxMoves
    /\ moves' = moves + 1
    /\ where' \in FileSystem
    /\ where' # where
    /\ UNCHANGED <<providers, actors, running>>

Restart ==
    /\ \E r \in Actor : actors[r] # Idle
    /\ actors' = [r \in Actor |-> Idle]
    /\ running' = {}
    /\ UNCHANGED <<providers, where, moves>>

Next ==
    \/ \E r \in Actor, s \in Locator, conf \in Grades : ProbeForEnrollment(r, s, conf)
    \/ \E r \in Actor : AddFilesystemProvider(r)
    \/ \E r \in Actor, p \in ProvId : LoadForScan(r, p)
    \/ \E r \in Actor, conf \in Grades : ProbeForScan(r, conf)
    \/ \E r \in Actor : EstablishProviderRoot(r)
    \/ MoveDirectories
    \/ Restart

Spec == Init /\ [][Next]_vars

-----------------------------------------------------------------------------
(* Properties.                                                             *)

(* The state has its type. *)
TypeOK ==
    /\ DOMAIN providers \subseteq ProvId
    /\ providers \in [DOMAIN providers -> Root]
    /\ actors \in [Actor -> Request]
    /\ \A r \in Actor :
          actors[r].kind \in {"load", "establish"} => actors[r].prov \in DOMAIN providers
    /\ running \subseteq DOMAIN providers
    /\ where \in [Locator -> Place \cup {Missing}]
    /\ moves \in 0..MaxMoves

Legacy(p) == providers[p].conf = "legacy-unverified"

(* The path evidence of two providers never overlaps in the catalogue's    *)
(* sense, whatever requests run at once and however stale their probes     *)
(* are; only two providers that both come from version 1 may overlap.      *)
RootsDisjoint ==
    \A p, q \in DOMAIN providers :
        (p # q /\ ~ (Legacy(p) /\ Legacy(q)))
            => ~ RootPathsOverlap(providers[p].path, providers[q].path)

Directory(root) == IF root.phys # NoId THEN root.phys ELSE root.fallback

(* No directory is the root of two providers with reliable evidence, not   *)
(* even when one probe got the full identity and the other the fallback.   *)
OneProviderPerDirectory ==
    \A p, q \in DOMAIN providers :
        (p # q /\ {providers[p].conf, providers[q].conf} \subseteq {"strong", "fallback"})
            => Directory(providers[p]) # Directory(providers[q])

(* No provider's root lies in the tree of another one. *)
TreesDisjoint ==
    \A p, q \in DOMAIN providers :
        (p # q /\ ~ (Legacy(p) /\ Legacy(q)))
            => ~ TreesOverlap(providers[p].path, providers[q].path)

(* What a probe finds now is the root of at most one provider, as Verify   *)
(* judges it: the comparisons made at enrolment and those made by scans    *)
(* are different code, and must agree however the evidence is mixed.       *)
AcceptedForOne ==
    \A s \in Locator, conf \in Grades, p, q \in DOMAIN providers :
        (/\ where[s] # Missing
         /\ Verify(providers[p], Evidence(s, conf))
         /\ Verify(providers[q], Evidence(s, conf))) => p = q
=============================================================================
