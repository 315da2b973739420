---------------------------- MODULE ScanService -----------------------------
(***************************************************************************)
(* One scan from the request to its outcome, step by step, while others    *)
(* run, the provider's root changes, the catalogue may refuse a write and  *)
(* the process is stopped (Gateway.scanProvider and Wait, Service.Scan,    *)
(* Scanner.Scan, and run in cmd/sampo/main.go).                            *)
(*                                                                         *)
(* A provider's submitted locator is a path that may pass through a link:  *)
(* it leads to a place, its operational locator, and at that place a       *)
(* directory stands.  The probes go through the link, the walk goes to the *)
(* place the first probe found.  Every provider has places and directories *)
(* of its own; what happens when the roots of two overlap is in Enrollment.*)
(*                                                                         *)
(* Every observation is abstracted to the directory and the place it was   *)
(* read from.  The catalogue is abstracted to scan_status, the evidence of *)
(* each provider's root and where its available appearances were read;     *)
(* Reconciliation says how appearances change.                             *)
(***************************************************************************)
EXTENDS Naturals, FiniteSets

CONSTANTS
    Provider,    \* enrolled providers
    Weak,        \* those whose root evidence is weak
    Legacy,      \* those whose root identity is not established yet
    Scan,        \* scan requests, each served by a goroutine of its own
    NumDirs,     \* directories 1..NumDirs, each of them at one place or at none
    NumPlaces,   \* places 1..NumPlaces that the link of a provider may name
    MaxChanges,  \* bound on the changes of directories and links
    Unplugs,     \* may a root disappear and come back?
    StoreFails,  \* may the catalogue refuse a call (disk full, locked)?
    Crashes,     \* may the process die, or be too slow to stop in time?
    MaxRequests, \* bound on scan requests
    MaxStarts    \* bound on starts of the process

ASSUME ServiceAssumption ==
    /\ Weak \subseteq Provider /\ Legacy \subseteq Provider
    /\ NumPlaces \in Nat \ {0} /\ NumDirs \in Nat /\ NumPlaces <= NumDirs
    /\ MaxChanges \in Nat
    /\ MaxRequests \in Nat /\ MaxStarts \in Nat \ {0}
    /\ {Unplugs, StoreFails, Crashes} \subseteq BOOLEAN

VARIABLES
    phase,     \* where run() is: "serving", "draining", "waiting", "stopped"
    pc,        \* where each scan is
    target,    \* the provider each scan was requested for
    known,     \* the root evidence each scan goes by (None: not established)
    probed,    \* what its first probe found (currentRoot)
    reads,     \* where each scan has read files
    running,   \* Service.running
    status,    \* providers.scan_status
    enrolled,  \* the root evidence in the providers table (None: legacy)
    shown,     \* where the available appearances were read
    link,      \* the place each provider's submitted locator leads to
    at,        \* the directory at each of its places (0: nothing)
    plugged,   \* is the medium there?
    changes, requests, starts,
    moved,     \* history: has the directory a scan probed been put anywhere since?
    mixed      \* history: had it, when the scan that was reconciled last ended?

scanVars == <<pc, target, known, probed, reads, running, moved>>
catalogueVars == <<status, enrolled, shown, mixed>>
worldVars == <<link, at, plugged, changes>>
vars == <<phase, scanVars, catalogueVars, worldVars, requests, starts>>

Dir == 1..NumDirs
Place == 1..NumPlaces

(* What a probe finds out about a root: the directory, of which strong     *)
(* evidence is the identity, and its place, the final path.                *)
Evidence == [dir : Dir, place : Place]
None == [dir |-> 0, place |-> 0]

(* The steps at which a scan holds its provider in Service.running, and    *)
(* those at which it has marked the provider as scanning.                  *)
Marked  == {"probe", "establish", "walk", "after", "reconcile", "fail"}
Holding == Marked \cup {"load", "begin", "release"}
Step    == Holding \cup {"idle", "requested", "queued"}

Init ==
    /\ phase = "serving"
    /\ pc = [s \in Scan |-> "idle"]
    /\ target \in [Scan -> Provider]
    /\ known = [s \in Scan |-> None]
    /\ probed = [s \in Scan |-> None]
    /\ moved = [s \in Scan |-> FALSE]
    /\ reads = [s \in Scan |-> {}]
    /\ running = {}
    /\ status = [p \in Provider |-> "never-scanned"]
    /\ enrolled = [p \in Provider |-> IF p \in Legacy THEN None ELSE [dir |-> 1, place |-> 1]]
    /\ shown = [p \in Provider |-> {}]
    /\ mixed = [p \in Provider |-> FALSE]
    /\ link = [p \in Provider |-> 1]
    /\ at = [p \in Provider |-> [a \in Place |-> a]]
    /\ plugged = [p \in Provider |-> TRUE]
    /\ changes = 0 /\ requests = 0 /\ starts = 1

-----------------------------------------------------------------------------
(* The context of a scan is cancelled by the signal that stops the process. *)
Cancelled == phase # "serving"

Goto(s, step) == pc' = [pc EXCEPT ![s] = step]

(* scanProvider: the HTTP request is being handled.  Requests are accepted *)
(* until the server is shut down, a moment after the signal.               *)
Request(s, p) ==
    /\ phase \in {"serving", "draining"} /\ pc[s] = "idle"
    /\ requests < MaxRequests
    /\ requests' = requests + 1
    /\ target' = [target EXCEPT ![s] = p]
    /\ Goto(s, "requested")
    /\ UNCHANGED <<phase, known, probed, reads, running, moved, catalogueVars, worldVars, starts>>

(* scanWG.Add(1), the goroutine starts, and the request is answered 202. *)
Queue(s) ==
    /\ pc[s] = "requested"
    /\ Goto(s, "queued")
    /\ UNCHANGED <<phase, target, known, probed, reads, running, moved, catalogueVars, worldVars,
                   requests, starts>>

(* Mutant: no other scan is looked for. *)
Claim_Unchecked(s) ==
    /\ pc[s] = "queued"
    /\ Goto(s, "load") /\ running' = running \cup {target[s]}
    /\ UNCHANGED <<phase, target, known, probed, reads, moved, catalogueVars, worldVars,
                   requests, starts>>

(* Scan: claims the provider, or refuses because another scan has it.  The *)
(* refusal ends the goroutine.                                             *)
Claim(s) ==
    /\ pc[s] = "queued"
    /\ IF target[s] \in running
       THEN Goto(s, "idle") /\ UNCHANGED running
       ELSE Goto(s, "load") /\ running' = running \cup {target[s]}
    /\ UNCHANGED <<phase, target, known, probed, reads, moved, catalogueVars, worldVars,
                   requests, starts>>

(* Mutant: the load is retried until it succeeds. *)
Load_Retry(s) ==
    /\ pc[s] = "load"
    /\ \/ /\ ~ Cancelled
          /\ known' = [known EXCEPT ![s] = enrolled[target[s]]]
          /\ Goto(s, "begin")
       \/ (Cancelled \/ StoreFails) /\ UNCHANGED <<pc, known>>
    /\ UNCHANGED <<phase, target, probed, reads, running, moved, catalogueVars, worldVars,
                   requests, starts>>

(* Store.Provider, with the scan's context. *)
Load(s) ==
    /\ pc[s] = "load"
    /\ \/ /\ ~ Cancelled
          /\ known' = [known EXCEPT ![s] = enrolled[target[s]]]
          /\ Goto(s, "begin")
       \/ /\ Cancelled \/ StoreFails
          /\ Goto(s, "release")
          /\ UNCHANGED known
    /\ UNCHANGED <<phase, target, probed, reads, running, moved, catalogueVars, worldVars,
                   requests, starts>>

(* Store.BeginScan, with the scan's context. *)
Begin(s) ==
    /\ pc[s] = "begin"
    /\ \/ /\ ~ Cancelled
          /\ status' = [status EXCEPT ![target[s]] = "scanning"]
          /\ Goto(s, "probe")
       \/ /\ Cancelled \/ StoreFails
          /\ Goto(s, "release")
          /\ UNCHANGED status
    /\ UNCHANGED <<phase, target, known, probed, reads, running, moved, enrolled, shown, mixed,
                   worldVars, requests, starts>>

(* SystemProber.Probe(SubmittedLocator): it fails where no directory is. *)
Found(p) == [dir |-> at[p][link[p]], place |-> link[p]]
Probes(p) == plugged[p] /\ Found(p).dir # 0

(* rootidentity.Verify: the identity of the directory counts, and with     *)
(* weak evidence its path alone.                                           *)
Verifies(p, evidence, found) ==
    IF p \in Weak THEN evidence.place = found.place ELSE evidence.dir = found.dir

(* The first probe, which takes no context, and the verification of a root *)
(* whose identity is established.                                          *)
Probe(s) ==
    LET p == target[s] IN
    /\ pc[s] = "probe"
    /\ \/ /\ ~ Probes(p)
          /\ Goto(s, "fail")
          /\ UNCHANGED probed
       \/ /\ Probes(p)
          /\ probed' = [probed EXCEPT ![s] = Found(p)]
          /\ Goto(s, IF known[s] = None THEN "establish"
                     ELSE IF Verifies(p, known[s], Found(p)) THEN "walk" ELSE "fail")
    /\ UNCHANGED <<phase, target, known, reads, running, moved, catalogueVars, worldVars,
                   requests, starts>>

(* EstablishProviderRoot with the evidence probed, which then verifies.  It *)
(* is also refused for a root that overlaps another provider's.            *)
Establish(s) ==
    LET p == target[s] IN
    /\ pc[s] = "establish"
    /\ \/ /\ ~ Cancelled /\ enrolled[p] = None
          /\ enrolled' = [enrolled EXCEPT ![p] = probed[s]]
          /\ known' = [known EXCEPT ![s] = probed[s]]
          /\ Goto(s, "walk")
       \/ Goto(s, "fail") /\ UNCHANGED <<enrolled, known>>
    /\ UNCHANGED <<phase, target, probed, reads, running, moved, status, shown, mixed,
                   worldVars, requests, starts>>

(* What stands now where the first probe found the root. *)
Walked(s) == [dir |-> at[target[s]][probed[s].place], place |-> probed[s].place]
CanRead(s) == plugged[target[s]] /\ Walked(s).dir # 0

(* Scanner.Scan(OperationalLocator) reads one more file, wherever the link *)
(* leads by now; what is not there is an issue.                            *)
Read(s) ==
    /\ pc[s] = "walk" /\ ~ Cancelled
    /\ CanRead(s)
    /\ reads' = [reads EXCEPT ![s] = @ \cup {Walked(s)}]
    /\ UNCHANGED <<phase, pc, target, known, probed, running, moved, catalogueVars, worldVars,
                   requests, starts>>

(* The walk ends: at its end, or early when the root cannot be resolved or *)
(* the context is found cancelled.                                         *)
EndWalk(s) ==
    /\ pc[s] = "walk"
    /\ \/ Goto(s, "after")
       \/ (Cancelled \/ (reads[s] = {} /\ ~ CanRead(s))) /\ Goto(s, "fail")
    /\ UNCHANGED <<phase, target, known, probed, reads, running, moved, catalogueVars, worldVars,
                   requests, starts>>

(* Mutant: after the walk the root must only be there. *)
ProbeAfter_Unverified(s) ==
    /\ pc[s] = "after"
    /\ Goto(s, IF Probes(target[s]) THEN "reconcile" ELSE "fail")
    /\ UNCHANGED <<phase, target, known, probed, reads, running, moved, catalogueVars, worldVars,
                   requests, starts>>

(* The second probe, of the submitted locator again, and verification. *)
ProbeAfter(s) ==
    LET p == target[s] IN
    /\ pc[s] = "after"
    /\ Goto(s, IF Probes(p) /\ Verifies(p, known[s], Found(p)) THEN "reconcile" ELSE "fail")
    /\ UNCHANGED <<phase, target, known, probed, reads, running, moved, catalogueVars, worldVars,
                   requests, starts>>

(* Store.ReconcileScan, with the scan's context. *)
Reconcile(s) ==
    /\ pc[s] = "reconcile"
    /\ \/ /\ ~ Cancelled
          /\ status' = [status EXCEPT ![target[s]] = "complete"]
          /\ shown' = [shown EXCEPT ![target[s]] = reads[s]]
          /\ mixed' = [mixed EXCEPT ![target[s]] = moved[s]]
          /\ Goto(s, "release")
       \/ /\ Cancelled \/ StoreFails
          /\ Goto(s, "fail")
          /\ UNCHANGED <<status, shown, mixed>>
    /\ UNCHANGED <<phase, target, known, probed, reads, running, moved, enrolled, worldVars,
                   requests, starts>>

(* Mutants: FailScan takes the scan's context; or writes another status. *)
Fail_WithCancel(s) ==
    /\ pc[s] = "fail"
    /\ Goto(s, "release")
    /\ \/ /\ ~ Cancelled
          /\ status' = [status EXCEPT ![target[s]] = "unavailable"]
          /\ shown' = [shown EXCEPT ![target[s]] = {}]
       \/ (Cancelled \/ StoreFails) /\ UNCHANGED <<status, shown>>
    /\ UNCHANGED <<phase, target, known, probed, reads, running, moved, enrolled, mixed,
                   worldVars, requests, starts>>

Fail_OtherStatus(s) ==
    /\ pc[s] = "fail"
    /\ Goto(s, "release")
    /\ status' = [status EXCEPT ![target[s]] = "failed"]
    /\ shown' = [shown EXCEPT ![target[s]] = {}]
    /\ UNCHANGED <<phase, target, known, probed, reads, running, moved, enrolled, mixed,
                   worldVars, requests, starts>>

(* Store.FailScan, without the cancellation; its error is ignored. *)
Fail(s) ==
    /\ pc[s] = "fail"
    /\ Goto(s, "release")
    /\ \/ /\ status' = [status EXCEPT ![target[s]] = "unavailable"]
          /\ shown' = [shown EXCEPT ![target[s]] = {}]
       \/ StoreFails /\ UNCHANGED <<status, shown>>
    /\ UNCHANGED <<phase, target, known, probed, reads, running, moved, enrolled, mixed,
                   worldVars, requests, starts>>

(* Mutant: the provider is not given back. *)
Release_Kept(s) ==
    /\ pc[s] = "release"
    /\ Goto(s, "idle")
    /\ reads' = [reads EXCEPT ![s] = {}]
    /\ known' = [known EXCEPT ![s] = None]
    /\ probed' = [probed EXCEPT ![s] = None]
    /\ moved' = [moved EXCEPT ![s] = FALSE]
    /\ UNCHANGED <<phase, target, running, catalogueVars, worldVars, requests, starts>>

(* The deferred delete from Service.running, and scanWG.Done(). *)
Release(s) ==
    /\ pc[s] = "release"
    /\ Goto(s, "idle")
    /\ running' = running \ {target[s]}
    /\ reads' = [reads EXCEPT ![s] = {}]
    /\ known' = [known EXCEPT ![s] = None]
    /\ probed' = [probed EXCEPT ![s] = None]
    /\ moved' = [moved EXCEPT ![s] = FALSE]
    /\ UNCHANGED <<phase, target, catalogueVars, worldVars, requests, starts>>

ScanStep(s) ==
    \/ Queue(s) \/ Claim(s) \/ Load(s) \/ Begin(s) \/ Probe(s) \/ Establish(s)
    \/ EndWalk(s) \/ ProbeAfter(s) \/ Reconcile(s) \/ Fail(s) \/ Release(s)

-----------------------------------------------------------------------------
(* run: SIGTERM or an interrupt cancels the background context. *)
Signal ==
    /\ phase = "serving"
    /\ phase' = "draining"
    /\ UNCHANGED <<scanVars, catalogueVars, worldVars, requests, starts>>

(* server.Shutdown returns when no request is being handled any more. *)
ServerDrained ==
    /\ phase = "draining"
    /\ \A s \in Scan : pc[s] # "requested"
    /\ phase' = "waiting"
    /\ UNCHANGED <<scanVars, catalogueVars, worldVars, requests, starts>>

(* All memory of the process is lost; the catalogue stays. *)
Gone ==
    /\ phase' = "stopped"
    /\ pc' = [s \in Scan |-> "idle"]
    /\ known' = [s \in Scan |-> None]
    /\ probed' = [s \in Scan |-> None]
    /\ moved' = [s \in Scan |-> FALSE]
    /\ reads' = [s \in Scan |-> {}]
    /\ running' = {}
    /\ UNCHANGED <<target, catalogueVars, worldVars, requests, starts>>

(* Gateway.Wait returns when every scan goroutine is done, and run ends. *)
Exit ==
    /\ phase = "waiting"
    /\ \A s \in Scan : pc[s] = "idle"
    /\ Gone

(* The process is killed, or the ten seconds for stopping are over. *)
Crash == Crashes /\ phase # "stopped" /\ Gone

Start ==
    /\ phase = "stopped" /\ starts < MaxStarts
    /\ starts' = starts + 1
    /\ phase' = "serving"
    /\ UNCHANGED <<scanVars, catalogueVars, worldVars, requests>>

-----------------------------------------------------------------------------
(* The steps between the two probes of a scan. *)
BetweenProbes == {"establish", "walk", "after"}

(* The user puts directory d at a place, in the place of what stands there. *)
Put(p, d, a) ==
    /\ changes < MaxChanges
    /\ changes' = changes + 1
    /\ at[p][a] # d
    /\ at' = [at EXCEPT ![p] = [b \in Place |-> IF b = a THEN d
                                               ELSE IF at[p][b] = d THEN 0 ELSE at[p][b]]]
    /\ moved' = [s \in Scan |-> \/ moved[s]
                               \/ /\ pc[s] \in BetweenProbes
                                  /\ target[s] = p /\ probed[s].dir = d]
    /\ UNCHANGED <<phase, pc, target, known, probed, reads, running, catalogueVars, link, plugged,
                   requests, starts>>

(* The user makes the submitted locator lead to another place. *)
Repoint(p, a) ==
    /\ changes < MaxChanges
    /\ changes' = changes + 1
    /\ link[p] # a
    /\ link' = [link EXCEPT ![p] = a]
    /\ UNCHANGED <<phase, scanVars, catalogueVars, at, plugged, requests, starts>>

(* The medium is unplugged, or plugged in again. *)
Plug(p) ==
    /\ Unplugs
    /\ plugged' = [plugged EXCEPT ![p] = ~ @]
    /\ UNCHANGED <<phase, scanVars, catalogueVars, link, at, changes, requests, starts>>

Next ==
    \/ \E s \in Scan, p \in Provider : Request(s, p)
    \/ \E s \in Scan : ScanStep(s)
    \/ \E s \in Scan : Read(s)
    \/ Signal \/ ServerDrained \/ Exit \/ Crash \/ Start
    \/ \E p \in Provider, d \in Dir, a \in Place : Put(p, d, a)
    \/ \E p \in Provider, a \in Place : Repoint(p, a)
    \/ \E p \in Provider : Plug(p)

Spec == Init /\ [][Next]_vars

(* A goroutine that can go on eventually does: no step of a scan waits for *)
(* anything but the machine, a walk is finite, and the scheduler is fair.  *)
Fairness ==
    /\ \A s \in Scan : WF_vars(ScanStep(s))
    /\ WF_vars(ServerDrained) /\ WF_vars(Exit)

FairSpec == Spec /\ Fairness

-----------------------------------------------------------------------------
(* Properties.                                                             *)

(* The state has its type. *)
TypeOK ==
    /\ phase \in {"serving", "draining", "waiting", "stopped"}
    /\ pc \in [Scan -> Step]
    /\ target \in [Scan -> Provider]
    /\ known \in [Scan -> Evidence \cup {None}]
    /\ probed \in [Scan -> Evidence \cup {None}]
    /\ reads \in [Scan -> SUBSET Evidence]
    /\ running \in SUBSET Provider
    /\ status \in [Provider -> {"never-scanned", "scanning", "complete", "unavailable"}]
    /\ enrolled \in [Provider -> Evidence \cup {None}]
    /\ shown \in [Provider -> SUBSET Evidence]
    /\ link \in [Provider -> Place]
    /\ at \in [Provider -> [Place -> Dir \cup {0}]]
    /\ plugged \in [Provider -> BOOLEAN]
    /\ moved \in [Scan -> BOOLEAN] /\ mixed \in [Provider -> BOOLEAN]
    /\ changes \in 0..MaxChanges /\ requests \in 0..MaxRequests /\ starts \in 1..MaxStarts

(* At most one scan of a provider is between its claim and its release,    *)
(* and Service.running holds exactly the providers that have one.          *)
OneScanPerProvider ==
    /\ running = {target[s] : s \in {t \in Scan : pc[t] \in Holding}}
    /\ \A s, t \in Scan :
          (pc[s] \in Holding /\ pc[t] \in Holding /\ target[s] = target[t]) => s = t

(* Everything the catalogue shows as available was read from the enrolled  *)
(* directory, though the probes go through the link and the walk does not, *)
(* and other directories may stand where the walk reads: unless somebody   *)
(* put the enrolled directory itself back, or at another place, between    *)
(* the two probes of the scan.  With weak evidence everything was read at  *)
(* the enrolled path, without exception.                                   *)
ShownFromEnrolledRoot ==
    \A p \in Provider : \A e \in shown[p] :
        IF p \in Weak THEN e.place = enrolled[p].place
                      ELSE e.dir = enrolled[p].dir \/ mixed[p]

(* A provider is marked as scanning only while a scan of it is in progress. *)
MarkedScansAreRunning ==
    \A p \in Provider :
        status[p] = "scanning" => \E s \in Scan : target[s] = p /\ pc[s] \in Marked

(* The scans keep the protocol the catalogue relies on. *)
Protocol == INSTANCE ScanProtocol WITH
    active <- {target[s] : s \in {t \in Scan : pc[t] \in Marked}}

KeepsProtocol == Protocol!Spec

(* Every scan that was accepted ends, and lets its provider be scanned     *)
(* again, whatever happens to the root meanwhile.                          *)
EveryScanEnds ==
    /\ \A s \in Scan : (pc[s] # "idle") ~> (pc[s] = "idle")
    /\ \A p \in Provider : (p \in running) ~> (p \notin running)

(* A stop that was asked for is completed: waiting for the scans does not  *)
(* need its timeout.                                                       *)
StopCompletes == (phase = "draining") ~> (phase = "stopped")
=============================================================================
