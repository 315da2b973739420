--------------------------- MODULE ScanServiceProofs ---------------------------
(* The scans exclude one another per provider, and keep the protocol that  *)
(* the catalogue relies on, for every number of scans and providers.       *)
EXTENDS ScanService, TLAPS

-----------------------------------------------------------------------------
(* Type correctness.                                                       *)

LEMMA TypeInit == Init => TypeOK
<1>1. 1 \in Dir /\ 1 \in Place /\ Place \subseteq Dir
  BY ServiceAssumption DEF Dir, Place
<1>2. [dir |-> 1, place |-> 1] \in Evidence
  BY <1>1 DEF Evidence
<1> QED
  BY <1>1, <1>2, ServiceAssumption DEF Init, TypeOK, Step, Holding, Marked

(* What the user does to the root of p. *)
WorldStep(p) ==
    \/ \E d \in Dir, a \in Place : Put(p, d, a)
    \/ \E a \in Place : Repoint(p, a)
    \/ Plug(p)

(* Between its probes a scan has found a root. *)
RootProbed == \A s \in Scan : pc[s] \in BetweenProbes => probed[s] \in Evidence

(* What a probe finds is evidence of a directory at a place. *)
LEMMA FoundIsEvidence ==
    ASSUME TypeOK, NEW p \in Provider, Probes(p)
    PROVE  /\ Found(p) \in Evidence
           /\ Found(p).dir = at[p][link[p]] /\ Found(p).place = link[p]
BY DEF TypeOK, Probes, Found, Evidence

(* So is where a file is read, once the root has been probed. *)
LEMMA WalkedIsEvidence ==
    ASSUME TypeOK, RootProbed, NEW s \in Scan, CanRead(s), pc[s] = "walk"
    PROVE  /\ Walked(s) \in Evidence
           /\ Walked(s).dir = at[target[s]][probed[s].place] /\ Walked(s).place = probed[s].place
<1>1. probed[s].place \in Place
  BY DEF RootProbed, BetweenProbes, Evidence
<1>2. at[target[s]][probed[s].place] \in Dir \cup {0}
  BY <1>1 DEF TypeOK
<1> QED
  BY <1>1, <1>2 DEF CanRead, Walked, Evidence

(* A step of a scan leaves the places and the link alone. *)
LEMMA StepKeepsWorld ==
    ASSUME NEW s \in Scan, ScanStep(s) \/ Read(s)
    PROVE  UNCHANGED <<link, at>>
BY DEF ScanStep, Queue, Claim, Load, Begin, Probe, Establish, EndWalk, ProbeAfter, Reconcile,
       Fail, Release, Read, worldVars

LEMMA TypeInductive == TypeOK /\ RootProbed /\ [Next]_vars => TypeOK'
<1> SUFFICES ASSUME TypeOK, RootProbed, [Next]_vars PROVE TypeOK'
  OBVIOUS
<1> USE DEF TypeOK, Goto, Step, Holding, Marked, scanVars, catalogueVars, worldVars
<1>1. ASSUME NEW s \in Scan, NEW p \in Provider, Request(s, p) PROVE TypeOK'
  BY <1>1, ServiceAssumption DEF Request
<1>2. ASSUME NEW s \in Scan, ScanStep(s) PROVE TypeOK'
  <2>1. CASE Queue(s)
    BY <2>1 DEF Queue
  <2>2. CASE Claim(s)
    <3>1. \/ Goto(s, "idle") /\ running' = running
          \/ Goto(s, "load") /\ running' = running \cup {target[s]}
      BY <2>2 DEF Claim
    <3>2. pc' \in [Scan -> Step]
      BY <3>1
    <3>3. running' \in SUBSET Provider
      BY <3>1
    <3> QED
      BY <2>2, <3>2, <3>3 DEF Claim
  <2>3. CASE Load(s)
    BY <2>3 DEF Load
  <2>4. CASE Begin(s)
    BY <2>4 DEF Begin
  <2>5. CASE Probe(s)
    <3>0. target[s] \in Provider
      OBVIOUS
    <3>1. \/ probed' = probed
          \/ Probes(target[s]) /\ probed' = [probed EXCEPT ![s] = Found(target[s])]
      BY <2>5 DEF Probe
    <3>3. probed' \in [Scan -> Evidence \cup {None}]
      BY <3>0, <3>1, FoundIsEvidence
    <3>2. pc' \in [Scan -> Step]
      BY <2>5 DEF Probe
    <3> QED
      BY <2>5, <3>2, <3>3 DEF Probe
  <2>6. CASE Establish(s)
    <3>1. CASE /\ enrolled[target[s]] = None
               /\ enrolled' = [enrolled EXCEPT ![target[s]] = probed[s]]
               /\ known' = [known EXCEPT ![s] = probed[s]]
               /\ Goto(s, "walk")
      BY <2>6, <3>1 DEF Establish
    <3>2. CASE Goto(s, "fail") /\ UNCHANGED <<enrolled, known>>
      BY <2>6, <3>2 DEF Establish
    <3> QED
      BY <2>6, <3>1, <3>2 DEF Establish
  <2>7. CASE EndWalk(s)
    BY <2>7 DEF EndWalk
  <2>8. CASE ProbeAfter(s)
    BY <2>8 DEF ProbeAfter
  <2>9. CASE Reconcile(s)
    BY <2>9 DEF Reconcile
  <2>10. CASE Fail(s)
    BY <2>10 DEF Fail
  <2>11. CASE Release(s)
    BY <2>11 DEF Release
  <2> QED
    BY <1>2, <2>1, <2>2, <2>3, <2>4, <2>5, <2>6, <2>7, <2>8, <2>9, <2>10, <2>11 DEF ScanStep
<1>3. ASSUME NEW s \in Scan, Read(s) PROVE TypeOK'
  <2>1. Walked(s) \in Evidence
    BY <1>3, WalkedIsEvidence DEF Read
  <2> QED
    BY <1>3, <2>1 DEF Read
<1>4. ASSUME Signal \/ ServerDrained PROVE TypeOK'
  BY <1>4 DEF Signal, ServerDrained
<1>5. ASSUME Gone PROVE TypeOK'
  BY <1>5 DEF Gone
<1>6. ASSUME Start PROVE TypeOK'
  BY <1>6, ServiceAssumption DEF Start
<1>7. ASSUME NEW p \in Provider, NEW d \in Dir, NEW a \in Place, Put(p, d, a) PROVE TypeOK'
  BY <1>7, ServiceAssumption DEF Put
<1>10. ASSUME NEW p \in Provider, NEW a \in Place, Repoint(p, a) PROVE TypeOK'
  BY <1>10, ServiceAssumption DEF Repoint
<1>8. ASSUME NEW p \in Provider, Plug(p) PROVE TypeOK'
  BY <1>8 DEF Plug
<1>9. CASE UNCHANGED vars
  BY <1>9 DEF vars
<1> QED
  BY <1>1, <1>2, <1>3, <1>4, <1>5, <1>6, <1>7, <1>8, <1>9, <1>10 DEF Next, Exit, Crash

LEMMA ProbedInductive == TypeOK /\ RootProbed /\ [Next]_vars => RootProbed'
<1> SUFFICES ASSUME TypeOK, RootProbed, [Next]_vars, NEW t \in Scan, pc'[t] \in BetweenProbes
             PROVE  probed'[t] \in Evidence
  BY DEF RootProbed
<1> USE DEF Goto, BetweenProbes, scanVars
<1>1. ASSUME NEW s \in Scan, Probe(s) PROVE probed'[t] \in Evidence
  <2>1. CASE t = s
    BY <1>1, <2>1, FoundIsEvidence DEF Probe, TypeOK
  <2>2. CASE t # s
    BY <1>1, <2>2 DEF Probe, RootProbed, TypeOK
  <2> QED
    BY <2>1, <2>2
<1>2. ASSUME NEW s \in Scan, Establish(s) \/ EndWalk(s) PROVE probed'[t] \in Evidence
  BY <1>2 DEF Establish, EndWalk, RootProbed, TypeOK
<1>3. ASSUME NEW s \in Scan,
             Queue(s) \/ Claim(s) \/ Load(s) \/ Begin(s) \/ ProbeAfter(s) \/ Reconcile(s)
             \/ Fail(s) \/ Release(s)
      PROVE  probed'[t] \in Evidence
  BY <1>3 DEF Queue, Claim, Load, Begin, ProbeAfter, Reconcile, Fail, Release, RootProbed, TypeOK
<1>4. ASSUME NEW s \in Scan, NEW p \in Provider, Request(s, p) \/ Read(s)
      PROVE  probed'[t] \in Evidence
  BY <1>4 DEF Request, Read, RootProbed, TypeOK
<1>5. ASSUME NEW s \in Scan, Read(s) PROVE probed'[t] \in Evidence
  BY <1>5 DEF Read, RootProbed
<1>6. Signal \/ ServerDrained \/ Start \/ UNCHANGED vars => probed'[t] \in Evidence
  BY DEF Signal, ServerDrained, Start, vars, RootProbed
<1>7. ~ Gone
  BY DEF Gone
<1>8. ASSUME NEW p \in Provider, WorldStep(p) PROVE probed'[t] \in Evidence
  BY <1>8 DEF WorldStep, Put, Repoint, Plug, RootProbed
<1> QED
  BY <1>1, <1>2, <1>3, <1>4, <1>5, <1>6, <1>7, <1>8 DEF Next, ScanStep, Exit, Crash, WorldStep

LEMMA TypesAlways == Spec => [](TypeOK /\ RootProbed)
<1>1. Init => TypeOK /\ RootProbed
  BY TypeInit DEF Init, RootProbed, BetweenProbes
<1>2. TypeOK /\ RootProbed /\ [Next]_vars => TypeOK' /\ RootProbed'
  BY TypeInductive, ProbedInductive
<1> QED
  BY <1>1, <1>2, PTL DEF Spec

(* Every reachable state of the scans has its type. *)
THEOREM ServiceTypeCorrect == Spec => []TypeOK
<1>1. Spec => [](TypeOK /\ RootProbed)
  BY TypesAlways
<1> QED
  BY <1>1, PTL

-----------------------------------------------------------------------------
(* One scan per provider.                                                  *)

(* A step of a scan that neither takes nor gives back a provider. *)
Goes(s) ==
    /\ \E step \in Step : pc' = [pc EXCEPT ![s] = step] /\ (step \in Holding <=> pc[s] \in Holding)
    /\ running' = running
    /\ \A t \in Scan : target'[t] = target[t] \/ (t = s /\ pc[s] \notin Holding)

(* Every step is of one of these kinds. *)
LEMMA HoldingSteps ==
    ASSUME TypeOK, [Next]_vars
    PROVE  \/ \E s \in Scan : Goes(s)
           \/ \E s \in Scan : Claim(s) /\ target[s] \notin running
           \/ \E s \in Scan : Release(s)
           \/ Gone
           \/ UNCHANGED <<pc, target, running>>
<1> USE DEF TypeOK, Goto, Step, Holding, Marked, scanVars
<1>1. ASSUME NEW s \in Scan, NEW p \in Provider, Request(s, p) PROVE Goes(s)
  BY <1>1 DEF Request, Goes
<1>2. ASSUME NEW s \in Scan, ScanStep(s)
      PROVE  \/ Goes(s)
             \/ Claim(s) /\ target[s] \notin running
             \/ Release(s)
  <2>1. CASE Queue(s)
    BY <2>1 DEF Queue, Goes
  <2>2. CASE Claim(s) /\ target[s] \in running
    BY <2>2 DEF Claim, Goes
  <2>3. CASE Load(s)
    BY <2>3 DEF Load, Goes
  <2>4. CASE Begin(s)
    BY <2>4 DEF Begin, Goes
  <2>5. CASE Probe(s)
    BY <2>5 DEF Probe, Goes
  <2>6. CASE Establish(s)
    BY <2>6 DEF Establish, Goes
  <2>7. CASE EndWalk(s)
    BY <2>7 DEF EndWalk, Goes
  <2>8. CASE ProbeAfter(s)
    BY <2>8 DEF ProbeAfter, Goes
  <2>9. CASE Reconcile(s)
    BY <2>9 DEF Reconcile, Goes
  <2>10. CASE Fail(s)
    BY <2>10 DEF Fail, Goes
  <2> QED
    BY <1>2, <2>1, <2>2, <2>3, <2>4, <2>5, <2>6, <2>7, <2>8, <2>9, <2>10 DEF ScanStep
<1>3. ASSUME NEW s \in Scan, Read(s) PROVE UNCHANGED <<pc, target, running>>
  BY <1>3 DEF Read
<1>4. Signal \/ ServerDrained \/ Start \/ UNCHANGED vars => UNCHANGED <<pc, target, running>>
  BY DEF Signal, ServerDrained, Start, vars
<1>5. ASSUME NEW p \in Provider, WorldStep(p) PROVE UNCHANGED <<pc, target, running>>
  BY <1>5 DEF WorldStep, Put, Repoint, Plug
<1> QED
  BY <1>1, <1>2, <1>3, <1>4, <1>5 DEF Next, Exit, Crash, WorldStep

LEMMA OneScanInductive ==
    TypeOK /\ OneScanPerProvider /\ [Next]_vars => OneScanPerProvider'
<1> SUFFICES ASSUME TypeOK, OneScanPerProvider, [Next]_vars PROVE OneScanPerProvider'
  OBVIOUS
<1>1. ASSUME NEW s \in Scan, Goes(s) PROVE OneScanPerProvider'
  <2>1. \A t \in Scan : pc'[t] \in Holding <=> pc[t] \in Holding
    BY <1>1 DEF Goes, TypeOK
  <2>2. \A t \in Scan : pc[t] \in Holding => target'[t] = target[t]
    BY <1>1 DEF Goes
  <2>3. running' = running
    BY <1>1 DEF Goes
  <2> QED
    BY <2>1, <2>2, <2>3 DEF OneScanPerProvider
<1>2. ASSUME NEW s \in Scan, Claim(s), target[s] \notin running PROVE OneScanPerProvider'
  <2>1. /\ \A t \in Scan : pc'[t] = IF t = s THEN "load" ELSE pc[t]
        /\ running' = running \cup {target[s]} /\ target' = target
        /\ pc[s] = "queued"
    BY <1>2 DEF Claim, Goto, TypeOK
  <2>2. "load" \in Holding /\ "queued" \notin Holding
    BY DEF Holding, Marked
  <2> QED
    BY <1>2, <2>1, <2>2 DEF OneScanPerProvider
<1>3. ASSUME NEW s \in Scan, Release(s) PROVE OneScanPerProvider'
  <2>1. /\ \A t \in Scan : pc'[t] = IF t = s THEN "idle" ELSE pc[t]
        /\ running' = running \ {target[s]} /\ target' = target
        /\ pc[s] = "release"
    BY <1>3 DEF Release, Goto, TypeOK
  <2>2. "release" \in Holding /\ "idle" \notin Holding
    BY DEF Holding, Marked
  <2> QED
    BY <2>1, <2>2 DEF OneScanPerProvider
<1>4. ASSUME Gone PROVE OneScanPerProvider'
  BY <1>4 DEF Gone, OneScanPerProvider, Holding, Marked
<1>5. CASE UNCHANGED <<pc, target, running>>
  BY <1>5 DEF OneScanPerProvider
<1> QED
  BY <1>1, <1>2, <1>3, <1>4, <1>5, HoldingSteps

(* However many scans of a provider are requested, and whenever the process *)
(* stops, at most one holds it, and it is held exactly while one does.     *)
THEOREM OneScanCorrect == Spec => []OneScanPerProvider
<1>1. Init => OneScanPerProvider
  BY DEF Init, OneScanPerProvider, Holding, Marked
<1>2. TypeOK /\ OneScanPerProvider /\ [Next]_vars => OneScanPerProvider'
  BY OneScanInductive
<1>3. Spec => []TypeOK
  BY ServiceTypeCorrect
<1> QED
  BY <1>1, <1>2, <1>3, PTL DEF Spec

-----------------------------------------------------------------------------
(* The scans keep the protocol.                                            *)

(* The providers with a scan that has begun and is not over. *)
Active == {target[s] : s \in {t \in Scan : pc[t] \in Marked}}

(* A step that takes no scan into or out of the marked part, and leaves    *)
(* scan_status alone, is not seen by the protocol.                         *)
LEMMA Unseen ==
    ASSUME status' = status,
           \A t \in Scan : pc'[t] \in Marked <=> pc[t] \in Marked,
           \A t \in Scan : pc[t] \in Marked => target'[t] = target[t]
    PROVE  UNCHANGED <<status, Active>>
BY DEF Active

(* A scan of p that leaves the marked part is the only one of p there. *)
LEMMA LastOfProvider ==
    ASSUME TypeOK, OneScanPerProvider, NEW s \in Scan, pc[s] \in Marked,
           NEW step \in Step \ Marked, pc' = [pc EXCEPT ![s] = step], target' = target
    PROVE  target[s] \in Active /\ Active' = Active \ {target[s]}
<1>1. \A t \in Scan : pc'[t] = IF t = s THEN step ELSE pc[t]
  BY DEF TypeOK
<1>2. \A t \in Scan : (pc[t] \in Marked /\ target[t] = target[s]) => t = s
  BY DEF OneScanPerProvider, Holding
<1> QED
  BY <1>1, <1>2 DEF Active

(* Every step of the scans is a step of the protocol or a stuttering one.  *)
LEMMA ProtocolStep ==
    ASSUME TypeOK, OneScanPerProvider, [Next]_vars
    PROVE  Protocol!Next \/ UNCHANGED <<status, Active>>
<1> USE DEF TypeOK, Goto, Step, Holding, Marked, scanVars, catalogueVars, worldVars
<1>1. ASSUME NEW s \in Scan, NEW p \in Provider, Request(s, p)
      PROVE  UNCHANGED <<status, Active>>
  BY <1>1, Unseen DEF Request
<1>2. ASSUME NEW s \in Scan, ScanStep(s)
      PROVE  Protocol!Next \/ UNCHANGED <<status, Active>>
  <2>0. PICK p \in Provider : p = target[s]
    OBVIOUS
  <2>1. CASE Queue(s)
    BY <2>1, Unseen DEF Queue
  <2>2. CASE Claim(s)
    BY <2>2, Unseen DEF Claim
  <2>3. CASE Load(s)
    BY <2>3, Unseen DEF Load
  <2>4. CASE Begin(s)
    <3>1. CASE /\ status' = [status EXCEPT ![target[s]] = "scanning"]
               /\ pc' = [pc EXCEPT ![s] = "probe"]
      <4>1. target' = target /\ pc[s] = "begin" /\ target[s] \in Provider
        BY <2>4 DEF Begin
      <4>2. target[s] \notin Active
        BY <4>1 DEF OneScanPerProvider, Active
      <4>3. Active' = Active \cup {target[s]}
        BY <3>1, <4>1 DEF Active
      <4>4. Protocol!Begin(p)
        BY <2>0, <3>1, <4>2, <4>3 DEF Protocol!Begin, Active
      <4> QED
        BY <4>4 DEF Protocol!Next
    <3>2. CASE status' = status /\ pc' = [pc EXCEPT ![s] = "release"]
      BY <2>4, <3>2, Unseen DEF Begin
    <3> QED
      BY <2>4, <3>1, <3>2 DEF Begin
  <2>5. CASE Probe(s)
    BY <2>5, Unseen DEF Probe
  <2>6. CASE Establish(s)
    BY <2>6, Unseen DEF Establish
  <2>7. CASE EndWalk(s)
    BY <2>7, Unseen DEF EndWalk
  <2>8. CASE ProbeAfter(s)
    BY <2>8, Unseen DEF ProbeAfter
  <2>9. CASE Reconcile(s)
    <3>1. CASE /\ status' = [status EXCEPT ![target[s]] = "complete"]
               /\ pc' = [pc EXCEPT ![s] = "release"]
      <4>1. target' = target /\ pc[s] = "reconcile" /\ target[s] \in Provider
        BY <2>9 DEF Reconcile
      <4>2. target[s] \in Active /\ Active' = Active \ {target[s]}
        BY <3>1, <4>1, LastOfProvider
      <4>3. Protocol!Finish(p)
        BY <2>0, <3>1, <4>2 DEF Protocol!Finish, Protocol!Outcome, Active
      <4> QED
        BY <4>3 DEF Protocol!Next
    <3>2. CASE status' = status /\ pc' = [pc EXCEPT ![s] = "fail"]
      BY <2>9, <3>2, Unseen DEF Reconcile
    <3> QED
      BY <2>9, <3>1, <3>2 DEF Reconcile
  <2>10. CASE Fail(s)
    <3>1. /\ target' = target /\ pc[s] = "fail" /\ target[s] \in Provider
          /\ pc' = [pc EXCEPT ![s] = "release"]
      BY <2>10 DEF Fail
    <3>2. target[s] \in Active /\ Active' = Active \ {target[s]}
      BY <3>1, LastOfProvider
    <3>3. CASE status' = [status EXCEPT ![target[s]] = "unavailable"]
      <4>1. Protocol!Finish(p)
        BY <2>0, <3>2, <3>3 DEF Protocol!Finish, Protocol!Outcome, Active
      <4> QED
        BY <4>1 DEF Protocol!Next
    <3>4. CASE status' = status
      <4>1. Protocol!GiveUp(p)
        BY <2>0, <3>2, <3>4 DEF Protocol!GiveUp, Active
      <4> QED
        BY <4>1 DEF Protocol!Next
    <3> QED
      BY <2>10, <3>3, <3>4 DEF Fail
  <2>11. CASE Release(s)
    BY <2>11, Unseen DEF Release
  <2> QED
    BY <1>2, <2>1, <2>2, <2>3, <2>4, <2>5, <2>6, <2>7, <2>8, <2>9, <2>10, <2>11 DEF ScanStep
<1>3. ASSUME NEW s \in Scan, Read(s) PROVE UNCHANGED <<status, Active>>
  BY <1>3, Unseen DEF Read
<1>4. Signal \/ ServerDrained \/ Start \/ UNCHANGED vars => UNCHANGED <<status, Active>>
  BY Unseen DEF Signal, ServerDrained, Start, vars
<1>5. ASSUME NEW p \in Provider, WorldStep(p) PROVE UNCHANGED <<status, Active>>
  BY <1>5, Unseen DEF WorldStep, Put, Repoint, Plug
<1>6. ASSUME Gone PROVE Protocol!Next
  <2>1. Active' = {} /\ status' = status
    BY <1>6 DEF Gone, Active
  <2> QED
    BY <2>1 DEF Protocol!Next, Protocol!Stop, Active
<1> QED
  BY <1>1, <1>2, <1>3, <1>4, <1>5, <1>6 DEF Next, Exit, Crash, WorldStep

(* The scans, with their faults, crashes and restarts, implement the       *)
(* protocol: a provider is marked when a scan of it begins, not marked     *)
(* again before that scan is over, and every scan ends with one outcome.   *)
THEOREM ProtocolKept == Spec => KeepsProtocol
<1>1. Init => Protocol!Init
  BY DEF Init, Protocol!Init, Marked
<1>2. TypeOK /\ OneScanPerProvider /\ [Next]_vars => [Protocol!Next]_<<status, Active>>
  BY ProtocolStep
<1>3. Spec => []TypeOK
  BY ServiceTypeCorrect
<1>4. Spec => []OneScanPerProvider
  BY OneScanCorrect
<1> QED
  BY <1>1, <1>2, <1>3, <1>4, PTL DEF Spec, KeepsProtocol, Protocol!Spec, Active

-----------------------------------------------------------------------------
(* What is shown was read from the enrolled root.                          *)

(* A directory stands at one place. *)
OnePlace ==
    \A p \in Provider : \A a, b \in Place : (at[p][a] = at[p][b] /\ at[p][a] # 0) => a = b

(* The evidence a scan goes by is the catalogue's; from the first          *)
(* verification on it agrees with what the first probe found.              *)
GoesBy(s) ==
    LET p == target[s] IN
    /\ pc[s] \in Marked \cup {"begin"} => known[s] = enrolled[p]
    /\ pc[s] \in {"walk", "after", "reconcile"} =>
          /\ probed[s] \in Evidence
          /\ IF p \in Weak THEN known[s].place = probed[s].place
                           ELSE known[s].dir = probed[s].dir

(* Everything was read at the place the first probe found. *)
ReadThere(s) ==
    /\ \A e \in reads[s] : e.place = probed[s].place
    /\ pc[s] \notin {"walk", "after", "reconcile", "fail", "release"} => reads[s] = {}

(* While nobody puts the probed directory anywhere, it is at that place or *)
(* nowhere; and while it is there, nothing else was.                       *)
Stays(s) ==
    LET there == probed[s].place
        found == probed[s].dir
    IN  (pc[s] \in BetweenProbes /\ ~ moved[s]) =>
          /\ \A a \in Place : at[target[s]][a] = found => a = there
          /\ at[target[s]][there] = found => \A e \in reads[s] : e.dir = found

(* So the second verification found it there, and all was read from it. *)
Trusted(s) ==
    (pc[s] = "reconcile" /\ target[s] \notin Weak /\ ~ moved[s]) =>
        \A e \in reads[s] : e.dir = probed[s].dir

Met(s) == GoesBy(s) /\ ReadThere(s) /\ Stays(s) /\ Trusted(s)

AllMet == \A s \in Scan : Met(s)

LEMMA DirsAreNumbers == Dir \subseteq Nat /\ 0 \notin Dir /\ Place \subseteq Nat /\ 0 \notin Place
BY ServiceAssumption DEF Dir, Place

LEMMA NoneIsNoEvidence ==
    /\ None \notin Evidence /\ None.dir = 0 /\ None.place = 0
    /\ \A e \in Evidence : e.dir \in Dir /\ e.place \in Place /\ e.dir # 0 /\ e.place # 0
BY DirsAreNumbers DEF None, Evidence

(* Directories move one at a time, each to one place. *)
LEMMA OnePlaceInductive == TypeOK /\ OnePlace /\ [Next]_vars => OnePlace'
<1> SUFFICES ASSUME TypeOK, OnePlace, [Next]_vars PROVE OnePlace'
  OBVIOUS
<1>1. CASE at' = at
  BY <1>1 DEF OnePlace
<1>2. ASSUME NEW p \in Provider, NEW d \in Dir, NEW c \in Place, Put(p, d, c) PROVE OnePlace'
  <2> SUFFICES ASSUME NEW q \in Provider, NEW a \in Place, NEW b \in Place,
                      at'[q][a] = at'[q][b], at'[q][a] # 0
               PROVE  a = b
    BY DEF OnePlace
  <2>1. CASE q # p
    BY <1>2, <2>1 DEF Put, OnePlace, TypeOK
  <2>2. CASE q = p
    <3>1. \A x \in Place : at'[q][x] = IF x = c THEN d ELSE IF at[q][x] = d THEN 0 ELSE at[q][x]
      BY <1>2, <2>2 DEF Put, TypeOK
    <3>2. d # 0
      BY DirsAreNumbers
    <3> QED
      BY <3>1, <3>2 DEF OnePlace
  <2> QED
    BY <2>1, <2>2
<1>3. at' = at \/ \E p \in Provider, d \in Dir, c \in Place : Put(p, d, c)
  <2>1. ASSUME NEW s \in Scan, NEW p \in Provider, Request(s, p) PROVE at' = at
    BY <2>1 DEF Request, worldVars
  <2>2. ASSUME NEW s \in Scan, ScanStep(s) \/ Read(s) PROVE at' = at
    BY <2>2, StepKeepsWorld
  <2>3. Signal \/ ServerDrained \/ Start \/ Gone \/ UNCHANGED vars => at' = at
    BY DEF Signal, ServerDrained, Start, Gone, vars, worldVars
  <2>4. ASSUME NEW p \in Provider, Plug(p) PROVE at' = at
    BY <2>4 DEF Plug
  <2>5. ASSUME NEW p \in Provider, NEW a \in Place, Repoint(p, a) PROVE at' = at
    BY <2>5 DEF Repoint
  <2> QED
    BY <2>1, <2>2, <2>3, <2>4, <2>5 DEF Next, Exit, Crash
<1> QED
  BY <1>1, <1>2, <1>3

(* A scan is not disturbed by a step that leaves it, the places of its     *)
(* provider and, if it holds the provider, the enrolled evidence alone.    *)
LEMMA MetKept ==
    ASSUME NEW s \in Scan, Met(s),
           pc'[s] = pc[s], target'[s] = target[s], known'[s] = known[s],
           probed'[s] = probed[s], reads'[s] = reads[s], moved'[s] = moved[s],
           at'[target[s]] = at[target[s]],
           pc[s] \in Holding => enrolled'[target[s]] = enrolled[target[s]]
    PROVE  Met(s)'
BY DEF Met, GoesBy, ReadThere, Stays, Trusted, Holding, Marked, BetweenProbes

(* A step of scan s leaves the others alone. *)
LEMMA OthersMet ==
    ASSUME TypeOK, OneScanPerProvider, AllMet, NEW s \in Scan, ScanStep(s) \/ Read(s),
           NEW t \in Scan, t # s
    PROVE  Met(t)'
<1> USE DEF TypeOK, Goto, catalogueVars, worldVars
<1>1. /\ pc'[t] = pc[t] /\ target'[t] = target[t] /\ known'[t] = known[t]
      /\ probed'[t] = probed[t] /\ reads'[t] = reads[t] /\ moved'[t] = moved[t]
  BY DEF ScanStep, Queue, Claim, Load, Begin, Probe, Establish, EndWalk, ProbeAfter,
         Reconcile, Fail, Release, Read
<1>2. \/ enrolled' = enrolled
      \/ pc[s] = "establish" /\ enrolled' = [enrolled EXCEPT ![target[s]] = probed[s]]
  BY DEF ScanStep, Queue, Claim, Load, Begin, Probe, Establish, EndWalk, ProbeAfter,
         Reconcile, Fail, Release, Read
<1>3. pc[t] \in Holding => enrolled'[target[t]] = enrolled[target[t]]
  <2>1. CASE enrolled' = enrolled
    BY <2>1
  <2>2. CASE pc[s] = "establish" /\ enrolled' = [enrolled EXCEPT ![target[s]] = probed[s]]
    <3>1. pc[t] \in Holding => target[t] # target[s]
      BY <2>2 DEF OneScanPerProvider, Holding, Marked
    <3> QED
      BY <2>2, <3>1
  <2> QED
    BY <1>2, <2>1, <2>2
<1>4. at' = at
  BY StepKeepsWorld
<1> QED
  BY <1>1, <1>3, <1>4, MetKept DEF AllMet

(* What a step of scan s does to what it has met itself. *)
LEMMA StepMet ==
    ASSUME TypeOK, RootProbed, OnePlace, AllMet, NEW s \in Scan, ScanStep(s) \/ Read(s)
    PROVE  Met(s)'
<1> USE DEF Goto
<1>0. Met(s) /\ GoesBy(s) /\ ReadThere(s) /\ Stays(s) /\ Trusted(s)
  BY DEF AllMet, Met
<1>w. UNCHANGED <<link, at>>
  BY StepKeepsWorld
<1>1. CASE Queue(s)
  BY <1>0, <1>1 DEF Queue, TypeOK, Met, GoesBy, ReadThere, Stays, Trusted, Marked, BetweenProbes
<1>2. CASE Claim(s)
  BY <1>0, <1>2 DEF Claim, TypeOK, Met, GoesBy, ReadThere, Stays, Trusted, Marked, BetweenProbes
<1>3. CASE Load(s)
  BY <1>0, <1>3 DEF Load, TypeOK, Met, GoesBy, ReadThere, Stays, Trusted, Marked, BetweenProbes,
                    catalogueVars
<1>4. CASE Begin(s)
  BY <1>0, <1>4 DEF Begin, TypeOK, Met, GoesBy, ReadThere, Stays, Trusted, Marked, BetweenProbes
<1>5. CASE Probe(s)
  <2>0. PICK p \in Provider : p = target[s]
    BY DEF TypeOK
  <2>1. /\ pc[s] = "probe" /\ known[s] = enrolled[p] /\ reads[s] = {}
        /\ UNCHANGED <<target, known, reads, enrolled, moved>>
    BY <1>0, <1>5, <2>0 DEF Probe, GoesBy, ReadThere, Marked, catalogueVars
  <2>2. CASE ~ Probes(p)
    <3>1. pc'[s] = "fail" /\ probed' = probed
      BY <1>5, <2>0, <2>2 DEF Probe, TypeOK
    <3> QED
      BY <2>0, <2>1, <3>1, <1>w DEF Met, GoesBy, ReadThere, Stays, Trusted, Marked, BetweenProbes
  <2>3. CASE Probes(p)
    <3>1. /\ probed'[s] = Found(p)
          /\ \/ pc'[s] \in {"fail", "establish"}
             \/ pc'[s] = "walk" /\ Verifies(p, known[s], Found(p))
      BY <1>5, <2>0, <2>3 DEF Probe, TypeOK
    <3>2. /\ Found(p) \in Evidence
          /\ Found(p).dir = at[p][link[p]] /\ Found(p).place = link[p] /\ link[p] \in Place
      BY <2>3, FoundIsEvidence DEF TypeOK
    <3>3. GoesBy(s)'
      BY <2>0, <2>1, <3>1, <3>2 DEF GoesBy, Marked, Verifies
    <3>4. ReadThere(s)'
      BY <2>1, <3>1 DEF ReadThere
    <3>5. Stays(s)'
      <4>1. at[p][link[p]] # 0
        BY <3>2, NoneIsNoEvidence
      <4>2. \A a \in Place : at[p][a] = at[p][link[p]] => a = link[p]
        BY <3>2, <4>1 DEF OnePlace
      <4> QED
        BY <2>0, <2>1, <3>1, <3>2, <4>2, <1>w DEF Stays
    <3>6. Trusted(s)'
      BY <3>1 DEF Trusted
    <3> QED
      BY <3>3, <3>4, <3>5, <3>6 DEF Met
  <2> QED
    BY <2>2, <2>3
<1>6. CASE Establish(s)
  <2>1. pc[s] = "establish" /\ UNCHANGED <<target, probed, reads, moved>>
    BY <1>6 DEF Establish
  <2>2. reads[s] = {} /\ probed[s] \in Evidence
    BY <1>0, <2>1 DEF ReadThere, RootProbed, BetweenProbes
  <2>3. CASE /\ enrolled' = [enrolled EXCEPT ![target[s]] = probed[s]]
             /\ known' = [known EXCEPT ![s] = probed[s]]
             /\ Goto(s, "walk")
    <3>1. /\ enrolled'[target[s]] = probed[s] /\ known'[s] = probed[s] /\ pc'[s] = "walk"
      BY <2>3 DEF TypeOK
    <3>2. GoesBy(s)'
      BY <2>1, <2>2, <3>1 DEF GoesBy
    <3>3. ReadThere(s)' /\ Trusted(s)'
      BY <2>1, <2>2, <3>1 DEF ReadThere, Trusted
    <3>4. Stays(s)'
      BY <1>0, <1>w, <2>1, <2>2, <3>1 DEF Stays, BetweenProbes
    <3> QED
      BY <3>2, <3>3, <3>4 DEF Met
  <2>4. CASE Goto(s, "fail") /\ UNCHANGED <<enrolled, known>>
    <3>1. pc'[s] = "fail"
      BY <2>4 DEF TypeOK
    <3> QED
      BY <1>0, <2>1, <2>2, <2>4, <3>1 DEF Met, GoesBy, ReadThere, Stays, Trusted, Marked,
                                          BetweenProbes
  <2> QED
    BY <1>6, <2>3, <2>4 DEF Establish
<1>7. CASE Read(s)
  <2>1. /\ pc[s] = "walk" /\ CanRead(s)
        /\ UNCHANGED <<pc, target, known, probed, moved, enrolled>>
        /\ reads'[s] = reads[s] \cup {Walked(s)}
    BY <1>7 DEF Read, TypeOK, catalogueVars
  <2>2. Walked(s).place = probed[s].place /\ Walked(s).dir = at[target[s]][probed[s].place]
    BY <2>1, WalkedIsEvidence
  <2>3. GoesBy(s)'
    BY <1>0, <2>1 DEF GoesBy
  <2>4. ReadThere(s)' /\ Trusted(s)'
    BY <1>0, <2>1, <2>2 DEF ReadThere, Trusted
  <2>5. Stays(s)'
    BY <1>0, <1>w, <2>1, <2>2 DEF Stays, BetweenProbes
  <2> QED
    BY <2>3, <2>4, <2>5 DEF Met
<1>8. CASE EndWalk(s)
  BY <1>0, <1>8, <1>w DEF EndWalk, TypeOK, Met, GoesBy, ReadThere, Stays, Trusted, Marked,
                    BetweenProbes, catalogueVars
<1>9. CASE ProbeAfter(s)
  <2>0. PICK p \in Provider : p = target[s]
    BY DEF TypeOK
  <2>1. /\ pc[s] = "after" /\ known[s] = enrolled[p] /\ probed[s] \in Evidence
        /\ UNCHANGED <<target, known, probed, reads, moved, enrolled>>
    BY <1>0, <1>9, <2>0 DEF ProbeAfter, GoesBy, Marked, catalogueVars
  <2>2. \/ pc'[s] = "fail"
        \/ pc'[s] = "reconcile" /\ Probes(p) /\ Verifies(p, known[s], Found(p))
    BY <1>9, <2>0 DEF ProbeAfter, TypeOK
  <2>3. GoesBy(s)' /\ ReadThere(s)'
    BY <1>0, <2>1, <2>2 DEF GoesBy, ReadThere, Marked
  <2>4. Stays(s)'
    BY <2>2 DEF Stays, BetweenProbes
  <2>5. Trusted(s)'
    <3> SUFFICES ASSUME pc'[s] = "reconcile", p \notin Weak, ~ moved[s]
                 PROVE  \A e \in reads[s] : e.dir = probed[s].dir
      BY <2>0, <2>1 DEF Trusted
    <3>1. Found(p).dir = at[p][link[p]] /\ link[p] \in Place
      BY <2>2, FoundIsEvidence DEF TypeOK
    <3>2. at[p][link[p]] = probed[s].dir
      BY <1>0, <2>0, <2>1, <2>2, <3>1 DEF Verifies, GoesBy
    <3>3. link[p] = probed[s].place
      BY <1>0, <2>0, <2>1, <3>1, <3>2 DEF Stays, BetweenProbes
    <3> QED
      BY <1>0, <2>0, <2>1, <3>2, <3>3 DEF Stays, BetweenProbes
  <2> QED
    BY <2>3, <2>4, <2>5 DEF Met
<1>10. CASE Reconcile(s)
  BY <1>0, <1>10 DEF Reconcile, TypeOK, Met, GoesBy, ReadThere, Stays, Trusted, Marked, BetweenProbes
<1>11. CASE Fail(s)
  BY <1>0, <1>11 DEF Fail, TypeOK, Met, GoesBy, ReadThere, Stays, Trusted, Marked, BetweenProbes
<1>12. CASE Release(s)
  BY <1>0, <1>12 DEF Release, TypeOK, Met, GoesBy, ReadThere, Stays, Trusted, Marked, BetweenProbes
<1> QED
  BY <1>1, <1>2, <1>3, <1>4, <1>5, <1>6, <1>7, <1>8, <1>9, <1>10, <1>11, <1>12 DEF ScanStep

(* A directory is put somewhere while scan t is under way. *)
LEMMA PutMet ==
    ASSUME TypeOK, RootProbed, AllMet, NEW t \in Scan,
           NEW p \in Provider, NEW d \in Dir, NEW c \in Place, Put(p, d, c)
    PROVE  Met(t)'
<1>0. Met(t) /\ GoesBy(t) /\ ReadThere(t) /\ Stays(t) /\ Trusted(t)
  BY DEF AllMet, Met
<1>1. UNCHANGED <<pc, target, known, probed, reads, enrolled>>
  BY DEF Put, catalogueVars
<1>2. moved'[t] = (moved[t] \/ (pc[t] \in BetweenProbes /\ target[t] = p /\ probed[t].dir = d))
  BY Zenon DEF Put
<1>3. CASE target[t] # p
  <2>1. moved'[t] = moved[t]
    BY <1>2, <1>3 DEF TypeOK
  <2>2. at'[target[t]] = at[target[t]]
    BY <1>3 DEF Put, TypeOK
  <2> QED
    BY <1>0, <1>1, <2>1, <2>2, MetKept
<1>4. CASE target[t] = p
  <2>1. GoesBy(t)' /\ ReadThere(t)'
    BY <1>0, <1>1 DEF GoesBy, ReadThere
  <2>2. Trusted(t)'
    BY <1>0, <1>1, <1>2 DEF Trusted
  <2>3. Stays(t)'
    <3> SUFFICES ASSUME pc[t] \in BetweenProbes, ~ moved'[t]
                 PROVE  /\ \A a \in Place : at'[p][a] = probed[t].dir => a = probed[t].place
                        /\ at'[p][probed[t].place] = probed[t].dir =>
                              \A e \in reads[t] : e.dir = probed[t].dir
      BY <1>1, <1>4 DEF Stays
    <3>1. ~ moved[t] /\ probed[t].dir # d
      BY <1>2, <1>4
    <3>2. \A a \in Place : at'[p][a] = IF a = c THEN d ELSE IF at[p][a] = d THEN 0 ELSE at[p][a]
      BY DEF Put, TypeOK
    <3>3. probed[t].dir # 0 /\ probed[t].place \in Place
      BY NoneIsNoEvidence DEF RootProbed
    <3>4. \A a \in Place : at'[p][a] = probed[t].dir => at[p][a] = probed[t].dir
      BY <3>1, <3>2, <3>3
    <3> QED
      BY <1>0, <1>4, <3>1, <3>3, <3>4 DEF Stays
  <2> QED
    BY <2>1, <2>2, <2>3 DEF Met
<1> QED
  BY <1>3, <1>4

LEMMA MetInductive ==
    TypeOK /\ RootProbed /\ OneScanPerProvider /\ OnePlace /\ AllMet /\ [Next]_vars => AllMet'
<1> SUFFICES ASSUME TypeOK, RootProbed, OneScanPerProvider, OnePlace, AllMet, [Next]_vars,
                    NEW t \in Scan
             PROVE  Met(t)'
  BY DEF AllMet
<1> USE DEF scanVars, catalogueVars, worldVars
<1>1. ASSUME NEW s \in Scan, NEW p \in Provider, Request(s, p) PROVE Met(t)'
  <2>1. CASE t = s
    BY <1>1, <2>1 DEF Request, Goto, TypeOK, AllMet, Met, GoesBy, ReadThere, Stays, Trusted,
                      Marked, BetweenProbes
  <2>2. CASE t # s
    BY <1>1, <2>2, MetKept DEF Request, Goto, TypeOK, AllMet
  <2> QED
    BY <2>1, <2>2
<1>2. ASSUME NEW s \in Scan, ScanStep(s) \/ Read(s) PROVE Met(t)'
  BY <1>2, StepMet, OthersMet
<1>3. Signal \/ ServerDrained \/ Start \/ UNCHANGED vars => Met(t)'
  BY MetKept DEF Signal, ServerDrained, Start, vars, AllMet
<1>4. Gone => Met(t)'
  BY DEF Gone, Met, GoesBy, ReadThere, Stays, Trusted, Marked, BetweenProbes
<1>5. ASSUME NEW p \in Provider, NEW d \in Dir, NEW a \in Place, Put(p, d, a) PROVE Met(t)'
  BY <1>5, PutMet
<1>6. ASSUME NEW p \in Provider, NEW a \in Place, Repoint(p, a) PROVE Met(t)'
  BY <1>6, MetKept DEF Repoint, AllMet
<1>7. ASSUME NEW p \in Provider, Plug(p) PROVE Met(t)'
  BY <1>7, MetKept DEF Plug, AllMet
<1> QED
  BY <1>1, <1>2, <1>3, <1>4, <1>5, <1>6, <1>7 DEF Next, Exit, Crash

(* Nothing is shown of a provider whose root is not established. *)
NothingBefore == \A p \in Provider : enrolled[p] = None => shown[p] = {}

LEMMA ShownInductive ==
    TypeOK /\ RootProbed /\ AllMet /\ NothingBefore /\ ShownFromEnrolledRoot /\ [Next]_vars
    => NothingBefore' /\ ShownFromEnrolledRoot'
<1> SUFFICES ASSUME TypeOK, RootProbed, AllMet, NothingBefore, ShownFromEnrolledRoot, [Next]_vars
             PROVE  NothingBefore' /\ ShownFromEnrolledRoot'
  OBVIOUS
<1> USE DEF scanVars, catalogueVars, worldVars
<1>1. CASE shown' = shown /\ enrolled' = enrolled /\ mixed' = mixed
  BY <1>1 DEF NothingBefore, ShownFromEnrolledRoot
<1>2. ASSUME NEW s \in Scan, Establish(s), enrolled' # enrolled
      PROVE  NothingBefore' /\ ShownFromEnrolledRoot'
  <2>1. /\ enrolled[target[s]] = None /\ shown' = shown /\ mixed' = mixed
        /\ enrolled' = [enrolled EXCEPT ![target[s]] = probed[s]] /\ pc[s] = "establish"
    BY <1>2 DEF Establish
  <2>2. probed[s] # None
    BY <2>1, NoneIsNoEvidence DEF RootProbed, BetweenProbes
  <2>3. shown'[target[s]] = {} /\ target[s] \in Provider
    BY <2>1 DEF NothingBefore, TypeOK
  <2>4. \A q \in Provider : q # target[s] => enrolled'[q] = enrolled[q]
    BY <2>1 DEF TypeOK
  <2>5. enrolled'[target[s]] = probed[s]
    BY <2>1 DEF TypeOK
  <2>6. NothingBefore'
    BY <2>1, <2>2, <2>4, <2>5 DEF NothingBefore
  <2>7. ShownFromEnrolledRoot'
    BY <2>1, <2>3, <2>4 DEF ShownFromEnrolledRoot
  <2> QED
    BY <2>6, <2>7
<1>3. ASSUME NEW s \in Scan, Reconcile(s), shown' # shown \/ mixed' # mixed
      PROVE  NothingBefore' /\ ShownFromEnrolledRoot'
  <2>0. PICK p \in Provider : p = target[s]
    BY DEF TypeOK
  <2>1. /\ pc[s] = "reconcile" /\ enrolled' = enrolled
        /\ shown' = [shown EXCEPT ![p] = reads[s]]
        /\ mixed' = [mixed EXCEPT ![p] = moved[s]]
    BY <1>3, <2>0 DEF Reconcile
  <2>2. /\ shown'[p] = reads[s] /\ mixed'[p] = moved[s]
        /\ \A q \in Provider : q # p => shown'[q] = shown[q] /\ mixed'[q] = mixed[q]
    BY <2>1 DEF TypeOK
  <2>3. GoesBy(s) /\ ReadThere(s) /\ Trusted(s)
    BY DEF AllMet, Met
  <2>4. /\ known[s] = enrolled[p] /\ probed[s] \in Evidence
        /\ IF p \in Weak THEN enrolled[p].place = probed[s].place
                         ELSE enrolled[p].dir = probed[s].dir
    BY <2>0, <2>1, <2>3 DEF GoesBy, Marked
  <2>5. enrolled[p] # None
    BY <2>4, NoneIsNoEvidence
  <2>6. \A e \in reads[s] : IF p \in Weak THEN e.place = enrolled[p].place
                                           ELSE e.dir = enrolled[p].dir \/ moved[s]
    BY <2>0, <2>1, <2>3, <2>4 DEF ReadThere, Trusted
  <2>7. NothingBefore'
    BY <2>1, <2>2, <2>5 DEF NothingBefore
  <2>8. ShownFromEnrolledRoot'
    BY <2>1, <2>2, <2>6 DEF ShownFromEnrolledRoot
  <2> QED
    BY <2>7, <2>8
<1>4. ASSUME NEW s \in Scan, Fail(s)
      PROVE  NothingBefore' /\ ShownFromEnrolledRoot'
  <2>1. enrolled' = enrolled /\ mixed' = mixed
    BY <1>4 DEF Fail
  <2>2. \A q \in Provider : shown'[q] = shown[q] \/ shown'[q] = {}
    BY <1>4 DEF Fail, TypeOK
  <2> QED
    BY <2>1, <2>2 DEF NothingBefore, ShownFromEnrolledRoot
<1>5. ASSUME NEW s \in Scan, ScanStep(s)
      PROVE  \/ shown' = shown /\ enrolled' = enrolled /\ mixed' = mixed
             \/ Establish(s) /\ enrolled' # enrolled
             \/ Reconcile(s) /\ (shown' # shown \/ mixed' # mixed)
             \/ Fail(s)
  BY <1>5 DEF ScanStep, Queue, Claim, Load, Begin, Probe, Establish, EndWalk, ProbeAfter,
              Reconcile, Release
<1>6. ASSUME NEW s \in Scan, NEW p \in Provider, Request(s, p) \/ Read(s)
      PROVE  shown' = shown /\ enrolled' = enrolled /\ mixed' = mixed
  BY <1>6 DEF Request, Read
<1>7. ASSUME NEW p \in Provider, WorldStep(p)
      PROVE  shown' = shown /\ enrolled' = enrolled /\ mixed' = mixed
  BY <1>7 DEF WorldStep, Put, Repoint, Plug
<1>8. Signal \/ ServerDrained \/ Start \/ Gone \/ UNCHANGED vars
      => shown' = shown /\ enrolled' = enrolled /\ mixed' = mixed
  BY DEF Signal, ServerDrained, Start, Gone, vars
<1>9. ASSUME NEW s \in Scan, Read(s)
      PROVE  shown' = shown /\ enrolled' = enrolled /\ mixed' = mixed
  BY <1>9 DEF Read
<1> QED
  BY <1>1, <1>2, <1>3, <1>4, <1>5, <1>6, <1>7, <1>8, <1>9 DEF Next, Exit, Crash, WorldStep

(* Two verifications around the walk, of the submitted locator, are enough *)
(* for a walk of the operational one: whatever directories come to stand   *)
(* there and wherever the link is made to lead, all that the catalogue     *)
(* shows as available was read from the enrolled directory, unless that    *)
(* directory itself was put at a place in between (back where it was, or   *)
(* where the link leads by then).  With weak evidence all was read at the  *)
(* enrolled path.                                                          *)
THEOREM ShownCorrect == Spec => []ShownFromEnrolledRoot
<1>1. Init => OnePlace /\ AllMet /\ NothingBefore /\ ShownFromEnrolledRoot
  BY DEF Init, OnePlace, AllMet, Met, GoesBy, ReadThere, Stays, Trusted, Marked, BetweenProbes,
         NothingBefore, ShownFromEnrolledRoot
<1>2. TypeOK /\ OnePlace /\ [Next]_vars => OnePlace'
  BY OnePlaceInductive
<1>3. TypeOK /\ RootProbed /\ OneScanPerProvider /\ OnePlace /\ AllMet /\ [Next]_vars => AllMet'
  BY MetInductive
<1>4. TypeOK /\ RootProbed /\ AllMet /\ NothingBefore /\ ShownFromEnrolledRoot /\ [Next]_vars
      => NothingBefore' /\ ShownFromEnrolledRoot'
  BY ShownInductive
<1>5. Spec => [](TypeOK /\ RootProbed)
  BY TypesAlways
<1>6. Spec => []OneScanPerProvider
  BY OneScanCorrect
<1> QED
  BY <1>1, <1>2, <1>3, <1>4, <1>5, <1>6, PTL DEF Spec

-----------------------------------------------------------------------------
(* The scanning mark.                                                      *)

(* A step that leaves every marked provider its marked scan. *)
LEMMA MarksKept ==
    ASSUME TypeOK, MarkedScansAreRunning,
           \A p \in Provider : status'[p] = "scanning" =>
             \/ status[p] = "scanning" /\ \A s \in Scan :
                  pc[s] \in Marked /\ target[s] = p => pc'[s] \in Marked /\ target'[s] = p
             \/ \E s \in Scan : pc'[s] \in Marked /\ target'[s] = p
    PROVE  MarkedScansAreRunning'
BY DEF MarkedScansAreRunning

LEMMA MarksInductive ==
    ASSUME ~ StoreFails, ~ Crashes, TypeOK, MarkedScansAreRunning, [Next]_vars
    PROVE  MarkedScansAreRunning'
<1> USE DEF Goto, Step, Holding, Marked, scanVars, catalogueVars, worldVars
<1>1. ASSUME NEW s \in Scan, NEW p \in Provider, Request(s, p) PROVE MarkedScansAreRunning'
  BY <1>1, MarksKept DEF Request, TypeOK
<1>2. ASSUME NEW s \in Scan, ScanStep(s) PROVE MarkedScansAreRunning'
  <2>1. CASE Queue(s)
    BY <2>1, MarksKept DEF Queue, TypeOK
  <2>2. CASE Claim(s)
    BY <2>2, MarksKept DEF Claim, TypeOK
  <2>3. CASE Load(s)
    BY <2>3, MarksKept DEF Load, TypeOK
  <2>4. CASE Begin(s)
    BY <2>4, MarksKept DEF Begin, TypeOK
  <2>5. CASE Probe(s)
    BY <2>5, MarksKept DEF Probe, TypeOK
  <2>6. CASE Establish(s)
    BY <2>6, MarksKept DEF Establish, TypeOK
  <2>7. CASE EndWalk(s)
    BY <2>7, MarksKept DEF EndWalk, TypeOK
  <2>8. CASE ProbeAfter(s)
    BY <2>8, MarksKept DEF ProbeAfter, TypeOK
  <2>9. CASE Reconcile(s)
    <3>1. \/ pc' = [pc EXCEPT ![s] = "fail"] /\ status' = status
          \/ pc' = [pc EXCEPT ![s] = "release"] /\ status' = [status EXCEPT ![target[s]] = "complete"]
      BY <1>2, <2>9 DEF Reconcile
    <3>2. pc[s] = "reconcile" /\ target' = target
      BY <2>9 DEF Reconcile
    <3> QED
      BY <3>1, <3>2, MarksKept DEF TypeOK
  <2>10. CASE Fail(s)
    <3>1. /\ pc[s] = "fail" /\ target' = target /\ pc' = [pc EXCEPT ![s] = "release"]
          /\ status' = [status EXCEPT ![target[s]] = "unavailable"]
      BY <2>10 DEF Fail
    <3> QED
      BY <3>1, MarksKept DEF TypeOK
  <2>11. CASE Release(s)
    BY <2>11, MarksKept DEF Release, TypeOK
  <2> QED
    BY <1>2, <2>1, <2>2, <2>3, <2>4, <2>5, <2>6, <2>7, <2>8, <2>9, <2>10, <2>11 DEF ScanStep
<1>3. ASSUME NEW s \in Scan, Read(s) PROVE MarkedScansAreRunning'
  BY <1>3, MarksKept DEF Read
<1>4. ASSUME Signal \/ ServerDrained \/ Start \/ UNCHANGED vars PROVE MarkedScansAreRunning'
  <2>1. UNCHANGED <<pc, target, status>>
    BY <1>4 DEF Signal, ServerDrained, Start, vars
  <2> QED
    BY <2>1, MarksKept
<1>5. ASSUME Exit PROVE MarkedScansAreRunning'
  <2>1. status' = status /\ \A s \in Scan : pc[s] = "idle"
    BY <1>5 DEF Exit, Gone
  <2> QED
    BY <2>1 DEF MarkedScansAreRunning
<1>6. ASSUME NEW p \in Provider, WorldStep(p) PROVE MarkedScansAreRunning'
  <2>1. UNCHANGED <<pc, target, status>>
    BY <1>6 DEF WorldStep, Put, Repoint, Plug
  <2> QED
    BY <2>1, MarksKept
<1> QED
  BY <1>1, <1>2, <1>3, <1>4, <1>5, <1>6 DEF Next, Crash, WorldStep

(* While the catalogue takes every write and the process stops in time, a  *)
(* provider that is marked as scanning has a scan in progress: refusals,   *)
(* failed probes and cancellation all take the mark away.                  *)
THEOREM MarksCorrect ==
    ASSUME ~ StoreFails, ~ Crashes
    PROVE  Spec => []MarkedScansAreRunning
<1>1. Init => MarkedScansAreRunning
  BY DEF Init, MarkedScansAreRunning
<1>2. TypeOK /\ MarkedScansAreRunning /\ [Next]_vars => MarkedScansAreRunning'
  BY MarksInductive
<1>3. Spec => []TypeOK
  BY ServiceTypeCorrect
<1> QED
  BY <1>1, <1>2, <1>3, PTL DEF Spec
=============================================================================
