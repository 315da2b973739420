--------------------------- MODULE EnrollmentProofs ---------------------------
(* What the enrollment transactions guarantee, for every number of         *)
(* requests, providers, directories and changes of the file system.        *)
EXTENDS Enrollment, TLAPS

(* A probe of a directory yields a root. *)
LEMMA EvidenceType ==
    ASSUME TypeOK, NEW s \in Locator, where[s] # Missing, NEW conf \in Grades
    PROVE  Evidence(s, conf) \in Root
<1>1. where[s] \in Place
  BY DEF TypeOK
<1> QED
  BY <1>1 DEF Evidence, Root, Place

(* A request that loads or establishes a provider holds what its kind says. *)
LEMMA RequestFields ==
    ASSUME TypeOK, NEW r \in Actor
    PROVE  /\ actors[r].kind = "enroll" => actors[r].root \in Root
           /\ actors[r].kind = "load" => /\ actors[r].prov \in DOMAIN providers
                                         /\ actors[r].prov \in ProvId
                                         /\ actors[r].known \in Root
           /\ actors[r].kind = "establish" => /\ actors[r].prov \in DOMAIN providers
                                              /\ actors[r].prov \in ProvId
                                              /\ actors[r].root \in Root
<1>1. actors[r] \in Request
  BY DEF TypeOK
<1>2. CASE actors[r] \in [kind : {"idle"}]
  BY <1>2
<1>3. CASE actors[r] \in [kind : {"enroll"}, root : Root]
  BY <1>3
<1>4. CASE actors[r] \in [kind : {"load"}, prov : ProvId, known : Root]
  BY <1>4 DEF TypeOK
<1>5. CASE actors[r] \in [kind : {"establish"}, prov : ProvId, root : Root]
  BY <1>5 DEF TypeOK
<1> QED
  BY <1>1, <1>2, <1>3, <1>4, <1>5 DEF Request

(* What a step does to the providers table: nothing, or it adds or replaces *)
(* one record, by evidence accepted against all the others.                *)
Enrolled(id, root) ==
    /\ DOMAIN providers' = DOMAIN providers \cup {id}
    /\ providers' = [p \in DOMAIN providers' |-> IF p = id THEN root ELSE providers[p]]
    /\ Accepted({id}, root)

LEMMA AddEnrolls ==
    ASSUME TypeOK, NEW r \in Actor, AddFilesystemProvider(r)
    PROVE  \/ providers' = providers
           \/ \E id \in ProvId : Enrolled(id, actors[r].root)
<1>1. CASE ~ Accepted({}, actors[r].root)
  BY <1>1 DEF AddFilesystemProvider
<1>2. CASE Accepted({}, actors[r].root)
  <2>1. PICK id \in ProvId \ DOMAIN providers :
          providers' = [p \in DOMAIN providers \cup {id} |->
                           IF p = id THEN actors[r].root ELSE providers[p]]
    BY <1>2 DEF AddFilesystemProvider
  <2>2. DOMAIN providers \ {id} = DOMAIN providers \ {}
    BY <2>1
  <2>3. Accepted({id}, actors[r].root)
    BY <1>2, <2>2 DEF Accepted, RootConflict, UniqueViolation
  <2> QED
    BY <2>1, <2>3 DEF Enrolled
<1> QED
  BY <1>1, <1>2

LEMMA EstablishEnrolls ==
    ASSUME TypeOK, NEW r \in Actor, EstablishProviderRoot(r)
    PROVE  \/ providers' = providers
           \/ \E id \in DOMAIN providers : Enrolled(id, actors[r].root)
<1> DEFINE p == actors[r].prov
<1>1. p \in DOMAIN providers
  BY RequestFields DEF EstablishProviderRoot, TypeOK
<1>2. CASE providers' = providers
  BY <1>2
<1>3. CASE /\ Accepted({p}, actors[r].root)
           /\ providers' = [providers EXCEPT ![p] = actors[r].root]
  BY <1>1, <1>3 DEF Enrolled, TypeOK
<1> QED
  BY <1>2, <1>3 DEF EstablishProviderRoot

(* The providers table keeps its type when a root is enrolled. *)
LEMMA EnrolledType ==
    ASSUME TypeOK, NEW id \in ProvId, NEW root \in Root, Enrolled(id, root)
    PROVE  /\ DOMAIN providers' \subseteq ProvId
           /\ providers' \in [DOMAIN providers' -> Root]
           /\ DOMAIN providers \subseteq DOMAIN providers'
BY DEF TypeOK, Enrolled

-----------------------------------------------------------------------------
(* Type correctness.                                                       *)

LEMMA TypeInit == Init => TypeOK
<1> SUFFICES ASSUME Init PROVE TypeOK
  OBVIOUS
<1>1. \A s \in LegacyAt : LegacyRoot(s) \in Root
  BY EnrollmentAssumption DEF LegacyRoot, Root
<1>2. DOMAIN providers \subseteq ProvId /\ providers \in [DOMAIN providers -> Root]
  BY <1>1 DEF Init
<1>3. actors \in [Actor -> Request] /\ \A r \in Actor : actors[r].kind = "idle"
  BY DEF Init, Idle, Request
<1>4. where \in [Locator -> Place \cup {Missing}]
  BY DEF Init, FileSystem
<1> QED
  BY <1>2, <1>3, <1>4, EnrollmentAssumption DEF Init, TypeOK

(* A request that ends keeps the types. *)
LEMMA EndsType ==
    ASSUME TypeOK, NEW r \in Actor, actors' = [actors EXCEPT ![r] = Idle],
           DOMAIN providers \subseteq DOMAIN providers'
    PROVE  /\ actors' \in [Actor -> Request]
           /\ \A s \in Actor :
                actors'[s].kind \in {"load", "establish"} => actors'[s].prov \in DOMAIN providers'
<1>1. Idle \in Request /\ Idle.kind = "idle"
  BY DEF Idle, Request
<1> QED
  BY <1>1 DEF TypeOK

(* A request that goes on keeps the types. *)
LEMMA GoesOnType ==
    ASSUME TypeOK, NEW r \in Actor, NEW request \in Request,
           request.kind \in {"load", "establish"} => request.prov \in DOMAIN providers,
           actors' = [actors EXCEPT ![r] = request], providers' = providers
    PROVE  /\ actors' \in [Actor -> Request]
           /\ \A s \in Actor :
                actors'[s].kind \in {"load", "establish"} => actors'[s].prov \in DOMAIN providers'
BY DEF TypeOK

LEMMA TypeInductive == TypeOK /\ [Next]_vars => TypeOK'
<1> SUFFICES ASSUME TypeOK, [Next]_vars PROVE TypeOK'
  OBVIOUS
<1>1. ASSUME NEW r \in Actor, NEW s \in Locator, NEW conf \in Grades,
             ProbeForEnrollment(r, s, conf)
      PROVE  TypeOK'
  <2> DEFINE request == [kind |-> "enroll", root |-> Evidence(s, conf)]
  <2>1. Evidence(s, conf) \in Root
    BY <1>1, EvidenceType DEF ProbeForEnrollment
  <2>2. request \in Request /\ request.kind = "enroll"
    BY <2>1 DEF Request
  <2>3. actors' = [actors EXCEPT ![r] = request]
    BY <1>1 DEF ProbeForEnrollment
  <2> HIDE DEF request
  <2>4. UNCHANGED <<providers, running, where, moves>>
    BY <1>1 DEF ProbeForEnrollment
  <2>5. /\ actors' \in [Actor -> Request]
        /\ \A q \in Actor :
             actors'[q].kind \in {"load", "establish"} => actors'[q].prov \in DOMAIN providers'
    BY <2>2, <2>3, <2>4, GoesOnType
  <2> QED
    BY <2>4, <2>5 DEF TypeOK
<1>2. ASSUME NEW r \in Actor, AddFilesystemProvider(r) PROVE TypeOK'
  <2>1. /\ DOMAIN providers' \subseteq ProvId
        /\ providers' \in [DOMAIN providers' -> Root]
        /\ DOMAIN providers \subseteq DOMAIN providers'
    <3>1. CASE providers' = providers
      BY <3>1 DEF TypeOK
    <3>2. ASSUME NEW id \in ProvId, Enrolled(id, actors[r].root)
          PROVE  /\ DOMAIN providers' \subseteq ProvId
                 /\ providers' \in [DOMAIN providers' -> Root]
                 /\ DOMAIN providers \subseteq DOMAIN providers'
      <4>1. actors[r].root \in Root
        BY <1>2, RequestFields DEF AddFilesystemProvider
      <4> QED
        BY <3>2, <4>1, EnrolledType
    <3> QED
      BY <1>2, <3>1, <3>2, AddEnrolls
  <2>2. actors' = [actors EXCEPT ![r] = Idle] /\ UNCHANGED <<running, where, moves>>
    BY <1>2 DEF AddFilesystemProvider
  <2>3. /\ actors' \in [Actor -> Request]
        /\ \A q \in Actor :
             actors'[q].kind \in {"load", "establish"} => actors'[q].prov \in DOMAIN providers'
    BY <2>1, <2>2, EndsType
  <2> QED
    BY <2>1, <2>2, <2>3 DEF TypeOK
<1>3. ASSUME NEW r \in Actor, NEW p \in ProvId, LoadForScan(r, p) PROVE TypeOK'
  <2> DEFINE request == [kind |-> "load", prov |-> p, known |-> providers[p]]
  <2>1. p \in DOMAIN providers /\ running' = running \cup {p}
    BY <1>3 DEF LoadForScan
  <2>2. providers[p] \in Root
    BY <2>1 DEF TypeOK
  <2>3. request \in Request /\ request.prov = p
    BY <2>2 DEF Request
  <2>4. actors' = [actors EXCEPT ![r] = request]
    BY <1>3 DEF LoadForScan
  <2> HIDE DEF request
  <2>5. UNCHANGED <<providers, where, moves>>
    BY <1>3 DEF LoadForScan
  <2>6. /\ actors' \in [Actor -> Request]
        /\ \A q \in Actor :
             actors'[q].kind \in {"load", "establish"} => actors'[q].prov \in DOMAIN providers'
    BY <2>1, <2>3, <2>4, <2>5, GoesOnType
  <2> QED
    BY <2>1, <2>5, <2>6 DEF TypeOK
<1>4. ASSUME NEW r \in Actor, NEW conf \in Grades, ProbeForScan(r, conf) PROVE TypeOK'
  <2> DEFINE known   == actors[r].known
             request == [kind |-> "establish", prov |-> actors[r].prov,
                         root |-> Evidence(known.submitted, conf)]
  <2>1. known \in Root /\ actors[r].prov \in DOMAIN providers /\ actors[r].prov \in ProvId
    BY <1>4, RequestFields DEF ProbeForScan
  <2>2. known.submitted \in Locator
    BY <2>1 DEF Root
  <2>3. UNCHANGED <<providers, where, moves>>
    BY <1>4 DEF ProbeForScan
  <2>4. CASE where[known.submitted] # Missing /\ known.conf = "legacy-unverified"
    <3>1. actors' = [actors EXCEPT ![r] = request] /\ running' = running
      BY <1>4, <2>4 DEF ProbeForScan
    <3>2. Evidence(known.submitted, conf) \in Root
      BY <2>2, <2>4, EvidenceType
    <3>3. request \in Request /\ request.prov = actors[r].prov
      BY <2>1, <3>2 DEF Request
    <3> HIDE DEF request
    <3>4. /\ actors' \in [Actor -> Request]
          /\ \A q \in Actor :
               actors'[q].kind \in {"load", "establish"} => actors'[q].prov \in DOMAIN providers'
      BY <2>1, <2>3, <3>1, <3>3, GoesOnType
    <3> QED
      BY <2>3, <3>1, <3>4 DEF TypeOK
  <2>5. CASE ~ (where[known.submitted] # Missing /\ known.conf = "legacy-unverified")
    <3>1. actors' = [actors EXCEPT ![r] = Idle] /\ running' = running \ {actors[r].prov}
      BY <1>4, <2>5 DEF ProbeForScan, Release
    <3>2. /\ actors' \in [Actor -> Request]
          /\ \A q \in Actor :
               actors'[q].kind \in {"load", "establish"} => actors'[q].prov \in DOMAIN providers'
      BY <2>3, <3>1, EndsType
    <3> QED
      BY <2>3, <3>1, <3>2 DEF TypeOK
  <2> QED
    BY <2>4, <2>5
<1>5. ASSUME NEW r \in Actor, EstablishProviderRoot(r) PROVE TypeOK'
  <2>1. /\ DOMAIN providers' \subseteq ProvId
        /\ providers' \in [DOMAIN providers' -> Root]
        /\ DOMAIN providers \subseteq DOMAIN providers'
    <3>1. CASE providers' = providers
      BY <3>1 DEF TypeOK
    <3>2. ASSUME NEW id \in DOMAIN providers, Enrolled(id, actors[r].root)
          PROVE  /\ DOMAIN providers' \subseteq ProvId
                 /\ providers' \in [DOMAIN providers' -> Root]
                 /\ DOMAIN providers \subseteq DOMAIN providers'
      <4>1. actors[r].root \in Root
        BY <1>5, RequestFields DEF EstablishProviderRoot
      <4>2. id \in ProvId
        BY DEF TypeOK
      <4> QED
        BY <3>2, <4>1, <4>2, EnrolledType
    <3> QED
      BY <1>5, <3>1, <3>2, EstablishEnrolls
  <2>2. /\ actors' = [actors EXCEPT ![r] = Idle] /\ running' = running \ {actors[r].prov}
        /\ UNCHANGED <<where, moves>>
    BY <1>5 DEF EstablishProviderRoot, Release
  <2>3. /\ actors' \in [Actor -> Request]
        /\ \A q \in Actor :
             actors'[q].kind \in {"load", "establish"} => actors'[q].prov \in DOMAIN providers'
    BY <2>1, <2>2, EndsType
  <2> QED
    BY <2>1, <2>2, <2>3 DEF TypeOK
<1>6. ASSUME MoveDirectories PROVE TypeOK'
  BY <1>6, EnrollmentAssumption DEF TypeOK, MoveDirectories, FileSystem
<1>7. ASSUME Restart PROVE TypeOK'
  <2>1. Idle \in Request /\ Idle.kind = "idle"
    BY DEF Idle, Request
  <2> QED
    BY <1>7, <2>1 DEF TypeOK, Restart
<1>8. CASE UNCHANGED vars
  BY <1>8 DEF TypeOK, vars
<1> QED
  BY <1>1, <1>2, <1>3, <1>4, <1>5, <1>6, <1>7, <1>8 DEF Next

(* Every reachable state of enrollment has its type. *)
THEOREM EnrollmentTypeCorrect == Spec => []TypeOK
<1>1. Init => TypeOK
  BY TypeInit
<1>2. TypeOK /\ [Next]_vars => TypeOK'
  BY TypeInductive
<1> QED
  BY <1>1, <1>2, PTL DEF Spec

-----------------------------------------------------------------------------
(* The roots of two providers do not overlap.                              *)

(* Every step leaves the providers table alone or enrolls one root that    *)
(* was accepted against all others.                                        *)
LEMMA ProviderSteps ==
    ASSUME TypeOK, [Next]_vars
    PROVE  \/ providers' = providers
           \/ \E id \in ProvId, r \in Actor :
                /\ actors[r].kind \in {"enroll", "establish"}
                /\ Enrolled(id, actors[r].root)
<1>1. ASSUME NEW r \in Actor, AddFilesystemProvider(r)
      PROVE  \/ providers' = providers
             \/ \E id \in ProvId : /\ actors[r].kind \in {"enroll", "establish"}
                                   /\ Enrolled(id, actors[r].root)
  <2>1. actors[r].kind = "enroll"
    BY <1>1 DEF AddFilesystemProvider
  <2> QED
    BY <1>1, <2>1, AddEnrolls
<1>2. ASSUME NEW r \in Actor, EstablishProviderRoot(r)
      PROVE  \/ providers' = providers
             \/ \E id \in ProvId : /\ actors[r].kind \in {"enroll", "establish"}
                                   /\ Enrolled(id, actors[r].root)
  <2>1. actors[r].kind = "establish"
    BY <1>2 DEF EstablishProviderRoot
  <2>2. DOMAIN providers \subseteq ProvId
    BY DEF TypeOK
  <2> QED
    BY <1>2, <2>1, <2>2, EstablishEnrolls
<1>3. ASSUME NEW r \in Actor, NEW s \in Locator, NEW conf \in Grades,
             ProbeForEnrollment(r, s, conf)
      PROVE  providers' = providers
  BY <1>3 DEF ProbeForEnrollment
<1>4. ASSUME NEW r \in Actor, NEW p \in ProvId, LoadForScan(r, p) PROVE providers' = providers
  BY <1>4 DEF LoadForScan
<1>5. ASSUME NEW r \in Actor, NEW conf \in Grades, ProbeForScan(r, conf)
      PROVE  providers' = providers
  BY <1>5 DEF ProbeForScan
<1>6. MoveDirectories \/ Restart \/ UNCHANGED vars => providers' = providers
  BY DEF MoveDirectories, Restart, vars
<1> QED
  BY <1>1, <1>2, <1>3, <1>4, <1>5, <1>6 DEF Next

(* Overlap is symmetric. *)
LEMMA OverlapSymmetric ==
    \A a, b : RootPathsOverlap(a, b) <=> RootPathsOverlap(b, a)
BY DEF RootPathsOverlap

LEMMA RootsInductive == TypeOK /\ RootsDisjoint /\ [Next]_vars => RootsDisjoint'
<1> SUFFICES ASSUME TypeOK, RootsDisjoint, [Next]_vars PROVE RootsDisjoint'
  OBVIOUS
<1>1. CASE providers' = providers
  BY <1>1 DEF RootsDisjoint, Legacy
<1>2. ASSUME NEW id \in ProvId, NEW root, Enrolled(id, root) PROVE RootsDisjoint'
  <2> SUFFICES ASSUME NEW p \in DOMAIN providers', NEW q \in DOMAIN providers', p # q,
                      ~ (Legacy(p)' /\ Legacy(q)')
               PROVE  ~ RootPathsOverlap(providers'[p].path, providers'[q].path)
    BY DEF RootsDisjoint
  <2>1. \A x \in DOMAIN providers \ {id} : ~ RootPathsOverlap(providers[x].path, root.path)
    BY <1>2 DEF Enrolled, Accepted, RootConflict
  <2>2. /\ p = id => providers'[p] = root
        /\ p # id => p \in DOMAIN providers /\ providers'[p] = providers[p]
        /\ q = id => providers'[q] = root
        /\ q # id => q \in DOMAIN providers /\ providers'[q] = providers[q]
    BY <1>2 DEF Enrolled
  <2>3. CASE p = id
    BY <2>1, <2>2, <2>3, OverlapSymmetric
  <2>4. CASE q = id
    BY <2>1, <2>2, <2>4
  <2>5. CASE p # id /\ q # id
    BY <2>2, <2>5 DEF RootsDisjoint, Legacy
  <2> QED
    BY <2>3, <2>4, <2>5
<1> QED
  BY <1>1, <1>2, ProviderSteps

(* No enrollment, and no establishment of a migrated provider's identity,  *)
(* makes the roots of two providers overlap in the catalogue's sense,      *)
(* however many requests race and however stale their probes are.          *)
THEOREM RootsCorrect == Spec => []RootsDisjoint
<1>1. Init => RootsDisjoint
  BY DEF Init, RootsDisjoint, Legacy, LegacyRoot
<1>2. TypeOK /\ RootsDisjoint /\ [Next]_vars => RootsDisjoint'
  BY RootsInductive
<1>3. Init => TypeOK
  BY TypeInit
<1>4. TypeOK /\ [Next]_vars => TypeOK'
  BY TypeInductive
<1> QED
  BY <1>1, <1>2, <1>3, <1>4, PTL DEF Spec

-----------------------------------------------------------------------------
(* One provider per directory.                                             *)

(* Reliable evidence names one directory, and always by the fallback       *)
(* identity: that is why a provider known by both identities cannot be     *)
(* enrolled again by a probe that got the fallback alone.  A version 1     *)
(* record names none.                                                      *)
Telling(root) ==
    /\ root.conf \in {"strong", "fallback"} =>
          root.fallback \in Dir /\ Directory(root) = root.fallback
    /\ root.conf = "legacy-unverified" => root.phys = NoId /\ root.fallback = NoId

AllTelling ==
    /\ \A p \in DOMAIN providers : Telling(providers[p])
    /\ \A r \in Actor :
          actors[r].kind \in {"enroll", "establish"} => Telling(actors[r].root)

LEMMA EvidenceTelling ==
    ASSUME TypeOK, NEW s \in Locator, where[s] # Missing, NEW conf \in Grades
    PROVE  Telling(Evidence(s, conf))
<1>1. where[s].dir \in Dir
  BY DEF TypeOK, Place
<1>2. NoId \notin Dir /\ conf # "legacy-unverified"
  BY EnrollmentAssumption
<1> QED
  BY <1>1, <1>2 DEF Telling, Evidence, Directory

(* What a step does to the evidence that the requests hold. *)
LEMMA HeldEvidence ==
    ASSUME TypeOK, [Next]_vars, NEW q \in Actor, actors'[q].kind \in {"enroll", "establish"}
    PROVE  \/ actors'[q] = actors[q]
           \/ \E s \in Locator, conf \in Grades :
                where[s] # Missing /\ actors'[q].root = Evidence(s, conf)
<1>1. ASSUME NEW r \in Actor, actors' = [actors EXCEPT ![r] = Idle]
      PROVE  actors'[q] = actors[q]
  BY <1>1 DEF TypeOK, Idle
<1>2. ASSUME NEW r \in Actor, NEW s \in Locator, NEW conf \in Grades,
             ProbeForEnrollment(r, s, conf)
      PROVE  \/ actors'[q] = actors[q]
             \/ where[s] # Missing /\ actors'[q].root = Evidence(s, conf)
  BY <1>2 DEF ProbeForEnrollment, TypeOK
<1>3. ASSUME NEW r \in Actor, AddFilesystemProvider(r) PROVE actors'[q] = actors[q]
  BY <1>1, <1>3 DEF AddFilesystemProvider
<1>4. ASSUME NEW r \in Actor, NEW p \in ProvId, LoadForScan(r, p) PROVE actors'[q] = actors[q]
  BY <1>4 DEF LoadForScan, TypeOK
<1>5. ASSUME NEW r \in Actor, NEW conf \in Grades, ProbeForScan(r, conf)
      PROVE  \/ actors'[q] = actors[q]
             \/ \E s \in Locator : where[s] # Missing /\ actors'[q].root = Evidence(s, conf)
  <2> DEFINE s == actors[r].known.submitted
  <2>1. s \in Locator
    BY <1>5, RequestFields DEF ProbeForScan, Root
  <2>2. CASE where[s] # Missing /\ actors[r].known.conf = "legacy-unverified"
    BY <1>5, <2>1, <2>2 DEF ProbeForScan, TypeOK
  <2>3. CASE ~ (where[s] # Missing /\ actors[r].known.conf = "legacy-unverified")
    BY <1>1, <1>5, <2>3 DEF ProbeForScan, Release
  <2> QED
    BY <2>2, <2>3
<1>6. ASSUME NEW r \in Actor, EstablishProviderRoot(r) PROVE actors'[q] = actors[q]
  BY <1>1, <1>6 DEF EstablishProviderRoot, Release
<1>7. MoveDirectories \/ UNCHANGED vars => actors'[q] = actors[q]
  BY DEF MoveDirectories, vars
<1>8. ~ Restart
  BY DEF Restart, Idle
<1> QED
  BY <1>2, <1>3, <1>4, <1>5, <1>6, <1>7, <1>8 DEF Next

LEMMA TellingInductive == TypeOK /\ AllTelling /\ [Next]_vars => AllTelling'
<1> SUFFICES ASSUME TypeOK, AllTelling, [Next]_vars PROVE AllTelling'
  OBVIOUS
<1>1. ASSUME NEW p \in DOMAIN providers' PROVE Telling(providers'[p])
  <2>1. CASE providers' = providers
    BY <2>1 DEF AllTelling
  <2>2. ASSUME NEW id \in ProvId, NEW r \in Actor,
               actors[r].kind \in {"enroll", "establish"}, Enrolled(id, actors[r].root)
        PROVE  Telling(providers'[p])
    BY <2>2 DEF AllTelling, Enrolled
  <2> QED
    BY <2>1, <2>2, ProviderSteps
<1>2. ASSUME NEW q \in Actor, actors'[q].kind \in {"enroll", "establish"}
      PROVE  Telling(actors'[q].root)
  <2>1. CASE actors'[q] = actors[q]
    BY <1>2, <2>1 DEF AllTelling
  <2>2. CASE \E s \in Locator, conf \in Grades :
                where[s] # Missing /\ actors'[q].root = Evidence(s, conf)
    BY <2>2, EvidenceTelling
  <2> QED
    BY <1>2, <2>1, <2>2, HeldEvidence
<1> QED
  BY <1>1, <1>2 DEF AllTelling, Telling, Directory

LEMMA TellingInit == Init => AllTelling /\ OneProviderPerDirectory
<1> SUFFICES ASSUME Init PROVE AllTelling /\ OneProviderPerDirectory
  OBVIOUS
<1>1. \A p \in DOMAIN providers :
         /\ providers[p].conf = "legacy-unverified"
         /\ providers[p].phys = NoId /\ providers[p].fallback = NoId
  BY DEF Init, LegacyRoot
<1>2. \A r \in Actor : actors[r].kind = "idle"
  BY DEF Init, Idle
<1> QED
  BY <1>1, <1>2 DEF AllTelling, Telling, OneProviderPerDirectory

LEMMA DirectoriesInductive ==
    TypeOK /\ AllTelling /\ OneProviderPerDirectory /\ [Next]_vars => OneProviderPerDirectory'
<1> SUFFICES ASSUME TypeOK, AllTelling, OneProviderPerDirectory, [Next]_vars
             PROVE  OneProviderPerDirectory'
  OBVIOUS
<1>1. CASE providers' = providers
  BY <1>1 DEF OneProviderPerDirectory, Directory
<1>2. ASSUME NEW id \in ProvId, NEW r \in Actor,
             actors[r].kind \in {"enroll", "establish"}, Enrolled(id, actors[r].root)
      PROVE  OneProviderPerDirectory'
  <2> DEFINE root == actors[r].root
  <2> SUFFICES ASSUME NEW p \in DOMAIN providers', NEW q \in DOMAIN providers', p # q,
                      {providers'[p].conf, providers'[q].conf} \subseteq {"strong", "fallback"}
               PROVE  Directory(providers'[p]) # Directory(providers'[q])
    BY DEF OneProviderPerDirectory, Directory
  <2>1. Telling(root)
    BY <1>2 DEF AllTelling
  <2>2. ASSUME NEW x \in DOMAIN providers \ {id},
               providers[x].conf \in {"strong", "fallback"}, root.conf \in {"strong", "fallback"}
        PROVE  Directory(providers[x]) # Directory(root)
    <3>1. ~ SamePhysicalRoot(providers[x], root)
      BY <1>2, <2>2 DEF Enrolled, Accepted, RootConflict
    <3>2. providers[x].fallback # NoId => providers[x].fallback # root.fallback
      BY <2>2, <3>1 DEF SamePhysicalRoot, Unreliable
    <3>3. /\ providers[x].fallback \in Dir /\ Directory(providers[x]) = providers[x].fallback
          /\ Directory(root) = root.fallback
      BY <2>1, <2>2 DEF AllTelling, Telling
    <3> QED
      BY <3>2, <3>3, EnrollmentAssumption
  <2>3. /\ p = id => providers'[p] = root
        /\ p # id => p \in DOMAIN providers /\ providers'[p] = providers[p]
        /\ q = id => providers'[q] = root
        /\ q # id => q \in DOMAIN providers /\ providers'[q] = providers[q]
    BY <1>2 DEF Enrolled
  <2>4. CASE p = id \/ q = id
    BY <2>2, <2>3, <2>4
  <2>5. CASE p # id /\ q # id
    BY <2>3, <2>5 DEF OneProviderPerDirectory
  <2> QED
    BY <2>4, <2>5
<1> QED
  BY <1>1, <1>2, ProviderSteps

(* No directory whose identity could be read is ever enrolled twice,       *)
(* whatever mixture of identities the probes of the racing requests got.   *)
THEOREM DirectoriesCorrect == Spec => []OneProviderPerDirectory
<1>1. Init => AllTelling /\ OneProviderPerDirectory
  BY TellingInit
<1>2. TypeOK /\ AllTelling /\ [Next]_vars => AllTelling'
  BY TellingInductive
<1>3. TypeOK /\ AllTelling /\ OneProviderPerDirectory /\ [Next]_vars => OneProviderPerDirectory'
  BY DirectoriesInductive
<1>4. Init => TypeOK
  BY TypeInit
<1>5. TypeOK /\ [Next]_vars => TypeOK'
  BY TypeInductive
<1> QED
  BY <1>1, <1>2, <1>3, <1>4, <1>5, PTL DEF Spec

-----------------------------------------------------------------------------
(* Enrolment and verification agree.                                       *)

(* Weak evidence is told apart by its path, the rest by the directory.     *)
LEMMA AcceptedTold ==
    TypeOK /\ AllTelling /\ RootsDisjoint /\ OneProviderPerDirectory => AcceptedForOne
<1> SUFFICES ASSUME TypeOK, AllTelling, RootsDisjoint, OneProviderPerDirectory,
                    NEW s \in Locator, NEW conf \in Grades,
                    NEW p \in DOMAIN providers, NEW q \in DOMAIN providers,
                    where[s] # Missing,
                    Verify(providers[p], Evidence(s, conf)),
                    Verify(providers[q], Evidence(s, conf))
             PROVE  p = q
  BY DEF AcceptedForOne
<1> DEFINE e == Evidence(s, conf)
<1>1. e.conf = conf /\ e.path = where[s].path
      /\ e.phys \in {NoId, where[s].dir} /\ e.fallback = where[s].dir
  BY DEF Evidence
<1>2. CASE conf = "weak"
  <2>1. /\ providers[p].conf = "weak" /\ providers[q].conf = "weak"
        /\ providers[p].path = providers[q].path
    BY <1>1, <1>2 DEF Verify
  <2> QED
    BY <2>1 DEF RootsDisjoint, RootPathsOverlap, Legacy
<1>3. CASE conf # "weak"
  <2>1. ASSUME NEW x \in DOMAIN providers, Verify(providers[x], e)
        PROVE  /\ providers[x].conf \in {"strong", "fallback"}
               /\ Directory(providers[x]) = where[s].dir
    <3>1. /\ providers[x].conf # "weak"
          /\ \/ providers[x].phys # NoId /\ providers[x].phys = e.phys
             \/ providers[x].fallback # NoId /\ providers[x].fallback = e.fallback
      BY <1>1, <1>3, <2>1 DEF Verify
    <3>2. providers[x].conf # "legacy-unverified"
      BY <3>1 DEF AllTelling, Telling
    <3>3. providers[x].conf \in {"strong", "fallback"}
      BY <3>1, <3>2, EnrollmentAssumption DEF TypeOK, Root
    <3>4. /\ providers[x].fallback \in Dir /\ NoId \notin Dir
          /\ Directory(providers[x]) = providers[x].fallback
      BY <3>3, EnrollmentAssumption DEF AllTelling, Telling
    <3> QED
      BY <1>1, <3>1, <3>3, <3>4 DEF Directory
  <2> QED
    BY <2>1 DEF OneProviderPerDirectory
<1> QED
  BY <1>2, <1>3

(* What a probe finds is verified as the root of at most one provider, for *)
(* any mixture of evidence, any number of racing requests and any changes  *)
(* of the file system between their steps.                                 *)
THEOREM AcceptedCorrect == Spec => []AcceptedForOne
<1>1. Init => AllTelling
  BY TellingInit
<1>2. TypeOK /\ AllTelling /\ [Next]_vars => AllTelling'
  BY TellingInductive
<1>3. TypeOK /\ AllTelling /\ RootsDisjoint /\ OneProviderPerDirectory => AcceptedForOne
  BY AcceptedTold
<1>4. Spec => []TypeOK
  BY EnrollmentTypeCorrect
<1>5. Spec => []RootsDisjoint
  BY RootsCorrect
<1>6. Spec => []OneProviderPerDirectory
  BY DirectoriesCorrect
<1> QED
  BY <1>1, <1>2, <1>3, <1>4, <1>5, <1>6, PTL DEF Spec
=============================================================================
