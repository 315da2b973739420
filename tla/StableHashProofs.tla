--------------------------- MODULE StableHashProofs ----------------------------
(* What HashStable accepts was at the path, and only changes are retried,  *)
(* for any files, contents, number of changes and number of attempts.      *)
EXTENDS StableHash, SequenceTheorems, TLAPS

Inside == {"before", "read", "after", "stat", "identity"}

(* The files now, as versions. *)
Present(f) == Version(f, data[f], mtime[f])

(* What would be returned: the bytes read with the second evidence. *)
Candidate == [digest |-> read, mtime |-> after.mtime, ident |-> after.ident]

(* A time given to a file while HashStable runs is given to no other file. *)
FreshTimes ==
    \A f, g \in File : f # g /\ mtime[f] = mtime[g] => mtime[f] <= FirstTime

(* Whatever is at the path has been seen there. *)
PathSeen == pc \in Inside /\ path # NoFile => Present(path) \in seen

(* The open file is as it was seen, or has a time of its own. *)
HandleKnown == pc \in Inside => Present(handle) \in seen \/ mtime[handle] > FirstTime

(* As long as the time of the open file is that of the first evidence, the *)
(* bytes read are its bytes.                                               *)
ReadSoFar ==
    /\ pc = "before" => read = <<>>
    /\ pc \in {"read", "after"} =>
         /\ before.mtime <= mtime[handle]
         /\ before.mtime = mtime[handle] =>
              /\ Len(read) <= Len(data[handle])
              /\ \A i \in 1..Len(read) : read[i] = data[handle][i]
    /\ pc = "after" => (before.mtime = mtime[handle] => read = data[handle])

(* After the second evidence: the candidate was seen, or only the open     *)
(* file can have its time, and then it is the candidate.                   *)
CandidateKnown ==
    pc \in {"stat", "identity"} /\ SameEvidence(before, after) =>
        \/ Candidate \in seen
        \/ /\ after.ident = Identity(handle)
           /\ \A g \in File : mtime[g] = after.mtime => g = handle /\ data[g] = read

(* Once the path has shown the same time, the candidate was seen. *)
CandidateSeen ==
    pc = "identity" /\ SameEvidence(before, after) /\ pathInfo.mtime = after.mtime
        => Candidate \in seen

HashInv ==
    /\ TypeOK /\ FirstTime <= now
    /\ FreshTimes /\ PathSeen /\ HandleKnown /\ ReadSoFar
    /\ CandidateKnown /\ CandidateSeen
    /\ ObservedWasAtPath

-----------------------------------------------------------------------------
(* Bounded sequences are sequences. *)
LEMMA BoundedSeqs ==
    ASSUME NEW S, NEW n \in Nat, NEW s \in BoundedSeq(S, n)
    PROVE  s \in Seq(S)
<1>1. PICK k \in 0..n : s \in [1..k -> S]
  BY DEF BoundedSeq
<1> QED
  BY <1>1, IsASeq

LEMMA HashTypeInit == Init => TypeOK
<1> SUFFICES ASSUME Init PROVE TypeOK
  OBVIOUS
<1> USE HashAssumption DEF Init
<1>1. data \in [File -> Seq(Byte)]
  BY BoundedSeqs
<1>2. {before, after, pathInfo} \subseteq [size : Nat, mtime : 0..now, ident : File \cup {NoIdent}]
  BY DEF NoEvidence
<1> QED
  BY <1>1, <1>2 DEF TypeOK, Pending

LEMMA EvidenceType ==
    ASSUME TypeOK, NEW f \in File
    PROVE  Evidence(f) \in [size : Nat, mtime : 0..now, ident : File \cup {NoIdent}]
BY LenProperties DEF TypeOK, Evidence, Identity

LEMMA HashTypeInductive == TypeOK /\ [Next]_vars => TypeOK'
<1> SUFFICES ASSUME TypeOK, [Next]_vars PROVE TypeOK'
  OBVIOUS
<1> USE HashAssumption DEF Goto, Return, worldVars, attemptVars
<1>e. NoEvidence \in [size : Nat, mtime : 0..now, ident : File \cup {NoIdent}]
  BY DEF NoEvidence, TypeOK
<1>1. CASE Open
  BY <1>1 DEF Open, TypeOK
<1>2. CASE Before
  <2>1. handle \in File
    BY <1>2 DEF Before, TypeOK
  <2> QED
    BY <1>2, <2>1, EvidenceType DEF Before, TypeOK
<1>3. CASE Read
  <2>1. handle \in File
    BY <1>3 DEF Read, TypeOK
  <2>2. CASE Len(read) < Len(data[handle])
    <3>1. data[handle][Len(read) + 1] \in Byte
      BY <2>1, <2>2, LenProperties, ElementOfSeq DEF TypeOK
    <3>2. read \in Seq(Byte) /\ read' = Append(read, data[handle][Len(read) + 1])
      BY <1>3, <2>2 DEF Read, TypeOK
    <3>3. read' \in Seq(Byte)
      BY <3>1, <3>2, AppendProperties
    <3> QED
      BY <1>3, <2>2, <3>3 DEF Read, TypeOK
  <2>3. CASE ~ (Len(read) < Len(data[handle]))
    BY <1>3, <2>3 DEF Read, TypeOK
  <2> QED
    BY <2>2, <2>3
<1>4. CASE After
  <2>1. handle \in File
    BY <1>4 DEF After, TypeOK
  <2> QED
    BY <1>4, <2>1, EvidenceType DEF After, TypeOK
<1>5. CASE Stat
  <2>1. path \in File
    BY <1>5 DEF Stat, TypeOK
  <2> QED
    BY <1>5, <2>1, EvidenceType DEF Stat, TypeOK
<1>6. CASE Decide
  <2>1. /\ handle' = NoFile /\ read' = <<>> /\ UNCHANGED <<worldVars, seen, calm>>
        /\ before' = NoEvidence /\ after' = NoEvidence /\ pathInfo' = NoEvidence
    BY <1>6 DEF Decide, Close
  <2>2. Judge(Unchanged(IF native THEN path ELSE NoIdent)) /\ pc # "done"
    BY <1>6 DEF Decide
  <2>3. attempt' \in 0..MaxRetries
    <3>1. attempt' = attempt \/ (attempt < MaxRetries /\ attempt' = attempt + 1)
      BY <2>2 DEF Judge
    <3> QED
      BY <3>1 DEF TypeOK
  <2>4. /\ pc' \in {"open", "done"}
        /\ result'.kind \in {"pending", "observed", "unstable", "hash"}
        /\ result'.kind = "pending" <=> pc' # "done"
    <3>1. CASE Unchanged(IF native THEN path ELSE NoIdent)
      BY <2>2, <3>1 DEF Judge
    <3>2. CASE ~ Unchanged(IF native THEN path ELSE NoIdent) /\ attempt < MaxRetries
      BY <2>2, <3>2 DEF Judge, TypeOK
    <3>3. CASE ~ Unchanged(IF native THEN path ELSE NoIdent) /\ ~ (attempt < MaxRetries)
      BY <2>2, <3>3 DEF Judge
    <3> QED
      BY <3>1, <3>2, <3>3
  <2>5. native' \in BOOLEAN /\ calm' \in BOOLEAN
    BY <2>1 DEF TypeOK
  <2>6. UNCHANGED <<path, data, mtime, now, changes>>
    BY <2>1
  <2>7. handle' = NoFile /\ read' \in Seq(Byte) /\ read' = <<>>
    BY <2>1
  <2>8. {before, after, pathInfo}' \subseteq [size : Nat, mtime : 0..now, ident : File \cup {NoIdent}]'
    BY <1>e, <2>1, <2>6
  <2> QED
    BY <2>3, <2>4, <2>5, <2>6, <2>7, <2>8 DEF TypeOK
<1>7. CASE Fail
  <2>1. /\ handle' = NoFile /\ read' = <<>> /\ UNCHANGED <<worldVars, attempt, seen, calm>>
        /\ before' = NoEvidence /\ after' = NoEvidence /\ pathInfo' = NoEvidence
        /\ pc' = "done" /\ result'.kind = "hash"
    BY <1>7 DEF Fail, Close
  <2>2. /\ native' \in BOOLEAN /\ calm' \in BOOLEAN
    BY <2>1 DEF TypeOK
  <2>3. UNCHANGED <<path, data, mtime, now, changes, attempt>>
    BY <2>1
  <2>4. read' \in Seq(Byte)
    BY <2>1
  <2>5. {before, after, pathInfo}' \subseteq [size : Nat, mtime : 0..now, ident : File \cup {NoIdent}]'
    BY <1>e, <2>1, <2>3
  <2>6. handle' = NoFile /\ pc' = "done" /\ result'.kind = "hash"
    BY <2>1
  <2> QED
    BY <2>2, <2>3, <2>4, <2>5, <2>6 DEF TypeOK
<1>8. ASSUME NEW f \in File, NEW d \in BoundedSeq(Byte, MaxLen), Write(f, d) PROVE TypeOK'
  <2>1. d \in Seq(Byte)
    BY BoundedSeqs
  <2>2. mtime' \in [File -> 0..now'] /\ now' = now + 1
    BY <1>8 DEF Write, TypeOK
  <2>3. {before, after, pathInfo}' \subseteq [size : Nat, mtime : 0..now, ident : File \cup {NoIdent}]'
    BY <1>8, <2>2 DEF Write, TypeOK
  <2>4. calm' \in BOOLEAN /\ native' \in BOOLEAN
    BY <1>8 DEF Write, TypeOK
  <2>5. changes' \in 0..MaxChanges
    BY <1>8 DEF Write, Change, TypeOK
  <2>6. data' \in [File -> Seq(Byte)]
    BY <1>8, <2>1 DEF Write, TypeOK
  <2>7. UNCHANGED <<path, pc, attempt, handle, read, result>>
    BY <1>8 DEF Write
  <2>8. now' \in Nat
    BY <2>2 DEF TypeOK
  <2> QED
    BY <2>2, <2>3, <2>4, <2>5, <2>6, <2>7, <2>8 DEF TypeOK
<1>9. ASSUME NEW f \in File, Replace(f) PROVE TypeOK'
  <2>1. changes' \in 0..MaxChanges
    BY <1>9 DEF Replace, Change, TypeOK
  <2>2. path' \in File /\ calm' = FALSE
        /\ UNCHANGED <<native, data, mtime, now, pc, attempt, attemptVars, result>>
    BY <1>9 DEF Replace
  <2> QED
    BY <2>1, <2>2 DEF TypeOK
<1>10. CASE Remove
  <2>1. changes' \in 0..MaxChanges
    BY <1>10 DEF Remove, Change, TypeOK
  <2>2. path' = NoFile /\ calm' = FALSE
        /\ UNCHANGED <<native, data, mtime, now, pc, attempt, attemptVars, result>>
    BY <1>10 DEF Remove
  <2> QED
    BY <2>1, <2>2 DEF TypeOK
<1>11. CASE UNCHANGED vars
  BY <1>11 DEF vars, TypeOK
<1> QED
  BY <1>1, <1>2, <1>3, <1>4, <1>5, <1>6, <1>7, <1>8, <1>9, <1>10, <1>11 DEF Next, HashStep

(* The state keeps its type, for any files and any number of changes. *)
THEOREM HashTypeCorrect == Spec => []TypeOK
BY HashTypeInit, HashTypeInductive, PTL DEF Spec

-----------------------------------------------------------------------------
(* The invariant, system call by system call.                              *)

LEMMA HashInvInit == Init => HashInv
<1> SUFFICES ASSUME Init PROVE HashInv
  OBVIOUS
<1>1. TypeOK
  BY HashTypeInit
<1>2. FirstTime <= now
  BY HashAssumption DEF Init
<1>3. FreshTimes
  BY HashAssumption DEF Init, FreshTimes
<1>4. pc = "open" /\ result.kind = "pending"
  BY DEF Init, Pending
<1> QED
  BY <1>1, <1>2, <1>3, <1>4 DEF HashInv, PathSeen, HandleKnown, ReadSoFar, CandidateKnown,
     CandidateSeen, ObservedWasAtPath, Inside

(* While HashStable runs it has returned nothing. *)
LEMMA NothingReturned == TypeOK /\ pc # "done" => result.kind # "observed"
BY DEF TypeOK

LEMMA OpenInv == HashInv /\ TypeOK' /\ Open => HashInv'
<1> SUFFICES ASSUME HashInv, TypeOK', Open PROVE HashInv'
  OBVIOUS
<1>1. /\ pc' = "before" /\ path # NoFile /\ handle' = path
      /\ UNCHANGED <<native, path, data, mtime, now, read, result>>
      /\ seen' = {Version(path, data[path], mtime[path])} /\ pc = "open"
  BY DEF Open, worldVars, Goto
<1>2. FirstTime <= now' /\ FreshTimes'
  BY <1>1 DEF HashInv, FreshTimes
<1>3. PathSeen' /\ HandleKnown'
  BY <1>1 DEF PathSeen, HandleKnown, Present, Version, Identity
<1>4. ReadSoFar' /\ CandidateKnown' /\ CandidateSeen'
  BY <1>1 DEF HashInv, TypeOK, ReadSoFar, CandidateKnown, CandidateSeen
<1>5. ObservedWasAtPath'
  BY <1>1, NothingReturned DEF HashInv, ObservedWasAtPath
<1> QED
  BY <1>2, <1>3, <1>4, <1>5 DEF HashInv

LEMMA BeforeInv == HashInv /\ TypeOK' /\ Before => HashInv'
<1> SUFFICES ASSUME HashInv, TypeOK', Before PROVE HashInv'
  OBVIOUS
<1>1. /\ pc' = "read" /\ pc = "before" /\ before' = Evidence(handle)
      /\ UNCHANGED <<native, path, data, mtime, now, handle, read, result, seen>>
  BY DEF Before, worldVars, Goto
<1>2. handle \in File /\ read = <<>>
  BY <1>1 DEF HashInv, TypeOK, ReadSoFar
<1>3. FirstTime <= now' /\ FreshTimes' /\ PathSeen' /\ HandleKnown'
  BY <1>1 DEF HashInv, FreshTimes, PathSeen, HandleKnown, Present, Version, Identity, Inside
<1>4. ReadSoFar'
  <2>1. Len(data[handle]) \in Nat /\ mtime[handle] \in Nat
    BY <1>2, LenProperties DEF HashInv, TypeOK
  <2> QED
    BY <1>1, <1>2, <2>1, EmptySeq DEF ReadSoFar, Evidence
<1>5. CandidateKnown' /\ CandidateSeen'
  BY <1>1 DEF CandidateKnown, CandidateSeen
<1>6. ObservedWasAtPath'
  BY <1>1, NothingReturned DEF HashInv, ObservedWasAtPath
<1> QED
  BY <1>3, <1>4, <1>5, <1>6 DEF HashInv

LEMMA ReadInv == HashInv /\ TypeOK' /\ Read => HashInv'
<1> SUFFICES ASSUME HashInv, TypeOK', Read PROVE HashInv'
  OBVIOUS
<1>1. /\ pc = "read" /\ pc' \in {"read", "after"}
      /\ UNCHANGED <<native, path, data, mtime, now, handle, before, result, seen>>
  BY DEF Read, worldVars, Goto
<1>2. /\ handle \in File /\ data[handle] \in Seq(Byte) /\ read \in Seq(Byte)
      /\ Len(data[handle]) \in Nat /\ Len(read) \in Nat
  BY <1>1, LenProperties DEF HashInv, TypeOK
<1>3. FirstTime <= now' /\ FreshTimes' /\ PathSeen' /\ HandleKnown'
  BY <1>1 DEF HashInv, FreshTimes, PathSeen, HandleKnown, Present, Version, Identity, Inside
<1>4. /\ before.mtime <= mtime[handle]
      /\ before.mtime = mtime[handle] =>
            /\ Len(read) <= Len(data[handle])
            /\ \A i \in 1..Len(read) : read[i] = data[handle][i]
  BY <1>1 DEF HashInv, ReadSoFar
<1>5. ReadSoFar'
  <2>1. CASE Len(read) < Len(data[handle])
    <3>1. read' = Append(read, data[handle][Len(read) + 1]) /\ pc' = "read"
      BY <1>1, <2>1 DEF Read
    <3>2. data[handle][Len(read) + 1] \in Byte
      BY <1>2, <2>1, ElementOfSeq
    <3>3. /\ Len(read') = Len(read) + 1
          /\ \A i \in 1..Len(read) : read'[i] = read[i]
          /\ read'[Len(read) + 1] = data[handle][Len(read) + 1]
      BY <1>2, <3>1, <3>2, AppendProperties
    <3> QED
      BY <1>1, <1>2, <1>4, <2>1, <3>1, <3>3 DEF ReadSoFar
  <2>2. CASE ~ (Len(read) < Len(data[handle]))
    <3>1. read' = read /\ pc' = "after"
      BY <1>1, <2>2 DEF Read, Goto
    <3>2. ASSUME before.mtime = mtime[handle] PROVE read = data[handle]
      BY <1>2, <1>4, <2>2, <3>2, SeqEqual
    <3> QED
      BY <1>1, <1>4, <3>1, <3>2 DEF ReadSoFar
  <2> QED
    BY <2>1, <2>2
<1>6. CandidateKnown' /\ CandidateSeen'
  BY <1>1 DEF CandidateKnown, CandidateSeen
<1>7. ObservedWasAtPath'
  BY <1>1, NothingReturned DEF HashInv, ObservedWasAtPath
<1> QED
  BY <1>3, <1>5, <1>6, <1>7 DEF HashInv

LEMMA AfterInv == HashInv /\ TypeOK' /\ After => HashInv'
<1> SUFFICES ASSUME HashInv, TypeOK', After PROVE HashInv'
  OBVIOUS
<1>1. /\ pc = "after" /\ pc' = "stat" /\ after' = Evidence(handle)
      /\ UNCHANGED <<native, path, data, mtime, now, handle, before, read, result, seen>>
  BY DEF After, worldVars, Goto
<1>2. handle \in File /\ mtime \in [File -> 0..now] /\ now \in Nat
  BY <1>1 DEF HashInv, TypeOK
<1>3. FirstTime <= now' /\ FreshTimes' /\ PathSeen' /\ HandleKnown'
  BY <1>1 DEF HashInv, FreshTimes, PathSeen, HandleKnown, Present, Version, Identity, Inside
<1>4. ReadSoFar' /\ CandidateSeen'
  BY <1>1 DEF ReadSoFar, CandidateSeen
<1>5. ASSUME SameEvidence(before, after') PROVE CandidateKnown'
  <2>1. after'.mtime = mtime[handle] /\ after'.ident = Identity(handle)
    BY <1>1 DEF Evidence
  <2>2. read = data[handle]
    BY <1>1, <1>5, <2>1 DEF HashInv, ReadSoFar, SameEvidence
  <2>3. CASE Present(handle) \in seen
    <3>1. Candidate' = Present(handle)
      BY <1>1, <2>1, <2>2 DEF Candidate, Present, Version
    <3> QED
      BY <1>1, <2>3, <3>1 DEF CandidateKnown
  <2>4. CASE Present(handle) \notin seen
    <3>1. mtime[handle] > FirstTime
      BY <1>1, <2>4 DEF HashInv, HandleKnown, Inside
    <3>2. \A g \in File : mtime[g] = mtime[handle] => g = handle
      BY <1>2, <3>1, HashAssumption DEF HashInv, FreshTimes
    <3> QED
      BY <1>1, <2>1, <2>2, <3>2 DEF CandidateKnown, Identity
  <2> QED
    BY <2>3, <2>4
<1>6. CandidateKnown'
  BY <1>1, <1>5 DEF CandidateKnown, SameEvidence
<1>7. ObservedWasAtPath'
  BY <1>1, NothingReturned DEF HashInv, ObservedWasAtPath
<1> QED
  BY <1>3, <1>4, <1>6, <1>7 DEF HashInv

LEMMA StatInv == HashInv /\ TypeOK' /\ Stat => HashInv'
<1> SUFFICES ASSUME HashInv, TypeOK', Stat PROVE HashInv'
  OBVIOUS
<1>1. /\ pc = "stat" /\ pc' = "identity" /\ path # NoFile /\ pathInfo' = Evidence(path)
      /\ UNCHANGED <<native, path, data, mtime, now, handle, before, after, read, result, seen>>
  BY DEF Stat, worldVars, Goto
<1>2. path \in File
  BY <1>1 DEF HashInv, TypeOK
<1>3. FirstTime <= now' /\ FreshTimes' /\ PathSeen' /\ HandleKnown'
  BY <1>1 DEF HashInv, FreshTimes, PathSeen, HandleKnown, Present, Version, Identity, Inside
<1>4. ReadSoFar'
  BY <1>1 DEF ReadSoFar
<1>5. CandidateKnown'
  BY <1>1 DEF HashInv, CandidateKnown, Candidate, SameEvidence, Identity
<1>6. ASSUME SameEvidence(before, after), mtime[path] = after.mtime PROVE Candidate \in seen
  <2>1. CASE Candidate \notin seen
    <3>1. after.ident = Identity(handle) /\ path = handle /\ data[path] = read
      BY <1>1, <1>2, <1>6, <2>1 DEF HashInv, CandidateKnown
    <3>2. Candidate = Present(path)
      BY <1>6, <3>1 DEF Candidate, Present, Version
    <3> QED
      BY <1>1, <3>2 DEF HashInv, PathSeen, Inside
  <2> QED
    BY <2>1
<1>7. CandidateSeen'
  <2>1. pathInfo'.mtime = mtime[path]
    BY <1>1 DEF Evidence
  <2>2. Candidate' = Candidate /\ (SameEvidence(before, after)' <=> SameEvidence(before, after))
    BY <1>1 DEF Candidate, SameEvidence
  <2> QED
    BY <1>1, <1>6, <2>1, <2>2 DEF CandidateSeen
<1>8. ObservedWasAtPath'
  BY <1>1, NothingReturned DEF HashInv, ObservedWasAtPath
<1> QED
  BY <1>3, <1>4, <1>5, <1>7, <1>8 DEF HashInv

LEMMA DecideInv == HashInv /\ TypeOK' /\ Decide => HashInv'
<1> SUFFICES ASSUME HashInv, TypeOK', Decide PROVE HashInv'
  OBVIOUS
<1> DEFINE ident == IF native THEN path ELSE NoIdent
<1>1. /\ pc = "identity" /\ Judge(Unchanged(ident))
      /\ UNCHANGED <<native, path, data, mtime, now, seen>>
  BY DEF Decide, worldVars
<1>2. pc' \in {"open", "done"}
  BY <1>1 DEF Judge, Return, Goto
<1>3. FirstTime <= now' /\ FreshTimes' /\ PathSeen' /\ HandleKnown'
  BY <1>1, <1>2 DEF HashInv, FreshTimes, PathSeen, HandleKnown, Inside
<1>4. ReadSoFar' /\ CandidateKnown' /\ CandidateSeen'
  BY <1>2 DEF ReadSoFar, CandidateKnown, CandidateSeen
<1>5. ObservedWasAtPath'
  <2>1. CASE Unchanged(ident)
    <3>1. Candidate \in seen
      BY <1>1, <2>1 DEF HashInv, CandidateSeen, Unchanged
    <3>2. result' = [kind |-> "observed", digest |-> read, mtime |-> after.mtime,
                     ident |-> after.ident]
      BY <1>1, <2>1 DEF Judge, Return
    <3> QED
      BY <1>1, <3>1, <3>2 DEF Candidate, ObservedWasAtPath
  <2>2. CASE ~ Unchanged(ident)
    <3>1. result'.kind # "observed"
      BY <1>1, <2>2, NothingReturned DEF Judge, Return, Goto, HashInv
    <3> QED
      BY <3>1 DEF ObservedWasAtPath
  <2> QED
    BY <2>1, <2>2
<1> QED
  BY <1>3, <1>4, <1>5 DEF HashInv

LEMMA FailInv == HashInv /\ TypeOK' /\ Fail => HashInv'
<1> SUFFICES ASSUME HashInv, TypeOK', Fail PROVE HashInv'
  OBVIOUS
<1>1. /\ pc' = "done" /\ result'.kind = "hash"
      /\ UNCHANGED <<native, path, data, mtime, now, seen>>
  BY DEF Fail, Return, worldVars
<1>2. FirstTime <= now' /\ FreshTimes' /\ PathSeen' /\ HandleKnown'
  BY <1>1 DEF HashInv, FreshTimes, PathSeen, HandleKnown, Inside
<1>3. ReadSoFar' /\ CandidateKnown' /\ CandidateSeen'
  BY <1>1 DEF ReadSoFar, CandidateKnown, CandidateSeen
<1>4. ObservedWasAtPath'
  BY <1>1 DEF ObservedWasAtPath
<1> QED
  BY <1>2, <1>3, <1>4 DEF HashInv

LEMMA WriteInv ==
    ASSUME HashInv, TypeOK', NEW f \in File, NEW d \in BoundedSeq(Byte, MaxLen), Write(f, d)
    PROVE  HashInv'
<1>1. /\ now' = now + 1 /\ pc # "done" /\ seen \subseteq seen'
      /\ data' = [data EXCEPT ![f] = d] /\ mtime' = [mtime EXCEPT ![f] = now + 1]
      /\ UNCHANGED <<native, path, pc, handle, before, after, pathInfo, read, result>>
  BY DEF Write, Change, attemptVars
<1>2. /\ now \in Nat /\ mtime \in [File -> 0..now] /\ DOMAIN data = File
      /\ before.mtime \in 0..now /\ after.mtime \in 0..now /\ FirstTime \in Nat
      /\ FirstTime <= now
  BY HashAssumption DEF HashInv, TypeOK
<1>3. /\ mtime'[f] = now + 1 /\ data'[f] = d
      /\ \A g \in File : g # f => mtime'[g] = mtime[g] /\ data'[g] = data[g]
  BY <1>1, <1>2
<1>4. \A g \in File : mtime[g] \in 0..now
  BY <1>2
<1>5. FirstTime <= now'
  BY <1>1, <1>2
<1>6. FreshTimes'
  <2> SUFFICES ASSUME NEW g \in File, NEW h \in File, g # h, mtime'[g] = mtime'[h]
               PROVE  mtime'[g] <= FirstTime
    BY DEF FreshTimes
  <2>1. g # f /\ h # f
    BY <1>2, <1>3, <1>4
  <2> QED
    BY <1>3, <2>1 DEF HashInv, FreshTimes
<1>7. PathSeen'
  <2> SUFFICES ASSUME pc \in Inside, path # NoFile PROVE Present(path)' \in seen'
    BY <1>1 DEF PathSeen
  <2>0. path \in File
    BY DEF HashInv, TypeOK
  <2>1. CASE f = path
    BY <1>1, <1>3, <2>1 DEF Write, Present, Version, Identity
  <2>2. CASE f # path
    <3>1. Present(path) \in seen
      BY DEF HashInv, PathSeen
    <3>2. Present(path)' = Present(path)
      BY <1>1, <1>3, <2>0, <2>2 DEF Present, Version, Identity
    <3> QED
      BY <1>1, <3>1, <3>2
  <2> QED
    BY <2>1, <2>2
<1>8. ASSUME pc \in Inside PROVE handle \in File
  BY <1>8 DEF HashInv, TypeOK, Inside
<1>9. HandleKnown'
  <2> SUFFICES ASSUME pc \in Inside PROVE (Present(handle) \in seen \/ mtime[handle] > FirstTime)'
    BY <1>1 DEF HandleKnown
  <2>1. CASE f = handle
    BY <1>1, <1>2, <1>3, <2>1
  <2>2. CASE f # handle
    <3>1. Present(handle)' = Present(handle) /\ mtime'[handle'] = mtime[handle]
      BY <1>1, <1>3, <1>8, <2>2 DEF Present, Version, Identity
    <3> QED
      BY <1>1, <3>1 DEF HashInv, HandleKnown
  <2> QED
    BY <2>1, <2>2
<1>10. ReadSoFar'
  <2>1. CASE pc \in {"read", "after"}
    <3>1. CASE f = handle
      <4>1. before.mtime < mtime'[handle]
        BY <1>2, <1>3, <3>1
      <4> QED
        BY <1>1, <1>2, <1>3, <2>1, <3>1, <4>1 DEF ReadSoFar
    <3>2. CASE f # handle
      <4>1. mtime'[handle] = mtime[handle] /\ data'[handle] = data[handle]
        BY <1>3, <1>8, <2>1, <3>2 DEF Inside
      <4> QED
        BY <1>1, <4>1 DEF HashInv, ReadSoFar
    <3> QED
      BY <3>1, <3>2
  <2>2. CASE pc \notin {"read", "after"}
    BY <1>1, <2>2 DEF HashInv, ReadSoFar
  <2> QED
    BY <2>1, <2>2
<1>11. CandidateKnown'
  <2> SUFFICES ASSUME pc \in {"stat", "identity"}, SameEvidence(before, after),
                      Candidate \notin seen
               PROVE  /\ after.ident = Identity(handle)
                      /\ \A g \in File : mtime'[g] = after.mtime => g = handle /\ data'[g] = read
    BY <1>1 DEF CandidateKnown, Candidate, SameEvidence, Identity
  <2>1. /\ after.ident = Identity(handle)
        /\ \A g \in File : mtime[g] = after.mtime => g = handle /\ data[g] = read
    BY DEF HashInv, CandidateKnown
  <2>2. mtime'[f] # after.mtime
    BY <1>2, <1>3
  <2> QED
    BY <1>3, <2>1, <2>2
<1>12. CandidateSeen'
  BY <1>1 DEF HashInv, CandidateSeen, Candidate, SameEvidence
<1>13. ObservedWasAtPath'
  BY <1>1, NothingReturned DEF HashInv, ObservedWasAtPath
<1> QED
  BY <1>5, <1>6, <1>7, <1>9, <1>10, <1>11, <1>12, <1>13 DEF HashInv

(* Replacing or removing what is at the path touches no file. *)
LEMMA PathInv ==
    ASSUME HashInv, TypeOK', pc # "done", seen \subseteq seen',
           UNCHANGED <<native, data, mtime, now, pc, handle, before, after, pathInfo, read, result>>,
           path' # NoFile => Present(path)' \in seen'
    PROVE  HashInv'
<1>1. FirstTime <= now' /\ FreshTimes' /\ ReadSoFar'
  BY DEF HashInv, FreshTimes, ReadSoFar
<1>2. PathSeen'
  BY DEF PathSeen
<1>3. HandleKnown'
  BY DEF HashInv, HandleKnown, Present, Version, Identity
<1>4. CandidateKnown' /\ CandidateSeen'
  BY DEF HashInv, CandidateKnown, CandidateSeen, Candidate, SameEvidence, Identity
<1>5. ObservedWasAtPath'
  BY NothingReturned DEF HashInv, ObservedWasAtPath
<1> QED
  BY <1>1, <1>2, <1>3, <1>4, <1>5 DEF HashInv

LEMMA HashInductive == HashInv /\ TypeOK' /\ [Next]_vars => HashInv'
<1> SUFFICES ASSUME HashInv, TypeOK', [Next]_vars PROVE HashInv'
  OBVIOUS
<1>1. CASE HashStep
  BY <1>1, OpenInv, BeforeInv, ReadInv, AfterInv, StatInv, DecideInv, FailInv DEF HashStep
<1>2. ASSUME NEW f \in File, NEW d \in BoundedSeq(Byte, MaxLen), Write(f, d) PROVE HashInv'
  BY <1>2, WriteInv
<1>3. ASSUME NEW f \in File, Replace(f) PROVE HashInv'
  <2>1. /\ pc # "done" /\ path' = f /\ seen' = seen \cup {Version(f, data[f], mtime[f])}
        /\ UNCHANGED <<native, data, mtime, now, pc, handle, before, after, pathInfo, read, result>>
    BY <1>3 DEF Replace, Change, attemptVars
  <2>2. Present(path)' \in seen'
    BY <2>1 DEF Present, Version, Identity
  <2> QED
    BY <2>1, <2>2, PathInv
<1>4. CASE Remove
  <2>1. /\ pc # "done" /\ path' = NoFile /\ seen' = seen
        /\ UNCHANGED <<native, data, mtime, now, pc, handle, before, after, pathInfo, read, result>>
    BY <1>4 DEF Remove, Change, attemptVars
  <2> QED
    BY <2>1, PathInv
<1>5. CASE UNCHANGED vars
  BY <1>5 DEF vars, worldVars, attemptVars, HashInv, TypeOK, FreshTimes, PathSeen, HandleKnown,
     ReadSoFar, CandidateKnown, CandidateSeen, ObservedWasAtPath, Present, Version, Identity,
     Candidate, SameEvidence
<1> QED
  BY <1>1, <1>2, <1>3, <1>4, <1>5 DEF Next

(* What is observed was at the path: for any files, contents, number of   *)
(* changes and number of attempts, no mixture of versions is accepted.     *)
THEOREM ObservedCorrect == Spec => []ObservedWasAtPath
<1>1. Init => HashInv
  BY HashInvInit
<1>2. HashInv /\ [Next]_vars => HashInv'
  <2> SUFFICES ASSUME HashInv, [Next]_vars PROVE HashInv'
    OBVIOUS
  <2>1. TypeOK'
    BY HashTypeInductive DEF HashInv
  <2> QED
    BY <2>1, HashInductive
<1>3. HashInv => ObservedWasAtPath
  BY DEF HashInv
<1> QED
  BY <1>1, <1>2, <1>3, PTL DEF Spec

-----------------------------------------------------------------------------
(* An attempt during which nothing changes succeeds.                       *)

(* While nothing has changed, the open file is the one at the path, and    *)
(* everything seen of it is what it is now.                                *)
CalmInv ==
    calm /\ pc \in Inside =>
        /\ path = handle
        /\ pc = "before" => read = <<>>
        /\ pc \in {"before", "read"} => Len(read) <= Len(data[handle])
        /\ pc \in {"after", "stat", "identity"} => Len(read) = Len(data[handle])
        /\ pc # "before" => before = Evidence(handle)
        /\ pc \in {"stat", "identity"} => after = Evidence(handle)
        /\ pc = "identity" => pathInfo = Evidence(path)

LEMMA CalmHash == TypeOK /\ CalmInv /\ HashStep => CalmInv'
<1> SUFFICES ASSUME TypeOK, CalmInv, HashStep, calm', pc' \in Inside
             PROVE  /\ path' = handle'
                    /\ pc' = "before" => read' = <<>>
                    /\ pc' \in {"before", "read"} => Len(read') <= Len(data'[handle'])
                    /\ pc' \in {"after", "stat", "identity"} => Len(read') = Len(data'[handle'])
                    /\ pc' # "before" => before' = Evidence(handle)'
                    /\ pc' \in {"stat", "identity"} => after' = Evidence(handle)'
                    /\ pc' = "identity" => pathInfo' = Evidence(path)'
  BY DEF CalmInv
<1> USE DEF worldVars, Goto, Inside, CalmInv, Evidence, Identity
<1>1. CASE Open
  <2>1. /\ pc' = "before" /\ read' = <<>> /\ path' = handle' /\ handle' \in File
        /\ data' = data
    BY <1>1 DEF Open, TypeOK
  <2>2. Len(data[handle']) \in Nat
    BY <2>1, LenProperties DEF TypeOK
  <2> QED
    BY <2>1, <2>2, EmptySeq
<1>2. CASE Before
  BY <1>2 DEF Before
<1>3. CASE Read
  <2>1. handle \in File /\ Len(data[handle]) \in Nat /\ Len(read) \in Nat /\ calm /\ pc = "read"
    BY <1>3, LenProperties DEF Read, TypeOK
  <2>2. CASE Len(read) < Len(data[handle])
    <3>1. /\ read' = Append(read, data[handle][Len(read) + 1]) /\ pc' = "read"
          /\ UNCHANGED <<native, path, data, mtime, handle, before>>
      BY <1>3, <2>2 DEF Read
    <3>2. Len(read') = Len(read) + 1
      <4>1. data[handle][Len(read) + 1] \in Byte
        BY <2>1, <2>2, ElementOfSeq DEF TypeOK
      <4> QED
        BY <3>1, <4>1, AppendProperties DEF TypeOK
    <3> QED
      BY <2>1, <2>2, <3>1, <3>2
  <2>3. CASE ~ (Len(read) < Len(data[handle]))
    BY <1>3, <2>1, <2>3 DEF Read
  <2> QED
    BY <2>2, <2>3
<1>4. CASE After
  BY <1>4 DEF After
<1>5. CASE Stat
  BY <1>5 DEF Stat
<1>6. CASE Decide
  BY <1>6 DEF Decide, Judge, Return
<1>7. CASE Fail
  BY <1>7 DEF Fail, Return
<1> QED
  BY <1>1, <1>2, <1>3, <1>4, <1>5, <1>6, <1>7 DEF HashStep

LEMMA CalmInductive == TypeOK /\ CalmInv /\ [Next]_vars => CalmInv'
<1> SUFFICES ASSUME TypeOK, CalmInv, [Next]_vars PROVE CalmInv'
  OBVIOUS
<1>1. CASE HashStep
  BY <1>1, CalmHash
<1>2. ASSUME NEW f \in File, NEW d \in BoundedSeq(Byte, MaxLen), Write(f, d) PROVE CalmInv'
  <2>1. /\ calm' => calm /\ f # path /\ f # handle
        /\ UNCHANGED <<native, path, pc, handle, before, after, pathInfo, read>>
        /\ data' = [data EXCEPT ![f] = d] /\ mtime' = [mtime EXCEPT ![f] = now + 1]
    BY <1>2 DEF Write, attemptVars
  <2>2. ASSUME f # handle, pc \in Inside
        PROVE  data'[handle] = data[handle] /\ mtime'[handle] = mtime[handle]
    BY <2>1, <2>2 DEF TypeOK, Inside
  <2> QED
    BY <2>1, <2>2 DEF CalmInv, Evidence, Identity, Inside
<1>3. ASSUME NEW f \in File, Replace(f) PROVE CalmInv'
  BY <1>3 DEF Replace, CalmInv
<1>4. CASE Remove
  BY <1>4 DEF Remove, CalmInv
<1>5. CASE UNCHANGED vars
  BY <1>5 DEF vars, worldVars, attemptVars, CalmInv, Evidence, Identity
<1> QED
  BY <1>1, <1>2, <1>3, <1>4, <1>5 DEF Next

LEMMA CalmAttemptSucceeds ==
    TypeOK /\ CalmInv /\ [Next]_vars
        => [(attempt' # attempt \/ (result' # result /\ result'.kind = "unstable")) => ~ calm]_vars
<1> SUFFICES ASSUME TypeOK, CalmInv, Next, calm,
                    attempt' # attempt \/ (result' # result /\ result'.kind = "unstable")
             PROVE  FALSE
  OBVIOUS
<1>1. CASE Decide
  <2>1. handle \in File /\ pc = "identity"
    BY <1>1 DEF Decide, TypeOK
  <2>2. /\ path = handle /\ Len(read) = Len(data[handle]) /\ before = Evidence(handle)
        /\ after = Evidence(handle) /\ pathInfo = Evidence(handle)
    BY <2>1 DEF CalmInv, Inside
  <2>3. Unchanged(IF native THEN path ELSE NoIdent)
    BY <2>1, <2>2 DEF Unchanged, SameEvidence, Evidence, Identity
  <2> QED
    BY <1>1, <2>3 DEF Decide, Judge, Return
<1>2. CASE Open \/ Before \/ Read \/ After \/ Stat
  <2>1. UNCHANGED <<attempt, result>>
    BY <1>2 DEF Open, Before, Read, After, Stat
  <2> QED
    BY <2>1
<1>3. CASE Fail
  BY <1>3 DEF Fail, Return
<1>4. ASSUME NEW f \in File, NEW d \in BoundedSeq(Byte, MaxLen), Write(f, d) PROVE FALSE
  BY <1>4 DEF Write
<1>5. ASSUME NEW f \in File, Replace(f) PROVE FALSE
  BY <1>5 DEF Replace
<1>6. CASE Remove
  BY <1>6 DEF Remove
<1> QED
  BY <1>1, <1>2, <1>3, <1>4, <1>5, <1>6 DEF Next, HashStep

(* A file that is left alone is neither read again nor called unstable.    *)
THEOREM CalmFilesAreNotRetried == Spec => RetriesOnlyChanges
<1>1. Init => CalmInv
  BY DEF Init, CalmInv, Inside
<1>2. TypeOK /\ CalmInv /\ [Next]_vars
        => [(attempt' # attempt \/ (result' # result /\ result'.kind = "unstable")) => ~ calm]_vars
  BY CalmAttemptSucceeds
<1> QED
  BY <1>1, <1>2, HashTypeInit, HashTypeInductive, CalmInductive, PTL DEF Spec, RetriesOnlyChanges
=============================================================================
