----------------------------- MODULE StableHash ------------------------------
(***************************************************************************)
(* HashStable (internal/observer/hash.go) on one path while other programs *)
(* use the file system: a file is written in place, grows, is truncated,   *)
(* is replaced by another one or removed, between any two system calls.    *)
(* One action per system call; Scanner.Scan (scan.go) gives the result the *)
(* form of an observation or of an issue.                                  *)
(*                                                                         *)
(* A file is known by its number, and so is its native identity where the  *)
(* system has one.  A digest is modelled by the bytes it was computed of.  *)
(* Every change of a file gives it a modification time it never had: what  *)
(* a coarse clock or a restored time can hide is outside this model.       *)
(***************************************************************************)
EXTENDS Naturals, Sequences

CONSTANTS
    File,        \* files that may stand at the path
    Byte,        \* what one read returns
    MaxLen,      \* bound on the length of a file
    FirstTime,   \* files have, and may share, times up to this one at first
    MaxRetries,  \* Scanner.HashRetries
    MaxChanges,  \* bound on the changes other programs make
    NoFile,      \* nothing is at the path
    NoIdent      \* the empty native identity

ASSUME HashAssumption ==
    /\ MaxLen \in Nat /\ FirstTime \in Nat /\ MaxRetries \in Nat /\ MaxChanges \in Nat
    /\ NoFile \notin File /\ NoIdent \notin File

VARIABLES
    native,    \* does the system have native identities?
    path,      \* the file at the path
    data,      \* the bytes of each file
    mtime,     \* the modification time of each file
    now,       \* the latest modification time given
    changes,   \* changes made by other programs (bounded by MaxChanges)
    pc,        \* the next call of hashOnce, or "done"
    attempt,   \* attempts made before this one
    handle,    \* the open file
    before, after, pathInfo,  \* the evidence taken so far
    read,      \* the bytes hashed so far
    result,    \* what HashStable returned
    seen,      \* history: the versions that were at the path in this attempt
    calm       \* history: nothing has changed in this attempt

worldVars   == <<native, path, data, mtime, now, changes>>
attemptVars == <<handle, before, after, pathInfo, read>>
vars == <<worldVars, pc, attempt, attemptVars, result, seen, calm>>

Identity(f) == IF native THEN f ELSE NoIdent

(* evidenceForOpenFile, and os.Stat with nativeIdentityForPath. *)
Evidence(f) == [size |-> Len(data[f]), mtime |-> mtime[f], ident |-> Identity(f)]

NoEvidence == [size |-> 0, mtime |-> 0, ident |-> NoIdent]

(* What file f is with the bytes d and the modification time t. *)
Version(f, d, t) == [digest |-> d, mtime |-> t, ident |-> Identity(f)]

Pending == [kind |-> "pending"]

BoundedSeq(S, n) == UNION {[1..k -> S] : k \in 0..n}

Init ==
    /\ native \in BOOLEAN
    /\ path \in File \cup {NoFile}
    /\ data \in [File -> BoundedSeq(Byte, MaxLen)]
    /\ mtime \in [File -> 0..FirstTime]
    /\ now = FirstTime
    /\ changes = 0
    /\ pc = "open" /\ attempt = 0
    /\ handle = NoFile
    /\ before = NoEvidence /\ after = NoEvidence /\ pathInfo = NoEvidence
    /\ read = <<>>
    /\ result = Pending
    /\ seen = {}
    /\ calm = TRUE

-----------------------------------------------------------------------------
Goto(step) == pc' = step

Return(r) == pc' = "done" /\ result' = r

(* Mutant: the hash goes on with the next attempt. *)
Close_KeepsHash ==
    /\ handle' = NoFile /\ read' = read
    /\ before' = NoEvidence /\ after' = NoEvidence /\ pathInfo' = NoEvidence

(* hashOnce returns: the file is closed, and its variables are gone. *)
Close ==
    /\ handle' = NoFile /\ read' = <<>>
    /\ before' = NoEvidence /\ after' = NoEvidence /\ pathInfo' = NoEvidence

(* os.Open. *)
Open ==
    /\ pc = "open" /\ path # NoFile
    /\ Goto("before")
    /\ handle' = path
    /\ seen' = {Version(path, data[path], mtime[path])} /\ calm' = TRUE
    /\ UNCHANGED <<worldVars, attempt, before, after, pathInfo, read, result>>

(* The first evidence, from the open file. *)
Before ==
    /\ pc = "before"
    /\ before' = Evidence(handle)
    /\ Goto("read")
    /\ UNCHANGED <<worldVars, attempt, handle, after, pathInfo, read, result, seen, calm>>

(* io.CopyBuffer: one read after the other, up to what is now the end. *)
Read ==
    /\ pc = "read"
    /\ IF Len(read) < Len(data[handle])
       THEN read' = Append(read, data[handle][Len(read) + 1]) /\ UNCHANGED pc
       ELSE Goto("after") /\ UNCHANGED read
    /\ UNCHANGED <<worldVars, attempt, handle, before, after, pathInfo, result, seen, calm>>

(* The second evidence, from the open file. *)
After ==
    /\ pc = "after"
    /\ after' = Evidence(handle)
    /\ Goto("stat")
    /\ UNCHANGED <<worldVars, attempt, handle, before, pathInfo, read, result, seen, calm>>

(* os.Stat of the path. *)
Stat ==
    /\ pc = "stat" /\ path # NoFile
    /\ pathInfo' = Evidence(path)
    /\ Goto("identity")
    /\ UNCHANGED <<worldVars, attempt, handle, before, after, read, result, seen, calm>>

SameEvidence(a, b) ==
    /\ a.size = b.size /\ a.mtime = b.mtime
    /\ a.ident = NoIdent \/ b.ident = NoIdent \/ a.ident = b.ident

(* Mutant: the path is not looked at again. *)
Unchanged_HandleOnly(pathIdentity) ==
    Len(read) = before.size /\ SameEvidence(before, after)

(* hashOnce's comparison. *)
Unchanged(pathIdentity) ==
    /\ Len(read) = before.size
    /\ SameEvidence(before, after)
    /\ pathInfo.size = after.size /\ pathInfo.mtime = after.mtime
    /\ before.ident = NoIdent \/ pathIdentity = before.ident

(* What HashStable makes of the comparison: a third change is "unstable". *)
Judge(unchanged) ==
    IF unchanged
    THEN /\ Return([kind |-> "observed", digest |-> read,
                    mtime |-> after.mtime, ident |-> after.ident])
         /\ UNCHANGED attempt
    ELSE IF attempt < MaxRetries
    THEN Goto("open") /\ attempt' = attempt + 1 /\ UNCHANGED result
    ELSE Return([kind |-> "unstable"]) /\ UNCHANGED attempt

(* nativeIdentityForPath, which opens the path where identities exist. *)
Decide ==
    /\ pc = "identity" /\ (native => path # NoFile)
    /\ Judge(Unchanged(IF native THEN path ELSE NoIdent))
    /\ Close
    /\ UNCHANGED <<worldVars, seen, calm>>

(* Mutant: every error is tried again. *)
Fail_Retried ==
    /\ pc # "done"
    /\ Goto("open") /\ Close
    /\ UNCHANGED <<worldVars, attempt, result, seen, calm>>

(* A call fails: nothing is at the path, or the file cannot be read.  Only *)
(* a change is tried again.                                                *)
Fail ==
    /\ pc # "done"
    /\ Return([kind |-> "hash"]) /\ Close
    /\ UNCHANGED <<worldVars, attempt, seen, calm>>

HashStep == Open \/ Before \/ Read \/ After \/ Stat \/ Decide \/ Fail

-----------------------------------------------------------------------------
(* Other programs.  What they do after HashStable has returned does not    *)
(* matter here.                                                            *)
Change == pc # "done" /\ changes < MaxChanges /\ changes' = changes + 1

(* One write puts any bytes into any file, whether or not the path names   *)
(* it: in place, at its end, or by truncation.                             *)
Write(f, d) ==
    /\ Change
    /\ now' = now + 1
    /\ data' = [data EXCEPT ![f] = d]
    /\ mtime' = [mtime EXCEPT ![f] = now + 1]
    /\ seen' = IF f = path THEN seen \cup {Version(f, d, now + 1)} ELSE seen
    /\ calm' = (calm /\ f \notin {path, handle})
    /\ UNCHANGED <<native, path, pc, attempt, attemptVars, result>>

(* Another file takes the place of the one at the path. *)
Replace(f) ==
    /\ Change
    /\ f # path /\ path' = f
    /\ seen' = seen \cup {Version(f, data[f], mtime[f])}
    /\ calm' = FALSE
    /\ UNCHANGED <<native, data, mtime, now, pc, attempt, attemptVars, result>>

Remove ==
    /\ Change
    /\ path # NoFile /\ path' = NoFile
    /\ calm' = FALSE
    /\ UNCHANGED <<native, data, mtime, now, pc, attempt, attemptVars, result, seen>>

Next ==
    \/ HashStep
    \/ \E f \in File, d \in BoundedSeq(Byte, MaxLen) : Write(f, d)
    \/ \E f \in File : Replace(f)
    \/ Remove

Spec == Init /\ [][Next]_vars

(* The goroutine of the scan goes on; nothing is assumed of the others.    *)
FairSpec == Spec /\ WF_vars(HashStep)

-----------------------------------------------------------------------------
(* Properties.                                                             *)

(* The state has its type. *)
TypeOK ==
    /\ native \in BOOLEAN
    /\ path \in File \cup {NoFile}
    /\ data \in [File -> Seq(Byte)]
    /\ mtime \in [File -> 0..now]
    /\ now \in Nat /\ changes \in 0..MaxChanges
    /\ pc \in {"open", "before", "read", "after", "stat", "identity", "done"}
    /\ attempt \in 0..MaxRetries
    /\ handle \in File \cup {NoFile}
    /\ handle = NoFile <=> pc \in {"open", "done"}
    /\ {before, after, pathInfo} \subseteq
           [size : Nat, mtime : 0..now, ident : File \cup {NoIdent}]
    /\ read \in Seq(Byte) /\ (pc = "open" => read = <<>>)
    /\ result.kind \in {"pending", "observed", "unstable", "hash"}
    /\ result.kind = "pending" <=> pc # "done"
    /\ calm \in BOOLEAN

(* What is observed is true: the digest, the time and the identity that    *)
(* HashStable returns together belonged to one file that was at the path   *)
(* during the attempt, whatever was written, swapped or removed between    *)
(* its calls.  No mixture of two versions is ever accepted.                *)
ObservedWasAtPath ==
    result.kind = "observed" =>
        [digest |-> result.digest, mtime |-> result.mtime, ident |-> result.ident] \in seen

(* An attempt is given up as unstable only if the file or the path changed *)
(* during that attempt: a file left alone is not called unstable, and is   *)
(* not read again, because of what happened before.                        *)
RetriesOnlyChanges ==
    [][(attempt' # attempt \/ (result' # result /\ result'.kind = "unstable")) => ~ calm]_vars

(* Hashing ends once the others leave the files alone. *)
HashEnds == <>(pc = "done")
=============================================================================
