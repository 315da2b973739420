---------------------------- MODULE RootIdentity ----------------------------
(***************************************************************************)
(* Evidence about a provider's root directory and the comparisons made on  *)
(* it (internal/catalog/store.go and internal/rootidentity).               *)
(*                                                                         *)
(* A path is the sequence of its components: <<>> is the POSIX root "/",   *)
(* <<"C:">> the root of a Windows volume.  Two equal components are two    *)
(* names the code compares as equal (strings.EqualFold on Windows).        *)
(***************************************************************************)
EXTENDS Naturals, Sequences

CONSTANT NoId   \* an empty physical or fallback identity

IsPrefixPath(a, b) == Len(a) <= Len(b) /\ SubSeq(b, 1, Len(a)) = a

(* b is below a, as the code sees it: b continues a with a separator.  The *)
(* text of the POSIX root is the separator itself, which trimRootSeparator *)
(* does not trim, so nothing is below it.                                  *)
StrictlyBelow(a, b) == a # <<>> /\ Len(a) < Len(b) /\ IsPrefixPath(a, b)

(* Mutant: only the parent of an enrolled root is found. *)
RootPathsOverlap_ParentOnly(a, b) == a = b \/ StrictlyBelow(b, a)

RootPathsOverlap(a, b) == a = b \/ StrictlyBelow(a, b) \/ StrictlyBelow(b, a)

(* What overlap is: one path is an ancestor of the other, or equal to it. *)
TreesOverlap(a, b) == IsPrefixPath(a, b) \/ IsPrefixPath(b, a)

(* Root evidence is a record [submitted, path, phys, fallback, conf]. *)
Unreliable == {"weak", "legacy-unverified"}

SamePhysicalRoot(a, b) ==
    /\ a.conf \notin Unreliable /\ b.conf \notin Unreliable
    /\ \/ a.phys # NoId /\ a.phys = b.phys
       \/ a.fallback # NoId /\ a.fallback = b.fallback

(* validateProviderRoot, for evidence whose paths are present. *)
ValidProviderRoot(root) ==
    /\ root.conf \in {"strong", "fallback", "weak"}
    /\ root.conf # "weak" => root.phys # NoId \/ root.fallback # NoId

(* Mutant: weak evidence is treated like any other. *)
Verify_WeakToo(enrolled, current) ==
    \/ enrolled.phys # NoId /\ current.phys = enrolled.phys
    \/ enrolled.fallback # NoId /\ current.fallback = enrolled.fallback

(* Verify: the current evidence is of the enrolled root.  The path counts  *)
(* for weak evidence only, the identities for the rest only.               *)
Verify(enrolled, current) ==
    IF enrolled.conf = "weak" \/ current.conf = "weak"
    THEN enrolled.conf = "weak" /\ current.conf = "weak" /\ enrolled.path = current.path
    ELSE \/ enrolled.phys # NoId /\ current.phys = enrolled.phys
         \/ enrolled.fallback # NoId /\ current.fallback = enrolled.fallback
=============================================================================
