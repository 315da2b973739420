------------------------------ MODULE Matching ------------------------------
(***************************************************************************)
(* How a scan's observations are matched to the appearances the catalogue  *)
(* already knows (internal/catalog/store.go, matchObservations).           *)
(*                                                                         *)
(* An existing appearance is a record with at least the fields locator,    *)
(* content, ident, availability and observedAt; an observation has the     *)
(* fields content and ident.  A content stands for a pair (digest, length).*)
(* A locator is a natural number: its rank in the lexical order in which   *)
(* filepath.WalkDir visits the files, which is the order of the            *)
(* observations.  `own` maps the ids of the provider's appearances to their *)
(* records, `obs` maps the observed locators to their observations.        *)
(***************************************************************************)
EXTENDS Integers, FiniteSets

CONSTANTS
    New,        \* the assignment of an observation that matches nothing
    NoIdent,    \* an empty NativeIdentity
    Window      \* how old the evidence for a probable rename may be (7 days)

ASSUME WindowAssumption == Window \in Nat

-----------------------------------------------------------------------------
(* The element of S if S has exactly one, None otherwise: the shape of the *)
(* `len(...) == 1` tests of the code.                                      *)
Sole(S, None) == IF \E x \in S : S = {x} THEN CHOOSE x \in S : TRUE ELSE None

(* Mutant: the digest is not compared. *)
SameContent_LengthOnly(old, o) == TRUE

(* sameContent: equal digest and equal length. *)
SameContent(old, o) == old.content = o.content

(* Mutant: only available appearances are candidates. *)
UniqueCandidate_AvailableOnly(own, candidates, used, o) ==
    Sole({a \in candidates \ used :
             SameContent(own[a], o) /\ own[a].availability = "available"}, New)

(* uniqueCandidate: among the candidates of the observed content, the one  *)
(* available appearance, or the one unavailable appearance when none is    *)
(* available; ambiguity matches nothing.                                   *)
UniqueCandidate(own, candidates, used, o) ==
    LET fit         == {a \in candidates \ used : SameContent(own[a], o)}
        available   == {a \in fit : own[a].availability = "available"}
    IN  IF available # {} THEN Sole(available, New) ELSE Sole(fit, New)

(* The two lookups of the first pass: native identity, then locator. *)
ByIdentity(own, used, o) ==
    UniqueCandidate(own, {a \in DOMAIN own : o.ident # NoIdent /\ own[a].ident = o.ident},
                    used, o)

ByLocator(own, used, l, o) ==
    UniqueCandidate(own, {a \in DOMAIN own : own[a].locator = l}, used, o)

(* Mutant: no lookup by locator. *)
FirstChoice_IdentityOnly(own, used, l, o) == ByIdentity(own, used, o)

FirstChoice(own, used, l, o) ==
    IF ByIdentity(own, used, o) # New THEN ByIdentity(own, used, o)
                                      ELSE ByLocator(own, used, l, o)

(* Mutant: usedOld is never set. *)
UsedBefore_Never(first, l) == {}

(* The appearances taken by the observations before locator l. *)
UsedBefore(first, l) == {first[k] : k \in {j \in DOMAIN first : j < l}} \ {New}

(* The first pass, in walk order.  Each choice depends on the earlier ones *)
(* only, so the set has one element; it is a set rather than a recursive   *)
(* function so that proofs can use its defining equation.                  *)
FirstPass(own, obs) ==
    {first \in [DOMAIN obs -> DOMAIN own \cup {New}] :
        \A l \in DOMAIN obs :
            first[l] = FirstChoice(own, UsedBefore(first, l), l, obs[l])}

-----------------------------------------------------------------------------
(* Mutant: appearances matched by the first pass are candidates again. *)
UnusedOld_EvenUsed(own, first, c, at) ==
    {a \in DOMAIN own :
        own[a].content = c /\ own[a].observedAt <= at /\ at - own[a].observedAt <= Window}

(* The second pass: a probable rename needs exactly one unmatched          *)
(* observation and exactly one unused appearance of a content, the latter  *)
(* last observed within the window and not in the future.                  *)
UnusedOld(own, first, c, at) ==
    {a \in DOMAIN own :
        /\ \A l \in DOMAIN first : first[l] # a
        /\ own[a].content = c
        /\ own[a].observedAt <= at
        /\ at - own[a].observedAt <= Window}

UnmatchedNew(obs, first, c) ==
    {l \in DOMAIN obs : first[l] = New /\ obs[l].content = c}

ProbableOld(own, obs, first, l, at) ==
    IF \E k \in DOMAIN obs : UnmatchedNew(obs, first, obs[l].content) = {k}
    THEN Sole(UnusedOld(own, first, obs[l].content, at), New)
    ELSE New

(* matchObservations: the appearance of each observation, or New. *)
MatchObservations(own, obs, first, at) ==
    [l \in DOMAIN obs |->
        IF first[l] = New THEN ProbableOld(own, obs, first, l, at) ELSE first[l]]

(* The continuity label of an assignment. *)
Continuity(own, first, match, l) ==
    IF match[l] = New THEN "discovered"
    ELSE IF first[l] = New THEN "probable-rename"
    ELSE IF own[match[l]].locator = l THEN "same-locator"
    ELSE "confirmed-rename"
=============================================================================
