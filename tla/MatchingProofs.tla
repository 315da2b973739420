--------------------------- MODULE MatchingProofs ---------------------------
(* What matchObservations guarantees for every set of appearances and      *)
(* observations.                                                           *)
EXTENDS Matching, WellFoundedInduction, TLAPS

(* Sole returns the one element of a singleton. *)
LEMMA SoleIsTheElement ==
    ASSUME NEW S, NEW None, Sole(S, None) # None
    PROVE  S = {Sole(S, None)}
<1>1. PICK x \in S : S = {x}
  BY DEF Sole
<1>2. Sole(S, None) = CHOOSE y \in S : TRUE
  BY <1>1 DEF Sole
<1>3. (CHOOSE y \in S : TRUE) \in S
  BY <1>1
<1> QED
  BY <1>1, <1>2, <1>3

(* uniqueCandidate returns an unused candidate with the observed content. *)
LEMMA UniqueCandidateFits ==
    ASSUME NEW own, NEW candidates, NEW used, NEW o,
           UniqueCandidate(own, candidates, used, o) # New
    PROVE  LET u == UniqueCandidate(own, candidates, used, o)
           IN  u \in candidates \ used /\ own[u].content = o.content
<1> DEFINE fit == {a \in candidates \ used : SameContent(own[a], o)}
           available == {a \in fit : own[a].availability = "available"}
           u == UniqueCandidate(own, candidates, used, o)
<1>1. u = IF available # {} THEN Sole(available, New) ELSE Sole(fit, New)
  BY DEF UniqueCandidate
<1>2. u \in fit
  <2>1. CASE available # {}
    <3>1. available = {u}
      BY <1>1, <2>1, SoleIsTheElement
    <3> QED
      BY <3>1
  <2>2. CASE available = {}
    <3>1. fit = {u}
      BY <1>1, <2>2, SoleIsTheElement
    <3> QED
      BY <3>1
  <2> QED
    BY <2>1, <2>2
<1> QED
  BY <1>2 DEF SameContent

(* A choice of the first pass is a known, unused appearance with the       *)
(* observed content.                                                       *)
LEMMA FirstChoiceFits ==
    ASSUME NEW own, NEW used, NEW l, NEW o, FirstChoice(own, used, l, o) # New
    PROVE  LET u == FirstChoice(own, used, l, o)
           IN  u \in DOMAIN own \ used /\ own[u].content = o.content
<1>1. CASE ByIdentity(own, used, o) # New
  BY <1>1, UniqueCandidateFits DEF FirstChoice, ByIdentity
<1>2. CASE ByIdentity(own, used, o) = New
  BY <1>2, UniqueCandidateFits DEF FirstChoice, ByLocator
<1> QED
  BY <1>1, <1>2

(* The first pass gives two observations never the same appearance, and    *)
(* only an appearance of the observed content.                             *)
LEMMA FirstPassSound ==
    ASSUME NEW own, NEW obs, DOMAIN obs \subseteq Int, NEW first \in FirstPass(own, obs)
    PROVE  /\ first \in [DOMAIN obs -> DOMAIN own \cup {New}]
           /\ \A l \in DOMAIN obs :
                first[l] # New => first[l] \in DOMAIN own /\ own[first[l]].content = obs[l].content
           /\ \A k, l \in DOMAIN obs : (first[k] = first[l] /\ first[l] # New) => k = l
<1>1. /\ first \in [DOMAIN obs -> DOMAIN own \cup {New}]
      /\ \A l \in DOMAIN obs : first[l] = FirstChoice(own, UsedBefore(first, l), l, obs[l])
  BY DEF FirstPass
<1>2. ASSUME NEW l \in DOMAIN obs, first[l] # New
      PROVE  /\ first[l] \in DOMAIN own \ UsedBefore(first, l)
             /\ own[first[l]].content = obs[l].content
  BY <1>1, <1>2, FirstChoiceFits
<1>3. ASSUME NEW k \in DOMAIN obs, NEW l \in DOMAIN obs, k < l,
             first[k] = first[l], first[l] # New
      PROVE  FALSE
  <2>1. first[k] \in UsedBefore(first, l)
    BY <1>1, <1>3 DEF UsedBefore
  <2> QED
    BY <2>1, <1>2, <1>3
<1>4. ASSUME NEW k \in DOMAIN obs, NEW l \in DOMAIN obs,
             first[k] = first[l], first[l] # New
      PROVE  k = l
  <2>1. k \in Int /\ l \in Int
    OBVIOUS
  <2>2. k < l \/ l < k \/ k = l
    BY <2>1
  <2> QED
    BY <2>2, <1>3, <1>4
<1> QED
  BY <1>1, <1>2, <1>4

(* A probable rename is an appearance no observation has taken, with the   *)
(* observed content, and the observation is the only one it could be.      *)
LEMMA ProbableOldSound ==
    ASSUME NEW own, NEW obs, NEW first, NEW l \in DOMAIN obs, NEW at,
           ProbableOld(own, obs, first, l, at) # New
    PROVE  LET u == ProbableOld(own, obs, first, l, at)
           IN  /\ u \in DOMAIN own
               /\ own[u].content = obs[l].content
               /\ \A k \in DOMAIN first : first[k] # u
               /\ \E k \in DOMAIN obs : UnmatchedNew(obs, first, obs[l].content) = {k}
<1> DEFINE u == ProbableOld(own, obs, first, l, at)
           old == UnusedOld(own, first, obs[l].content, at)
<1>1. /\ \E k \in DOMAIN obs : UnmatchedNew(obs, first, obs[l].content) = {k}
      /\ u = Sole(old, New)
  BY DEF ProbableOld
<1>2. old = {u}
  BY <1>1, SoleIsTheElement
<1>3. u \in old
  BY <1>2
<1> QED
  BY <1>1, <1>3 DEF UnusedOld

(* matchObservations as a whole is sound in the same sense. *)
LEMMA MatchSound ==
    ASSUME NEW own, NEW obs, DOMAIN obs \subseteq Int, NEW first \in FirstPass(own, obs),
           NEW at
    PROVE  LET match == MatchObservations(own, obs, first, at)
           IN  /\ DOMAIN match = DOMAIN obs
               /\ \A l \in DOMAIN obs :
                    match[l] # New => match[l] \in DOMAIN own /\ own[match[l]].content = obs[l].content
               /\ \A k, l \in DOMAIN obs : (match[k] = match[l] /\ match[l] # New) => k = l
<1> DEFINE match == MatchObservations(own, obs, first, at)
<1>1. /\ DOMAIN match = DOMAIN obs
      /\ \A l \in DOMAIN obs :
           match[l] = IF first[l] = New THEN ProbableOld(own, obs, first, l, at) ELSE first[l]
  BY DEF MatchObservations
<1>2. /\ DOMAIN first = DOMAIN obs
      /\ \A l \in DOMAIN obs :
           first[l] # New => first[l] \in DOMAIN own /\ own[first[l]].content = obs[l].content
      /\ \A k, l \in DOMAIN obs : (first[k] = first[l] /\ first[l] # New) => k = l
  BY FirstPassSound
<1>3. ASSUME NEW l \in DOMAIN obs, match[l] # New
      PROVE  match[l] \in DOMAIN own /\ own[match[l]].content = obs[l].content
  <2>1. CASE first[l] = New
    BY <1>1, <1>3, <2>1, ProbableOldSound
  <2>2. CASE first[l] # New
    BY <1>1, <1>2, <2>2
  <2> QED
    BY <2>1, <2>2
<1>4. ASSUME NEW k \in DOMAIN obs, NEW l \in DOMAIN obs,
             first[k] # New, first[l] = New, match[l] # New
      PROVE  match[k] # match[l]
  <2>1. match[k] = first[k] /\ match[l] = ProbableOld(own, obs, first, l, at)
    BY <1>1, <1>4
  <2>2. ProbableOld(own, obs, first, l, at) # New
    BY <1>4, <2>1
  <2>3. \A j \in DOMAIN first : first[j] # ProbableOld(own, obs, first, l, at)
    BY <2>2, ProbableOldSound
  <2> QED
    BY <1>2, <2>1, <2>3
<1>5. ASSUME NEW k \in DOMAIN obs, NEW l \in DOMAIN obs,
             first[k] = New, first[l] = New, match[k] = match[l], match[l] # New
      PROVE  k = l
  <2>1. obs[k].content = obs[l].content
    BY <1>3, <1>5
  <2>2. k \in UnmatchedNew(obs, first, obs[l].content) /\ l \in UnmatchedNew(obs, first, obs[l].content)
    BY <1>5, <2>1 DEF UnmatchedNew
  <2>3. match[l] = ProbableOld(own, obs, first, l, at)
    BY <1>1, <1>5
  <2>4. \E x \in DOMAIN obs : UnmatchedNew(obs, first, obs[l].content) = {x}
    BY <1>5, <2>3, ProbableOldSound
  <2> QED
    BY <2>2, <2>4
<1>6. ASSUME NEW k \in DOMAIN obs, NEW l \in DOMAIN obs, match[k] = match[l], match[l] # New
      PROVE  k = l
  <2>1. CASE first[k] # New /\ first[l] # New
    BY <1>1, <1>2, <1>6, <2>1
  <2>2. CASE first[k] # New /\ first[l] = New
    BY <1>4, <1>6, <2>2
  <2>3. CASE first[k] = New /\ first[l] # New
    BY <1>4, <1>6, <2>3
  <2>4. CASE first[k] = New /\ first[l] = New
    BY <1>5, <1>6, <2>4
  <2> QED
    BY <2>1, <2>2, <2>3, <2>4
<1> QED
  BY <1>1, <1>3, <1>6

-----------------------------------------------------------------------------
(* Which appearance an observation gets.                                   *)

(* A non-empty set of natural numbers has a least element. *)
LEMMA Least ==
    ASSUME NEW S \in SUBSET Nat, S # {}
    PROVE  \E n \in S : \A m \in S : n <= m
<1> DEFINE R == OpToRel(<, Nat)
<1>1. IsWellFoundedOn(R, Nat)
  BY NatLessThanWellFounded
<1>2. \A x, y \in Nat : <<x, y>> \in R <=> x < y
  BY DEF OpToRel
<1> HIDE DEF R
<1>3. PICK n \in S : \A m \in S : ~ (<<m, n>> \in R)
  BY <1>1, WFMin, Zenon
<1>4. ASSUME NEW m \in S PROVE n <= m
  <2>1. ~ (m < n)
    BY <1>2, <1>3
  <2> QED
    BY <2>1
<1> QED
  BY <1>4

(* Sole returns the element of a singleton, and nothing for the empty set. *)
LEMMA SoleOf ==
    ASSUME NEW x, NEW None
    PROVE  Sole({x}, None) = x /\ Sole({}, None) = None
BY DEF Sole

(* The only available candidate with the content is the one; so is the     *)
(* only candidate with the content, if it is there.                        *)
LEMMA UniqueAvailable ==
    ASSUME NEW own, NEW candidates, NEW used, NEW o, NEW a \in candidates \ used,
           own[a].content = o.content, own[a].availability = "available",
           \A b \in candidates \ used :
             own[b].content = o.content /\ own[b].availability = "available" => b = a
    PROVE  UniqueCandidate(own, candidates, used, o) = a
<1> DEFINE fit == {b \in candidates \ used : SameContent(own[b], o)}
           available == {b \in fit : own[b].availability = "available"}
<1>1. available = {a}
  BY DEF SameContent
<1> QED
  BY <1>1, SoleOf DEF UniqueCandidate

LEMMA UniqueFitting ==
    ASSUME NEW own, NEW candidates, NEW used, NEW o, NEW a \in candidates \ used,
           own[a].content = o.content,
           \A b \in candidates \ used : own[b].content = o.content => b = a
    PROVE  UniqueCandidate(own, candidates, used, o) = a
<1> DEFINE fit == {b \in candidates \ used : SameContent(own[b], o)}
           available == {b \in fit : own[b].availability = "available"}
<1>1. fit = {a}
  BY DEF SameContent
<1>2. available = {} \/ available = {a}
  BY <1>1
<1> QED
  BY <1>1, <1>2, SoleOf DEF UniqueCandidate

(* Without native identities the first pass goes by the locator alone, so  *)
(* an appearance that alone has the observed content at the locator of an  *)
(* observation is given to it, and to no other.                            *)
THEOREM MatchedByLocator ==
    ASSUME NEW own, NEW obs, DOMAIN obs \subseteq Int, NEW first \in FirstPass(own, obs),
           New \notin DOMAIN own, \A l \in DOMAIN obs : obs[l].ident = NoIdent
    PROVE  /\ \A l \in DOMAIN obs : first[l] # New => own[first[l]].locator = l
           /\ \A l \in DOMAIN obs, a \in DOMAIN own :
                (/\ own[a].locator = l /\ own[a].content = obs[l].content
                 /\ \A b \in DOMAIN own :
                      own[b].locator = l /\ own[b].content = obs[l].content => b = a)
                => first[l] = a
<1>1. ASSUME NEW l \in DOMAIN obs
      PROVE  first[l] = ByLocator(own, UsedBefore(first, l), l, obs[l])
  <2>1. {a \in DOMAIN own : obs[l].ident # NoIdent /\ own[a].ident = obs[l].ident} = {}
    OBVIOUS
  <2>2. ASSUME NEW used PROVE UniqueCandidate(own, {}, used, obs[l]) = New
    <3>1. {a \in {} \ used : SameContent(own[a], obs[l])} = {}
      OBVIOUS
    <3> QED
      BY <3>1, SoleOf DEF UniqueCandidate
  <2>3. ByIdentity(own, UsedBefore(first, l), obs[l]) = New
    BY <2>1, <2>2 DEF ByIdentity
  <2> QED
    BY <2>3 DEF FirstPass, FirstChoice
<1>2. ASSUME NEW l \in DOMAIN obs, first[l] # New
      PROVE  own[first[l]].locator = l
  <2> DEFINE candidates == {a \in DOMAIN own : own[a].locator = l}
             used == UsedBefore(first, l)
  <2>1. first[l] = UniqueCandidate(own, candidates, used, obs[l])
    BY <1>1 DEF ByLocator
  <2> HIDE DEF candidates, used
  <2>2. first[l] \in candidates \ used
    BY <1>2, <2>1, UniqueCandidateFits
  <2> QED
    BY <2>2 DEF candidates
<1>3. ASSUME NEW l \in DOMAIN obs, NEW a \in DOMAIN own,
             own[a].locator = l, own[a].content = obs[l].content,
             \A b \in DOMAIN own : own[b].locator = l /\ own[b].content = obs[l].content => b = a
      PROVE  first[l] = a
  <2>1. DOMAIN first = DOMAIN obs
    BY DEF FirstPass
  <2>2. a \notin UsedBefore(first, l)
    <3> SUFFICES ASSUME NEW k \in DOMAIN first, k < l, first[k] = a PROVE FALSE
      BY DEF UsedBefore
    <3>1. own[first[k]].locator = k
      BY <1>2, <2>1
    <3>2. k = l /\ l \in Int
      BY <1>3, <3>1
    <3> QED
      BY <3>2
  <2> DEFINE candidates == {b \in DOMAIN own : own[b].locator = l}
  <2>3. a \in candidates \ UsedBefore(first, l)
    BY <1>3, <2>2
  <2>4. UniqueCandidate(own, candidates, UsedBefore(first, l), obs[l]) = a
    BY <1>3, <2>3, UniqueFitting
  <2> QED
    BY <1>1, <2>4 DEF ByLocator
<1> QED
  BY <1>2, <1>3

(* When the observations are the available appearances, each with its      *)
(* content and identity where it is, the first pass gives each its own:    *)
(* the identity, where it decides, decides for the same, for those before  *)
(* it in the walk have taken theirs.                                       *)
THEOREM MatchedAgain ==
    ASSUME NEW own, NEW obs, DOMAIN obs \subseteq Nat, NEW first \in FirstPass(own, obs),
           New \notin DOMAIN own, NEW known \in [DOMAIN obs -> DOMAIN own],
           \A l \in DOMAIN obs :
             /\ own[known[l]].locator = l /\ own[known[l]].content = obs[l].content
             /\ own[known[l]].ident = obs[l].ident
             /\ own[known[l]].availability = "available",
           \A a \in DOMAIN own : own[a].availability = "available" =>
             own[a].locator \in DOMAIN obs /\ known[own[a].locator] = a
    PROVE  \A l \in DOMAIN obs : first[l] = known[l]
<1> DEFINE W == {l \in DOMAIN obs : first[l] # known[l]}
<1> SUFFICES ASSUME W # {} PROVE FALSE
  OBVIOUS
<1>1. PICK l \in W : \A k \in W : l <= k
  BY Least
<1>2. /\ l \in DOMAIN obs /\ first[l] # known[l]
      /\ \A k \in DOMAIN obs : k < l => first[k] = known[k]
  BY <1>1
<1> DEFINE a == known[l]
           o == obs[l]
           used == UsedBefore(first, l)
<1>3. /\ a \in DOMAIN own /\ own[a].locator = l /\ own[a].content = o.content
      /\ own[a].ident = o.ident /\ own[a].availability = "available"
  BY <1>2
<1>4. first[l] = FirstChoice(own, used, l, o) /\ DOMAIN first = DOMAIN obs
  BY <1>2 DEF FirstPass
<1>5. a \notin used
  <2> SUFFICES ASSUME NEW k \in DOMAIN first, k < l, first[k] = a PROVE FALSE
    BY DEF UsedBefore
  <2>1. k \in DOMAIN obs /\ known[k] = a
    BY <1>2, <1>4
  <2>2. own[a].locator = k
    BY <2>1
  <2> QED
    BY <1>2, <1>3, <2>2
<1> HIDE DEF W, used
<1>6. ByLocator(own, used, l, o) = a
  <2> DEFINE candidates == {b \in DOMAIN own : own[b].locator = l}
  <2>1. a \in candidates \ used
    BY <1>3, <1>5
  <2>2. \A b \in candidates \ used :
          own[b].content = o.content /\ own[b].availability = "available" => b = a
    OBVIOUS
  <2> HIDE DEF candidates, a
  <2>3. UniqueCandidate(own, candidates, used, o) = a
    BY <1>3, <2>1, <2>2, UniqueAvailable
  <2> QED
    BY <2>3 DEF ByLocator, candidates
<1>7. ByIdentity(own, used, o) \in {a, New}
  <2> DEFINE candidates == {b \in DOMAIN own : o.ident # NoIdent /\ own[b].ident = o.ident}
             fit == {b \in candidates \ used : SameContent(own[b], o)}
             available == {b \in fit : own[b].availability = "available"}
             u == UniqueCandidate(own, candidates, used, o)
  <2>1. ByIdentity(own, used, o) = u
    BY DEF ByIdentity
  <2>2. CASE o.ident = NoIdent
    <3>1. candidates = {}
      BY <2>2
    <3>2. u = New
      <4>1. fit = {}
        BY <3>1
      <4>2. available = {}
        BY <4>1
      <4> QED
        BY <4>1, <4>2, SoleOf DEF UniqueCandidate
    <3> QED
      BY <2>1, <3>2
  <2>3. CASE o.ident # NoIdent
    <3>1. a \in available
      BY <1>3, <1>5, <2>3 DEF SameContent
    <3>2. u = Sole(available, New)
      BY <3>1 DEF UniqueCandidate
    <3> HIDE DEF available, u, a
    <3>3. u # New => available = {u}
      BY <3>2, SoleIsTheElement
    <3> QED
      BY <2>1, <3>1, <3>3
  <2> QED
    BY <2>2, <2>3
<1> QED
  BY <1>2, <1>3, <1>4, <1>6, <1>7 DEF FirstChoice

(* A choice of the first pass has the observed identity, or its locator.   *)
LEMMA FirstChoiceBecause ==
    ASSUME NEW own, NEW used, NEW l, NEW o, FirstChoice(own, used, l, o) # New
    PROVE  LET u == FirstChoice(own, used, l, o)
           IN  \/ o.ident # NoIdent /\ own[u].ident = o.ident
               \/ own[u].locator = l
<1>1. CASE ByIdentity(own, used, o) # New
  BY <1>1, UniqueCandidateFits DEF FirstChoice, ByIdentity
<1>2. CASE ByIdentity(own, used, o) = New
  BY <1>2, UniqueCandidateFits DEF FirstChoice, ByLocator
<1> QED
  BY <1>1, <1>2

(* A file with a native identity keeps its appearance wherever it went, if *)
(* no other known file has its identity and content, and none that the     *)
(* walk meets before it is a hard link to it or a copy at its old place.   *)
THEOREM MatchedByIdentity ==
    ASSUME NEW own, NEW obs, DOMAIN obs \subseteq Int, NEW first \in FirstPass(own, obs),
           New \notin DOMAIN own, NEW l \in DOMAIN obs, NEW a \in DOMAIN own,
           obs[l].ident # NoIdent,
           own[a].ident = obs[l].ident, own[a].content = obs[l].content,
           \A b \in DOMAIN own :
             own[b].ident = obs[l].ident /\ own[b].content = obs[l].content => b = a,
           \A k \in DOMAIN obs : k < l /\ obs[k].content = obs[l].content =>
             obs[k].ident # obs[l].ident /\ own[a].locator # k
    PROVE  first[l] = a
<1> DEFINE used == UsedBefore(first, l)
           candidates == {b \in DOMAIN own : obs[l].ident # NoIdent /\ own[b].ident = obs[l].ident}
<1>1. DOMAIN first = DOMAIN obs
      /\ \A k \in DOMAIN obs : first[k] = FirstChoice(own, UsedBefore(first, k), k, obs[k])
  BY DEF FirstPass
<1>2. a \notin used
  <2> SUFFICES ASSUME NEW k \in DOMAIN first, k < l, first[k] = a PROVE FALSE
    BY DEF UsedBefore
  <2>1. k \in DOMAIN obs /\ FirstChoice(own, UsedBefore(first, k), k, obs[k]) = a /\ a # New
    BY <1>1
  <2>2. own[a].content = obs[k].content
    BY <2>1, FirstChoiceFits
  <2>3. own[a].ident = obs[k].ident \/ own[a].locator = k
    BY <2>1, FirstChoiceBecause
  <2> QED
    BY <2>1, <2>2, <2>3
<1> HIDE DEF used
<1>3. a \in candidates \ used
  BY <1>2
<1>4. \A b \in candidates \ used : own[b].content = obs[l].content => b = a
  OBVIOUS
<1> HIDE DEF candidates
<1>5. UniqueCandidate(own, candidates, used, obs[l]) = a
  BY <1>3, <1>4, UniqueFitting
<1>6. ByIdentity(own, used, obs[l]) = a
  BY <1>5 DEF ByIdentity, candidates
<1> QED
  BY <1>1, <1>6 DEF FirstChoice, used

(* What the labels mean.  A confirmed rename is of a file with the         *)
(* identity that was known; a probable one is of the only observation that *)
(* the first pass left of a content, and of the only appearance it left of *)
(* that content whose evidence is fresh.                                   *)
THEOREM LabelsMean ==
    ASSUME NEW own, NEW obs, NEW first \in FirstPass(own, obs), NEW at, NEW l \in DOMAIN obs,
           New \notin DOMAIN own
    PROVE  LET match == MatchObservations(own, obs, first, at)
               label == Continuity(own, first, match, l)
               old   == match[l]
           IN  /\ label = "confirmed-rename" =>
                    /\ own[old].locator # l
                    /\ obs[l].ident # NoIdent /\ own[old].ident = obs[l].ident
               /\ label = "probable-rename" =>
                    /\ \A k \in DOMAIN obs :
                         first[k] = New /\ obs[k].content = obs[l].content => k = l
                    /\ \A a \in DOMAIN own :
                         a = old <=> /\ own[a].content = obs[l].content
                                     /\ own[a].observedAt <= at /\ at - own[a].observedAt <= Window
                                     /\ \A k \in DOMAIN obs : first[k] # a
<1> DEFINE match == MatchObservations(own, obs, first, at)
           label == Continuity(own, first, match, l)
           old   == match[l]
<1>1. DOMAIN first = DOMAIN obs
      /\ \A k \in DOMAIN obs : first[k] = FirstChoice(own, UsedBefore(first, k), k, obs[k])
  BY DEF FirstPass
<1>2. old = IF first[l] = New THEN ProbableOld(own, obs, first, l, at) ELSE first[l]
  BY DEF MatchObservations
<1>3. /\ label = "confirmed-rename" => first[l] # New /\ own[old].locator # l
      /\ label = "probable-rename" => first[l] = New /\ old # New
  BY DEF Continuity
<1> HIDE DEF match, label, old
<1>4. ASSUME label = "confirmed-rename"
      PROVE  /\ own[old].locator # l
             /\ obs[l].ident # NoIdent /\ own[old].ident = obs[l].ident
  <2>1. old = FirstChoice(own, UsedBefore(first, l), l, obs[l]) /\ old # New
    BY <1>1, <1>2, <1>3, <1>4
  <2> QED
    BY <1>3, <1>4, <2>1, FirstChoiceBecause
<1>5. ASSUME label = "probable-rename"
      PROVE  /\ \A k \in DOMAIN obs :
                  first[k] = New /\ obs[k].content = obs[l].content => k = l
             /\ \A a \in DOMAIN own :
                  a = old <=> /\ own[a].content = obs[l].content
                              /\ own[a].observedAt <= at /\ at - own[a].observedAt <= Window
                              /\ \A k \in DOMAIN obs : first[k] # a
  <2>1. first[l] = New /\ old # New /\ old = ProbableOld(own, obs, first, l, at)
    BY <1>2, <1>3, <1>5
  <2>2. PICK n \in DOMAIN obs : UnmatchedNew(obs, first, obs[l].content) = {n}
    BY <2>1 DEF ProbableOld
  <2>3. old = Sole(UnusedOld(own, first, obs[l].content, at), New)
    BY <2>1, <2>2 DEF ProbableOld
  <2>4. UnusedOld(own, first, obs[l].content, at) = {old}
    BY <2>1, <2>3, SoleIsTheElement
  <2>5. \A k \in DOMAIN obs : first[k] = New /\ obs[k].content = obs[l].content => k = l
    BY <2>1, <2>2 DEF UnmatchedNew
  <2> QED
    BY <1>1, <2>4, <2>5 DEF UnusedOld
<1> QED
  BY <1>4, <1>5 DEF match, label, old
=============================================================================
