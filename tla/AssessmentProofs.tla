---------------------------- MODULE AssessmentProofs ----------------------------
(***************************************************************************)
(* What one assessment guarantees, for rosters and evidence of any size:   *)
(* the authority rules, the decomposition into components, the resolution  *)
(* of a pair, and the counters a snapshot reports in closed form, with the *)
(* facts on natural numbers and sums they rest on.                         *)
(***************************************************************************)
EXTENDS Authority, Reachability, FiniteSetTheorems, WellFoundedInduction, TLAPS

-----------------------------------------------------------------------------
(* Natural numbers.                                                        *)

\* A non-empty set of natural numbers has a least element.
LEMMA LeastNatural ==
  ASSUME NEW T, T \subseteq Nat, T # {}
  PROVE  \E n \in T : \A m \in T : n <= m
<1>1. PICK n \in T : \A m \in T : ~(<<m, n>> \in OpToRel(<, Nat))
  BY NatLessThanWellFounded, WFMin
<1>2. \A m \in T : ~(m < n)
  BY <1>1 DEF OpToRel
<1> QED
  BY <1>2

\* Max is what it says on a non-empty bounded set of natural numbers.
LEMMA MaxOfBounded ==
  ASSUME NEW S, S \subseteq Nat, S # {}, NEW b \in Nat, \A x \in S : x <= b
  PROVE  Max(S) \in S /\ \A x \in S : x <= Max(S)
<1> DEFINE U == {u \in Nat : \A x \in S : x <= u}
<1>1. PICK u \in U : \A v \in U : u <= v
  <2>1. b \in U  OBVIOUS
  <2> QED  BY <2>1, LeastNatural
<1>2. u \in S
  <2> SUFFICES ASSUME u \notin S PROVE FALSE  OBVIOUS
  <2>1. \A x \in S : x <= u - 1  OBVIOUS
  <2>2. u - 1 \in Nat
    <3>1. PICK x \in S : TRUE  OBVIOUS
    <3>2. x \in Nat /\ x <= u - 1 /\ u \in Nat  BY <2>1
    <3> QED  BY <3>2
  <2>3. u - 1 \in U  BY <2>1, <2>2
  <2> QED  BY <2>3, <1>1
<1>3. \E x \in S : \A y \in S : x >= y
  BY <1>2
<1> HIDE DEF U
<1>4. Max(S) \in S /\ \A y \in S : Max(S) >= y
  BY <1>3 DEF Max
<1> QED  BY <1>4

LEMMA MaxOfTwo ==
  ASSUME NEW a \in Int, NEW b \in Int
  PROVE  Max({a, b}) \in {a, b} /\ Max({a, b}) >= a /\ Max({a, b}) >= b
<1> DEFINE S == {a, b}
<1>1. \E x \in S : \A y \in S : x >= y
  <2>1. CASE a >= b  BY <2>1
  <2>2. CASE b >= a  BY <2>2
  <2> QED  BY <2>1, <2>2
<1>2. a \in S /\ b \in S  OBVIOUS
<1> HIDE DEF S
<1>3. Max(S) \in S /\ \A y \in S : Max(S) >= y  BY <1>1 DEF Max
<1> QED  BY <1>2, <1>3 DEF S

LEMMA MinOfTwo ==
  ASSUME NEW a \in Int, NEW b \in Int
  PROVE  Min({a, b}) \in {a, b} /\ Min({a, b}) <= a /\ Min({a, b}) <= b
<1> DEFINE S == {a, b}
<1>1. \E x \in S : \A y \in S : x <= y
  <2>1. CASE a <= b  BY <2>1
  <2>2. CASE b <= a  BY <2>2
  <2> QED  BY <2>1, <2>2
<1>2. a \in S /\ b \in S  OBVIOUS
<1> HIDE DEF S
<1>3. Min(S) \in S /\ \A y \in S : Min(S) <= y  BY <1>1 DEF Min
<1> QED  BY <1>2, <1>3 DEF S

-----------------------------------------------------------------------------
(* Authority.                                                              *)

\* Every class the rules give is one of the five: the quorum and the caps
\* leave no partition unassigned, whatever the policy.
LEMMA EvidenceCapType ==
  ASSUME NEW policy, NEW snapshot, NEW pending
  PROVE  EvidenceCap(policy, snapshot, pending) \in Primary..ObserveOnly
<1> DEFINE unconfirmed(rule, cap) == IF ~snapshot.confirmed /\ rule THEN {cap} ELSE {}
           caps == (IF pending # {} \/ ~snapshot.fresh THEN {ObserveOnly} ELSE {})
                   \cup unconfirmed(policy.downgrade, Degraded)
                   \cup unconfirmed(policy.writeConfirmed, ReadOnly)
                   \cup unconfirmed(policy.readConfirmed, ObserveOnly)
<1>1. caps \cup {Primary} \subseteq Primary..ObserveOnly
  BY DEF Primary, Degraded, ReadOnly, ObserveOnly
<1>2. EvidenceCap(policy, snapshot, pending) = Max(caps \cup {Primary})
  BY DEF EvidenceCap
<1> HIDE DEF caps
<1>3. Max(caps \cup {Primary}) \in caps \cup {Primary}
  BY <1>1, MaxOfBounded DEF Primary, ObserveOnly
<1> QED
  BY <1>1, <1>2, <1>3

LEMMA CappedType ==
  ASSUME NEW policy, NEW snapshot, NEW p, NEW isolated, NEW interrupted
  PROVE  Capped(policy, snapshot, p, isolated, interrupted) \in Primary..Isolated
<1>1. QuorumClass(policy, p.members) \in Primary..Isolated
  BY DEF QuorumClass, Primary, Degraded, Isolated
<1>2. EvidenceCap(policy, snapshot, p.pending) \in Primary..ObserveOnly
  BY EvidenceCapType
<1> QED
  BY <1>1, <1>2 DEF Capped, Weaker, Primary, ObserveOnly, Isolated

\* A lineage that is interrupted, or isolated, is left at OBSERVE_ONLY or below
\* by the caps alone.
LEMMA CappedWhenInterrupted ==
  ASSUME NEW policy, NEW snapshot, NEW p, NEW isolated
  PROVE  Capped(policy, snapshot, p, isolated, TRUE) >= ObserveOnly
<1>1. Capped(policy, snapshot, p, isolated, FALSE) \in Primary..Isolated
  BY CappedType
<1> QED
  BY <1>1 DEF Capped, Weaker, Primary, ObserveOnly, Isolated

\* The split-brain rule never raises a class.
LEMMA FinalClassesType ==
  ASSUME NEW policy, NEW capped,
         \A i \in DOMAIN capped : capped[i] \in Primary..Isolated
  PROVE  /\ DOMAIN FinalClasses(policy, capped) = DOMAIN capped
         /\ \A i \in DOMAIN capped :
              /\ FinalClasses(policy, capped)[i] \in Primary..Isolated
              /\ FinalClasses(policy, capped)[i] >= capped[i]
  BY DEF FinalClasses, Primary, ObserveOnly, Isolated

\* Split brain: unless the policy allows several, at most one partition is
\* PRIMARY, whatever quorums the policy has and whatever weights it adds up.
THEOREM OnePrimary ==
  ASSUME NEW policy, NEW capped, ~policy.multiple,
         NEW i \in DOMAIN capped, NEW j \in DOMAIN capped,
         FinalClasses(policy, capped)[i] = Primary,
         FinalClasses(policy, capped)[j] = Primary
  PROVE  i = j
  BY DEF FinalClasses, Primary, ObserveOnly

-----------------------------------------------------------------------------
(* Decompositions.                                                         *)

\* No edge leaves the set.
Closed(edges, set) == \A e \in edges : e \subseteq set \/ e \cap set = {}

\* Every member of a roster is in a component: the least closed set it is in.
LEMMA ComponentExists ==
  ASSUME NEW roster, NEW edges, \A e \in edges : e \subseteq roster, NEW s \in roster
  PROVE  \E c \in Components(roster, edges) : s \in c
<1> DEFINE c == {t \in roster :
                   \A set \in SUBSET roster : Closed(edges, set) /\ s \in set => t \in set}
<1>1. s \in c /\ c \in SUBSET roster
  OBVIOUS
<1>2. Closed(edges, c)
  <2> SUFFICES ASSUME NEW e \in edges, NEW x \in e, x \in c, NEW y \in e PROVE y \in c
    BY DEF Closed
  <2> SUFFICES ASSUME NEW set \in SUBSET roster, Closed(edges, set), s \in set PROVE y \in set
    OBVIOUS
  <2> QED
    BY DEF Closed
<1>3. ASSUME NEW part \in SUBSET c, part # {}, part # c,
             \A e \in edges : e \cap part = {} \/ e \cap (c \ part) = {}
      PROVE  FALSE
  <2>1. Closed(edges, part) /\ Closed(edges, c \ part)
    <3> SUFFICES ASSUME NEW e \in edges
                 PROVE  /\ e \subseteq part \/ e \cap part = {}
                        /\ e \subseteq c \ part \/ e \cap (c \ part) = {}
      BY DEF Closed
    <3>1. e \subseteq c \/ e \cap c = {}
      BY <1>2 DEF Closed
    <3> HIDE DEF c
    <3> QED
      BY <1>3, <3>1
  <2>2. part \in SUBSET roster /\ c \ part \in SUBSET roster
    OBVIOUS
  <2>3. CASE s \in part
    <3>1. c \subseteq part
      BY <2>1, <2>2, <2>3
    <3> HIDE DEF c
    <3> QED
      BY <1>3, <3>1
  <2>4. CASE s \notin part
    <3>1. s \in c \ part
      BY <1>1, <2>4
    <3>2. c \subseteq c \ part
      BY <2>1, <2>2, <3>1
    <3> HIDE DEF c
    <3> QED
      BY <1>3, <3>2
  <2> QED
    BY <2>3, <2>4
<1> HIDE DEF c
<1>4. c \in Components(roster, edges)
  BY <1>1, <1>2, <1>3 DEF Components, Closed
<1> QED
  BY <1>1, <1>4

\* With more edges, components only grow.
LEMMA CoarserWithMoreEdges ==
  ASSUME NEW roster, NEW few, NEW more, few \subseteq more,
         NEW c \in Components(roster, few), NEW d \in Components(roster, more),
         NEW s \in c, s \in d
  PROVE  c \subseteq d
<1> SUFFICES ASSUME ~(c \subseteq d) PROVE FALSE
  OBVIOUS
<1> DEFINE part == c \cap d
<1>1. part \in SUBSET c /\ part \notin {{}, c}
  OBVIOUS
<1>2. PICK e \in few : e \cap part # {} /\ e \cap (c \ part) # {}
  BY <1>1 DEF Components
<1>3. e \subseteq d \/ e \cap d = {}
  BY <1>2 DEF Components
<1> QED
  BY <1>2, <1>3

\* Two components of one decomposition that share a member are one.
LEMMA ComponentsDisjoint ==
  ASSUME NEW roster, NEW edges, NEW c \in Components(roster, edges),
         NEW d \in Components(roster, edges), NEW s \in c, s \in d
  PROVE  c = d
  BY CoarserWithMoreEdges

-----------------------------------------------------------------------------
(* Sums.  A sum of cardinalities counts pairs.                             *)

Pick(s) == CHOOSE x \in s : TRUE

\* The pairs of an element of s and an element of its set.
Pairs(A, s, T) == {p \in s \X T : p[2] \in A[p[1]]}

\* The recursion of MapThenSumSet, for the cardinalities of the sets A[x].
Counts(g, A, S) ==
  g = [s \in SUBSET S |->
         IF s = {} THEN 0 ELSE Cardinality(A[Pick(s)]) + g[s \ {Pick(s)}]]

\* A one-to-one correspondence.
LEMMA SameCount ==
  ASSUME NEW S, IsFiniteSet(S), NEW T, NEW f \in [S -> T],
         \A x, y \in S : f[x] = f[y] => x = y, \A t \in T : \E x \in S : f[x] = t
  PROVE  IsFiniteSet(T) /\ Cardinality(T) = Cardinality(S)
<1>1. f \in Bijection(S, T)
  BY DEF Bijection, Injection, Surjection, IsInjective
<1>2. ExistsBijection(S, T)
  BY <1>1 DEF ExistsBijection
<1> QED
  BY <1>2, FS_Bijection

LEMMA PairsStep ==
  ASSUME NEW S, IsFiniteSet(S), NEW T, IsFiniteSet(T), NEW A \in [S -> SUBSET T],
         NEW s \in SUBSET S
  PROVE  /\ IsFiniteSet(Pairs(A, s, T)) /\ Cardinality(Pairs(A, s, T)) \in Nat
         /\ s = {} => Cardinality(Pairs(A, s, T)) = 0
         /\ \A x \in s : Cardinality(Pairs(A, s, T))
                           = Cardinality(A[x]) + Cardinality(Pairs(A, s \ {x}, T))
<1>1. \A r \in SUBSET S : IsFiniteSet(Pairs(A, r, T))
  <2> SUFFICES ASSUME NEW r \in SUBSET S PROVE IsFiniteSet(Pairs(A, r, T))  OBVIOUS
  <2>1. IsFiniteSet(r)  BY FS_Subset
  <2>2. IsFiniteSet(r \X T)  BY <2>1, FS_Product
  <2>3. Pairs(A, r, T) \subseteq r \X T  BY DEF Pairs
  <2> QED  BY <2>2, <2>3, FS_Subset
<1>2. s = {} => Cardinality(Pairs(A, s, T)) = 0
  <2>1. s = {} => Pairs(A, s, T) = {}  BY DEF Pairs
  <2> QED  BY <2>1, FS_EmptySet
<1>3. ASSUME NEW x \in s
      PROVE  Cardinality(Pairs(A, s, T)) = Cardinality(A[x]) + Cardinality(Pairs(A, s \ {x}, T))
  <2> DEFINE own == {p \in {x} \X T : p[2] \in A[x]}
             rest == Pairs(A, s \ {x}, T)
             f == [t \in A[x] |-> <<x, t>>]
  <2>1. Pairs(A, s, T) = own \cup rest /\ own \cap rest = {}
    BY DEF Pairs
  <2>2. A[x] \in SUBSET T
    OBVIOUS
  <2>3. IsFiniteSet(A[x])  BY <2>2, FS_Subset
  <2>4. /\ f \in [A[x] -> own]
        /\ \A t, u \in A[x] : f[t] = f[u] => t = u
        /\ \A p \in own : \E t \in A[x] : f[t] = p
    <3>1. f \in [A[x] -> own]  BY <2>2
    <3>2. \A t, u \in A[x] : f[t] = f[u] => t = u  OBVIOUS
    <3>3. \A p \in own : \E t \in A[x] : f[t] = p  OBVIOUS
    <3> QED  BY <3>1, <3>2, <3>3
  <2> HIDE DEF own, f
  <2>5. IsFiniteSet(own) /\ Cardinality(own) = Cardinality(A[x])
    BY <2>3, <2>4, SameCount
  <2>6. IsFiniteSet(rest)  BY <1>1
  <2> HIDE DEF rest
  <2>7. Cardinality(own \cup rest) = Cardinality(own) + Cardinality(rest)
    <3>1. Cardinality(own) \in Nat /\ Cardinality(rest) \in Nat  BY <2>5, <2>6, FS_CardinalityType
    <3> QED  BY <2>1, <2>5, <2>6, <3>1, FS_Union, FS_EmptySet
  <2> QED  BY <2>1, <2>5, <2>7 DEF rest
<1>4. IsFiniteSet(Pairs(A, s, T)) /\ Cardinality(Pairs(A, s, T)) \in Nat
  BY <1>1, FS_CardinalityType
<1> QED
  BY <1>2, <1>3, <1>4

LEMMA CountsExists ==
  ASSUME NEW S, IsFiniteSet(S), NEW T, IsFiniteSet(T), NEW A \in [S -> SUBSET T]
  PROVE  \E g : Counts(g, A, S)
<1> DEFINE g == [s \in SUBSET S |-> Cardinality(Pairs(A, s, T))]
<1>1. ASSUME NEW s \in SUBSET S
      PROVE  g[s] = IF s = {} THEN 0 ELSE Cardinality(A[Pick(s)]) + g[s \ {Pick(s)}]
  <2>1. CASE s = {}  BY <2>1, PairsStep
  <2>2. CASE s # {}
    <3>1. Pick(s) \in s /\ s \ {Pick(s)} \in SUBSET S  BY <2>2 DEF Pick
    <3>2. g[s \ {Pick(s)}] = Cardinality(Pairs(A, s \ {Pick(s)}, T))  BY <3>1
    <3>3. Cardinality(Pairs(A, s, T))
            = Cardinality(A[Pick(s)]) + Cardinality(Pairs(A, s \ {Pick(s)}, T))
      BY <3>1, PairsStep
    <3> QED  BY <2>2, <3>2, <3>3
  <2> QED  BY <2>1, <2>2
<1>2. g = [s \in SUBSET S |-> g[s]]
  OBVIOUS
<1> HIDE DEF g
<1>3. Counts(g, A, S)
  BY <1>1, <1>2 DEF Counts
<1> QED
  BY <1>3

LEMMA CountsPairs ==
  ASSUME NEW S, IsFiniteSet(S), NEW T, IsFiniteSet(T), NEW A \in [S -> SUBSET T],
         NEW g, Counts(g, A, S)
  PROVE  g[S] = Cardinality(Pairs(A, S, T))
<1> DEFINE right(s) == g[s] = Cardinality(Pairs(A, s, T))
           Wrong == {n \in Nat : \E s \in SUBSET S : Cardinality(s) = n /\ ~right(s)}
<1>1. \A s \in SUBSET S : IsFiniteSet(s) /\ Cardinality(s) \in Nat
  BY FS_Subset, FS_CardinalityType
<1>2. ASSUME NEW s \in SUBSET S
      PROVE  g[s] = IF s = {} THEN 0 ELSE Cardinality(A[Pick(s)]) + g[s \ {Pick(s)}]
  BY DEF Counts
<1>3. SUFFICES ASSUME ~right(S) PROVE FALSE
  OBVIOUS
<1>4. Wrong # {}
  <2>1. S \in SUBSET S  OBVIOUS
  <2> HIDE DEF right
  <2> QED  BY <1>1, <1>3, <2>1
<1>5. PICK n \in Wrong : \A m \in Wrong : n <= m
  <2>1. Wrong \subseteq Nat  OBVIOUS
  <2> HIDE DEF Wrong
  <2> QED  BY <1>4, <2>1, LeastNatural
<1>6. PICK s \in SUBSET S : Cardinality(s) = n /\ ~right(s)
  OBVIOUS
<1>7. s # {}
  <2>1. s = {} => right(s)  BY <1>2, PairsStep
  <2> HIDE DEF right
  <2> QED  BY <1>6, <2>1
<1> DEFINE x == Pick(s)
           r == s \ {x}
<1>8. x \in s /\ r \in SUBSET S
  BY <1>7 DEF Pick
<1>9. Cardinality(r) = n - 1 /\ n - 1 \in Nat
  <2>1. Cardinality(r) = Cardinality(s) - 1  BY <1>1, <1>8, FS_RemoveElement
  <2>2. Cardinality(r) \in Nat  BY <1>1, <1>8
  <2> QED  BY <1>6, <2>1, <2>2
<1>10. right(r)
  <2>1. n - 1 \notin Wrong
    <3>1. n \in Nat /\ ~(n <= n - 1)  OBVIOUS
    <3> HIDE DEF Wrong
    <3> QED  BY <1>5, <3>1
  <2> HIDE DEF right, r
  <2> QED  BY <1>8, <1>9, <2>1
<1>11. g[s] = Cardinality(A[x]) + g[r]
  BY <1>2, <1>7
<1>12. Cardinality(Pairs(A, s, T)) = Cardinality(A[x]) + Cardinality(Pairs(A, r, T))
  BY <1>8, PairsStep
<1> QED
  BY <1>6, <1>10, <1>11, <1>12

-----------------------------------------------------------------------------
(* The accounting of the pairs that cross a boundary.                      *)

\* Finite evidence.
FiniteEvidence(ev) == IsFiniteSet(ev.roster) /\ IsFiniteSet(ev.fresh)

LEMMA CoverFacts ==
  ASSUME NEW ev, FiniteEvidence(ev), NEW s, NEW t
  PROVE  /\ CoverCount(ev, s) \in Nat /\ CoverHits(ev, s, t) \in Nat
         /\ CoverCount(ev, s) = 0 <=> \A b \in ev.fresh : s \notin b.covered
         /\ Observed(ev, s, t) = {} => CoverHits(ev, s, t) = 0
<1> DEFINE covers == {b \in ev.fresh : s \in b.covered}
           values == {Reachable, Unreachable}
           hits == {h \in covers \X values : <<s, t, h[2]>> \in h[1].links}
<1>1. IsFiniteSet(covers) /\ IsFiniteSet(values)
  <2>1. covers \subseteq ev.fresh  OBVIOUS
  <2>2. IsFiniteSet(covers)  BY <2>1, FS_Subset DEF FiniteEvidence
  <2>3. IsFiniteSet({Reachable} \cup {Unreachable})  BY FS_Singleton, FS_Union
  <2>4. values = {Reachable} \cup {Unreachable}  OBVIOUS
  <2> QED  BY <2>2, <2>3, <2>4
<1>2. IsFiniteSet(hits)
  <2>1. hits \subseteq covers \X values  OBVIOUS
  <2>2. IsFiniteSet(covers \X values)
    <3> HIDE DEF covers, values
    <3> QED  BY <1>1, FS_Product
  <2> QED  BY <2>1, <2>2, FS_Subset
<1>3. CoverCount(ev, s) = Cardinality(covers) /\ CoverHits(ev, s, t) = Cardinality(hits)
  BY DEF CoverCount, CoverHits
<1>4. Observed(ev, s, t) = {} => hits = {}
  BY DEF Observed
<1>5. covers = {} <=> \A b \in ev.fresh : s \notin b.covered
  OBVIOUS
<1> HIDE DEF covers, hits
<1> QED
  BY <1>1, <1>2, <1>3, <1>4, <1>5, FS_CardinalityType, FS_EmptySet

\* The targets outside the component of s that are proven unreachable.
ProvenOutside(ev, groups, s) ==
  {t \in ev.roster \ Home(groups, s) : ResolveOrdered(ev, s, t) = Unreachable}

\* The count of a source, with or without a claim that covers it, is the number
\* of those targets.
LEMMA SourceCount ==
  ASSUME NEW ev, FiniteEvidence(ev), NEW groups, NEW s
  PROVE  LET outside == ev.roster \ Home(groups, s)
             exceptions == {t \in Row(ev, s) \cap outside : ResolveOrdered(ev, s, t) # Unreachable}
             proven == {t \in Row(ev, s) \cap outside : ResolveOrdered(ev, s, t) = Unreachable}
         IN  (IF CoverCount(ev, s) # 0 THEN Cardinality(outside) - Cardinality(exceptions)
                                       ELSE Cardinality(proven))
               = Cardinality(ProvenOutside(ev, groups, s))
<1> DEFINE outside == ev.roster \ Home(groups, s)
           exceptions == {t \in Row(ev, s) \cap outside : ResolveOrdered(ev, s, t) # Unreachable}
           proven == {t \in Row(ev, s) \cap outside : ResolveOrdered(ev, s, t) = Unreachable}
           all == ProvenOutside(ev, groups, s)
<1>1. IsFiniteSet(outside)
  <2>1. outside \subseteq ev.roster  OBVIOUS
  <2> QED  BY <2>1, FS_Subset DEF FiniteEvidence
<1>2. CASE CoverCount(ev, s) # 0
  <2>1. ASSUME NEW t \in outside, t \notin Row(ev, s)
        PROVE  ResolveOrdered(ev, s, t) = Unreachable
    <3>1. Observed(ev, s, t) = {}  BY <2>1 DEF Row
    <3>2. Silent(ev, s, t)  BY <1>2, <3>1, CoverFacts DEF Silent
    <3> QED  BY <3>1, <3>2 DEF ResolveOrdered, Reachable, Unreachable
  <2>2. all = outside \ exceptions  BY <2>1 DEF ProvenOutside
  <2>3. exceptions \subseteq outside  OBVIOUS
  <2> HIDE DEF all, outside, exceptions
  <2>4. outside \cap exceptions = exceptions  BY <2>3
  <2>5. Cardinality(all) = Cardinality(outside) - Cardinality(exceptions)
    <3>1. Cardinality(outside \ exceptions)
            = Cardinality(outside) - Cardinality(outside \cap exceptions)
      BY <1>1, FS_Difference
    <3> QED  BY <2>2, <2>4, <3>1
  <2> QED  BY <1>2, <2>5 DEF all, outside, exceptions
<1>3. CASE CoverCount(ev, s) = 0
  <2>1. ASSUME NEW t \in outside, ResolveOrdered(ev, s, t) = Unreachable
        PROVE  t \in Row(ev, s)
    <3>1. ~Silent(ev, s, t)  BY <1>3, CoverFacts DEF Silent
    <3>2. Observed(ev, s, t) # {}
      BY <2>1, <3>1 DEF ResolveOrdered, Reachable, Unreachable, Conflicting, Stale, Unknown
    <3> QED  BY <3>2 DEF Row
  <2>2. all = proven  BY <2>1 DEF ProvenOutside
  <2> QED  BY <1>3, <2>2
<1> QED
  BY <1>2, <1>3

LEMMA CrossUnreachableCounts ==
  ASSUME NEW ev, FiniteEvidence(ev), NEW groups
  PROVE  CrossUnreachable(ev, groups)
           = Cardinality({p \in ev.roster \X ev.roster :
                            p[2] \in ProvenOutside(ev, groups, p[1])})
<1> DEFINE S == ev.roster
           A == [s \in S |-> ProvenOutside(ev, groups, s)]
           outside(s) == S \ Home(groups, s)
           exceptions(s) == {t \in Row(ev, s) \cap outside(s) :
                               ResolveOrdered(ev, s, t) # Unreachable}
           proven(s) == {t \in Row(ev, s) \cap outside(s) :
                           ResolveOrdered(ev, s, t) = Unreachable}
           count(s) == IF CoverCount(ev, s) # 0
                       THEN Cardinality(outside(s)) - Cardinality(exceptions(s))
                       ELSE Cardinality(proven(s))
           sum == CHOOSE g : g = [s \in SUBSET S |->
                                    IF s = {} THEN 0 ELSE count(Pick(s)) + g[s \ {Pick(s)}]]
<1>1. CrossUnreachable(ev, groups) = sum[S]
  BY DEF CrossUnreachable, MapThenSumSet, MapThenFoldSet, Pick
<1>2. \A s \in S : count(s) = Cardinality(A[s])
  BY SourceCount
<1>3. IsFiniteSet(S) /\ A \in [S -> SUBSET S]
  BY DEF FiniteEvidence, ProvenOutside
<1>4. Pairs(A, S, S) = {p \in S \X S : p[2] \in ProvenOutside(ev, groups, p[1])}
  BY DEF Pairs
<1> HIDE DEF A, count, S
<1>5. \A g : g = [s \in SUBSET S |-> IF s = {} THEN 0 ELSE count(Pick(s)) + g[s \ {Pick(s)}]]
                <=> Counts(g, A, S)
  <2>1. \A s \in SUBSET S : s # {} => count(Pick(s)) = Cardinality(A[Pick(s)])
    BY <1>2 DEF Pick
  <2> QED  BY <2>1 DEF Counts
<1>6. Counts(sum, A, S)
  <2>1. \E g : Counts(g, A, S)  BY <1>3, CountsExists
  <2> QED  BY <1>5, <2>1
<1> HIDE DEF sum
<1>7. sum[S] = Cardinality(Pairs(A, S, S))
  BY <1>3, <1>6, CountsPairs
<1> QED
  BY <1>1, <1>4, <1>7 DEF S

\* The ordered pairs of a finite set.
LEMMA OrderedPairsCount ==
  ASSUME NEW c, IsFiniteSet(c)
  PROVE  /\ IsFiniteSet(OrderedPairs(c))
         /\ Cardinality(OrderedPairs(c)) = Cardinality(c) * (Cardinality(c) - 1)
<1> DEFINE diagonal == {p \in c \X c : p[1] = p[2]}
           f == [x \in c |-> <<x, x>>]
<1>1. IsFiniteSet(c \X c) /\ Cardinality(c \X c) = Cardinality(c) * Cardinality(c)
  BY FS_Product
<1>2. Cardinality(diagonal) = Cardinality(c)
  <2>1. f \in [c -> diagonal]  OBVIOUS
  <2>2. \A x, y \in c : f[x] = f[y] => x = y  OBVIOUS
  <2>3. \A p \in diagonal : \E x \in c : f[x] = p  OBVIOUS
  <2> HIDE DEF f, diagonal
  <2> QED  BY <2>1, <2>2, <2>3, SameCount
<1>3. OrderedPairs(c) = (c \X c) \ diagonal /\ (c \X c) \cap diagonal = diagonal
  BY DEF OrderedPairs
<1>4. Cardinality(c) \in Nat
  BY FS_CardinalityType
<1> HIDE DEF diagonal
<1>5. /\ IsFiniteSet((c \X c) \ diagonal)
      /\ Cardinality((c \X c) \ diagonal)
           = Cardinality(c \X c) - Cardinality((c \X c) \cap diagonal)
  BY <1>1, FS_Difference
<1>6. Cardinality(OrderedPairs(c)) = Cardinality(c) * Cardinality(c) - Cardinality(c)
  BY <1>1, <1>2, <1>3, <1>5
<1> QED
  BY <1>3, <1>4, <1>5, <1>6

\* Every member of the roster is in one group.
Partitions(groups, roster) ==
  /\ groups \subseteq SUBSET roster
  /\ \A s \in roster : \E c \in groups : s \in c
  /\ \A c, d \in groups : \A s \in c : s \in d => c = d

LEMMA HomeFacts ==
  ASSUME NEW groups, NEW roster, Partitions(groups, roster), NEW s \in roster
  PROVE  /\ Home(groups, s) \in groups /\ s \in Home(groups, s)
         /\ \A c \in groups : s \in c => c = Home(groups, s)
  BY DEF Partitions, Home

\* The ordered pairs that cross a boundary.
Crossing(ev, groups) == {p \in ev.roster \X ev.roster : p[2] \notin Home(groups, p[1])}

LEMMA CrossOrderedCounts ==
  ASSUME NEW ev, IsFiniteSet(ev.roster), NEW groups, Partitions(groups, ev.roster)
  PROVE  CrossOrdered(ev, groups) = Cardinality(Crossing(ev, groups))
<1> DEFINE S == ev.roster
           A == [c \in groups |-> OrderedPairs(c)]
           inside(c) == Cardinality(c) * (Cardinality(c) - 1)
           within == {p \in OrderedPairs(S) : p[2] \in Home(groups, p[1])}
           f == [q \in Pairs(A, groups, S \X S) |-> q[2]]
           sum == CHOOSE g : g = [s \in SUBSET groups |->
                                    IF s = {} THEN 0 ELSE inside(Pick(s)) + g[s \ {Pick(s)}]]
           n == Cardinality(S)
<1>1. CrossOrdered(ev, groups) = n * (n - 1) - sum[groups]
  BY DEF CrossOrdered, MapThenSumSet, MapThenFoldSet, Pick
<1>2. IsFiniteSet(groups) /\ \A c \in groups : IsFiniteSet(c) /\ c \subseteq S
  <2>1. IsFiniteSet(SUBSET S) /\ groups \subseteq SUBSET S  BY FS_SUBSET DEF Partitions
  <2> QED  BY <2>1, FS_Subset
<1>3. \A c \in groups : inside(c) = Cardinality(A[c])
  BY <1>2, OrderedPairsCount
<1>4. IsFiniteSet(S \X S) /\ A \in [groups -> SUBSET (S \X S)]
  <2>1. IsFiniteSet(S \X S)  BY FS_Product
  <2>2. \A c \in groups : OrderedPairs(c) \in SUBSET (S \X S)  BY <1>2 DEF OrderedPairs
  <2> QED  BY <2>1, <2>2
<1>5. Cardinality(within) = Cardinality(Pairs(A, groups, S \X S))
  <2>1. f \in [Pairs(A, groups, S \X S) -> within]
    <3> SUFFICES ASSUME NEW q \in Pairs(A, groups, S \X S) PROVE q[2] \in within  OBVIOUS
    <3>1. q[1] \in groups /\ q[2] \in OrderedPairs(q[1])  BY DEF Pairs
    <3>2. q[2] \in OrderedPairs(S) /\ q[2][1] \in q[1] /\ q[2][2] \in q[1]
      BY <1>2, <3>1 DEF OrderedPairs
    <3>3. q[1] = Home(groups, q[2][1])  BY <1>2, <3>1, <3>2, HomeFacts
    <3> QED  BY <3>2, <3>3
  <2>2. ASSUME NEW q \in Pairs(A, groups, S \X S), NEW r \in Pairs(A, groups, S \X S),
               f[q] = f[r]
        PROVE  q = r
    <3>1. q[2] = r[2]  BY <2>2
    <3>2. /\ q[1] \in groups /\ q[2] \in OrderedPairs(q[1]) /\ q = <<q[1], q[2]>>
          /\ r[1] \in groups /\ r[2] \in OrderedPairs(r[1]) /\ r = <<r[1], r[2]>>
      BY DEF Pairs
    <3>3. q[2][1] \in q[1] /\ r[2][1] \in r[1]  BY <3>2 DEF OrderedPairs
    <3>4. q[1] = r[1]  BY <3>1, <3>2, <3>3 DEF Partitions
    <3> QED  BY <3>1, <3>2, <3>4
  <2>3. ASSUME NEW p \in within PROVE \E q \in Pairs(A, groups, S \X S) : f[q] = p
    <3>1. p \in S \X S /\ p = <<p[1], p[2]>> /\ p[1] \in S /\ p[1] # p[2]  BY DEF OrderedPairs
    <3>2. Home(groups, p[1]) \in groups /\ p[1] \in Home(groups, p[1])
      BY <3>1, HomeFacts
    <3>3. p \in OrderedPairs(Home(groups, p[1]))  BY <3>1, <3>2 DEF OrderedPairs
    <3> DEFINE q == <<Home(groups, p[1]), p>>
    <3>4. q \in Pairs(A, groups, S \X S) /\ q[2] = p  BY <3>1, <3>2, <3>3 DEF Pairs
    <3> QED  BY <3>4
  <2>4. IsFiniteSet(Pairs(A, groups, S \X S))
    <3>1. groups \in SUBSET groups  OBVIOUS
    <3> HIDE DEF A, S
    <3> QED  BY <1>2, <1>4, <3>1, PairsStep
  <2> HIDE DEF f, within, A, S
  <2> QED  BY <2>1, <2>2, <2>3, <2>4, SameCount
<1>6. /\ Crossing(ev, groups) = OrderedPairs(S) \ within
      /\ OrderedPairs(S) \cap within = within
  BY HomeFacts DEF Crossing, OrderedPairs
<1>7. IsFiniteSet(OrderedPairs(S)) /\ Cardinality(OrderedPairs(S)) = n * (n - 1)
  BY OrderedPairsCount
<1> HIDE DEF A, inside, S, within
<1>8. Cardinality(OrderedPairs(S) \ within)
        = Cardinality(OrderedPairs(S)) - Cardinality(OrderedPairs(S) \cap within)
  BY <1>7, FS_Difference
<1>9. \A g : g = [s \in SUBSET groups |->
                   IF s = {} THEN 0 ELSE inside(Pick(s)) + g[s \ {Pick(s)}]]
                <=> Counts(g, A, groups)
  <2>1. \A s \in SUBSET groups : s # {} => inside(Pick(s)) = Cardinality(A[Pick(s)])
    BY <1>3 DEF Pick
  <2> QED  BY <2>1 DEF Counts
<1>10. Counts(sum, A, groups)
  <2>1. \E g : Counts(g, A, groups)  BY <1>2, <1>4, CountsExists
  <2> QED  BY <1>9, <2>1
<1> HIDE DEF sum
<1>11. sum[groups] = Cardinality(Pairs(A, groups, S \X S))
  BY <1>2, <1>4, <1>10, CountsPairs
<1> HIDE DEF n
<1> QED
  BY <1>1, <1>5, <1>6, <1>7, <1>8, <1>11

\* CONFIRMED is what it says: the closed form is zero exactly when every pair
\* that crosses a boundary is proven unreachable.
LEMMA ConfirmedCounts ==
  ASSUME NEW ev, FiniteEvidence(ev), NEW groups, Partitions(groups, ev.roster)
  PROVE  Confirmed(ev, groups) <=>
           \A p \in Crossing(ev, groups) : ResolveOrdered(ev, p[1], p[2]) = Unreachable
<1> DEFINE all == Crossing(ev, groups)
           good == {p \in ev.roster \X ev.roster : p[2] \in ProvenOutside(ev, groups, p[1])}
<1>1. IsFiniteSet(all)
  <2>1. IsFiniteSet(ev.roster \X ev.roster)  BY FS_Product DEF FiniteEvidence
  <2>2. all \subseteq ev.roster \X ev.roster  BY DEF Crossing
  <2> QED  BY <2>1, <2>2, FS_Subset
<1>2. good \subseteq all
      /\ (good = all <=> \A p \in all : ResolveOrdered(ev, p[1], p[2]) = Unreachable)
  BY DEF Crossing, ProvenOutside
<1>3. CrossOrdered(ev, groups) = Cardinality(all)
  BY CrossOrderedCounts DEF FiniteEvidence
<1>4. CrossUnreachable(ev, groups) = Cardinality(good)
  BY CrossUnreachableCounts
<1> HIDE DEF all, good
<1>5. IsFiniteSet(good) /\ (Cardinality(good) = Cardinality(all) => good = all)
  BY <1>1, <1>2, FS_Subset
<1>6. Cardinality(good) \in Nat /\ Cardinality(all) \in Nat
  BY <1>1, <1>5, FS_CardinalityType
<1>7. Confirmed(ev, groups) <=> Cardinality(all) - Cardinality(good) = 0
  BY <1>3, <1>4 DEF Confirmed, CrossIndeterminate
<1>8. Confirmed(ev, groups) <=> good = all
  BY <1>5, <1>6, <1>7
<1> QED
  BY <1>2, <1>8 DEF all

-----------------------------------------------------------------------------
(* The resolution of a pair.                                               *)

\* While at most one value of the pair is reported, each claim that covers the
\* source accounts for at most one hit, and the count of hits falls short of
\* the count of claims exactly when some claim omits the pair.
LEMMA SilentIsOmitted ==
  ASSUME NEW ev, FiniteEvidence(ev), NEW s, NEW t,
         ~(Reachable \in Observed(ev, s, t) /\ Unreachable \in Observed(ev, s, t))
  PROVE  Silent(ev, s, t) <=>
           \E b \in ev.fresh : s \in b.covered /\ \A v \in {Reachable, Unreachable} :
                                                    <<s, t, v>> \notin b.links
<1> DEFINE covers == {b \in ev.fresh : s \in b.covered}
           hits == {h \in covers \X {Reachable, Unreachable} : <<s, t, h[2]>> \in h[1].links}
           reporting == {b \in covers : \E v \in {Reachable, Unreachable} : <<s, t, v>> \in b.links}
           f == [h \in hits |-> h[1]]
<1>1. IsFiniteSet(covers)
  <2>1. covers \subseteq ev.fresh  OBVIOUS
  <2> QED  BY <2>1, FS_Subset DEF FiniteEvidence
<1>2. IsFiniteSet(hits)
  <2>1. IsFiniteSet({Reachable} \cup {Unreachable})  BY FS_Singleton, FS_Union
  <2>2. {Reachable, Unreachable} = {Reachable} \cup {Unreachable}  OBVIOUS
  <2>3. IsFiniteSet(covers \X {Reachable, Unreachable})
    <3> HIDE DEF covers
    <3> QED  BY <1>1, <2>1, <2>2, FS_Product
  <2>4. hits \subseteq covers \X {Reachable, Unreachable}  OBVIOUS
  <2> QED  BY <2>3, <2>4, FS_Subset
<1>3. Cardinality(reporting) = Cardinality(hits)
  <2>1. f \in [hits -> reporting]  OBVIOUS
  <2>2. ASSUME NEW h \in hits, NEW k \in hits, f[h] = f[k] PROVE h = k
    <3>1. /\ h = <<h[1], h[2]>> /\ k = <<k[1], k[2]>> /\ h[1] = k[1]
          /\ h[2] \in Observed(ev, s, t) /\ k[2] \in Observed(ev, s, t)
      BY <2>2 DEF Observed
    <3>2. h[2] = k[2]  BY <3>1 DEF Observed
    <3> QED  BY <3>1, <3>2
  <2>3. ASSUME NEW b \in reporting PROVE \E h \in hits : f[h] = b
    <3>1. PICK v \in {Reachable, Unreachable} : <<s, t, v>> \in b.links  OBVIOUS
    <3>2. <<b, v>> \in hits /\ f[<<b, v>>] = b  BY <3>1
    <3> QED  BY <3>2
  <2> HIDE DEF f, hits, reporting
  <2> QED  BY <1>2, <2>1, <2>2, <2>3, SameCount
<1>4. Silent(ev, s, t) <=> Cardinality(reporting) < Cardinality(covers)
  BY <1>3 DEF Silent, CoverHits, CoverCount
<1>5. reporting \subseteq covers
  OBVIOUS
<1>6. reporting = covers <=>
        ~\E b \in ev.fresh : s \in b.covered /\ \A v \in {Reachable, Unreachable} :
                                                   <<s, t, v>> \notin b.links
  OBVIOUS
<1> HIDE DEF covers, hits, reporting
<1>7. Cardinality(reporting) < Cardinality(covers) <=> reporting # covers
  <2>1. /\ IsFiniteSet(reporting) /\ Cardinality(reporting) <= Cardinality(covers)
        /\ Cardinality(reporting) = Cardinality(covers) => reporting = covers
    BY <1>1, <1>5, FS_Subset
  <2>2. Cardinality(reporting) \in Nat /\ Cardinality(covers) \in Nat
    BY <1>1, <2>1, FS_CardinalityType
  <2> QED  BY <2>1, <2>2
<1> QED
  BY <1>4, <1>6, <1>7

\* The resolution of the code is the table of README section 3, for evidence
\* that omits, repeats or contradicts itself.
LEMMA ResolveAgrees ==
  ASSUME NEW ev, FiniteEvidence(ev), NEW s, NEW t \in ev.roster
  PROVE  ResolveOrdered(ev, s, t) = ResolveByTable(ev, s, t)
<1> DEFINE seen == Observed(ev, s, t)
           omitted == \E b \in ev.fresh : s \in b.covered /\ \A v \in {Reachable, Unreachable} :
                                                               <<s, t, v>> \notin b.links
           expired == \E b \in ev.stale, v \in {Reachable, Unreachable} : <<s, t, v>> \in b.links
<1>1. /\ Reachable \in seen <=> \E b \in ev.fresh : <<s, t, Reachable>> \in b.links
      /\ Unreachable \in seen <=> \E b \in ev.fresh : <<s, t, Unreachable>> \in b.links
  BY DEF Observed
<1>2. t \in StaleRow(ev, s) <=> expired
  BY DEF StaleRow
<1>3. ResolveByTable(ev, s, t) =
        IF Reachable \in seen
        THEN IF Unreachable \in seen \/ omitted THEN Conflicting ELSE Reachable
        ELSE IF Unreachable \in seen \/ omitted THEN Unreachable
             ELSE IF expired THEN Stale ELSE Unknown
  <2> HIDE DEF seen
  <2> QED  BY <1>1 DEF ResolveByTable
<1>4. ResolveOrdered(ev, s, t) =
        IF Reachable \in seen
        THEN IF Unreachable \in seen \/ Silent(ev, s, t) THEN Conflicting ELSE Reachable
        ELSE IF Unreachable \in seen \/ Silent(ev, s, t) THEN Unreachable
             ELSE IF t \in StaleRow(ev, s) THEN Stale ELSE Unknown
  BY DEF ResolveOrdered
<1>5. ~(Reachable \in seen /\ Unreachable \in seen) => (Silent(ev, s, t) <=> omitted)
  BY SilentIsOmitted
<1> HIDE DEF seen, omitted, expired
<1> QED
  BY <1>2, <1>3, <1>4, <1>5

-----------------------------------------------------------------------------
(* The counters.                                                           *)

\* Finite evidence of a roster in which no bundle observes a component against
\* itself.
SoundEvidence(ev) ==
  /\ FiniteEvidence(ev)
  /\ \A b \in ev.fresh \cup ev.stale, s \in ev.roster, v \in {Reachable, Unreachable} :
       <<s, s, v>> \notin b.links

Categories == {Reachable, Unreachable, Conflicting, Stale, Unknown}

\* Where a target stands in the rows of its source decides what it can be
\* resolved to.
LEMMA RowResolves ==
  ASSUME NEW ev, FiniteEvidence(ev), NEW s, NEW t \in ev.roster
  PROVE  /\ t \in Row(ev, s)
              => ResolveOrdered(ev, s, t) \in {Reachable, Unreachable, Conflicting}
         /\ t \notin Row(ev, s) =>
              ResolveOrdered(ev, s, t) = IF CoverCount(ev, s) # 0 THEN Unreachable
                                         ELSE IF t \in StaleRow(ev, s) THEN Stale ELSE Unknown
<1>1. ResolveOrdered(ev, s, t) =
        IF Unreachable \in Observed(ev, s, t) \/ Silent(ev, s, t)
        THEN IF Reachable \in Observed(ev, s, t) THEN Conflicting ELSE Unreachable
        ELSE IF Reachable \in Observed(ev, s, t) THEN Reachable
             ELSE IF t \in StaleRow(ev, s) THEN Stale ELSE Unknown
  BY DEF ResolveOrdered
<1>2. Observed(ev, s, t) \subseteq {Reachable, Unreachable}
  BY DEF Observed
<1>3. t \in Row(ev, s) <=> Observed(ev, s, t) # {}
  BY DEF Row
<1>4. /\ CoverCount(ev, s) \in Nat /\ CoverHits(ev, s, t) \in Nat
      /\ Observed(ev, s, t) = {} => CoverHits(ev, s, t) = 0
  BY CoverFacts
<1>5. Observed(ev, s, t) = {} => (Silent(ev, s, t) <=> CoverCount(ev, s) # 0)
  BY <1>4 DEF Silent
<1> QED
  BY <1>1, <1>2, <1>3, <1>5

\* The targets of a source that resolve to a value.
Targets(ev, s, value) == {t \in ev.roster \ {s} : ResolveOrdered(ev, s, t) = value}

\* What the closed forms say of one source.
SourceReports(ev, s, value) ==
  LET covered == CoverCount(ev, s) # 0
  IN  CASE value = Reachable   -> CountRow(ev, s, Reachable)
        [] value = Unreachable ->
             CountRow(ev, s, Unreachable) + (IF covered THEN Unobserved(ev, s) ELSE 0)
        [] value = Conflicting -> CountRow(ev, s, Conflicting)
        [] value = Stale       -> CountRow(ev, s, Stale) + (IF covered THEN 0 ELSE StaleOnly(ev, s))
        [] value = Unknown     -> IF covered THEN 0 ELSE Unobserved(ev, s) - StaleOnly(ev, s)

LEMMA RowFacts ==
  ASSUME NEW ev, SoundEvidence(ev), NEW s \in ev.roster
  PROVE  /\ Row(ev, s) \subseteq ev.roster \ {s}
         /\ StaleRow(ev, s) \subseteq ev.roster \ {s}
         /\ IsFiniteSet(ev.roster \ {s})
         /\ Cardinality(ev.roster \ {s}) = Cardinality(ev.roster) - 1
<1>1. Row(ev, s) \subseteq ev.roster \ {s}
  BY DEF Row, Observed, SoundEvidence
<1>2. StaleRow(ev, s) \subseteq ev.roster \ {s}
  BY DEF StaleRow, SoundEvidence
<1>3. IsFiniteSet(ev.roster)
  BY DEF SoundEvidence, FiniteEvidence
<1> QED
  BY <1>1, <1>2, <1>3, FS_RemoveElement

LEMMA DisjointCount ==
  ASSUME NEW S, IsFiniteSet(S), NEW A \in SUBSET S, NEW B \in SUBSET S, A \cap B = {}
  PROVE  /\ IsFiniteSet(A) /\ Cardinality(A) \in Nat /\ Cardinality(S) \in Nat
         /\ Cardinality(A \cup B) = Cardinality(A) + Cardinality(B)
         /\ Cardinality(S \ A) = Cardinality(S) - Cardinality(A)
<1>1. IsFiniteSet(A) /\ IsFiniteSet(B)
  BY FS_Subset
<1>2. Cardinality(A) \in Nat /\ Cardinality(B) \in Nat /\ Cardinality(S) \in Nat
  BY <1>1, FS_CardinalityType
<1>3. Cardinality(A \cup B) = Cardinality(A) + Cardinality(B) - Cardinality(A \cap B)
  BY <1>1, FS_Union
<1>4. Cardinality(A \cap B) = 0
  BY FS_EmptySet
<1>5. Cardinality(S \ A) = Cardinality(S) - Cardinality(S \cap A) /\ S \cap A = A
  BY FS_Difference
<1> QED
  BY <1>1, <1>2, <1>3, <1>4, <1>5

LEMMA SourceReportsCount ==
  ASSUME NEW ev, SoundEvidence(ev), NEW s \in ev.roster, NEW value \in Categories
  PROVE  SourceReports(ev, s, value) = Cardinality(Targets(ev, s, value))
<1> DEFINE others == ev.roster \ {s}
           row == Row(ev, s)
           old == StaleRow(ev, s)
           rest == others \ row
           seen(v) == {t \in row : ResolveOrdered(ev, s, t) = v}
           covered == CoverCount(ev, s) # 0
<1>1. /\ row \subseteq others /\ old \subseteq others /\ IsFiniteSet(others)
      /\ Cardinality(others) = Cardinality(ev.roster) - 1
  BY RowFacts
<1>2. FiniteEvidence(ev)
  BY DEF SoundEvidence
<1>3. \A t \in row : ResolveOrdered(ev, s, t) \in {Reachable, Unreachable, Conflicting}
  BY <1>1, <1>2, RowResolves
<1>4. \A t \in rest : ResolveOrdered(ev, s, t) =
                        IF covered THEN Unreachable ELSE IF t \in old THEN Stale ELSE Unknown
  BY <1>1, <1>2, RowResolves
<1>5. /\ Targets(ev, s, Reachable) = seen(Reachable)
      /\ Targets(ev, s, Conflicting) = seen(Conflicting)
      /\ Targets(ev, s, Unreachable) = seen(Unreachable) \cup (IF covered THEN rest ELSE {})
      /\ Targets(ev, s, Stale) = IF covered THEN {} ELSE old \ row
      /\ Targets(ev, s, Unknown) = IF covered THEN {} ELSE rest \ (old \ row)
      /\ seen(Stale) = {}
  <2>1. others = row \cup rest /\ old \ row = {t \in rest : t \in old}
    BY <1>1
  <2>2. \A v : Targets(ev, s, v) = {t \in others : ResolveOrdered(ev, s, t) = v}
    BY DEF Targets
  <2> HIDE DEF others, row, rest, old, covered
  <2> QED
    BY <1>3, <1>4, <2>1, <2>2 DEF Reachable, Unreachable, Conflicting, Stale, Unknown
<1>6. /\ \A v : CountRow(ev, s, v) = Cardinality(seen(v))
      /\ Unobserved(ev, s) = (Cardinality(ev.roster) - 1) - Cardinality(row)
      /\ StaleOnly(ev, s) = Cardinality(old \ row)
  BY DEF CountRow, Unobserved, StaleOnly
<1>7. /\ SourceReports(ev, s, Reachable) = Cardinality(seen(Reachable))
      /\ SourceReports(ev, s, Unreachable) =
           Cardinality(seen(Unreachable)) + (IF covered THEN Unobserved(ev, s) ELSE 0)
      /\ SourceReports(ev, s, Conflicting) = Cardinality(seen(Conflicting))
      /\ SourceReports(ev, s, Stale) =
           Cardinality(seen(Stale)) + (IF covered THEN 0 ELSE StaleOnly(ev, s))
      /\ SourceReports(ev, s, Unknown) =
           IF covered THEN 0 ELSE Unobserved(ev, s) - StaleOnly(ev, s)
  <2> HIDE DEF seen, covered
  <2> QED
    BY <1>6 DEF SourceReports, Reachable, Unreachable, Conflicting, Stale, Unknown, covered
<1>8. seen(Unreachable) \subseteq row /\ rest \subseteq others /\ old \ row \subseteq rest
      /\ seen(Unreachable) \cap rest = {} /\ row \cap rest = {}
  BY <1>1
<1>9. /\ Cardinality(seen(Unreachable) \cup rest)
           = Cardinality(seen(Unreachable)) + Cardinality(rest)
      /\ Cardinality(seen(Unreachable)) \in Nat
  <2>1. seen(Unreachable) \in SUBSET others /\ rest \in SUBSET others
    BY <1>1
  <2> HIDE DEF seen, rest, others, row
  <2> QED
    BY <1>1, <1>8, <2>1, DisjointCount
<1>10. /\ Cardinality(rest) = Cardinality(others) - Cardinality(row) /\ IsFiniteSet(rest)
       /\ Cardinality(rest) \in Nat
  <2>1. rest = others \ row /\ row \in SUBSET others /\ rest \in SUBSET others
    BY <1>1
  <2>2. row \cap rest = {} /\ rest \cap row = {}
    OBVIOUS
  <2> HIDE DEF rest, others, row
  <2> QED
    BY <1>1, <2>1, <2>2, DisjointCount
<1>11. /\ Cardinality(rest \ (old \ row)) = Cardinality(rest) - Cardinality(old \ row)
       /\ Cardinality(old \ row) \in Nat
  <2>1. old \ row \in SUBSET rest /\ {} \in SUBSET rest /\ (old \ row) \cap {} = {}
    BY <1>1
  <2> HIDE DEF rest, old, row
  <2> QED
    BY <1>10, <2>1, DisjointCount
<1>12. Cardinality({}) = 0
  BY FS_EmptySet
<1> HIDE DEF others, row, old, rest, seen, covered
<1>13. Unobserved(ev, s) = Cardinality(rest)
  BY <1>1, <1>6, <1>10
<1>14. CASE value \in {Reachable, Conflicting}
  BY <1>5, <1>7, <1>14
<1>15. CASE value = Unreachable
  <2>1. seen(Unreachable) \cup {} = seen(Unreachable)  OBVIOUS
  <2>2. CASE covered
    BY <1>5, <1>7, <1>9, <1>13, <1>15, <2>2
  <2>3. CASE ~covered
    <3>1. Targets(ev, s, Unreachable) = seen(Unreachable)
      BY <1>5, <2>1, <2>3
    <3> QED
      BY <1>7, <1>9, <1>15, <2>3, <3>1
  <2> QED
    BY <2>2, <2>3
<1>16. CASE value = Stale
  <2>1. CASE covered
    BY <1>5, <1>7, <1>12, <1>16, <2>1
  <2>2. CASE ~covered
    <3>1. Targets(ev, s, Stale) = old \ row /\ Cardinality(seen(Stale)) = 0
      BY <1>5, <1>12, <2>2
    <3>2. SourceReports(ev, s, Stale) = 0 + Cardinality(old \ row)
      BY <1>6, <1>7, <2>2, <3>1
    <3> QED
      BY <1>11, <1>16, <3>1, <3>2
  <2> QED
    BY <2>1, <2>2
<1>17. CASE value = Unknown
  <2>1. CASE covered
    BY <1>5, <1>7, <1>12, <1>17, <2>1
  <2>2. CASE ~covered
    BY <1>5, <1>6, <1>7, <1>11, <1>13, <1>17, <2>2
  <2> QED
    BY <2>1, <2>2
<1> QED
  BY <1>14, <1>15, <1>16, <1>17 DEF Categories

\* The sums over the sources, as functions: the recursion of MapThenSumSet.
LEMMA CounterTotals ==
  ASSUME NEW ev, SoundEvidence(ev), NEW value \in Categories
  PROVE  /\ DOMAIN OrderedCounters(ev) = Categories
         /\ OrderedCounters(ev)[value] = Cardinality({p \in OrderedPairs(ev.roster) :
                                                        ResolveOrdered(ev, p[1], p[2]) = value})
<1> DEFINE S == ev.roster
           A == [s \in S |-> Targets(ev, s, value)]
           covered(s) == CoverCount(ev, s) # 0
<1>1. DOMAIN OrderedCounters(ev) = Categories
  BY DEF OrderedCounters, Categories
<1>2. IsFiniteSet(S) /\ A \in [S -> SUBSET S]
  BY DEF SoundEvidence, FiniteEvidence, Targets
<1>3. Pairs(A, S, S) = {p \in OrderedPairs(S) : ResolveOrdered(ev, p[1], p[2]) = value}
  BY DEF Pairs, Targets, OrderedPairs
<1>4. \A s \in SUBSET S : s # {} => Cardinality(A[Pick(s)]) = SourceReports(ev, Pick(s), value)
  BY SourceReportsCount DEF Pick
<1>5. \E g : Counts(g, A, S)
  <2> HIDE DEF A, S
  <2> QED  BY <1>2, CountsExists
<1>6. \A g : Counts(g, A, S) => g[S] = Cardinality(Pairs(A, S, S))
  <2> HIDE DEF A, S
  <2> QED  BY <1>2, CountsPairs
<1>7. CASE value = Reachable
  <2> DEFINE step(g, s) == IF s = {} THEN 0
                           ELSE CountRow(ev, Pick(s), Reachable)
                                + g[s \ {Pick(s)}]
             sum == CHOOSE g : g = [s \in SUBSET S |-> step(g, s)]
  <2>1. OrderedCounters(ev)[Reachable] = sum[S]
    BY DEF OrderedCounters, MapThenSumSet, MapThenFoldSet, Pick, Reachable, Unreachable,
       Conflicting, Stale, Unknown
  <2>2. \A g : g = [s \in SUBSET S |-> step(g, s)] <=> Counts(g, A, S)
    <3>1. \A s \in SUBSET S : s # {} => Cardinality(A[Pick(s)]) =
                                          CountRow(ev, Pick(s), Reachable)
      BY <1>4, <1>7 DEF SourceReports, Reachable, Unreachable, Conflicting, Stale, Unknown
    <3> HIDE DEF A, S, covered
    <3> QED  BY <3>1 DEF Counts
  <2> HIDE DEF step, S, A
  <2>3. Counts(sum, A, S)
    BY <1>5, <2>2
  <2> HIDE DEF sum
  <2> QED
    BY <1>1, <1>3, <1>6, <1>7, <2>1, <2>3 DEF S
<1>8. CASE value = Unreachable
  <2> DEFINE step(g, s) == IF s = {} THEN 0
                           ELSE (CountRow(ev, Pick(s), Unreachable)
                                + (IF covered(Pick(s)) THEN Unobserved(ev, Pick(s)) ELSE 0))
                                + g[s \ {Pick(s)}]
             sum == CHOOSE g : g = [s \in SUBSET S |-> step(g, s)]
  <2>1. OrderedCounters(ev)[Unreachable] = sum[S]
    BY DEF OrderedCounters, MapThenSumSet, MapThenFoldSet, Pick, Reachable, Unreachable,
       Conflicting, Stale, Unknown
  <2>2. \A g : g = [s \in SUBSET S |-> step(g, s)] <=> Counts(g, A, S)
    <3>1. \A s \in SUBSET S : s # {} =>
            Cardinality(A[Pick(s)]) =
              (CountRow(ev, Pick(s), Unreachable)
               + (IF covered(Pick(s)) THEN Unobserved(ev, Pick(s)) ELSE 0))
      BY <1>4, <1>8 DEF SourceReports, Reachable, Unreachable, Conflicting, Stale, Unknown
    <3> HIDE DEF A, S, covered
    <3> QED  BY <3>1 DEF Counts
  <2> HIDE DEF step, S, A
  <2>3. Counts(sum, A, S)
    BY <1>5, <2>2
  <2> HIDE DEF sum
  <2> QED
    BY <1>1, <1>3, <1>6, <1>8, <2>1, <2>3 DEF S
<1>9. CASE value = Conflicting
  <2> DEFINE step(g, s) == IF s = {} THEN 0
                           ELSE CountRow(ev, Pick(s), Conflicting)
                                + g[s \ {Pick(s)}]
             sum == CHOOSE g : g = [s \in SUBSET S |-> step(g, s)]
  <2>1. OrderedCounters(ev)[Conflicting] = sum[S]
    BY DEF OrderedCounters, MapThenSumSet, MapThenFoldSet, Pick, Reachable, Unreachable,
       Conflicting, Stale, Unknown
  <2>2. \A g : g = [s \in SUBSET S |-> step(g, s)] <=> Counts(g, A, S)
    <3>1. \A s \in SUBSET S : s # {} => Cardinality(A[Pick(s)]) =
                                          CountRow(ev, Pick(s), Conflicting)
      BY <1>4, <1>9 DEF SourceReports, Reachable, Unreachable, Conflicting, Stale, Unknown
    <3> HIDE DEF A, S, covered
    <3> QED  BY <3>1 DEF Counts
  <2> HIDE DEF step, S, A
  <2>3. Counts(sum, A, S)
    BY <1>5, <2>2
  <2> HIDE DEF sum
  <2> QED
    BY <1>1, <1>3, <1>6, <1>9, <2>1, <2>3 DEF S
<1>10. CASE value = Stale
  <2> DEFINE step(g, s) == IF s = {} THEN 0
                           ELSE (CountRow(ev, Pick(s), Stale)
                                + (IF covered(Pick(s)) THEN 0 ELSE StaleOnly(ev, Pick(s))))
                                + g[s \ {Pick(s)}]
             sum == CHOOSE g : g = [s \in SUBSET S |-> step(g, s)]
  <2>1. OrderedCounters(ev)[Stale] = sum[S]
    BY DEF OrderedCounters, MapThenSumSet, MapThenFoldSet, Pick, Reachable, Unreachable,
       Conflicting, Stale, Unknown
  <2>2. \A g : g = [s \in SUBSET S |-> step(g, s)] <=> Counts(g, A, S)
    <3>1. \A s \in SUBSET S : s # {} =>
            Cardinality(A[Pick(s)]) =
              (CountRow(ev, Pick(s), Stale)
               + (IF covered(Pick(s)) THEN 0 ELSE StaleOnly(ev, Pick(s))))
      BY <1>4, <1>10 DEF SourceReports, Reachable, Unreachable, Conflicting, Stale, Unknown
    <3> HIDE DEF A, S, covered
    <3> QED  BY <3>1 DEF Counts
  <2> HIDE DEF step, S, A
  <2>3. Counts(sum, A, S)
    BY <1>5, <2>2
  <2> HIDE DEF sum
  <2> QED
    BY <1>1, <1>3, <1>6, <1>10, <2>1, <2>3 DEF S
<1>11. CASE value = Unknown
  <2> DEFINE step(g, s) == IF s = {} THEN 0
                           ELSE (IF covered(Pick(s)) THEN 0
                                ELSE Unobserved(ev, Pick(s)) - StaleOnly(ev, Pick(s)))
                                + g[s \ {Pick(s)}]
             sum == CHOOSE g : g = [s \in SUBSET S |-> step(g, s)]
  <2>1. OrderedCounters(ev)[Unknown] = sum[S]
    BY DEF OrderedCounters, MapThenSumSet, MapThenFoldSet, Pick, Reachable, Unreachable,
       Conflicting, Stale, Unknown
  <2>2. \A g : g = [s \in SUBSET S |-> step(g, s)] <=> Counts(g, A, S)
    <3>1. \A s \in SUBSET S : s # {} => Cardinality(A[Pick(s)]) =
                                          (IF covered(Pick(s)) THEN 0
                                          ELSE Unobserved(ev, Pick(s)) - StaleOnly(ev, Pick(s)))
      BY <1>4, <1>11 DEF SourceReports, Reachable, Unreachable, Conflicting, Stale, Unknown
    <3> HIDE DEF A, S, covered
    <3> QED  BY <3>1 DEF Counts
  <2> HIDE DEF step, S, A
  <2>3. Counts(sum, A, S)
    BY <1>5, <2>2
  <2> HIDE DEF sum
  <2> QED
    BY <1>1, <1>3, <1>6, <1>11, <2>1, <2>3 DEF S
<1> QED
  BY <1>7, <1>8, <1>9, <1>10, <1>11 DEF Categories

\* Every pair is in one of the five categories.
LEMMA ResolvesToAValue ==
  ASSUME NEW ev, NEW s, NEW t
  PROVE  ResolveOrdered(ev, s, t) \in Categories
  BY DEF ResolveOrdered, Categories

\* The five categories share out the ordered pairs.
LEMMA CategoriesAddUp ==
  ASSUME NEW ev, SoundEvidence(ev)
  PROVE  LET counters == OrderedCounters(ev)
             n == Cardinality(ev.roster)
         IN  MapThenSumSet(LAMBDA v : counters[v], DOMAIN counters) = n * (n - 1)
<1> DEFINE counters == OrderedCounters(ev)
           n == Cardinality(ev.roster)
           T == OrderedPairs(ev.roster)
           A == [v \in Categories |-> {p \in T : ResolveOrdered(ev, p[1], p[2]) = v}]
           step(g, s) == IF s = {} THEN 0 ELSE counters[Pick(s)] + g[s \ {Pick(s)}]
           sum == CHOOSE g : g = [s \in SUBSET Categories |-> step(g, s)]
           f == [q \in Pairs(A, Categories, T) |-> q[2]]
<1>1. IsFiniteSet(T) /\ Cardinality(T) = n * (n - 1)
  BY OrderedPairsCount DEF SoundEvidence, FiniteEvidence
<1>2. IsFiniteSet(Categories)
  <2>1. /\ IsFiniteSet({Reachable}) /\ IsFiniteSet({Unreachable}) /\ IsFiniteSet({Conflicting})
        /\ IsFiniteSet({Stale}) /\ IsFiniteSet({Unknown})
    BY FS_Singleton
  <2>2. IsFiniteSet({Reachable} \cup {Unreachable} \cup {Conflicting} \cup {Stale} \cup {Unknown})
    BY <2>1, FS_Union
  <2>3. Categories = {Reachable} \cup {Unreachable} \cup {Conflicting} \cup {Stale} \cup {Unknown}
    BY DEF Categories
  <2> QED
    BY <2>2, <2>3
<1>3. A \in [Categories -> SUBSET T]
  OBVIOUS
<1>4. \A v \in Categories : counters[v] = Cardinality(A[v])
  BY CounterTotals
<1>5. DOMAIN counters = Categories
  <2>1. Reachable \in Categories  BY DEF Categories
  <2> QED  BY <2>1, CounterTotals
<1>6. MapThenSumSet(LAMBDA v : counters[v], DOMAIN counters) = sum[Categories]
  <2>1. MapThenSumSet(LAMBDA v : counters[v], Categories) = sum[Categories]
    <3> HIDE DEF counters, Categories
    <3> QED  BY DEF MapThenSumSet, MapThenFoldSet, Pick
  <2> QED  BY <1>5, <2>1
<1>7. Cardinality(T) = Cardinality(Pairs(A, Categories, T))
  <2>1. f \in [Pairs(A, Categories, T) -> T]
    BY DEF Pairs
  <2>2. ASSUME NEW q \in Pairs(A, Categories, T), NEW r \in Pairs(A, Categories, T), f[q] = f[r]
        PROVE  q = r
    BY <2>2 DEF Pairs
  <2>3. ASSUME NEW p \in T PROVE \E q \in Pairs(A, Categories, T) : f[q] = p
    <3> DEFINE q == <<ResolveOrdered(ev, p[1], p[2]), p>>
    <3>1. q \in Pairs(A, Categories, T) /\ q[2] = p
      BY ResolvesToAValue DEF Pairs
    <3> QED  BY <3>1
  <2>4. IsFiniteSet(Pairs(A, Categories, T))
    <3>1. Categories \in SUBSET Categories  OBVIOUS
    <3> HIDE DEF A, T
    <3> QED  BY <1>1, <1>2, <1>3, <3>1, PairsStep
  <2> HIDE DEF f, A, T
  <2> QED  BY <2>1, <2>2, <2>3, <2>4, SameCount
<1> HIDE DEF A, T, counters
<1>8. \A g : g = [s \in SUBSET Categories |-> step(g, s)] <=> Counts(g, A, Categories)
  <2>1. \A s \in SUBSET Categories : s # {} => counters[Pick(s)] = Cardinality(A[Pick(s)])
    BY <1>4 DEF Pick
  <2> QED  BY <2>1 DEF Counts
<1> HIDE DEF step
<1>9. Counts(sum, A, Categories)
  <2>1. \E g : Counts(g, A, Categories)  BY <1>1, <1>2, <1>3, CountsExists
  <2> QED  BY <1>8, <2>1
<1> HIDE DEF sum
<1>10. sum[Categories] = Cardinality(Pairs(A, Categories, T))
  BY <1>1, <1>2, <1>3, <1>9, CountsPairs
<1> QED
  BY <1>1, <1>6, <1>7, <1>10 DEF counters

\* A pair is UNKNOWN when nothing fresh or stale mentions it and no fresh claim
\* covers its source.
LEMMA UnknownMeans ==
  ASSUME NEW ev, FiniteEvidence(ev), NEW s, NEW t \in ev.roster
  PROVE  ResolveOrdered(ev, s, t) = Unknown <=>
           CoverCount(ev, s) = 0 /\ t \notin Row(ev, s) \cup StaleRow(ev, s)
  BY RowResolves DEF Reachable, Unreachable, Conflicting, Stale, Unknown

\* The targets proven one way of which the other way is UNKNOWN.
OneWay(ev, s) ==
  {t \in ev.roster \ {s} : /\ ResolveOrdered(ev, s, t) \in {Reachable, Unreachable}
                           /\ ResolveOrdered(ev, t, s) = Unknown}

LEMMA SourceOneWay ==
  ASSUME NEW ev, SoundEvidence(ev), NEW s \in ev.roster
  PROVE  LET covered == {r \in ev.roster : CoverCount(ev, r) # 0}
             touches == {r \in ev.roster \ covered : s \in Row(ev, r) \cup StaleRow(ev, r)}
             reverseUnknown == (Cardinality(ev.roster) - 1)
                               - (Cardinality(covered \ {s}) + Cardinality(touches))
             unknownReverse == {t \in Row(ev, s) : ResolveOrdered(ev, t, s) = Unknown}
             conflicts == {t \in unknownReverse : ResolveOrdered(ev, s, t) = Conflicting}
             proven == {t \in unknownReverse :
                          ResolveOrdered(ev, s, t) \in {Reachable, Unreachable}}
             floored(n) == IF n > 0 THEN n ELSE 0
         IN  (IF s \in covered THEN floored(reverseUnknown - Cardinality(conflicts))
                               ELSE Cardinality(proven))
               = Cardinality(OneWay(ev, s))
<1> DEFINE covered == {r \in ev.roster : CoverCount(ev, r) # 0}
           touches == {r \in ev.roster \ covered : s \in Row(ev, r) \cup StaleRow(ev, r)}
           reverseUnknown == (Cardinality(ev.roster) - 1)
                             - (Cardinality(covered \ {s}) + Cardinality(touches))
           unknownReverse == {t \in Row(ev, s) : ResolveOrdered(ev, t, s) = Unknown}
           conflicts == {t \in unknownReverse : ResolveOrdered(ev, s, t) = Conflicting}
           proven == {t \in unknownReverse : ResolveOrdered(ev, s, t) \in {Reachable, Unreachable}}
           floored(n) == IF n > 0 THEN n ELSE 0
           others == ev.roster \ {s}
           claimed == covered \ {s}
           silent == {t \in others : ResolveOrdered(ev, t, s) = Unknown}
           oneWay == OneWay(ev, s)
<1>1. /\ Row(ev, s) \subseteq others /\ s \notin Row(ev, s) \cup StaleRow(ev, s)
      /\ IsFiniteSet(others) /\ Cardinality(others) = Cardinality(ev.roster) - 1
  BY RowFacts
<1>2. FiniteEvidence(ev)
  BY DEF SoundEvidence
<1>3. \A r \in ev.roster : ResolveOrdered(ev, r, s) = Unknown
                             <=> r \notin covered /\ s \notin Row(ev, r) \cup StaleRow(ev, r)
  BY <1>2, UnknownMeans
<1>4. CASE s \in covered
  <2>1. silent = others \ (claimed \cup touches)
    BY <1>3
  <2>2. claimed \in SUBSET others /\ touches \in SUBSET others /\ claimed \cap touches = {}
    BY <1>1
  <2>3. ASSUME NEW t \in others
        PROVE  /\ ResolveOrdered(ev, s, t) \in {Reachable, Unreachable, Conflicting}
               /\ ResolveOrdered(ev, s, t) = Conflicting => t \in Row(ev, s)
    BY <1>2, <1>4, RowResolves DEF Reachable, Unreachable, Conflicting
  <2>4. conflicts \in SUBSET silent /\ oneWay = silent \ conflicts
    BY <1>1, <2>3 DEF OneWay, Reachable, Unreachable, Conflicting
  <2>5. silent \in SUBSET others
    OBVIOUS
  <2> HIDE DEF covered, touches, conflicts, silent, others, claimed, oneWay
  <2>6. /\ Cardinality(claimed \cup touches) = Cardinality(claimed) + Cardinality(touches)
    BY ZenonT(30), <1>1, <2>2, DisjointCount
  <2>7. /\ Cardinality(silent) = Cardinality(others) - Cardinality(claimed \cup touches)
        /\ Cardinality(silent) \in Nat /\ IsFiniteSet(silent)
    <3>1. claimed \cup touches \in SUBSET others /\ {} \in SUBSET others
          /\ (claimed \cup touches) \cap {} = {} /\ silent \cap {} = {}
      BY <2>2
    <3>2. Cardinality(others \ (claimed \cup touches))
            = Cardinality(others) - Cardinality(claimed \cup touches)
      BY <1>1, <3>1, DisjointCount
    <3>3. Cardinality(silent) \in Nat /\ IsFiniteSet(silent)
      BY <1>1, <2>5, <3>1, DisjointCount
    <3> QED  BY <2>1, <3>2, <3>3
  <2>8. /\ Cardinality(oneWay) = Cardinality(silent) - Cardinality(conflicts)
        /\ Cardinality(oneWay) \in Nat
    <3>1. {} \in SUBSET silent /\ conflicts \cap {} = {} /\ oneWay \cap {} = {}
          /\ oneWay \in SUBSET silent
      BY <2>4
    <3>2. Cardinality(silent \ conflicts) = Cardinality(silent) - Cardinality(conflicts)
      BY <2>4, <2>7, <3>1, DisjointCount
    <3>3. Cardinality(oneWay) \in Nat
      BY <2>7, <3>1, DisjointCount
    <3> QED  BY <2>4, <3>2, <3>3
  <2>9. reverseUnknown = Cardinality(silent)
    BY <1>1, <2>6, <2>7 DEF claimed
  <2> HIDE DEF reverseUnknown
  <2>10. floored(reverseUnknown - Cardinality(conflicts)) = Cardinality(oneWay)
    BY <2>8, <2>9
  <2>11. (IF s \in covered THEN floored(reverseUnknown - Cardinality(conflicts))
                           ELSE Cardinality(proven)) = Cardinality(oneWay)
    BY <1>4, <2>10
  <2> QED
    BY <2>11 DEF covered, touches, conflicts, reverseUnknown, oneWay
<1>5. CASE s \notin covered
  <2>1. ASSUME NEW t \in others, ResolveOrdered(ev, s, t) \in {Reachable, Unreachable}
        PROVE  t \in Row(ev, s)
    BY <1>2, <1>5, <2>1, RowResolves DEF Reachable, Unreachable, Stale, Unknown
  <2>2. proven = oneWay
    BY <1>1, <2>1 DEF OneWay
  <2> QED
    BY <1>5, <2>2
<1> QED
  BY <1>4, <1>5

LEMMA AsymmetricCounts ==
  ASSUME NEW ev, SoundEvidence(ev)
  PROVE  OrderedAsymmetric(ev) =
           Cardinality({p \in OrderedPairs(ev.roster) :
                          /\ ResolveOrdered(ev, p[1], p[2]) \in {Reachable, Unreachable}
                          /\ ResolveOrdered(ev, p[2], p[1]) = Unknown})
<1> DEFINE S == ev.roster
           A == [s \in S |-> OneWay(ev, s)]
           covered == {s \in S : CoverCount(ev, s) # 0}
           touches(s) == {r \in S \ covered : s \in Row(ev, r) \cup StaleRow(ev, r)}
           reverseUnknown(s) == (Cardinality(S) - 1)
                                - (Cardinality(covered \ {s}) + Cardinality(touches(s)))
           unknownReverse(s) == {t \in Row(ev, s) : ResolveOrdered(ev, t, s) = Unknown}
           conflicts(s) == {t \in unknownReverse(s) : ResolveOrdered(ev, s, t) = Conflicting}
           proven(s) == {t \in unknownReverse(s) :
                           ResolveOrdered(ev, s, t) \in {Reachable, Unreachable}}
           floored(n) == IF n > 0 THEN n ELSE 0
           count(s) == IF s \in covered THEN floored(reverseUnknown(s) - Cardinality(conflicts(s)))
                                        ELSE Cardinality(proven(s))
           sum == CHOOSE g : g = [s \in SUBSET S |->
                                    IF s = {} THEN 0 ELSE count(Pick(s)) + g[s \ {Pick(s)}]]
<1>1. OrderedAsymmetric(ev) = sum[S]
  BY DEF OrderedAsymmetric, MapThenSumSet, MapThenFoldSet, Pick
<1>2. \A s \in S : count(s) = Cardinality(A[s])
  BY SourceOneWay
<1>3. IsFiniteSet(S) /\ A \in [S -> SUBSET S]
  BY DEF SoundEvidence, FiniteEvidence, OneWay
<1>4. Pairs(A, S, S) = {p \in OrderedPairs(S) :
                          /\ ResolveOrdered(ev, p[1], p[2]) \in {Reachable, Unreachable}
                          /\ ResolveOrdered(ev, p[2], p[1]) = Unknown}
  BY DEF Pairs, OneWay, OrderedPairs
<1> HIDE DEF A, count, S
<1>5. \A g : g = [s \in SUBSET S |-> IF s = {} THEN 0 ELSE count(Pick(s)) + g[s \ {Pick(s)}]]
                <=> Counts(g, A, S)
  <2>1. \A s \in SUBSET S : s # {} => count(Pick(s)) = Cardinality(A[Pick(s)])
    BY <1>2 DEF Pick
  <2> QED  BY <2>1 DEF Counts
<1>6. Counts(sum, A, S)
  <2>1. \E g : Counts(g, A, S)  BY <1>3, CountsExists
  <2> QED  BY <1>5, <2>1
<1> HIDE DEF sum
<1>7. sum[S] = Cardinality(Pairs(A, S, S))
  BY <1>3, <1>6, CountsPairs
<1> QED
  BY <1>1, <1>4, <1>7 DEF S

LEMMA ContradictoryCounts ==
  ASSUME NEW ev, SoundEvidence(ev)
  PROVE  OrderedContradictory(ev) =
           Cardinality({p \in OrderedPairs(ev.roster) :
                          /\ ResolveOrdered(ev, p[1], p[2]) = Reachable
                          /\ ResolveOrdered(ev, p[2], p[1]) = Unreachable})
<1> DEFINE some == {p \in ev.roster \X ev.roster :
                      /\ p[2] \in Row(ev, p[1])
                      /\ ResolveOrdered(ev, p[1], p[2]) = Reachable
                      /\ ResolveOrdered(ev, p[2], p[1]) = Unreachable}
           all == {p \in OrderedPairs(ev.roster) :
                     /\ ResolveOrdered(ev, p[1], p[2]) = Reachable
                     /\ ResolveOrdered(ev, p[2], p[1]) = Unreachable}
<1>1. ASSUME NEW p \in ev.roster \X ev.roster, ResolveOrdered(ev, p[1], p[2]) = Reachable
      PROVE  p[2] \in Row(ev, p[1]) /\ p[1] # p[2]
  <2>1. p[1] \in ev.roster /\ p[2] \in ev.roster /\ FiniteEvidence(ev)
    BY DEF SoundEvidence
  <2>2. p[2] \in Row(ev, p[1])
    BY <1>1, <2>1, RowResolves DEF Reachable, Unreachable, Stale, Unknown
  <2>3. Row(ev, p[1]) \subseteq ev.roster \ {p[1]}
    BY <2>1, RowFacts
  <2> QED
    BY <2>2, <2>3
<1>2. some = all
  BY <1>1 DEF OrderedPairs
<1> QED
  BY <1>2 DEF OrderedContradictory

-----------------------------------------------------------------------------
(* A snapshot.                                                             *)

\* The components of a snapshot partition its roster.
LEMMA ComponentsPartition ==
  ASSUME NEW ev
  PROVE  Partitions(Components(ev.roster, Edges(ev)), ev.roster)
<1>1. \A e \in Edges(ev) : e \subseteq ev.roster
  BY DEF Edges
<1>2. \A s \in ev.roster : \E c \in Components(ev.roster, Edges(ev)) : s \in c
  BY <1>1, ComponentExists
<1>3. Components(ev.roster, Edges(ev)) \subseteq SUBSET ev.roster
  BY DEF Components
<1>4. \A c, d \in Components(ev.roster, Edges(ev)) : \A s \in c : s \in d => c = d
  BY ComponentsDisjoint
<1> QED
  BY <1>2, <1>3, <1>4 DEF Partitions

\* A decomposition is CONFIRMED exactly when the table proves every pair that
\* crosses it unreachable.
LEMMA ConfirmedByTable ==
  ASSUME NEW ev, FiniteEvidence(ev)
  PROVE  LET groups == Components(ev.roster, Edges(ev))
         IN  Confirmed(ev, groups) <=>
               \A p \in OrderedPairs(ev.roster) :
                 p[2] \notin Home(groups, p[1]) => ResolveByTable(ev, p[1], p[2]) = Unreachable
<1> DEFINE groups == Components(ev.roster, Edges(ev))
<1>1. Partitions(groups, ev.roster)
  BY ComponentsPartition
<1> HIDE DEF groups
<1>2. Confirmed(ev, groups) <=>
        \A p \in Crossing(ev, groups) : ResolveOrdered(ev, p[1], p[2]) = Unreachable
  BY <1>1, ConfirmedCounts
<1>3. \A p \in ev.roster \X ev.roster :
        ResolveOrdered(ev, p[1], p[2]) = ResolveByTable(ev, p[1], p[2])
  BY ResolveAgrees
<1>4. Crossing(ev, groups) = {p \in OrderedPairs(ev.roster) : p[2] \notin Home(groups, p[1])}
  BY <1>1, HomeFacts DEF Crossing, OrderedPairs
<1>5. OrderedPairs(ev.roster) \subseteq ev.roster \X ev.roster
  BY DEF OrderedPairs
<1> QED
  BY <1>2, <1>3, <1>4, <1>5 DEF groups

=============================================================================
