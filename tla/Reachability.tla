------------------------------ MODULE Reachability ------------------------------
(***************************************************************************)
(* Resolution of a set of evidence bundles into a reachability snapshot    *)
(* (src/src/reachability.cpp, build_reachability_snapshot).                *)
(*                                                                         *)
(* A bundle is a record                                                    *)
(*   [publisher, boot, sequence : who published it, and its place there,   *)
(*    topology : the topology generation it was observed against,          *)
(*    observed, validity : observation tick and validity horizon,          *)
(*    covered  : the sources of a COMPLETE claim, {} for a PARTIAL one,    *)
(*    links    : a set of directed observations <<source, target, value>>] *)
(*                                                                         *)
(* The code never walks the N^2 pairs: it derives every counter from the   *)
(* observed rows, the coverage claims and closed forms.  The counters here *)
(* are those closed forms; the section at the end states what each of them *)
(* is supposed to count, pair by pair.                                     *)
(***************************************************************************)
EXTENDS Integers, FiniteSets, FiniteSetsExt

Reachable   == "REACHABLE"
Unreachable == "UNREACHABLE"
Conflicting == "CONFLICTING"
Stale       == "STALE"
Unknown     == "UNKNOWN"

-----------------------------------------------------------------------------
(* The evidence a snapshot is resolved from.                               *)

\* The freshness horizon: the bundle's own validity, shortened by the
\* policy's maximum age unless that is 0 (no policy horizon).
Horizon(validity, age) ==
  IF age # 0 /\ (validity = 0 \/ age < validity) THEN age ELSE validity

IsFresh(b, age, now) ==
  /\ b.observed <= now
  /\ now - b.observed <= Horizon(b.validity, age)

\* Bundles of another topology generation are skipped; the others are fresh
\* or stale at the evaluation tick.
Evidence(roster, topology, bundles, age, now) ==
  LET own == {b \in bundles : b.topology = topology}
  IN  [roster |-> roster,
       fresh  |-> {b \in own : IsFresh(b, age, now)},
       stale  |-> {b \in own : ~IsFresh(b, age, now)}]

\* OrderedIndex: the values some fresh bundle reported for a directed pair.
Observed(ev, s, t) ==
  {v \in {Reachable, Unreachable} : \E b \in ev.fresh : <<s, t, v>> \in b.links}

\* The row of a source: the targets it has a fresh observation of.
Row(ev, s) == {t \in ev.roster : Observed(ev, s, t) # {}}

\* PackedKeySet: the targets a source has an expired observation of.
StaleRow(ev, s) ==
  {t \in ev.roster : \E b \in ev.stale, v \in {Reachable, Unreachable} :
                       <<s, t, v>> \in b.links}

CoverCount(ev, s) == Cardinality({b \in ev.fresh : s \in b.covered})

\* CoverCounter: how many observations of the pair the claims covering its
\* source carry.  One claim that reports both values counts twice.
CoverHits(ev, s, t) ==
  Cardinality({h \in {b \in ev.fresh : s \in b.covered} \X {Reachable, Unreachable} :
                 <<s, t, h[2]>> \in h[1].links})

\* Silence with the comparison off by one.
SilentUncovered(ev, s, t) == CoverHits(ev, s, t) <= CoverCount(ev, s)

\* Some claim that covers the source does not mention the target.
Silent(ev, s, t) == CoverHits(ev, s, t) < CoverCount(ev, s)

ResolveOrdered(ev, s, t) ==
  LET seen == Observed(ev, s, t)
      negative == Unreachable \in seen \/ Silent(ev, s, t)
  IN  CASE Reachable \in seen /\ negative  -> Conflicting
        [] Reachable \in seen /\ ~negative -> Reachable
        [] Reachable \notin seen /\ negative -> Unreachable
        [] Reachable \notin seen /\ ~negative /\ t \in StaleRow(ev, s) -> Stale
        [] OTHER -> Unknown

-----------------------------------------------------------------------------
(* The decomposition.                                                      *)

\* One direction is enough for an edge.
EdgeEitherWay(ev, s, t) ==
  \/ ResolveOrdered(ev, s, t) = Reachable
  \/ ResolveOrdered(ev, t, s) = Reachable

\* A usable edge needs both directions resolved REACHABLE.
Edge(ev, s, t) ==
  /\ ResolveOrdered(ev, s, t) = Reachable
  /\ ResolveOrdered(ev, t, s) = Reachable

Edges(ev) == {{p[1], p[2]} : p \in {q \in ev.roster \X ev.roster :
                                       q[1] # q[2] /\ Edge(ev, q[1], q[2])}}

\* DisjointSet: the classes union-find leaves, as the sets no edge leaves and
\* every cut of which some edge crosses.
Components(roster, edges) ==
  {c \in SUBSET roster :
     /\ c # {}
     /\ \A e \in edges : e \subseteq c \/ e \cap c = {}
     /\ \A part \in SUBSET c :
          part \notin {{}, c} => \E e \in edges : e \cap part # {} /\ e \cap (c \ part) # {}}

Home(groups, s) == CHOOSE c \in groups : s \in c

-----------------------------------------------------------------------------
(* The counters, in the closed forms of the code.                          *)

CountRow(ev, s, value) == Cardinality({t \in Row(ev, s) : ResolveOrdered(ev, s, t) = value})

Unobserved(ev, s) == (Cardinality(ev.roster) - 1) - Cardinality(Row(ev, s))

StaleOnly(ev, s) == Cardinality(StaleRow(ev, s) \ Row(ev, s))

OrderedCounters(ev) ==
  LET total(f(_)) == MapThenSumSet(f, ev.roster)
      covered(s) == CoverCount(ev, s) # 0
      reachable(s) == CountRow(ev, s, Reachable)
      unreachable(s) == CountRow(ev, s, Unreachable) + (IF covered(s) THEN Unobserved(ev, s) ELSE 0)
      conflicting(s) == CountRow(ev, s, Conflicting)
      stale(s) == CountRow(ev, s, Stale) + (IF covered(s) THEN 0 ELSE StaleOnly(ev, s))
      unknown(s) == IF covered(s) THEN 0 ELSE Unobserved(ev, s) - StaleOnly(ev, s)
  IN  [value \in {Reachable, Unreachable, Conflicting, Stale, Unknown} |->
         CASE value = Reachable   -> total(reachable)
           [] value = Unreachable -> total(unreachable)
           [] value = Conflicting -> total(conflicting)
           [] value = Stale       -> total(stale)
           [] value = Unknown     -> total(unknown)]

\* All ordered pairs minus the pairs inside a component.
CrossOrdered(ev, groups) ==
  LET inside(c) == Cardinality(c) * (Cardinality(c) - 1)
      n == Cardinality(ev.roster)
  IN  n * (n - 1) - MapThenSumSet(inside, groups)

\* Crossing pairs proven unreachable, with every one of a covered source's
\* taken as proven.
CrossUnreachableNoExceptions(ev, groups) ==
  LET outside(s) == ev.roster \ Home(groups, s)
      count(s) == IF CoverCount(ev, s) # 0 THEN Cardinality(outside(s)) ELSE 0
  IN  MapThenSumSet(count, ev.roster)

\* Crossing pairs proven unreachable: of a covered source, all of them but the
\* observed exceptions; of another source, the observed ones.
CrossUnreachable(ev, groups) ==
  LET outside(s) == ev.roster \ Home(groups, s)
      exceptions(s) == {t \in Row(ev, s) \cap outside(s) : ResolveOrdered(ev, s, t) # Unreachable}
      proven(s) == {t \in Row(ev, s) \cap outside(s) : ResolveOrdered(ev, s, t) = Unreachable}
      count(s) == IF CoverCount(ev, s) # 0
                  THEN Cardinality(outside(s)) - Cardinality(exceptions(s))
                  ELSE Cardinality(proven(s))
  IN  MapThenSumSet(count, ev.roster)

CrossIndeterminate(ev, groups) == CrossOrdered(ev, groups) - CrossUnreachable(ev, groups)

Confirmed(ev, groups) == CrossIndeterminate(ev, groups) = 0

\* Directions that are proven while their reverse is UNKNOWN.  A covered source
\* starts from the number of its UNKNOWN reverses and removes its conflicting
\* entries; another source counts over its row.
OrderedAsymmetric(ev) ==
  LET covered == {s \in ev.roster : CoverCount(ev, s) # 0}
      touches(s) == {r \in ev.roster \ covered : s \in Row(ev, r) \cup StaleRow(ev, r)}
      reverseUnknown(s) == (Cardinality(ev.roster) - 1)
                           - (Cardinality(covered \ {s}) + Cardinality(touches(s)))
      unknownReverse(s) == {t \in Row(ev, s) : ResolveOrdered(ev, t, s) = Unknown}
      conflicts(s) == {t \in unknownReverse(s) : ResolveOrdered(ev, s, t) = Conflicting}
      proven(s) == {t \in unknownReverse(s) : ResolveOrdered(ev, s, t) \in {Reachable, Unreachable}}
      floored(n) == IF n > 0 THEN n ELSE 0
      count(s) == IF s \in covered THEN floored(reverseUnknown(s) - Cardinality(conflicts(s)))
                                   ELSE Cardinality(proven(s))
  IN  MapThenSumSet(count, ev.roster)

OrderedContradictory(ev) ==
  Cardinality({p \in ev.roster \X ev.roster :
                 /\ p[2] \in Row(ev, p[1])
                 /\ ResolveOrdered(ev, p[1], p[2]) = Reachable
                 /\ ResolveOrdered(ev, p[2], p[1]) = Unreachable})

\* What the runtime keeps of a snapshot.
Snapshot(roster, topology, bundles, age, now) ==
  LET ev == Evidence(roster, topology, bundles, age, now)
      groups == Components(roster, Edges(ev))
  IN  [groups |-> groups, fresh |-> ev.fresh # {}, confirmed |-> Confirmed(ev, groups)]

-----------------------------------------------------------------------------
(* What the closed forms stand for, pair by pair.                          *)

OrderedPairs(roster) == {p \in roster \X roster : p[1] # p[2]}

\* The resolution rule as the table of README section 3 words it: a pair is
\* judged by every fresh report of it and by every fresh claim that covers its
\* source.
ResolveByTable(ev, s, t) ==
  LET reported(v) == \E b \in ev.fresh : <<s, t, v>> \in b.links
      omitted == \E b \in ev.fresh : s \in b.covered /\ \A v \in {Reachable, Unreachable} :
                                                          <<s, t, v>> \notin b.links
      expired == \E b \in ev.stale, v \in {Reachable, Unreachable} : <<s, t, v>> \in b.links
  IN  IF reported(Reachable)
      THEN IF reported(Unreachable) \/ omitted THEN Conflicting ELSE Reachable
      ELSE IF reported(Unreachable) \/ omitted THEN Unreachable
           ELSE IF expired THEN Stale ELSE Unknown

=============================================================================
