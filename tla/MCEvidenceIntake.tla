----------------------------- MODULE MCEvidenceIntake -----------------------------
(***************************************************************************)
(* Instances of EvidenceIntake for TLC.                                    *)
(***************************************************************************)
EXTENDS EvidenceIntake

MCOneRoster == <<{1, 2, 3}>>
MCTwoRosters == <<{1, 2}, {1, 2, 3}>>

Links == {l \in (1..3) \X (1..3) \X {Reachable, Unreachable} : l[1] # l[2]}

\* For the ledger, what a bundle claims is of no matter.
MCOneClaim == {[covered |-> {}, links |-> {<<1, 2, Reachable>>}]}

\* For the snapshot: partial claims of up to two observations, complete claims
\* of one or of all sources, silent, with one observation, with both values
\* of one pair, and with a connected pair or path.
MCManyClaims ==
  LET from1 == {l \in Links : l[1] = 1}
      to1 == {l \in Links : l[2] = 1 /\ l[1] = 2}
      both(s, t) == {<<s, t, Reachable>>, <<t, s, Reachable>>}
  IN  [covered : {{}}, links : kSubset(1, from1 \cup to1) \cup {both(1, 2), both(2, 3)}]
      \cup [covered : {{1}, {1, 2}, {1, 2, 3}},
            links : {{}} \cup kSubset(1, from1 \cup to1)
                    \cup {{<<1, 2, Reachable>>, <<1, 2, Unreachable>>},
                          both(1, 2), both(1, 2) \cup both(1, 3)}]
=============================================================================
