------------------------ MODULE PartitionServerProofs ------------------------
(***************************************************************************)
(* Proofs about PartitionServer, for every set of connections, every       *)
(* number of threads that call stop() and every limit on sessions.         *)
(***************************************************************************)
EXTENDS PartitionServer, FiniteSetTheorems, TLAPS

Gone == at[Acceptor] \in {"none", "joined"}

\* The acceptor has a connection in hand, before or after its thread runs.
Admitting == {"load", "store", "spawn", "table"}

\* Who may be where.  A caller of stop() past its join has the acceptor gone,
\* and a server that is not started has no acceptor.
Places ==
  /\ at[Acceptor] \in Admitting \cup
       {"none", "head", "waiting", "reap", "join", "reapAll", "joinAll", "ended", "joined"}
  /\ \A s \in Stoppers : at[s] \in {"out", "sweep", "swept", "join", "reapAll", "joinAll"}
  /\ \A s \in Stoppers : at[s] \in {"reapAll", "joinAll"} => Gone
  /\ ~started => Gone

\* A reap holds sessions only while it joins them, and the acceptor leaves
\* none behind when it ends.
Drained ==
  /\ \A s \in Stoppers : reclaimed[s] = {}
  /\ at[Acceptor] \in {"none", "joined", "ended", "joinAll"} => table = {}
  /\ at[Acceptor] \notin {"join", "joinAll"} => reclaimed[Acceptor] = {}

\* The connection in the acceptor's hands is one, is nowhere else, and has a
\* thread only at the last step of its admission.
InHand ==
  /\ at[Acceptor] \in Admitting => \E c \in Connections : fresh = {c}
  /\ at[Acceptor] \notin Admitting => fresh = {}
  /\ \A c \in fresh : /\ c \notin closed
                      /\ at[Acceptor] = "table" <=> thread[c] # "none"

\* Every session thread is accounted for: in the table, in the acceptor's
\* hands, taken out by a reap, or joined and its descriptor closed.
Accounted ==
  /\ \A c \in backlog : thread[c] = "none" /\ c \notin fresh \cup closed
  /\ \A c \in table : thread[c] # "none"
  /\ \A c \in closed : thread[c] \in {"none", "ended"}
  /\ \A c \in Connections :
       thread[c] # "none" => c \in table \cup fresh \cup reclaimed[Acceptor] \cup closed

\* The counter never falls below the threads that run, never passes the
\* limit, and every unit it holds too much is less than the whole limit.
Counted ==
  /\ IsFiniteSet(Live)
  /\ Cardinality(Live) <= active /\ active <= MaxSessions
  /\ at[Acceptor] = "store" => active <= loaded /\ loaded < MaxSessions
  /\ at[Acceptor] = "spawn" => Cardinality(Live) < active
  /\ at[Acceptor] # "spawn" => active < MaxSessions + Cardinality(Live)

TableCounted ==
  /\ IsFiniteSet(table)
  /\ ordered => Cardinality(table) <= MaxSessions + 1
  /\ ordered /\ at[Acceptor] # "reap" => Cardinality(table) <= MaxSessions

IInv == TypeOK /\ Places /\ Drained /\ InHand /\ Accounted /\ Counted /\ TableCounted

-----------------------------------------------------------------------------
(* The inductive invariant.                                                *)

\* A server that was never started satisfies the invariant.
LEMMA InitIInv == Init => IInv
<1> SUFFICES ASSUME Init PROVE IInv
  OBVIOUS
<1>1. at[Acceptor] = "none" /\ \A s \in Stoppers : at[s] = "out"
  BY ServerAssumption DEF Init, Reapers
<1>2. Live = {}
  BY DEF Init, Live
<1>3. IsFiniteSet({}) /\ Cardinality({}) = 0
  BY FS_EmptySet
<1>4. TypeOK
  BY ServerAssumption DEF Init, TypeOK, Reapers
<1>5. Places /\ Drained /\ InHand /\ Accounted
  BY <1>1 DEF Init, Places, Drained, InHand, Accounted, Gone, Admitting, Reapers
<1>6. Counted /\ TableCounted
  BY <1>1, <1>2, <1>3, ServerAssumption DEF Init, Counted, TableCounted
<1>7. QED
  BY <1>4, <1>5, <1>6 DEF IInv

\* Every step of the acceptor, of a session thread, of a caller of stop() and
\* of a peer preserves the invariant.
LEMMA StepIInv == IInv /\ [Next]_vars => IInv'
<1> SUFFICES ASSUME IInv, [Next]_vars PROVE IInv'
  OBVIOUS
<1> USE ServerAssumption DEF IInv, Goto, flags, admission, sockets, Reapers
<1>1. ASSUME Start PROVE IInv'
  <2>1. TypeOK'
    BY <1>1 DEF TypeOK, Start, Gone
  <2>2. Places' /\ Drained'
    BY <1>1 DEF TypeOK, Places, Drained, Gone, Admitting, Start
  <2>3. InHand' /\ Accounted'
    BY <1>1 DEF TypeOK, Places, Drained, Gone, Admitting, InHand, Accounted, Start
  <2>4. Live' = Live
    BY <1>1 DEF TypeOK, Live, Start, Gone
  <2>5. Counted'
    BY <1>1, <2>1, <2>4, FS_CardinalityType DEF Counted, TypeOK, Places, Start, Gone
  <2>6. TableCounted'
    BY <1>1 DEF TableCounted, TypeOK, Places, Admitting, Start, Gone
  <2> QED
    BY <2>1, <2>2, <2>3, <2>5, <2>6
<1>2. ASSUME NEW c \in Connections, Connect(c) PROVE IInv'
  <2>1. TypeOK'
    BY <1>2 DEF TypeOK, Connect
  <2>2. Places' /\ Drained'
    BY <1>2 DEF TypeOK, Places, Drained, Gone, Admitting, Connect
  <2>3. InHand' /\ Accounted'
    BY <1>2 DEF TypeOK, Places, Drained, Gone, Admitting, InHand, Accounted, Connect
  <2>4. Live' = Live
    BY <1>2 DEF TypeOK, Live, Connect
  <2>5. Counted'
    BY <1>2, <2>1, <2>4, FS_CardinalityType DEF Counted, TypeOK, Places, Connect
  <2>6. TableCounted'
    BY <1>2 DEF TableCounted, TypeOK, Places, Admitting, Connect
  <2> QED
    BY <2>1, <2>2, <2>3, <2>5, <2>6
<1>3. ASSUME CheckStop PROVE IInv'
  <2>1. TypeOK'
    BY <1>3 DEF TypeOK, CheckStop
  <2>2. Places' /\ Drained'
    BY <1>3 DEF TypeOK, Places, Drained, Gone, Admitting, CheckStop
  <2>3. InHand' /\ Accounted'
    BY <1>3
    DEF TypeOK, Places, Drained, Gone, Admitting, InHand, Accounted, CheckStop
  <2>4. Live' = Live
    BY <1>3 DEF TypeOK, Live, CheckStop
  <2>5. Counted'
    BY <1>3, <2>1, <2>4, FS_CardinalityType DEF Counted, TypeOK, Places, CheckStop
  <2>6. TableCounted'
    BY <1>3 DEF TableCounted, TypeOK, Places, Admitting, CheckStop
  <2> QED
    BY <2>1, <2>2, <2>3, <2>5, <2>6
<1>4. ASSUME NothingAccepted PROVE IInv'
  <2>1. TypeOK'
    BY <1>4 DEF TypeOK, NothingAccepted
  <2>2. Places' /\ Drained'
    BY <1>4 DEF TypeOK, Places, Drained, Gone, Admitting, NothingAccepted
  <2>3. InHand' /\ Accounted'
    BY <1>4
    DEF TypeOK, Places, Drained, Gone, Admitting, InHand, Accounted,
        NothingAccepted
  <2>4. Live' = Live
    BY <1>4 DEF TypeOK, Live, NothingAccepted
  <2>5. Counted'
    BY <1>4, <2>1, <2>4, FS_CardinalityType
    DEF Counted, TypeOK, Places, NothingAccepted
  <2>6. TableCounted'
    BY <1>4 DEF TableCounted, TypeOK, Places, Admitting, NothingAccepted
  <2> QED
    BY <2>1, <2>2, <2>3, <2>5, <2>6
<1>5. ASSUME NEW c \in Connections, Accept(c) PROVE IInv'
  <2>1. TypeOK'
    BY <1>5 DEF TypeOK, Accept
  <2>2. Places' /\ Drained'
    BY <1>5 DEF TypeOK, Places, Drained, Gone, Admitting, Accept
  <2>3. InHand' /\ Accounted'
    BY <1>5 DEF TypeOK, Places, Drained, Gone, Admitting, InHand, Accounted, Accept
  <2>4. Live' = Live
    BY <1>5 DEF TypeOK, Live, Accept
  <2>5. Counted'
    BY <1>5, <2>1, <2>4, FS_CardinalityType DEF Counted, TypeOK, Places, Accept
  <2>6. TableCounted'
    BY <1>5 DEF TableCounted, TypeOK, Places, Admitting, Accept
  <2> QED
    BY <2>1, <2>2, <2>3, <2>5, <2>6
<1>6. ASSUME LoadActive PROVE IInv'
  <2>1. TypeOK'
    BY <1>6 DEF TypeOK, LoadActive, Full
  <2>2. Places' /\ Drained'
    BY <1>6 DEF TypeOK, Places, Drained, Gone, Admitting, LoadActive, Full
  <2>3. InHand' /\ Accounted'
    BY <1>6
    DEF TypeOK, Places, Drained, Gone, Admitting, InHand, Accounted, LoadActive,
        Full
  <2>4. Live' = Live
    BY <1>6 DEF TypeOK, Live, LoadActive, Full
  <2>5. Counted'
    BY <1>6, <2>1, <2>4, FS_CardinalityType
    DEF Counted, TypeOK, Places, LoadActive, Full
  <2>6. TableCounted'
    BY <1>6 DEF TableCounted, TypeOK, Places, Admitting, LoadActive, Full
  <2> QED
    BY <2>1, <2>2, <2>3, <2>5, <2>6
<1>7. ASSUME StoreActive PROVE IInv'
  <2>1. TypeOK'
    BY <1>7 DEF TypeOK, StoreActive
  <2>2. Places' /\ Drained'
    BY <1>7 DEF TypeOK, Places, Drained, Gone, Admitting, StoreActive
  <2>3. InHand' /\ Accounted'
    BY <1>7
    DEF TypeOK, Places, Drained, Gone, Admitting, InHand, Accounted, StoreActive
  <2>4. Live' = Live
    BY <1>7 DEF TypeOK, Live, StoreActive
  <2>5. Counted'
    BY <1>7, <2>1, <2>4, FS_CardinalityType DEF Counted, TypeOK, Places, StoreActive
  <2>6. TableCounted'
    BY <1>7 DEF TableCounted, TypeOK, Places, Admitting, StoreActive
  <2> QED
    BY <2>1, <2>2, <2>3, <2>5, <2>6
<1>8. ASSUME Spawn PROVE IInv'
  <2>1. TypeOK'
    BY <1>8 DEF TypeOK, Spawn
  <2>2. Places' /\ Drained'
    BY <1>8 DEF TypeOK, Places, Drained, Gone, Admitting, Spawn
  <2>3. InHand' /\ Accounted'
    BY <1>8 DEF TypeOK, Places, Drained, Gone, Admitting, InHand, Accounted, Spawn
  <2>7. PICK c \in Connections : fresh = {c}
    BY <1>8 DEF InHand, Admitting, Spawn
  <2>8. c \notin Live /\ Live' = Live \cup {c}
    BY <1>8, <2>7 DEF TypeOK, InHand, Admitting, Live, Spawn
  <2>4. /\ IsFiniteSet(Live') /\ Cardinality(Live) \in Nat
        /\ Cardinality(Live') = Cardinality(Live) + 1
    BY <2>8, FS_AddElement, FS_CardinalityType DEF Counted
  <2>5. Counted'
    BY <1>8, <2>1, <2>4, FS_CardinalityType DEF Counted, TypeOK, Places, Spawn
  <2>6. TableCounted'
    BY <1>8 DEF TableCounted, TypeOK, Places, Admitting, Spawn
  <2> QED
    BY <2>1, <2>2, <2>3, <2>5, <2>6
<1>9. ASSUME Tabulate PROVE IInv'
  <2>1. TypeOK'
    BY <1>9 DEF TypeOK, Tabulate, Overfull
  <2>2. Places' /\ Drained'
    BY <1>9 DEF TypeOK, Places, Drained, Gone, Admitting, Tabulate, Overfull
  <2>3. InHand' /\ Accounted'
    BY <1>9
    DEF TypeOK, Places, Drained, Gone, Admitting, InHand, Accounted, Tabulate,
        Overfull
  <2>4. Live' = Live
    BY <1>9 DEF TypeOK, Live, Tabulate, Overfull
  <2>5. Counted'
    BY <1>9, <2>1, <2>4, FS_CardinalityType
    DEF Counted, TypeOK, Places, Tabulate, Overfull
  <2>7. PICK c \in Connections : fresh = {c}
    BY <1>9 DEF InHand, Admitting, Tabulate
  <2>9. table' = table \cup {c}
    BY <1>9, <2>7 DEF Tabulate
  <2>10. IsFiniteSet(table) /\ Cardinality(table) \in Nat
    BY FS_CardinalityType DEF TableCounted
  <2>11. /\ IsFiniteSet(table \cup {c})
         /\ \/ Cardinality(table \cup {c}) = Cardinality(table)
            \/ Cardinality(table \cup {c}) = Cardinality(table) + 1
    BY <2>10, FS_AddElement
  <2>8. IsFiniteSet(table') /\ Cardinality(table') <= Cardinality(table) + 1
    BY <2>9, <2>10, <2>11
  <2>6. TableCounted'
    BY <1>9, <2>8, FS_CardinalityType
    DEF TableCounted, TypeOK, Places, Tabulate, Overfull
  <2> QED
    BY <2>1, <2>2, <2>3, <2>5, <2>6
<1>10. ASSUME ReapFinished PROVE IInv'
  <2>1. TypeOK'
    BY <1>10 DEF TypeOK, ReapFinished, SeenFinished, Reclaim, Ended
  <2>2. Places' /\ Drained'
    BY <1>10
    DEF TypeOK, Places, Drained, Gone, Admitting, ReapFinished, SeenFinished,
        Reclaim, Ended
  <2>3. InHand' /\ Accounted'
    BY <1>10
    DEF TypeOK, Places, Drained, Gone, Admitting, InHand, Accounted,
        ReapFinished, SeenFinished, Reclaim, Ended
  <2>4. Live' = Live
    BY <1>10 DEF TypeOK, Live, ReapFinished, SeenFinished, Reclaim, Ended
  <2>5. Counted'
    BY <1>10, <2>1, <2>4, FS_CardinalityType
    DEF Counted, TypeOK, Places, ReapFinished, SeenFinished, Reclaim, Ended
  <2>7. table' \subseteq table /\ (ordered => table' \subseteq Live)
    BY <1>10 DEF TypeOK, Accounted, Live, ReapFinished, SeenFinished, Reclaim, Ended
  <2>9. IsFiniteSet(table') /\ Cardinality(table') \in Nat
    BY <2>7, FS_Subset, FS_CardinalityType DEF TableCounted
  <2>8. ordered => Cardinality(table') <= MaxSessions
    BY <2>7, FS_Subset, FS_CardinalityType DEF Counted, TypeOK
  <2>6. TableCounted'
    BY <1>10, <2>8, <2>9
    DEF TableCounted, TypeOK, ReapFinished, SeenFinished, Reclaim, Ended
  <2> QED
    BY <2>1, <2>2, <2>3, <2>5, <2>6
<1>11. ASSUME NEW r \in Reapers, ReapAll(r) PROVE IInv'
  <2>1. TypeOK'
    BY <1>11 DEF TypeOK, ReapAll, Reclaim
  <2>2. Places' /\ Drained'
    BY <1>11 DEF TypeOK, Places, Drained, Gone, Admitting, ReapAll, Reclaim
  <2>3. InHand' /\ Accounted'
    BY <1>11
    DEF TypeOK, Places, Drained, Gone, Admitting, InHand, Accounted, ReapAll,
        Reclaim
  <2>4. Live' = Live
    BY <1>11 DEF TypeOK, Live, ReapAll, Reclaim
  <2>5. Counted'
    BY <1>11, <2>1, <2>4, FS_CardinalityType
    DEF Counted, TypeOK, Places, ReapAll, Reclaim
  <2>7. table' = {}
    BY <1>11 DEF ReapAll, Reclaim
  <2>6. TableCounted'
    BY <2>7, FS_EmptySet DEF TableCounted
  <2> QED
    BY <2>1, <2>2, <2>3, <2>5, <2>6
<1>12. ASSUME NEW r \in Reapers, NEW c \in Connections, JoinSession(r, c) PROVE IInv'
  <2>1. TypeOK'
    BY <1>12 DEF TypeOK, JoinSession, Ended
  <2>2. Places' /\ Drained'
    BY <1>12 DEF TypeOK, Places, Drained, Gone, Admitting, JoinSession, Ended
  <2>3. InHand' /\ Accounted'
    BY <1>12
    DEF TypeOK, Places, Drained, Gone, Admitting, InHand, Accounted,
        JoinSession, Ended
  <2>4. Live' = Live
    BY <1>12 DEF TypeOK, Live, JoinSession, Ended
  <2>5. Counted'
    BY <1>12, <2>1, <2>4, FS_CardinalityType
    DEF Counted, TypeOK, Places, JoinSession, Ended
  <2>6. TableCounted'
    BY <1>12 DEF TableCounted, TypeOK, Places, Admitting, JoinSession, Ended
  <2> QED
    BY <2>1, <2>2, <2>3, <2>5, <2>6
<1>13. ASSUME AcceptorReaped PROVE IInv'
  <2>1. TypeOK'
    BY <1>13 DEF TypeOK, AcceptorReaped
  <2>2. Places' /\ Drained'
    BY <1>13 DEF TypeOK, Places, Drained, Gone, Admitting, AcceptorReaped
  <2>3. InHand' /\ Accounted'
    BY <1>13
    DEF TypeOK, Places, Drained, Gone, Admitting, InHand, Accounted,
        AcceptorReaped
  <2>4. Live' = Live
    BY <1>13 DEF TypeOK, Live, AcceptorReaped
  <2>5. Counted'
    BY <1>13, <2>1, <2>4, FS_CardinalityType
    DEF Counted, TypeOK, Places, AcceptorReaped
  <2>6. TableCounted'
    BY <1>13 DEF TableCounted, TypeOK, Places, Admitting, AcceptorReaped
  <2> QED
    BY <2>1, <2>2, <2>3, <2>5, <2>6
<1>14. ASSUME NEW c \in Connections, NEW failed \in BOOLEAN, Served(c, failed) PROVE IInv'
  <2>1. TypeOK'
    BY <1>14 DEF TypeOK, Served
  <2>2. Places' /\ Drained'
    BY <1>14 DEF TypeOK, Places, Drained, Gone, Admitting, Served
  <2>3. InHand' /\ Accounted'
    BY <1>14 DEF TypeOK, Places, Drained, Gone, Admitting, InHand, Accounted, Served
  <2>4. Live' = Live
    BY <1>14 DEF TypeOK, Live, Served
  <2>5. Counted'
    BY <1>14, <2>1, <2>4, FS_CardinalityType DEF Counted, TypeOK, Places, Served
  <2>6. TableCounted'
    BY <1>14 DEF TableCounted, TypeOK, Places, Admitting, Served
  <2> QED
    BY <2>1, <2>2, <2>3, <2>5, <2>6
<1>15. ASSUME NEW c \in Connections, Released(c) PROVE IInv'
  <2>1. TypeOK'
    BY <1>15 DEF TypeOK, Released
  <2>2. Places' /\ Drained'
    BY <1>15 DEF TypeOK, Places, Drained, Gone, Admitting, Released
  <2>3. InHand' /\ Accounted'
    BY <1>15
    DEF TypeOK, Places, Drained, Gone, Admitting, InHand, Accounted, Released
  <2>4. Live' = Live
    BY <1>15 DEF TypeOK, Live, Released
  <2>5. Counted'
    BY <1>15, <2>1, <2>4, FS_CardinalityType DEF Counted, TypeOK, Places, Released
  <2>6. TableCounted'
    BY <1>15 DEF TableCounted, TypeOK, Places, Admitting, Released
  <2> QED
    BY <2>1, <2>2, <2>3, <2>5, <2>6
<1>16. ASSUME NEW c \in Connections, Finish(c) PROVE IInv'
  <2>1. TypeOK'
    BY <1>16 DEF TypeOK, Finish
  <2>2. Places' /\ Drained'
    BY <1>16 DEF TypeOK, Places, Drained, Gone, Admitting, Finish
  <2>3. InHand' /\ Accounted'
    BY <1>16 DEF TypeOK, Places, Drained, Gone, Admitting, InHand, Accounted, Finish
  <2>4. Live' = Live
    BY <1>16 DEF TypeOK, Live, Finish
  <2>5. Counted'
    BY <1>16, <2>1, <2>4, FS_CardinalityType DEF Counted, TypeOK, Places, Finish
  <2>6. TableCounted'
    BY <1>16 DEF TableCounted, TypeOK, Places, Admitting, Finish
  <2> QED
    BY <2>1, <2>2, <2>3, <2>5, <2>6
<1>17. ASSUME NEW c \in Connections, Decrement(c) PROVE IInv'
  <2>9. c \in Live /\ Live' = Live \ {c}
    BY <1>17 DEF TypeOK, Live, Decrement
  <2>7. Cardinality(Live) \in Nat
    BY FS_CardinalityType DEF Counted
  <2>8. IsFiniteSet(Live') /\ Cardinality(Live') = Cardinality(Live) - 1
    BY <2>9, FS_RemoveElement DEF Counted
  <2>10. Cardinality(Live') \in Nat
    BY <2>8, FS_CardinalityType
  <2>4. /\ IsFiniteSet(Live') /\ Cardinality(Live') \in Nat
        /\ Cardinality(Live) = Cardinality(Live') + 1
    BY <2>7, <2>8, <2>10
  <2>1. TypeOK'
    BY <1>17, <2>4 DEF TypeOK, Counted, Decrement
  <2>2. Places' /\ Drained'
    BY <1>17 DEF TypeOK, Places, Drained, Gone, Admitting, Decrement
  <2>3. InHand' /\ Accounted'
    BY <1>17
    DEF TypeOK, Places, Drained, Gone, Admitting, InHand, Accounted, Decrement
  <2>5. Counted'
    BY <1>17, <2>1, <2>4, FS_CardinalityType DEF Counted, TypeOK, Places, Decrement
  <2>6. TableCounted'
    BY <1>17 DEF TableCounted, TypeOK, Places, Admitting, Decrement
  <2> QED
    BY <2>1, <2>2, <2>3, <2>5, <2>6
<1>18. ASSUME NEW s \in Stoppers, StopBegins(s) PROVE IInv'
  <2>1. TypeOK'
    BY <1>18 DEF TypeOK, StopBegins
  <2>2. Places' /\ Drained'
    BY <1>18 DEF TypeOK, Places, Drained, Gone, Admitting, StopBegins
  <2>3. InHand' /\ Accounted'
    BY <1>18
    DEF TypeOK, Places, Drained, Gone, Admitting, InHand, Accounted, StopBegins
  <2>4. Live' = Live
    BY <1>18 DEF TypeOK, Live, StopBegins
  <2>5. Counted'
    BY <1>18, <2>1, <2>4, FS_CardinalityType DEF Counted, TypeOK, Places, StopBegins
  <2>6. TableCounted'
    BY <1>18 DEF TableCounted, TypeOK, Places, Admitting, StopBegins
  <2> QED
    BY <2>1, <2>2, <2>3, <2>5, <2>6
<1>19. ASSUME NEW s \in Stoppers, Sweep(s) PROVE IInv'
  <2>1. TypeOK'
    BY <1>19 DEF TypeOK, Sweep
  <2>2. Places' /\ Drained'
    BY <1>19 DEF TypeOK, Places, Drained, Gone, Admitting, Sweep
  <2>3. InHand' /\ Accounted'
    BY <1>19 DEF TypeOK, Places, Drained, Gone, Admitting, InHand, Accounted, Sweep
  <2>4. Live' = Live
    BY <1>19 DEF TypeOK, Live, Sweep
  <2>5. Counted'
    BY <1>19, <2>1, <2>4, FS_CardinalityType DEF Counted, TypeOK, Places, Sweep
  <2>6. TableCounted'
    BY <1>19 DEF TableCounted, TypeOK, Places, Admitting, Sweep
  <2> QED
    BY <2>1, <2>2, <2>3, <2>5, <2>6
<1>20. ASSUME NEW s \in Stoppers, BeginJoin(s) PROVE IInv'
  <2>1. TypeOK'
    BY <1>20 DEF TypeOK, BeginJoin
  <2>2. Places' /\ Drained'
    BY <1>20 DEF TypeOK, Places, Drained, Gone, Admitting, BeginJoin
  <2>3. InHand' /\ Accounted'
    BY <1>20
    DEF TypeOK, Places, Drained, Gone, Admitting, InHand, Accounted, BeginJoin
  <2>4. Live' = Live
    BY <1>20 DEF TypeOK, Live, BeginJoin
  <2>5. Counted'
    BY <1>20, <2>1, <2>4, FS_CardinalityType DEF Counted, TypeOK, Places, BeginJoin
  <2>6. TableCounted'
    BY <1>20 DEF TableCounted, TypeOK, Places, Admitting, BeginJoin
  <2> QED
    BY <2>1, <2>2, <2>3, <2>5, <2>6
<1>21. ASSUME NEW s \in Stoppers, EndJoin(s) PROVE IInv'
  <2>1. TypeOK'
    BY <1>21 DEF TypeOK, EndJoin
  <2>2. Places' /\ Drained'
    BY <1>21 DEF TypeOK, Places, Drained, Gone, Admitting, EndJoin
  <2>3. InHand' /\ Accounted'
    BY <1>21
    DEF TypeOK, Places, Drained, Gone, Admitting, InHand, Accounted, EndJoin
  <2>4. Live' = Live
    BY <1>21 DEF TypeOK, Live, EndJoin
  <2>5. Counted'
    BY <1>21, <2>1, <2>4, FS_CardinalityType DEF Counted, TypeOK, Places, EndJoin
  <2>6. TableCounted'
    BY <1>21 DEF TableCounted, TypeOK, Places, Admitting, EndJoin
  <2> QED
    BY <2>1, <2>2, <2>3, <2>5, <2>6
<1>22. ASSUME NEW s \in Stoppers, StopReturns(s) PROVE IInv'
  <2>1. TypeOK'
    BY <1>22 DEF TypeOK, StopReturns
  <2>2. Places' /\ Drained'
    BY <1>22 DEF TypeOK, Places, Drained, Gone, Admitting, StopReturns
  <2>3. InHand' /\ Accounted'
    BY <1>22
    DEF TypeOK, Places, Drained, Gone, Admitting, InHand, Accounted, StopReturns
  <2>4. Live' = Live
    BY <1>22 DEF TypeOK, Live, StopReturns
  <2>5. Counted'
    BY <1>22, <2>1, <2>4, FS_CardinalityType
    DEF Counted, TypeOK, Places, StopReturns
  <2>6. TableCounted'
    BY <1>22 DEF TableCounted, TypeOK, Places, Admitting, StopReturns
  <2> QED
    BY <2>1, <2>2, <2>3, <2>5, <2>6
<1>23. CASE UNCHANGED vars
  <2>1. Live' = Live
    BY <1>23 DEF Live, vars
  <2> QED
    BY <1>23, <2>1 DEF vars, TypeOK, Places, Drained,
       InHand, Accounted, Counted, TableCounted, Gone
<1> QED
  BY <1>1, <1>2, <1>3, <1>4, <1>5, <1>6, <1>7, <1>8, <1>9, <1>10, <1>11,
     <1>12, <1>13, <1>14, <1>15, <1>16, <1>17, <1>18, <1>19, <1>20, <1>21, <1>22, <1>23
  DEF Next, AcceptorStep, ThreadStep, StopStep

\* The invariant of PartitionServer holds in every reachable state.
LEMMA Invariance == Spec => []IInv
  BY InitIInv, StepIInv, PTL DEF Spec

-----------------------------------------------------------------------------
(* What follows from it.                                                   *)

\* The state of the server keeps its type; in particular fetch_sub never takes
\* active_sessions below zero, whatever decrement a store has overwritten.
THEOREM TypeCorrect == Spec => []TypeOK
  BY Invariance, PTL DEF IInv

\* However many connections race, accept_loop's check of active_sessions keeps
\* the session threads within max_sessions.
THEOREM ThreadsWithinLimit == Spec => []LiveWithinLimit
<1>1. IInv => LiveWithinLimit
  BY FS_CardinalityType, ServerAssumption DEF IInv, TypeOK, Counted, LiveWithinLimit
<1> QED
  BY <1>1, Invariance, PTL

\* The vector of sessions is reaped in time: it never holds more than one
\* session above the limit.
THEOREM TableWithinLimit == Spec => []TableBounded
<1>1. IInv => TableBounded
  BY DEF IInv, TableCounted, TableBounded
<1> QED
  BY <1>1, Invariance, PTL

\* The decrements lost to the store of accept_loop never use up the limit: an
\* idle server still admits a session.
THEOREM CapacityRemains == Spec => []SlotRemains
<1>1. IInv => SlotRemains
  BY FS_EmptySet, ServerAssumption DEF IInv, TypeOK, Counted, SlotRemains
<1> QED
  BY <1>1, Invariance, PTL

\* When started is false again, no session thread, no entry of the table and no
\* open descriptor of an accepted connection is left, for any number of
\* concurrent callers of stop().
THEOREM StopIsComplete == Spec => []StoppedLeavesNothing
<1>1. IInv => StoppedLeavesNothing
  BY DEF IInv, TypeOK, Places, Drained, InHand, Accounted, Gone, Admitting,
     StoppedLeavesNothing, Live, Ended
<1> QED
  BY <1>1, Invariance, PTL
=============================================================================
