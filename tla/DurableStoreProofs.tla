--------------------------- MODULE DurableStoreProofs ---------------------------
(***************************************************************************)
(* Proofs about DurableStore, for every bound on the records and pieces.   *)
(*                                                                         *)
(* Where writes do not fail (Faults = {}) a store has one form, whenever   *)
(* its processes are killed: a snapshot of the records 1..k, a journal of  *)
(* the records lo..lo+n-1 that overlap or adjoin the snapshot, and at most *)
(* one torn end.  All of them together are the records 1..lo+n-1 that a    *)
(* running process holds.  The journal begins with its header, unless a    *)
(* process ended before that was written.  That form is the inductive      *)
(* invariant of the first part, and it gives the refinement of DurableLog. *)
(*                                                                         *)
(* Where appends may fail after their bytes are written, and a header may  *)
(* not be written, the form is lost (records are written twice) but what   *)
(* was acknowledged is still found: the second part.                       *)
(***************************************************************************)
EXTENDS DurableStore, SequenceFacts, FiniteSetTheorems

\* The records a, a+1, ..., n of them.
Run(a, n) == [i \in 1..n |-> a + i - 1]

\* What follows the header in a journal: the records, and t torn ends.
Rest(a, n, t) == [i \in 1..(n + t) |-> IF i <= n THEN a + i - 1 ELSE Torn]

\* A journal with its header.
File(a, n, t) ==
  [i \in 1..(1 + n + t) |-> IF i = 1 THEN Header ELSE IF i <= n + 1 THEN a + i - 2 ELSE Torn]

-----------------------------------------------------------------------------
(* The operators of load on files of that form.                            *)

LEMMA RunIs ==
  ASSUME NEW a \in Int, NEW n \in Nat
  PROVE  /\ Run(a, n) \in Seq(Int) /\ Len(Run(a, n)) = n
         /\ \A i \in 1..n : Run(a, n)[i] = a + i - 1
  BY DEF Run

LEMMA RestIs ==
  ASSUME NEW a \in Int, NEW n \in Nat, NEW t \in {0, 1}
  PROVE  /\ Rest(a, n, t) \in Seq(Int) /\ Len(Rest(a, n, t)) = n + t
         /\ \A i \in 1..n : Rest(a, n, t)[i] = a + i - 1
         /\ t = 1 => Rest(a, n, t)[n + 1] = Torn
  BY DEF Rest, Torn

LEMMA FileIs ==
  ASSUME NEW a \in Int, NEW n \in Nat, NEW t \in {0, 1}
  PROVE  /\ File(a, n, t) \in Seq(Int) /\ Len(File(a, n, t)) = 1 + n + t
         /\ File(a, n, t)[1] = Header
         /\ \A i \in 1..n : File(a, n, t)[i + 1] = a + i - 1
         /\ t = 1 => File(a, n, t)[n + 2] = Torn
  BY DEF File, Torn, Header

\* Two sequences of numbers with the same elements.
LEMMA Same ==
  ASSUME NEW s \in Seq(Int), NEW u \in Seq(Int), Len(s) = Len(u),
         \A i \in 1..Len(s) : s[i] = u[i]
  PROVE  s = u
  BY SeqEqual

LEMMA BodyOfFile ==
  ASSUME NEW a \in Int, NEW n \in Nat, NEW t \in {0, 1}
  PROVE  Body(File(a, n, t)) = Rest(a, n, t)
<1> DEFINE f == File(a, n, t)
           b == SubSeq(f, 2, 1 + n + t)
<1>1. f \in Seq(Int) /\ Len(f) = 1 + n + t
  BY FileIs
<1>2. \A i \in 2..(1 + n + t) : f[i] \in Int
  BY <1>1
<1>3. b \in Seq(Int) /\ Len(b) = n + t /\ \A i \in 1..(n + t) : b[i] = f[i + 1]
  <2> HIDE DEF f
  <2> QED  BY <1>2, <1>1
<1>4. ASSUME NEW i \in 1..(n + t) PROVE b[i] = Rest(a, n, t)[i]
  <2>1. b[i] = File(a, n, t)[i + 1] /\ i + 1 \in 1..(1 + n + t) /\ i \in Int /\ i # 0
    BY <1>3
  <2>2. File(a, n, t)[i + 1] =
          IF i + 1 = 1 THEN Header ELSE IF i + 1 <= n + 1 THEN a + (i + 1) - 2 ELSE Torn
    BY <2>1 DEF File
  <2>3. Rest(a, n, t)[i] = IF i <= n THEN a + i - 1 ELSE Torn
    BY DEF Rest
  <2> QED  BY <2>1, <2>2, <2>3
<1>5. b = Rest(a, n, t)
  <2>1. Rest(a, n, t) \in Seq(Int) /\ Len(Rest(a, n, t)) = n + t
    BY RestIs
  <2> HIDE DEF b
  <2> QED  BY <1>3, <1>4, <2>1, Same
<1> QED  BY <1>1, <1>5 DEF Body

\* Min is the least of the places it is taken over.
LEMMA MinIs ==
  ASSUME NEW S, NEW m \in S, \A x \in S : x \in Int /\ m <= x
  PROVE  Min(S) = m
<1>1. \A x \in S : (\A y \in S : x =< y) => x = m
  OBVIOUS
<1> QED  BY <1>1 DEF Min

LEMMA WholeOfRest ==
  ASSUME NEW a \in Nat, NEW n \in Nat, NEW t \in {0, 1}
  PROVE  Whole(Rest(a, n, t)) = Run(a, n)
<1> DEFINE r == Rest(a, n, t)
           torn == {j \in 1..Len(r) : r[j] = Torn}
           S == {Len(r)} \cup {i - 1 : i \in torn}
<1>1. r \in Seq(Int) /\ Len(r) = n + t /\ (\A i \in 1..n : r[i] = a + i - 1)
      /\ (t = 1 => r[n + 1] = Torn)
  <2>1. a \in Int  OBVIOUS
  <2> QED  BY <2>1, RestIs
<1> HIDE DEF r
<1>2. \A j \in torn : j = n + 1
  BY <1>1 DEF Torn
<1>3. t = 1 => n + 1 \in torn
  BY <1>1
<1> HIDE DEF torn
<1>4. n \in S
  BY <1>1, <1>3
<1>5. \A x \in S : x \in Int /\ n <= x
  BY <1>1, <1>2
<1>6. Min(S) = n
  <2> HIDE DEF S
  <2> QED  BY <1>4, <1>5, MinIs
<1>7. Whole(r) = SubSeq(r, 1, n)
  BY <1>6 DEF Whole, torn
<1>8. SubSeq(r, 1, n) \in Seq(Int) /\ Len(SubSeq(r, 1, n)) = n
      /\ \A i \in 1..n : SubSeq(r, 1, n)[i] = r[i]
  BY <1>1
<1>9. SubSeq(r, 1, n) = Run(a, n)
  <2>1. Run(a, n) \in Seq(Int) /\ Len(Run(a, n)) = n /\ \A i \in 1..n : Run(a, n)[i] = a + i - 1
    BY RunIs
  <2> QED  BY <1>1, <1>8, <2>1, Same
<1> QED  BY <1>7, <1>9 DEF r

\* Of the records a..a+n-1 those above k, which adjoins or overlaps them.
LEMMA AboveRun ==
  ASSUME NEW a \in Nat, NEW n \in Nat, NEW k \in Nat, a <= k + 1, k <= a + n - 1
  PROVE  Above(Run(a, n), k) = Run(k + 1, a + n - 1 - k)
<1> DEFINE s == Run(a, n)
           p == k - a + 2
           places == {i \in 1..Len(s) : s[i] > k}
           rank(i) == Cardinality({j \in places : j <= i})
           m == a + n - 1 - k
<1>1. s \in Seq(Int) /\ Len(s) = n /\ \A i \in 1..n : s[i] = a + i - 1
  BY RunIs
<1> HIDE DEF s
<1>2. places = p..n
  BY <1>1
<1>3. p \in Int /\ p >= 1 /\ m \in Nat /\ n - p + 1 = m
  OBVIOUS
<1> HIDE DEF places
<1>4. Cardinality(places) = m
  <2>1. Cardinality(p..n) = IF p > n THEN 0 ELSE n - p + 1
    BY <1>3, FS_Interval
  <2>2. (IF p > n THEN 0 ELSE n - p + 1) = m
    OBVIOUS
  <2> QED  BY <2>1, <2>2, <1>2
<1>5. ASSUME NEW i \in places PROVE rank(i) = i - p + 1
  <2>1. {j \in places : j <= i} = p..i
    BY <1>2, <1>3
  <2>2. i \in Int /\ i >= p
    BY <1>2, <1>3
  <2>3. Cardinality(p..i) = IF p > i THEN 0 ELSE i - p + 1
    BY <2>2, <1>3, FS_Interval
  <2>4. (IF p > i THEN 0 ELSE i - p + 1) = i - p + 1
    BY <2>2, <1>3
  <2> QED  BY <2>1, <2>3, <2>4
<1> HIDE DEF rank, m
<1>6. ASSUME NEW x \in 1..m PROVE s[CHOOSE i \in places : rank(i) = x] = k + x
  <2>1. x + p - 1 \in places
    BY <1>2, <1>3
  <2>2. rank(x + p - 1) = x
    BY <2>1, <1>5, <1>3
  <2>3. \A i \in places : rank(i) = x => i = x + p - 1
    BY <1>5, <1>2, <1>3
  <2>4. (CHOOSE i \in places : rank(i) = x) = x + p - 1
    BY <2>1, <2>2, <2>3
  <2>5. s[x + p - 1] = k + x
    BY <2>1, <1>1, <1>2, <1>3
  <2> QED  BY <2>4, <2>5
<1> DEFINE u == [x \in 1..m |-> s[CHOOSE i \in places : rank(i) = x]]
<1>7. u \in Seq(Int) /\ Len(u) = m /\ \A x \in 1..m : u[x] = k + x
  <2>1. u = [x \in 1..m |-> k + x]
    BY <1>6
  <2> HIDE DEF u
  <2> QED  BY <2>1, <1>3
<1>8. Above(s, k) = u
  BY <1>4 DEF Above, places, rank
<1> HIDE DEF u
<1>9. u = Run(k + 1, m)
  <2> DEFINE v == Run(k + 1, m)
  <2>1. k + 1 \in Int /\ m \in Nat
    BY <1>3
  <2>2. v \in Seq(Int) /\ Len(v) = m /\ \A i \in 1..m : v[i] = (k + 1) + i - 1
    BY <2>1, RunIs
  <2> HIDE DEF v
  <2>3. \A i \in 1..m : u[i] = v[i]
    BY <1>7, <2>1, <2>2
  <2>4. u = v
    BY <1>7, <2>2, <2>3, Same
  <2> QED  BY <2>4 DEF v
<1> QED  BY <1>8, <1>9 DEF s, m

LEMMA Joined ==
  ASSUME NEW k \in Nat, NEW m \in Nat
  PROVE  Run(1, k) \o Run(k + 1, m) = Run(1, k + m)
<1> DEFINE s == Run(1, k)
           u == Run(k + 1, m)
<1>1. /\ s \in Seq(Int) /\ Len(s) = k /\ \A i \in 1..k : s[i] = i
      /\ u \in Seq(Int) /\ Len(u) = m /\ \A i \in 1..m : u[i] = k + i
  <2>1. s \in Seq(Int) /\ Len(s) = k /\ \A i \in 1..k : s[i] = 1 + i - 1
    BY RunIs
  <2>2. k + 1 \in Int
    OBVIOUS
  <2>3. u \in Seq(Int) /\ Len(u) = m /\ \A i \in 1..m : u[i] = (k + 1) + i - 1
    BY <2>2, RunIs
  <2> HIDE DEF s, u
  <2> QED  BY <2>1, <2>3
<1> HIDE DEF s, u
<1>2. /\ s \o u \in Seq(Int) /\ Len(s \o u) = k + m
      /\ \A i \in 1..(k + m) : (s \o u)[i] = i
  BY SMTT(30), <1>1
<1>3. s \o u = Run(1, k + m)
  <2> DEFINE v == Run(1, k + m)
  <2>1. v \in Seq(Int) /\ Len(v) = k + m /\ \A i \in 1..(k + m) : v[i] = 1 + i - 1
    <3>1. 1 \in Int /\ k + m \in Nat  OBVIOUS
    <3> QED  BY <3>1, RunIs
  <2> HIDE DEF v
  <2>2. \A i \in 1..(k + m) : (s \o u)[i] = v[i]
    BY <1>2, <2>1
  <2>3. s \o u = v
    BY <1>2, <2>1, <2>2, Same
  <2> QED  BY <2>3 DEF v
<1> QED  BY <1>3 DEF s, u

\* The last record of a run, and that it is in order.
LEMMA RunOrder ==
  ASSUME NEW k \in Nat
  PROVE  Increasing(Run(1, k)) /\ LastOf(Run(1, k)) = k /\ Len(Run(1, k)) = k
<1> DEFINE s == Run(1, k)
<1>1. s \in Seq(Int) /\ Len(s) = k /\ \A i \in 1..k : s[i] = i
  BY DEF Run
<1> HIDE DEF s
<1>2. Increasing(s)
  BY <1>1 DEF Increasing
<1>3. LastOf(s) = k
  <2>1. CASE k = 0
    <3>1. s = <<>>  BY <1>1, <2>1, EmptyWhenShort
    <3> QED  BY <3>1, <2>1 DEF LastOf
  <2>2. CASE k # 0
    <3>1. s # <<>> /\ s[k] = k  BY <1>1, <2>2
    <3> QED  BY <3>1, <1>1 DEF LastOf, Last
  <2> QED  BY <2>1, <2>2
<1> QED  BY <1>1, <1>2, <1>3 DEF s

LEMMA RunGrows ==
  ASSUME NEW k \in Nat
  PROVE  Append(Run(1, k), k + 1) = Run(1, k + 1)
<1> DEFINE s == Run(1, k)
           v == Run(1, k + 1)
<1>1. s \in Seq(Int) /\ Len(s) = k /\ \A i \in 1..k : s[i] = i
  BY DEF Run
<1>2. v \in Seq(Int) /\ Len(v) = k + 1 /\ \A i \in 1..(k + 1) : v[i] = 1 + i - 1
  <2>1. k + 1 \in Nat  OBVIOUS
  <2> QED  BY <2>1, RunIs
<1> HIDE DEF s, v
<1>3. /\ Append(s, k + 1) \in Seq(Int) /\ Len(Append(s, k + 1)) = k + 1
      /\ \A i \in 1..k : Append(s, k + 1)[i] = s[i]
      /\ Append(s, k + 1)[k + 1] = k + 1
  BY <1>1, Written
<1>4. \A i \in 1..(k + 1) : Append(s, k + 1)[i] = v[i]
  BY <1>1, <1>2, <1>3
<1>5. Append(s, k + 1) = v
  BY <1>2, <1>3, <1>4, Same
<1> QED  BY <1>5 DEF s, v

LEMMA FileGrows ==
  ASSUME NEW a \in Int, NEW n \in Nat
  PROVE  /\ Append(File(a, n, 0), a + n) = File(a, n + 1, 0)
         /\ Append(File(a, n, 0), Torn) = File(a, n, 1)
<1> DEFINE f == File(a, n, 0)
           g == File(a, n + 1, 0)
           h == File(a, n, 1)
<1>1. /\ f \in Seq(Int) /\ Len(f) = 1 + n /\ f[1] = Header
      /\ \A i \in 1..n : f[i + 1] = a + i - 1
  BY FileIs
<1>2. /\ g \in Seq(Int) /\ Len(g) = n + 2 /\ g[1] = Header
      /\ \A i \in 1..(n + 1) : g[i + 1] = a + i - 1
  <2>1. n + 1 \in Nat  OBVIOUS
  <2> QED  BY <2>1, FileIs
<1>3. /\ h \in Seq(Int) /\ Len(h) = n + 2 /\ h[1] = Header
      /\ \A i \in 1..n : h[i + 1] = a + i - 1
      /\ h[n + 2] = Torn
  BY FileIs
<1> HIDE DEF f, g, h
<1>4. ASSUME NEW x \in Int
      PROVE  /\ Append(f, x) \in Seq(Int) /\ Len(Append(f, x)) = n + 2
             /\ Append(f, x)[1] = Header
             /\ \A i \in 1..n : Append(f, x)[i + 1] = a + i - 1
             /\ Append(f, x)[n + 2] = x
  <2>1. /\ Append(f, x) \in Seq(Int) /\ Len(Append(f, x)) = (1 + n) + 1
        /\ \A i \in 1..(1 + n) : Append(f, x)[i] = f[i]
        /\ Append(f, x)[(1 + n) + 1] = x
    BY <1>1, Written
  <2>2. \A i \in 1..n : i + 1 \in 1..(1 + n)
    OBVIOUS
  <2>3. 1 \in 1..(1 + n) /\ (1 + n) + 1 = n + 2
    OBVIOUS
  <2> QED  BY <2>1, <2>2, <2>3, <1>1
<1>5. ASSUME NEW s \in Seq(Int), NEW u \in Seq(Int), Len(s) = n + 2, Len(u) = n + 2,
             s[1] = u[1], s[n + 2] = u[n + 2], \A i \in 1..n : s[i + 1] = u[i + 1]
      PROVE  s = u
  <2>1. ASSUME NEW j \in 1..(n + 2) PROVE s[j] = u[j]
    <3>1. CASE j = 1  BY <3>1, <1>5
    <3>2. CASE j = n + 2  BY <3>2, <1>5
    <3>3. CASE j # 1 /\ j # n + 2
      <4>1. j - 1 \in 1..n /\ (j - 1) + 1 = j  BY <3>3
      <4> QED  BY <4>1, <1>5
    <3> QED  BY <3>1, <3>2, <3>3
  <2> QED  BY <2>1, <1>5, Same
<1>6. Append(f, a + n) = g
  <2>1. a + n \in Int /\ n + 1 \in 1..(n + 1) /\ a + (n + 1) - 1 = a + n
    OBVIOUS
  <2>2. g[n + 2] = a + n
    <3>1. g[(n + 1) + 1] = a + (n + 1) - 1  BY <1>2, <2>1
    <3> QED  BY <3>1, <2>1
  <2>3. \A i \in 1..n : g[i + 1] = a + i - 1
    BY <1>2
  <2>4. Append(f, a + n)[n + 2] = a + n
    BY <2>1, <1>4
  <2> DEFINE s == Append(f, a + n)
  <2>5. /\ s \in Seq(Int) /\ Len(s) = n + 2 /\ s[1] = Header
        /\ \A i \in 1..n : s[i + 1] = a + i - 1
    BY <2>1, <1>4
  <2> HIDE DEF s
  <2>6. \A i \in 1..n : s[i + 1] = g[i + 1]
    BY <2>3, <2>5
  <2>7. s[n + 2] = g[n + 2] /\ s[1] = g[1]
    BY <2>2, <2>4, <2>5, <1>2 DEF s
  <2>8. s = g
    BY <2>5, <2>6, <2>7, <1>2, <1>5
  <2> QED  BY <2>8 DEF s
<1>7. Append(f, Torn) = h
  <2>1. Torn \in Int  BY DEF Torn
  <2> DEFINE s == Append(f, Torn)
  <2>2. /\ s \in Seq(Int) /\ Len(s) = n + 2 /\ s[1] = Header
        /\ \A i \in 1..n : s[i + 1] = a + i - 1
        /\ s[n + 2] = Torn
    BY <2>1, <1>4
  <2> HIDE DEF s
  <2>3. \A i \in 1..n : s[i + 1] = h[i + 1]
    BY <2>2, <1>3
  <2>4. s[n + 2] = h[n + 2] /\ s[1] = h[1]
    BY <2>2, <1>3
  <2>5. s = h
    BY <2>2, <2>3, <2>4, <1>3, <1>5
  <2> QED  BY <2>5 DEF s
<1> QED  BY <1>6, <1>7 DEF f, g, h

\* A journal with nothing but its header.
LEMMA OnlyHeader ==
  ASSUME NEW a \in Int
  PROVE  <<Header>> = File(a, 0, 0) /\ Append(<<>>, Header) = File(a, 0, 0)
<1> DEFINE f == File(a, 0, 0)
<1>1. f \in Seq(Int) /\ Len(f) = 1 /\ f[1] = Header
  BY DEF File, Header
<1> HIDE DEF f
<1>2. <<Header>> \in Seq(Int) /\ Len(<<Header>>) = 1 /\ <<Header>>[1] = Header
  BY DEF Header
<1>3. Append(<<>>, Header) = <<Header>>
  OBVIOUS
<1>4. <<Header>> = f
  <2> DEFINE e == <<Header>>
  <2>1. e \in Seq(Int) /\ Len(e) = 1 /\ e[1] = Header  BY <1>2
  <2> HIDE DEF e
  <2>2. e = f  BY <2>1, <1>1, Same
  <2> QED  BY <2>2 DEF e
<1> QED  BY <1>3, <1>4 DEF f

\* The torn end is cut off.
LEMMA FileCut ==
  ASSUME NEW a \in Int, NEW n \in Nat, NEW t \in {0, 1}
  PROVE  SubSeq(File(a, n, t), 1, n + 1) = File(a, n, 0)
<1> DEFINE f == File(a, n, t)
           g == File(a, n, 0)
           s == SubSeq(f, 1, n + 1)
<1>1. /\ f \in Seq(Int) /\ Len(f) = 1 + n + t /\ f[1] = Header
      /\ \A i \in 1..n : f[i + 1] = a + i - 1
  BY FileIs
<1>2. /\ g \in Seq(Int) /\ Len(g) = 1 + n /\ g[1] = Header
      /\ \A i \in 1..n : g[i + 1] = a + i - 1
  BY FileIs
<1> HIDE DEF f, g
<1>3. s \in Seq(Int) /\ Len(s) = 1 + n /\ \A i \in 1..(1 + n) : s[i] = f[i]
  BY <1>1
<1> HIDE DEF s
<1>4. ASSUME NEW j \in 1..(1 + n) PROVE s[j] = g[j]
  <2>1. CASE j = 1  BY <2>1, <1>1, <1>2, <1>3
  <2>2. CASE j # 1
    <3>1. j - 1 \in 1..n /\ (j - 1) + 1 = j  BY <2>2
    <3>2. f[j] = g[j]  BY <3>1, <1>1, <1>2
    <3> QED  BY <3>2, <1>3
  <2> QED  BY <2>1, <2>2
<1>5. s = g
  BY <1>2, <1>3, <1>4, Same
<1> QED  BY <1>5 DEF s, f, g

-----------------------------------------------------------------------------
(* The form of a store whose writes succeed.                               *)

Running == phase \notin {"down", "refused"}

\* The journal has no header in its file: there is none yet, it is still in
\* the stdio buffer, or a compaction has just emptied the file.
Bare == ~exists \/ buffered \/ phase = "emptied"

\* The journal has its header, or was left without it.  In the second case
\* records may have been written where the header belongs, or part of it.
Shape(lo, n, t) ==
  \/ journal = File(lo, n, t)
  \/ journal = Rest(lo, n, t) /\ (n + t > 0 => headless)
  \/ journal = <<Part>> /\ n = 0 /\ t = 0 /\ headless /\ ~Running

\* Snapshot and journal, and what a process holds of them.
Formed(k, lo, n, t) ==
  /\ lo >= 1 /\ lo <= k + 1 /\ k <= lo + n - 1 /\ lo + n - 1 <= MaxSequence
  /\ exists \in BOOLEAN /\ buffered \in BOOLEAN /\ headless \in BOOLEAN
  /\ phase \in {"down", "loaded", "open", "renamed", "emptied", "closed", "refused"}
  /\ snapshot = Run(1, k)
  /\ Shape(lo, n, t)
  /\ Bare => journal = <<>> /\ n = 0 /\ t = 0
  /\ journal = <<>> => Bare \/ headless
  /\ Running => records = Run(1, lo + n - 1)
  /\ phase \in {"renamed", "emptied"} => k = lo + n - 1
  /\ t = 1 => phase \in {"down", "loaded", "refused"}
  /\ phase = "loaded" => Readable(journal) /\ good = IF journal = <<>> THEN 0 ELSE n + 1
  /\ buffered => phase \in {"open", "renamed"}
  /\ ~exists => phase \in {"down", "loaded", "refused"}

FormInv == \E k, lo, n \in Nat : \E t \in {0, 1} : Formed(k, lo, n, t)

\* What the two kinds of journal begin with.
LEMMA FileFirst ==
  ASSUME NEW a \in Int, NEW n \in Nat, NEW t \in {0, 1}
  PROVE  File(a, n, t) # <<>> /\ FirstOf(File(a, n, t)) = Header
<1> DEFINE f == File(a, n, t)
<1>1. f \in Seq(Int) /\ Len(f) = 1 + n + t /\ f[1] = Header
  BY FileIs
<1> HIDE DEF f
<1>2. f # <<>> /\ Head(f) = Header
  BY <1>1
<1> QED  BY <1>2 DEF f, FirstOf

LEMMA RestFirst ==
  ASSUME NEW a \in Nat, a >= 1, NEW n \in Nat, NEW t \in {0, 1}
  PROVE  /\ n + t = 0 => Rest(a, n, t) = <<>>
         /\ n + t > 0 => Rest(a, n, t) # <<>> /\ FirstOf(Rest(a, n, t)) \notin {0, Header, Part}
<1> DEFINE f == Rest(a, n, t)
<1>1. f \in Seq(Int) /\ Len(f) = n + t /\ (\A i \in 1..n : f[i] = a + i - 1)
      /\ (t = 1 => f[n + 1] = Torn)
  <2>1. a \in Int  OBVIOUS
  <2> QED  BY <2>1, RestIs
<1> HIDE DEF f
<1>2. n + t = 0 => f = <<>>
  BY <1>1, EmptyWhenShort
<1>3. ASSUME n + t > 0 PROVE f # <<>> /\ FirstOf(f) \notin {0, Header, Part}
  <2>1. f # <<>> /\ Head(f) = f[1]
    BY <1>1, <1>3
  <2>2. f[1] \in {a, Torn}
    <3>1. CASE n = 0  BY <3>1, <1>1, <1>3
    <3>2. CASE n > 0
      <4>1. 1 \in 1..n /\ a + 1 - 1 = a  BY <3>2
      <4> QED  BY <4>1, <1>1
    <3> QED  BY <3>1, <3>2
  <2> QED  BY <2>1, <2>2 DEF FirstOf, Header, Part, Torn
<1> QED  BY <1>2, <1>3 DEF f

LEMMA PartFirst == <<Part>> # <<>> /\ FirstOf(<<Part>>) = Part /\ Body(<<Part>>) = <<>>
<1>1. <<Part>> # <<>> /\ Head(<<Part>>) = Part
  OBVIOUS
<1>2. Len(<<Part>>) = 1
  OBVIOUS
<1>3. SubSeq(<<Part>>, 2, 1) = <<>>
  OBVIOUS
<1> QED  BY <1>1, <1>2, <1>3 DEF FirstOf, Body

LEMMA RestGrows ==
  ASSUME NEW a \in Int, NEW n \in Nat
  PROVE  /\ Append(Rest(a, n, 0), a + n) = Rest(a, n + 1, 0)
         /\ Append(Rest(a, n, 0), Torn) = Rest(a, n, 1)
<1> DEFINE f == Rest(a, n, 0)
           g == Rest(a, n + 1, 0)
           h == Rest(a, n, 1)
<1>1. f \in Seq(Int) /\ Len(f) = n /\ \A i \in 1..n : f[i] = a + i - 1
  BY RestIs
<1>2. g \in Seq(Int) /\ Len(g) = n + 1 /\ \A i \in 1..(n + 1) : g[i] = a + i - 1
  <2>1. n + 1 \in Nat  OBVIOUS
  <2> QED  BY <2>1, RestIs
<1>3. h \in Seq(Int) /\ Len(h) = n + 1 /\ (\A i \in 1..n : h[i] = a + i - 1) /\ h[n + 1] = Torn
  BY RestIs
<1> HIDE DEF f, g, h
<1>4. ASSUME NEW x \in Int
      PROVE  /\ Append(f, x) \in Seq(Int) /\ Len(Append(f, x)) = n + 1
             /\ \A i \in 1..n : Append(f, x)[i] = a + i - 1
             /\ Append(f, x)[n + 1] = x
  BY <1>1, Written
<1>5. ASSUME NEW s \in Seq(Int), NEW u \in Seq(Int), Len(s) = n + 1, Len(u) = n + 1,
             s[n + 1] = u[n + 1], \A i \in 1..n : s[i] = u[i]
      PROVE  s = u
  <2>1. \A j \in 1..(n + 1) : j \in 1..n \/ j = n + 1
    OBVIOUS
  <2> QED  BY <2>1, <1>5, Same
<1>6. Append(f, a + n) = g
  <2> DEFINE s == Append(f, a + n)
  <2>1. a + n \in Int /\ n + 1 \in 1..(n + 1) /\ a + (n + 1) - 1 = a + n
    OBVIOUS
  <2>2. s \in Seq(Int) /\ Len(s) = n + 1 /\ (\A i \in 1..n : s[i] = a + i - 1) /\ s[n + 1] = a + n
    BY <2>1, <1>4
  <2> HIDE DEF s
  <2>3. g[n + 1] = a + n /\ \A i \in 1..n : g[i] = a + i - 1
    BY <1>2, <2>1
  <2>4. s = g
    BY <2>2, <2>3, <1>2, <1>5
  <2> QED  BY <2>4 DEF s
<1>7. Append(f, Torn) = h
  <2> DEFINE s == Append(f, Torn)
  <2>1. Torn \in Int  BY DEF Torn
  <2>2. s \in Seq(Int) /\ Len(s) = n + 1 /\ (\A i \in 1..n : s[i] = a + i - 1) /\ s[n + 1] = Torn
    BY <2>1, <1>4
  <2> HIDE DEF s
  <2>3. s = h
    BY <2>2, <1>3, <1>5
  <2> QED  BY <2>3 DEF s
<1> QED  BY <1>6, <1>7 DEF f, g, h

LEMMA FormInit == Init => FormInv
<1> SUFFICES ASSUME Init PROVE Formed(0, 1, 0, 0)
  BY DEF FormInv
<1>1. Run(1, 0) = <<>> /\ Rest(1, 0, 0) = <<>>
  BY DEF Run, Rest
<1>2. 0 <= MaxSequence
  BY StoreAssumption
<1>3. Bare /\ ~Running /\ exists \in BOOLEAN /\ buffered \in BOOLEAN /\ headless \in BOOLEAN
  BY DEF Init, Bare, Running
<1>4. Shape(1, 0, 0)
  BY <1>1 DEF Init, Shape
<1> QED  BY <1>1, <1>2, <1>3, <1>4 DEF Init, Formed

\* The three shapes told apart by what the journal begins with.
LEMMA ShapeIs ==
  ASSUME NEW k \in Nat, NEW lo \in Nat, NEW n \in Nat, NEW t \in {0, 1},
         Formed(k, lo, n, t)
  PROVE  /\ journal = <<>> => n = 0 /\ t = 0
         /\ Readable(journal) /\ journal # <<>> => journal = File(lo, n, t)
         /\ ~Readable(journal) => headless
         /\ Readable(journal) => Body(journal) = Rest(lo, n, t)
         /\ Pieces(journal) = Rest(lo, n, t)
         /\ ~exists => Readable(journal)
<1>0. lo >= 1 /\ lo \in Int /\ Shape(lo, n, t)
  BY DEF Formed
<1>e. Body(<<>>) = <<>> /\ FirstOf(<<>>) = 0 /\ Readable(<<>>)
  BY DEF Body, FirstOf, Readable
<1>h. Header # 0 /\ Part # 0 /\ Header # Part
  BY DEF Header, Part
<1>1. CASE journal = File(lo, n, t)
  <2>1. journal # <<>> /\ FirstOf(journal) = Header
    BY <1>0, <1>1, FileFirst
  <2>2. Body(journal) = Rest(lo, n, t)
    BY <1>0, <1>1, BodyOfFile
  <2> QED  BY <1>1, <2>1, <2>2 DEF Readable, Pieces
<1>2. CASE journal = Rest(lo, n, t) /\ n + t = 0
  <2>1. journal = <<>> /\ n = 0 /\ t = 0
    BY <1>0, <1>2, RestFirst
  <2>2. Pieces(journal) = journal
    BY <2>1, <1>e, <1>h DEF Pieces
  <2> QED  BY <1>2, <2>1, <2>2, <1>e
<1>3. CASE journal = Rest(lo, n, t) /\ n + t > 0 /\ headless
  <2>1. journal # <<>> /\ FirstOf(journal) \notin {0, Header, Part}
    BY <1>0, <1>3, RestFirst
  <2>2. ~Readable(journal) /\ Pieces(journal) = journal
    BY <2>1 DEF Readable, Pieces
  <2>3. exists
    BY <2>1 DEF Formed, Bare
  <2> QED  BY <1>3, <2>1, <2>2, <2>3
<1>4. CASE journal = <<Part>> /\ n = 0 /\ t = 0 /\ headless
  <2>1. journal # <<>> /\ FirstOf(journal) = Part /\ Body(journal) = <<>>
    BY <1>4, PartFirst
  <2>2. Rest(lo, 0, 0) = <<>>
    BY DEF Rest
  <2>3. ~Readable(journal) /\ Pieces(journal) = <<>>
    BY <2>1, <1>h DEF Readable, Pieces
  <2>4. exists
    BY <2>1 DEF Formed, Bare
  <2> QED  BY <1>4, <2>1, <2>2, <2>3, <2>4
<1>5. n + t = 0 \/ n + t > 0
  OBVIOUS
<1> QED  BY <1>0, <1>1, <1>2, <1>3, <1>4, <1>5 DEF Shape

\* What the files of that form hold: their records are one run, and a load that
\* finds the header replays all of it.
LEMMA FormReplayed ==
  ASSUME NEW k \in Nat, NEW lo \in Nat, NEW n \in Nat, NEW t \in {0, 1},
         Formed(k, lo, n, t)
  PROVE  /\ OnFile = Run(1, lo + n - 1)
         /\ Readable(journal) =>
              /\ Whole(Body(journal)) = Run(lo, n)
              /\ Replayed = Run(1, lo + n - 1)
              /\ ~Spliced(Body(journal))
         /\ lo + n - 1 \in Nat
<1>1. lo >= 1 /\ lo <= k + 1 /\ k <= lo + n - 1 /\ snapshot = Run(1, k)
  BY DEF Formed
<1>2. Whole(Rest(lo, n, t)) = Run(lo, n)
  BY WholeOfRest
<1>3. snapshot \o Beyond(snapshot, Rest(lo, n, t)) = Run(1, lo + n - 1)
  <2>1. Beyond(snapshot, Rest(lo, n, t)) = Run(k + 1, lo + n - 1 - k)
    <3>1. LastOf(snapshot) = k
      BY <1>1, RunOrder
    <3> QED  BY <3>1, <1>1, <1>2, AboveRun DEF Beyond
  <2>2. lo + n - 1 - k \in Nat /\ k + (lo + n - 1 - k) = lo + n - 1
    BY <1>1
  <2>3. Run(1, k) \o Run(k + 1, lo + n - 1 - k) = Run(1, k + (lo + n - 1 - k))
    BY <2>2, Joined
  <2> QED  BY <2>1, <2>2, <2>3, <1>1
<1>4. Pieces(journal) = Rest(lo, n, t) /\ (Readable(journal) => Body(journal) = Rest(lo, n, t))
  BY ShapeIs
<1>5. ~Spliced(Rest(lo, n, t))
  <2>1. Len(Run(lo, n)) = n
    BY RunIs
  <2>2. Len(Rest(lo, n, t)) = n + t
    <3>1. lo \in Int  OBVIOUS
    <3> QED  BY <3>1, RestIs
  <2> QED  BY <2>1, <2>2, <1>2 DEF Spliced
<1>6. OnFile = Run(1, lo + n - 1)
  BY <1>3, <1>4 DEF OnFile
<1>7. ASSUME Readable(journal)
      PROVE  /\ Whole(Body(journal)) = Run(lo, n)
             /\ Replayed = Run(1, lo + n - 1)
             /\ ~Spliced(Body(journal))
  <2>1. Body(journal) = Rest(lo, n, t)
    BY <1>4, <1>7
  <2> QED  BY <2>1, <1>2, <1>3, <1>5 DEF Replayed
<1>8. lo + n - 1 \in Nat
  BY <1>1
<1> QED  BY <1>6, <1>7, <1>8

\* The journal while the store is open, with its header written or to come, or
\* left without it.
LEMMA FormFlushed ==
  ASSUME NEW k \in Nat, NEW lo \in Nat, NEW n \in Nat, NEW t \in {0, 1},
         Formed(k, lo, n, t), phase \in {"open", "renamed"}
  PROVE  /\ t = 0 /\ exists
         /\ \/ Flushed = File(lo, n, 0)
            \/ Flushed = Rest(lo, n, 0) /\ headless /\ ~buffered
         /\ NextSequence = lo + n
<1>1. t = 0 /\ exists
  BY DEF Formed
<1>2. \/ Flushed = File(lo, n, 0)
      \/ Flushed = Rest(lo, n, 0) /\ headless /\ ~buffered
  <2>1. CASE buffered
    <3>1. journal = <<>> /\ n = 0
      BY <2>1 DEF Formed, Bare
    <3> QED  BY <2>1, <3>1, OnlyHeader DEF Flushed
  <2>2. CASE ~buffered
    <3>1. ~Bare /\ Running /\ Flushed = journal
      BY <2>2, <1>1 DEF Bare, Running, Flushed
    <3>2. journal = File(lo, n, 0) \/ (journal = Rest(lo, n, 0) /\ (n + 0 > 0 => headless))
      BY <3>1, <1>1 DEF Formed, Shape
    <3>3. CASE journal = Rest(lo, n, 0) /\ n = 0
      <4>1. journal = <<>>
        BY <3>3 DEF Rest
      <4> QED  BY <4>1, <3>1, <3>3, <2>2 DEF Formed
    <3> QED  BY <3>1, <3>2, <3>3, <2>2
  <2> QED  BY <2>1, <2>2
<1>3. NextSequence = lo + n
  <2>1. records = Run(1, lo + n - 1) /\ lo + n - 1 \in Nat
    BY DEF Formed, Running
  <2>2. LastOf(records) = lo + n - 1
    BY <2>1, RunOrder
  <2> QED  BY <2>2 DEF NextSequence
<1> QED  BY <1>1, <1>2, <1>3

\* What an interrupted append can leave.
LEMMA FormLeftover ==
  ASSUME NEW k \in Nat, NEW lo \in Nat, NEW n \in Nat, NEW t \in {0, 1},
         Formed(k, lo, n, t), CanAppend, NEW how \in Interruptions
  PROVE  /\ lo + n <= MaxSequence
         /\ \/ Leftover(how) \in {File(lo, n, 0), File(lo, n, 1), File(lo, n + 1, 0)}
            \/ headless /\ Leftover(how) \in {Rest(lo, n, 0), Rest(lo, n, 1), Rest(lo, n + 1, 0)}
            \/ n = 0 /\ Leftover(how) \in {<<>>, <<Part>>}
<1>1. phase = "open" /\ NextSequence <= MaxSequence
  BY DEF CanAppend
<1>2. /\ t = 0 /\ NextSequence = lo + n
      /\ Flushed = File(lo, n, 0) \/ (Flushed = Rest(lo, n, 0) /\ headless /\ ~buffered)
  BY <1>1, FormFlushed
<1>3. ~buffered => Flushed = journal
  BY DEF Flushed
<1>4. buffered => journal = <<>> /\ n = 0 /\ Append(journal, Part) = <<Part>>
  BY DEF Formed, Bare
<1>5. /\ Append(File(lo, n, 0), lo + n) = File(lo, n + 1, 0)
      /\ Append(File(lo, n, 0), Torn) = File(lo, n, 1)
      /\ Append(Rest(lo, n, 0), lo + n) = Rest(lo, n + 1, 0)
      /\ Append(Rest(lo, n, 0), Torn) = Rest(lo, n, 1)
  <2>1. lo \in Int  OBVIOUS
  <2> QED  BY <2>1, FileGrows, RestGrows
<1>6. CASE how \in {"none", "part"}
  <2>1. Leftover(how) = journal \/ (buffered /\ Leftover(how) = Append(journal, Part))
    BY <1>6 DEF Leftover
  <2> QED  BY <2>1, <1>1, <1>2, <1>3, <1>4
<1>7. CASE how = "header"
  <2>1. Leftover(how) = Flushed
    BY <1>7 DEF Leftover
  <2> QED  BY <2>1, <1>1, <1>2
<1>8. CASE how = "torn"
  <2>1. Leftover(how) = Append(Flushed, Torn)
    BY <1>8 DEF Leftover
  <2> QED  BY <2>1, <1>1, <1>2, <1>5
<1>9. CASE how = "whole"
  <2>1. Leftover(how) = Append(Flushed, NextSequence)
    BY <1>9 DEF Leftover
  <2> QED  BY <2>1, <1>1, <1>2, <1>5
<1> QED  BY <1>6, <1>7, <1>8, <1>9 DEF Interruptions

-----------------------------------------------------------------------------
(* Every step keeps the form.                                              *)

LEMMA LoadForms ==
  ASSUME NEW k \in Nat, NEW lo \in Nat, NEW n \in Nat, NEW t \in {0, 1},
         Formed(k, lo, n, t), Load
  PROVE  Formed(k, lo, n, t)'
<1>1. Readable(journal)
  BY ShapeIs DEF Load, Loadable, Formed
<1>2. records' = Run(1, lo + n - 1)
  BY <1>1, FormReplayed DEF Load
<1>3. good' = IF journal = <<>> THEN 0 ELSE n + 1
  <2>1. Len(Whole(Body(journal))) = n
    <3>1. lo \in Int  OBVIOUS
    <3>2. Len(Run(lo, n)) = n  BY <3>1, RunIs
    <3> QED  BY <3>2, <1>1, FormReplayed
  <2> QED  BY <2>1 DEF Load
<1>4. Bare' = Bare /\ journal' = journal /\ headless' = headless /\ Running'
  BY DEF Load, Bare, Formed, Running
<1>5. Readable(journal')
  BY <1>1, <1>4
<1>6. Shape(lo, n, t)'
  <2>1. journal # <<Part>>
    BY <1>1, PartFirst DEF Readable, Part, Header
  <2>2. \/ journal = File(lo, n, t)
        \/ journal = Rest(lo, n, t) /\ (n + t > 0 => headless)
    BY <2>1 DEF Formed, Shape
  <2> QED  BY <2>2, <1>4 DEF Shape
<1>7. Readable(journal)'
  BY <1>5 DEF Readable
<1>8. good' = IF journal' = <<>> THEN 0 ELSE n + 1
  BY <1>3, <1>4
<1> QED  BY <1>2, <1>4, <1>6, <1>7, <1>8 DEF Load, Formed

LEMMA RefuseForms ==
  ASSUME NEW k \in Nat, NEW lo \in Nat, NEW n \in Nat, NEW t \in {0, 1},
         Formed(k, lo, n, t), RefuseLoad
  PROVE  Formed(k, lo, n, t)'
<1>1. Bare' = Bare /\ ~Running /\ ~Running'
  BY DEF RefuseLoad, Bare, Running
<1>2. Shape(lo, n, t)'
  BY <1>1 DEF RefuseLoad, Shape, Formed
<1> QED  BY <1>1, <1>2 DEF RefuseLoad, Formed

LEMMA OpenForms ==
  ASSUME NEW k \in Nat, NEW lo \in Nat, NEW n \in Nat, NEW t \in {0, 1},
         Formed(k, lo, n, t), OpenForAppend
  PROVE  Formed(k, lo, n, 0)' /\ (journal = <<>> <=> journal' = <<>>)
         /\ (journal # <<>> => FirstOf(journal') = FirstOf(journal))
<1>1. phase = "loaded" /\ phase' = "open" /\ exists' = TRUE /\ buffered' = ~exists
      /\ snapshot' = snapshot /\ records' = records /\ exists \in BOOLEAN
      /\ headless' = headless /\ ~buffered
  BY DEF OpenForAppend, Formed
<1>2. Bare = ~exists /\ Bare' = ~exists /\ Running /\ Running'
  BY <1>1 DEF Bare, Running
<1>3. Readable(journal) /\ good = IF journal = <<>> THEN 0 ELSE n + 1
  BY <1>1 DEF Formed
<1>4. CASE journal # <<>>
  <2>1. journal = File(lo, n, t) /\ good = n + 1 /\ exists
    BY <1>2, <1>3, <1>4, ShapeIs DEF Formed
  <2>2. journal' = File(lo, n, 0)
    <3>1. lo \in Int /\ n + 1 > 0  OBVIOUS
    <3> QED  BY <3>1, <2>1, FileCut DEF OpenForAppend, Trim
  <2>3. journal' # <<>> /\ FirstOf(journal') = Header /\ FirstOf(journal) = Header
    <3>1. lo \in Int  OBVIOUS
    <3> QED  BY <2>1, <2>2, <3>1, FileFirst
  <2>4. Shape(lo, n, 0)'
    BY <2>2 DEF Shape
  <2> QED  BY <1>1, <1>2, <1>4, <2>1, <2>3, <2>4 DEF Formed
<1>5. CASE journal = <<>>
  <2>1. good = 0 /\ n = 0 /\ t = 0
    BY <1>3, <1>5, ShapeIs
  <2>2. journal' = <<>>
    BY <2>1, <1>5 DEF OpenForAppend, Trim
  <2>3. Shape(lo, n, 0)'
    <3>1. Rest(lo, 0, 0) = <<>>  BY DEF Rest
    <3> QED  BY <3>1, <2>1, <2>2 DEF Shape
  <2>4. Bare' \/ headless'
    BY <1>1, <1>2, <1>5 DEF Formed
  <2> QED  BY <1>1, <1>2, <1>5, <2>1, <2>2, <2>3, <2>4 DEF Formed
<1> QED  BY <1>4, <1>5

LEMMA AppendForms ==
  ASSUME NEW k \in Nat, NEW lo \in Nat, NEW n \in Nat, NEW t \in {0, 1},
         Formed(k, lo, n, t), AppendRecord
  PROVE  Formed(k, lo, n + 1, 0)'
<1>1. phase = "open" /\ phase' = "open" /\ NextSequence <= MaxSequence
      /\ buffered' = FALSE /\ exists' = exists /\ snapshot' = snapshot /\ headless' = headless
  BY DEF AppendRecord, CanAppend
<1>2. /\ t = 0 /\ exists /\ NextSequence = lo + n
      /\ Flushed = File(lo, n, 0) \/ (Flushed = Rest(lo, n, 0) /\ headless)
  BY <1>1, FormFlushed
<1>3. journal' = File(lo, n + 1, 0) \/ (journal' = Rest(lo, n + 1, 0) /\ headless)
  <2>1. lo \in Int  OBVIOUS
  <2> QED  BY <2>1, <1>2, FileGrows, RestGrows DEF AppendRecord
<1>4. records' = Run(1, lo + (n + 1) - 1)
  <2>1. records = Run(1, lo + n - 1) /\ lo + n - 1 \in Nat /\ (lo + n - 1) + 1 = lo + n
        /\ lo + (n + 1) - 1 = lo + n
    BY <1>1 DEF Formed, Running
  <2>2. Append(Run(1, lo + n - 1), (lo + n - 1) + 1) = Run(1, (lo + n - 1) + 1)
    BY <2>1, RunGrows
  <2> QED  BY <2>1, <2>2, <1>2 DEF AppendRecord
<1>5. ~Bare' /\ Shape(lo, n + 1, 0)'
  BY <1>1, <1>2, <1>3 DEF Bare, Shape
<1>6. /\ lo >= 1 /\ lo <= k + 1 /\ k <= lo + (n + 1) - 1 /\ lo + (n + 1) - 1 <= MaxSequence
      /\ snapshot' = Run(1, k) /\ n + 1 \in Nat /\ (n + 1) + 0 > 0
  BY <1>1, <1>2, StoreAssumption DEF Formed
<1>7. journal' # <<>>
  <2>1. lo \in Int  OBVIOUS
  <2> QED  BY <2>1, <1>3, <1>6, FileFirst, RestFirst
<1> QED  BY <1>1, <1>2, <1>4, <1>5, <1>6, <1>7 DEF Formed

LEMMA SnapshotForms ==
  ASSUME NEW k \in Nat, NEW lo \in Nat, NEW n \in Nat, NEW t \in {0, 1},
         Formed(k, lo, n, t), WriteSnapshot
  PROVE  Formed(lo + n - 1, lo, n, t)'
<1>1. phase = "open" /\ phase' = "renamed" /\ exists' = exists /\ journal' = journal
      /\ buffered' = buffered /\ records' = records /\ snapshot' = records /\ good' = good
      /\ headless' = headless /\ Running /\ Running'
  BY DEF WriteSnapshot, Running
<1>2. Bare' = Bare
  BY <1>1 DEF Bare
<1>3. Shape(lo, n, t)'
  BY <1>1 DEF Shape, Formed
<1> QED  BY <1>1, <1>2, <1>3 DEF Formed

LEMMA TruncateForms ==
  ASSUME NEW k \in Nat, NEW lo \in Nat, NEW n \in Nat, NEW t \in {0, 1},
         Formed(k, lo, n, t), TruncateJournal
  PROVE  k = lo + n - 1 /\ Formed(k, k + 1, 0, 0)'
<1>1. phase = "renamed" /\ phase' = "emptied" /\ exists' = exists /\ journal' = <<>>
      /\ buffered' = FALSE /\ records' = records /\ snapshot' = snapshot /\ headless' = headless
  BY DEF TruncateJournal
<1>2. k = lo + n - 1 /\ records = Run(1, k) /\ exists
  BY <1>1 DEF Formed, Running
<1>3. Bare' /\ (k + 1) + 0 - 1 = k
  BY <1>1 DEF Bare
<1>4. /\ k + 1 >= 1 /\ k + 1 <= k + 1 /\ k <= (k + 1) + 0 - 1 /\ (k + 1) + 0 - 1 <= MaxSequence
      /\ snapshot' = Run(1, k) /\ records' = Run(1, (k + 1) + 0 - 1)
  BY <1>1, <1>2, <1>3 DEF Formed
<1>5. Shape(k + 1, 0, 0)'
  <2>1. Rest(k + 1, 0, 0) = <<>>  BY DEF Rest
  <2> QED  BY <2>1, <1>1 DEF Shape
<1> QED  BY <1>1, <1>2, <1>3, <1>4, <1>5 DEF Formed

LEMMA RewriteForms ==
  ASSUME NEW k \in Nat, NEW lo \in Nat, NEW n \in Nat, NEW t \in {0, 1},
         Formed(k, lo, n, t), RewriteHeader \/ FailRewrite, Faults = {}
  PROVE  Formed(k, lo, n, t)' /\ journal' = <<Header>> /\ journal = <<>>
<1>1. phase = "emptied" /\ phase' \in {"open", "closed"} /\ exists' = exists
      /\ journal' = <<Header>> /\ headless' = FALSE
      /\ buffered' = buffered /\ records' = records /\ snapshot' = snapshot
  BY DEF RewriteHeader, FailRewrite
<1>2. n = 0 /\ t = 0 /\ exists /\ ~buffered /\ journal = <<>>
  BY <1>1 DEF Formed, Bare
<1>3. ~Bare'
  BY <1>1, <1>2 DEF Bare
<1>4. Shape(lo, n, t)'
  BY <1>1, <1>2, OnlyHeader DEF Shape
<1>5. journal' # <<>>
  BY <1>1
<1> QED  BY <1>1, <1>2, <1>3, <1>4, <1>5 DEF Formed, Running

LEMMA CloseForms ==
  ASSUME NEW k \in Nat, NEW lo \in Nat, NEW n \in Nat, NEW t \in {0, 1},
         Formed(k, lo, n, t), Close \/ FailEmpty
  PROVE  Formed(k, lo, n, t)'
<1>1. phase \in {"open", "renamed"} /\ phase' = "closed" /\ exists' = exists
      /\ journal' = Flushed /\ headless' = headless
      /\ buffered' = FALSE /\ records' = records /\ snapshot' = snapshot
  BY DEF Close, FailEmpty
<1>2. /\ t = 0 /\ exists
      /\ Flushed = File(lo, n, 0) \/ (Flushed = Rest(lo, n, 0) /\ headless)
  BY <1>1, FormFlushed
<1>3. ~Bare' /\ Shape(lo, n, t)'
  BY <1>1, <1>2 DEF Bare, Shape
<1>4. journal' = <<>> => headless'
  <2>1. lo \in Int  OBVIOUS
  <2> QED  BY <2>1, <1>1, <1>2, FileFirst
<1> QED  BY <1>1, <1>2, <1>3, <1>4 DEF Formed, Running

\* A crash leaves the files alone or what an interrupted write left.
LEMMA CrashForms ==
  ASSUME NEW k \in Nat, NEW lo \in Nat, NEW n \in Nat, NEW t \in {0, 1},
         Formed(k, lo, n, t), Crash
  PROVE  Formed(k, lo, n, t)' \/ Formed(k, lo, n, 0)' \/ Formed(k, lo, n, 1)'
         \/ Formed(k, lo, n + 1, 0)'
<1>1. phase' = "down" /\ exists' = exists /\ buffered' = FALSE /\ snapshot' = snapshot
      /\ ~Running' /\ headless' = (IF exists THEN Headless(journal') ELSE headless)
  BY DEF Crash, Running
<1>2. Bare' = ~exists /\ exists \in BOOLEAN /\ headless \in BOOLEAN /\ headless' \in BOOLEAN
  BY <1>1 DEF Bare, Formed, Headless
<1>3. CASE ~exists
  <2>1. Bare /\ journal = <<>> /\ n = 0 /\ t = 0 /\ phase \notin {"open", "emptied"}
    BY <1>3 DEF Bare, Formed
  <2>2. ~CanAppend
    BY <2>1 DEF CanAppend
  <2>3. journal' = journal
    BY <2>1, <2>2 DEF Crash
  <2>4. Shape(lo, n, t)'
    <3>1. Rest(lo, 0, 0) = <<>>  BY DEF Rest
    <3> QED  BY <3>1, <2>1, <2>3 DEF Shape
  <2>5. Formed(k, lo, n, t)'
    BY <1>1, <1>2, <1>3, <2>1, <2>3, <2>4 DEF Formed
  <2> QED  BY <2>5
<1>4. CASE exists
  <2>h. headless' = Headless(journal') /\ ~Bare'
    BY <1>1, <1>2, <1>4
  <2>1. ASSUME NEW n2 \in Nat, NEW t2 \in {0, 1}, Shape(lo, n2, t2)',
               journal' = <<>> => headless', n2 \in {n, n + 1}, lo + n2 - 1 <= MaxSequence
        PROVE  Formed(k, lo, n2, t2)'
    <3>1. lo >= 1 /\ lo <= k + 1 /\ k <= lo + n2 - 1
      BY <2>1 DEF Formed
    <3> QED  BY <1>1, <1>2, <1>4, <2>1, <3>1 DEF Formed
  <2>f. ASSUME NEW n2 \in Nat, NEW t2 \in {0, 1}, journal' = File(lo, n2, t2)
        PROVE  Shape(lo, n2, t2)' /\ (journal' = <<>> => headless')
    <3>1. lo \in Int  OBVIOUS
    <3> QED  BY <2>f, <3>1, FileFirst DEF Shape
  <2>r. ASSUME NEW n2 \in Nat, NEW t2 \in {0, 1}, journal' = Rest(lo, n2, t2),
               headless \/ n2 + t2 = 0
        PROVE  Shape(lo, n2, t2)' /\ (journal' = <<>> => headless')
    <3>0. lo >= 1
      BY DEF Formed
    <3>1. CASE n2 + t2 = 0
      <4>1. journal' = <<>> /\ FirstOf(journal') # Header
        BY <2>r, <3>0, <3>1, RestFirst DEF FirstOf, Header
      <4>2. headless'
        BY <4>1, <2>h DEF Headless
      <4> QED  BY <2>r, <4>2 DEF Shape
    <3>2. CASE n2 + t2 > 0
      <4>1. FirstOf(journal') # Header /\ headless
        BY <2>r, <3>0, <3>2, RestFirst
      <4>2. headless'
        BY <4>1, <2>h DEF Headless
      <4> QED  BY <2>r, <4>2 DEF Shape
    <3> QED  BY <3>1, <3>2
  <2>p. ASSUME journal' \in {<<>>, <<Part>>}, n = 0
        PROVE  Shape(lo, 0, 0)' /\ (journal' = <<>> => headless')
    <3>1. FirstOf(journal') # Header
      BY <2>p, PartFirst DEF FirstOf, Header, Part
    <3>2. headless'
      BY <2>p, <3>1, <2>h DEF Headless
    <3>3. Rest(lo, 0, 0) = <<>>
      BY DEF Rest
    <3> QED  BY <2>p, <3>2, <3>3, <1>1 DEF Shape
  <2>2. lo + n - 1 <= MaxSequence
    BY DEF Formed
  <2>3. CASE journal' = journal
    <3>1. CASE journal = File(lo, n, t)
      BY <2>3, <3>1, <2>f, <2>1, <2>2
    <3>2. CASE journal = Rest(lo, n, t) /\ (n + t > 0 => headless)
      <4>1. headless \/ n + t = 0  BY <3>2
      <4> QED  BY <2>3, <3>2, <4>1, <2>r, <2>1, <2>2
    <3>3. CASE journal = <<Part>> /\ n = 0 /\ t = 0
      BY <2>3, <3>3, <2>p, <2>1, <2>2
    <3> QED  BY <3>1, <3>2, <3>3 DEF Formed, Shape
  <2>4. ASSUME CanAppend, NEW how \in Interruptions, journal' = Leftover(how)
        PROVE  Formed(k, lo, n, 0)' \/ Formed(k, lo, n, 1)' \/ Formed(k, lo, n + 1, 0)'
    <3>2. /\ lo + n <= MaxSequence
          /\ \/ journal' \in {File(lo, n, 0), File(lo, n, 1), File(lo, n + 1, 0)}
             \/ headless /\ journal' \in {Rest(lo, n, 0), Rest(lo, n, 1), Rest(lo, n + 1, 0)}
             \/ n = 0 /\ journal' \in {<<>>, <<Part>>}
      BY <2>4, FormLeftover
    <3>3. n + 1 \in Nat /\ lo + (n + 1) - 1 <= MaxSequence
      BY <3>2
    <3>4. CASE journal' = File(lo, n, 0)  BY <3>4, <2>f, <2>1, <2>2
    <3>5. CASE journal' = File(lo, n, 1)  BY <3>5, <2>f, <2>1, <2>2
    <3>6. CASE journal' = File(lo, n + 1, 0)  BY <3>6, <3>3, <2>f, <2>1
    <3>7. CASE headless /\ journal' = Rest(lo, n, 0)  BY <3>7, <2>r, <2>1, <2>2
    <3>8. CASE headless /\ journal' = Rest(lo, n, 1)  BY <3>8, <2>r, <2>1, <2>2
    <3>9. CASE headless /\ journal' = Rest(lo, n + 1, 0)  BY <3>9, <3>3, <2>r, <2>1
    <3>10. CASE n = 0 /\ journal' \in {<<>>, <<Part>>}  BY <3>10, <2>p, <2>1, <2>2
    <3> QED  BY <3>2, <3>4, <3>5, <3>6, <3>7, <3>8, <3>9, <3>10
  <2>5. CASE phase = "emptied" /\ journal' \in {<<Part>>, <<Header>>}
    <3>1. n = 0 /\ t = 0
      BY <2>5 DEF Formed, Bare
    <3>2. CASE journal' = <<Header>>
      <4>1. journal' = File(lo, 0, 0)
        <5>1. lo \in Int  OBVIOUS
        <5> QED  BY <3>2, <5>1, OnlyHeader
      <4> QED  BY <4>1, <3>1, <2>f, <2>1, <2>2
    <3>3. CASE journal' = <<Part>>
      BY <3>1, <3>3, <2>p, <2>1, <2>2
    <3> QED  BY <2>5, <3>2, <3>3
  <2> QED  BY <2>3, <2>4, <2>5 DEF Crash
<1> QED  BY <1>2, <1>3, <1>4

LEMMA FormStep ==
  ASSUME Faults = {}, FormInv, [Next]_vars
  PROVE  FormInv'
<1> PICK k \in Nat, lo \in Nat, n \in Nat, t \in {0, 1} : Formed(k, lo, n, t)
  BY DEF FormInv
<1> USE DEF FormInv
<1>1. CASE Load  BY <1>1, LoadForms
<1>2. CASE RefuseLoad  BY <1>2, RefuseForms
<1>3. CASE OpenForAppend  BY <1>3, OpenForms
<1>4. CASE AppendRecord
  <2>1. n + 1 \in Nat  OBVIOUS
  <2> QED  BY <1>4, <2>1, AppendForms
<1>5. ASSUME NEW how \in Interruptions, FailAppend(how) PROVE FormInv'
  BY <1>5 DEF FailAppend
<1>6. CASE WriteSnapshot
  <2>1. lo + n - 1 \in Nat  BY DEF Formed
  <2> QED  BY <1>6, <2>1, SnapshotForms
<1>7. CASE TruncateJournal
  <2>1. k + 1 \in Nat  OBVIOUS
  <2> QED  BY <1>7, <2>1, TruncateForms
<1>8. CASE RewriteHeader \/ FailRewrite  BY <1>8, RewriteForms
<1>9. CASE FailFlush  BY <1>9 DEF FailFlush
<1>10. CASE Close \/ FailEmpty  BY <1>10, CloseForms
<1>11. CASE Crash
  <2>1. n + 1 \in Nat  OBVIOUS
  <2> QED  BY <1>11, <2>1, CrashForms
<1>12. CASE UNCHANGED vars
  <2>1. Bare' = Bare /\ Running' = Running /\ (Readable(journal) => Readable(journal)')
    BY <1>12 DEF vars, Bare, Running, Readable
  <2>2. Shape(lo, n, t)'
    BY <1>12, <2>1 DEF vars, Formed, Shape
  <2>3. Formed(k, lo, n, t)'
    BY <1>12, <2>1, <2>2 DEF vars, Formed
  <2> QED  BY <2>3
<1> QED
  BY <1>1, <1>2, <1>3, <1>4, <1>5, <1>6, <1>7, <1>8, <1>9, <1>10, <1>11, <1>12 DEF Next

\* The form of the store, where every write succeeds.
LEMMA FormHolds ==
  ASSUME Faults = {}
  PROVE  Spec => []FormInv
<1>1. Init => FormInv
  BY FormInit
<1>2. FormInv /\ [Next]_vars => FormInv'
  BY FormStep
<1> QED  BY <1>1, <1>2, PTL DEF Spec

\* While writes succeed a torn write is always the end of the journal, never
\* followed by another record: open_for_append cuts it off before the next
\* append, in any sequence of kills, loads and compactions.
THEOREM TornIsCut ==
  ASSUME Faults = {}
  PROVE  Spec => []TornOnlyLast
<1>1. ASSUME FormInv PROVE TornOnlyLast
  <2> PICK k \in Nat, lo \in Nat, n \in Nat, t \in {0, 1} : Formed(k, lo, n, t)
    BY <1>1 DEF FormInv
  <2>0. lo \in Int /\ Shape(lo, n, t)
    BY DEF Formed
  <2>1. CASE journal = <<Part>>
    <3>1. Len(journal) = 1 /\ journal[1] # Torn
      BY <2>1 DEF Part, Torn
    <3> QED  BY <3>1 DEF TornOnlyLast
  <2>2. CASE journal = File(lo, n, t)
    <3> DEFINE f == File(lo, n, t)
    <3>3. f \in Seq(Int) /\ Len(f) = 1 + n + t /\ f[1] = Header
          /\ \A i \in 1..n : f[i + 1] = lo + i - 1
      BY <2>0, FileIs
    <3> HIDE DEF f
    <3>4. ASSUME NEW i \in 1..Len(f), f[i] = Torn PROVE i = Len(f)
      <4>1. i # 1
        BY <3>3, <3>4 DEF Header, Torn
      <4>2. i - 1 \notin 1..n
        <5>1. ASSUME i - 1 \in 1..n PROVE FALSE
          <6> PICK j \in 1..n : i = j + 1
            BY <5>1, <3>3
          <6>1. f[i] = lo + j - 1
            BY <3>3
          <6>2. lo + j - 1 >= 0
            OBVIOUS
          <6> QED  BY <6>1, <6>2, <3>4 DEF Torn
        <5> QED  BY <5>1
      <4> QED  BY <4>1, <4>2, <3>3
    <3> QED  BY <2>2, <3>4 DEF TornOnlyLast, f
  <2>3. CASE journal = Rest(lo, n, t)
    <3> DEFINE f == Rest(lo, n, t)
    <3>1. f \in Seq(Int) /\ Len(f) = n + t /\ \A i \in 1..n : f[i] = lo + i - 1
      BY <2>0, RestIs
    <3> HIDE DEF f
    <3>2. ASSUME NEW i \in 1..Len(f), f[i] = Torn PROVE i = Len(f)
      <4>1. i \notin 1..n
        BY <3>1, <3>2 DEF Torn
      <4> QED  BY <4>1, <3>1
    <3> QED  BY <2>3, <3>2 DEF TornOnlyLast, f
  <2> QED  BY <2>0, <2>1, <2>2, <2>3 DEF Shape
<1> QED  BY <1>1, FormHolds, PTL

\* While writes succeed, and with a kill possible at every step, a load refuses
\* a store only if a process ended between the creation or the truncation of
\* the journal and its header, or the snapshot is over max_journal_records.
THEOREM RefusedWithCause ==
  ASSUME Faults = {}
  PROVE  Spec => []RefusalHasCause
<1>1. Init => RefusalHasCause
  BY DEF Init, RefusalHasCause
<1>2. ASSUME FormInv, RefusalHasCause, [Next]_vars PROVE RefusalHasCause'
  <2>1. CASE RefuseLoad
    <3> PICK k \in Nat, lo \in Nat, n \in Nat, t \in {0, 1} : Formed(k, lo, n, t)
      BY <1>2 DEF FormInv
    <3>1. ~Loadable \/ Spliced(Body(journal))
      BY <2>1 DEF RefuseLoad
    <3>2. ASSUME Readable(journal), Len(snapshot) <= MaxJournalRecords PROVE FALSE
      <4>1. Replayed = Run(1, lo + n - 1) /\ lo + n - 1 \in Nat /\ ~Spliced(Body(journal))
        BY <3>2, FormReplayed
      <4>2. Increasing(snapshot \o Beyond(snapshot, Body(journal)))
        BY <4>1, RunOrder DEF Replayed
      <4> QED  BY <3>1, <3>2, <4>1, <4>2 DEF Loadable
    <3>3. ~Readable(journal) => headless
      BY ShapeIs
    <3>4. Len(snapshot) \in Nat
      <4>1. snapshot = Run(1, k)
        BY DEF Formed
      <4> QED  BY <4>1, RunOrder
    <3>5. \/ headless /\ ~Readable(journal)
          \/ Len(snapshot) > MaxJournalRecords
      BY <3>2, <3>3, <3>4, StoreAssumption
    <3> QED  BY <2>1, <3>5 DEF RefuseLoad, RefusalHasCause, Readable
  <2>2. CASE Next /\ ~RefuseLoad
    <3>1. phase' # "refused"
      BY <2>2 DEF Next, Load, OpenForAppend, AppendRecord, FailAppend, CanAppend,
         WriteSnapshot, TruncateJournal, RewriteHeader, FailFlush, FailEmpty, FailRewrite,
         Close, Crash
    <3> QED  BY <3>1 DEF RefusalHasCause
  <2>3. CASE UNCHANGED vars
    BY <1>2, <2>3 DEF vars, RefusalHasCause, Readable
  <2> QED  BY <1>2, <2>1, <2>2, <2>3
<1> QED  BY <1>1, <1>2, FormHolds, PTL DEF Spec

-----------------------------------------------------------------------------
(* The refinement of DurableLog.                                           *)

View == IF phase \in {"down", "refused"} THEN <<>> ELSE records

\* What the log is in a store of that form, and what a process sees of it.
LEMMA FormView ==
  ASSUME NEW k \in Nat, NEW lo \in Nat, NEW n \in Nat, NEW t \in {0, 1}
  PROVE  Formed(k, lo, n, t) =>
           /\ OnFile = Run(1, lo + n - 1)
           /\ View = IF Running THEN OnFile ELSE <<>>
<1> SUFFICES ASSUME Formed(k, lo, n, t)
             PROVE  /\ OnFile = Run(1, lo + n - 1)
                    /\ View = IF Running THEN OnFile ELSE <<>>
  OBVIOUS
<1>1. OnFile = Run(1, lo + n - 1)
  BY FormReplayed
<1>2. Running => records = Run(1, lo + n - 1)
  BY DEF Formed
<1> QED  BY <1>1, <1>2 DEF View, Running

LEMMA FormViewNext ==
  ASSUME NEW k \in Nat, NEW lo \in Nat, NEW n \in Nat, NEW t \in {0, 1}
  PROVE  Formed(k, lo, n, t)' =>
           /\ OnFile' = Run(1, lo + n - 1)
           /\ View' = IF Running' THEN OnFile' ELSE <<>>
<1>1. (Formed(k, lo, n, t) => /\ OnFile = Run(1, lo + n - 1)
                              /\ View = IF Running THEN OnFile ELSE <<>>)'
  BY FormView, PTL
<1> QED  BY <1>1

\* The record that follows a run.
LEMMA Follows ==
  ASSUME NEW m \in Nat
  PROVE  Append(Run(1, m), Log!Following(Run(1, m))) = Run(1, m + 1)
<1>1. LastOf(Run(1, m)) = m
  BY RunOrder
<1>2. Log!Following(Run(1, m)) = m + 1
  BY <1>1 DEF Log!Following, Log!Last, LastOf, Last
<1> QED  BY <1>2, RunGrows

\* A step that leaves the records as they are, and the process running or not
\* running, changes neither the log nor the view.
LEMMA Stutters ==
  ASSUME NEW k \in Nat, NEW lo \in Nat, NEW n \in Nat, NEW t \in {0, 1},
         NEW k2 \in Nat, NEW lo2 \in Nat, NEW n2 \in Nat, NEW t2 \in {0, 1},
         Formed(k, lo, n, t), Formed(k2, lo2, n2, t2)', lo2 + n2 - 1 = lo + n - 1,
         Running' = Running
  PROVE  UNCHANGED <<OnFile, View>> /\ (Running => View = OnFile)
<1>1. OnFile = Run(1, lo + n - 1) /\ View = IF Running THEN OnFile ELSE <<>>
  BY FormView
<1>2. OnFile' = Run(1, lo2 + n2 - 1) /\ View' = IF Running' THEN OnFile' ELSE <<>>
  BY FormViewNext
<1> QED  BY <1>1, <1>2

\* The state of the header follows the first piece of the journal.
LEMMA HeaderIs ==
  /\ journal = <<>> => HeaderState = "absent"
  /\ journal = <<Header>> => HeaderState = "whole"
  /\ journal # <<>> => HeaderState = IF FirstOf(journal) = Header THEN "whole" ELSE "lost"
  /\ HeaderState \in {"absent", "whole", "lost"}
<1>1. <<Header>> # <<>> /\ FirstOf(<<Header>>) = Header
  <2>1. <<Header>> # <<>> /\ Head(<<Header>>) = Header
    OBVIOUS
  <2> QED  BY <2>1 DEF FirstOf
<1>2. CASE journal = <<>>
  <2>1. FirstOf(journal) # Header
    BY <1>2 DEF FirstOf, Header
  <2> QED  BY <1>1, <1>2, <2>1 DEF HeaderState
<1>3. CASE journal # <<>> /\ FirstOf(journal) = Header
  BY <1>1, <1>3 DEF HeaderState
<1>4. CASE journal # <<>> /\ FirstOf(journal) # Header
  BY <1>1, <1>4 DEF HeaderState
<1> QED  BY <1>2, <1>3, <1>4

LEMMA HeaderIsNext ==
  /\ journal' = <<>> => HeaderState' = "absent"
  /\ journal' = <<Header>> => HeaderState' = "whole"
  /\ journal' # <<>> => HeaderState' = IF FirstOf(journal') = Header THEN "whole" ELSE "lost"
  /\ HeaderState' \in {"absent", "whole", "lost"}
<1>1. (/\ journal = <<>> => HeaderState = "absent"
       /\ journal = <<Header>> => HeaderState = "whole"
       /\ journal # <<>> => HeaderState = IF FirstOf(journal) = Header THEN "whole" ELSE "lost"
       /\ HeaderState \in {"absent", "whole", "lost"})'
  BY HeaderIs, PTL
<1> QED  BY <1>1

\* A journal that keeps its first piece keeps the header as it is.
LEMMA HeaderKept ==
  ASSUME journal # <<>> => journal' # <<>> /\ FirstOf(journal') = FirstOf(journal)
  PROVE  Log!HeaderMoves
<1>1. CASE journal = <<>>
  <2>1. HeaderState = "absent" /\ HeaderState' \in {"absent", "whole", "lost"}
    BY <1>1, HeaderIs, HeaderIsNext
  <2> QED  BY <2>1 DEF Log!HeaderMoves
<1>2. CASE journal # <<>>
  <2>1. HeaderState # "absent" /\ HeaderState' = HeaderState
    BY <1>2, HeaderIs, HeaderIsNext
  <2> QED  BY <2>1 DEF Log!HeaderMoves
<1> QED  BY <1>1, <1>2

\* What is written behind the first piece leaves it where it is.
LEMMA FirstStays ==
  ASSUME NEW f \in Seq(Int), f # <<>>, NEW x \in Int
  PROVE  Append(f, x) # <<>> /\ FirstOf(Append(f, x)) = FirstOf(f)
<1> DEFINE g == Append(f, x)
<1>1. g \in Seq(Int) /\ Len(g) = Len(f) + 1 /\ \A i \in 1..Len(f) : g[i] = f[i]
  BY Written
<1> HIDE DEF g
<1>2. Len(f) \in Nat /\ Len(f) >= 1
  OBVIOUS
<1>3. g # <<>> /\ Head(g) = g[1] /\ Head(f) = f[1] /\ g[1] = f[1]
  BY <1>1, <1>2
<1> QED  BY <1>3 DEF FirstOf, g

LEMMA ShapeSeq ==
  ASSUME NEW k \in Nat, NEW lo \in Nat, NEW n \in Nat, NEW t \in {0, 1},
         Formed(k, lo, n, t)
  PROVE  journal \in Seq(Int)
<1>1. lo \in Int
  OBVIOUS
<1>2. File(lo, n, t) \in Seq(Int) /\ Rest(lo, n, t) \in Seq(Int)
  BY <1>1, FileIs, RestIs
<1>3. <<Part>> \in Seq(Int)
  BY DEF Part
<1> QED  BY <1>2, <1>3 DEF Formed, Shape

LEMMA LogStep ==
  ASSUME Faults = {}, FormInv, [Next]_vars
  PROVE  Log!Next \/ UNCHANGED <<OnFile, View, HeaderState>>
<1> PICK k \in Nat, lo \in Nat, n \in Nat, t \in {0, 1} : Formed(k, lo, n, t)
  BY DEF FormInv
<1>0. /\ OnFile = Run(1, lo + n - 1) /\ View = IF Running THEN OnFile ELSE <<>>
      /\ lo + n - 1 \in Nat
  <2>1. OnFile = Run(1, lo + n - 1) /\ View = IF Running THEN OnFile ELSE <<>>
    BY FormView
  <2>2. lo + n - 1 \in Nat
    BY DEF Formed
  <2> QED  BY <2>1, <2>2
<1>s. ASSUME journal' = journal PROVE HeaderState' = HeaderState
  BY <1>s DEF HeaderState, FirstOf
<1>r. ASSUME Running, UNCHANGED <<OnFile, View>>,
             HeaderState' = "absent" \/ (HeaderState = "absent" /\ HeaderState' = "whole")
      PROVE  Log!Next
  <2>1. View = OnFile
    BY <1>0, <1>r
  <2>2. Log!Replace
    BY <2>1, <1>r DEF Log!Replace, View
  <2> QED  BY <2>2 DEF Log!Next
<1>1. CASE Load
  <2>1. Formed(k, lo, n, t)'
    BY <1>1, LoadForms
  <2>2. OnFile' = OnFile /\ View' = (IF Running' THEN OnFile' ELSE <<>>)
    BY <2>1, <1>0, FormViewNext
  <2>3. ~Running /\ Running' /\ journal' = journal
    BY <1>1 DEF Load, Running
  <2>4. View = <<>> /\ View' = OnFile /\ OnFile' = OnFile
    BY <2>2, <2>3, <1>0
  <2>5. HeaderState # "lost" /\ HeaderState' = HeaderState
    <3>1. Readable(journal)
      BY <1>1, ShapeIs DEF Load, Loadable, Formed
    <3>2. journal = <<>> \/ FirstOf(journal) = Header
      <4>1. journal # <<>> => journal = File(lo, n, t)
        BY <3>1, ShapeIs
      <4>2. lo \in Int  OBVIOUS
      <4> QED  BY <4>1, <4>2, FileFirst
    <3> QED  BY <3>2, <2>3, <1>s, HeaderIs
  <2>6. Log!Begin
    BY <2>4, <2>5 DEF Log!Begin, View
  <2> QED  BY <2>6 DEF Log!Next
<1>2. CASE RefuseLoad
  <2>1. Running' = Running /\ journal' = journal
    BY <1>2 DEF RefuseLoad, Running
  <2> QED  BY <1>2, <1>s, <2>1, RefuseForms, Stutters
<1>3. CASE OpenForAppend
  <2>1. Running' = Running
    BY <1>3 DEF OpenForAppend, Running
  <2>2. UNCHANGED <<OnFile, View>>
    BY <1>3, <2>1, OpenForms, Stutters
  <2>3. HeaderState' = HeaderState
    BY <1>3, OpenForms, HeaderIs, HeaderIsNext
  <2> QED  BY <2>2, <2>3
<1>4. CASE AppendRecord
  <2>1. Formed(k, lo, n + 1, 0)' /\ n + 1 \in Nat
    BY <1>4, AppendForms
  <2>2. OnFile' = Run(1, lo + (n + 1) - 1) /\ View' = (IF Running' THEN OnFile' ELSE <<>>)
    BY <2>1, FormViewNext
  <2>3. Running /\ Running' /\ phase = "open"
    BY <1>4 DEF AppendRecord, CanAppend, Running
  <2>4. View = OnFile /\ View' = OnFile'
    BY <2>2, <2>3, <1>0
  <2>5. OnFile' = Append(OnFile, Log!Following(OnFile))
    <3>1. (lo + n - 1) + 1 = lo + (n + 1) - 1
      OBVIOUS
    <3>2. Append(Run(1, lo + n - 1), Log!Following(Run(1, lo + n - 1)))
            = Run(1, (lo + n - 1) + 1)
      BY <1>0, Follows
    <3> QED  BY <1>0, <2>2, <3>1, <3>2
  <2>6. Log!HeaderMoves
    <3>1. ASSUME journal # <<>> PROVE journal' # <<>> /\ FirstOf(journal') = FirstOf(journal)
      <4>1. ~buffered
        BY <3>1 DEF Formed, Bare
      <4>2. journal' = Append(journal, NextSequence)
        BY <1>4, <4>1 DEF AppendRecord, Flushed
      <4>3. journal \in Seq(Int) /\ NextSequence \in Int
        BY <2>3, ShapeSeq, FormFlushed
      <4> QED  BY <3>1, <4>2, <4>3, FirstStays
    <3> QED  BY <3>1, HeaderKept
  <2>7. Log!Extend
    BY <2>4, <2>5, <2>6 DEF Log!Extend, View
  <2> QED  BY <2>7 DEF Log!Next
<1>5. ASSUME NEW how \in Interruptions, FailAppend(how) PROVE FALSE
  BY <1>5 DEF FailAppend
<1>6. CASE WriteSnapshot
  <2>1. Running' = Running /\ lo + n - 1 \in Nat /\ journal' = journal
    BY <1>6, <1>0 DEF WriteSnapshot, Running
  <2>2. Formed(lo + n - 1, lo, n, t)'
    BY <1>6, SnapshotForms
  <2> QED  BY <1>s, <2>1, <2>2, Stutters
<1>7. CASE TruncateJournal
  <2>1. Running' = Running /\ k + 1 \in Nat /\ Running /\ journal' = <<>>
    BY <1>7 DEF TruncateJournal, Running
  <2>2. k = lo + n - 1 /\ Formed(k, k + 1, 0, 0)'
    BY <1>7, TruncateForms
  <2>3. (k + 1) + 0 - 1 = lo + n - 1
    BY <2>2
  <2>4. UNCHANGED <<OnFile, View>>
    BY <2>1, <2>2, <2>3, Stutters
  <2>5. HeaderState' = "absent"
    BY <2>1, HeaderIsNext
  <2> QED  BY <2>1, <2>4, <2>5, <1>r
<1>8. CASE RewriteHeader \/ FailRewrite
  <2>1. Running' = Running /\ Running
    BY <1>8 DEF RewriteHeader, FailRewrite, Running
  <2>2. Formed(k, lo, n, t)' /\ journal' = <<Header>> /\ journal = <<>>
    BY <1>8, RewriteForms
  <2>3. UNCHANGED <<OnFile, View>>
    BY <2>1, <2>2, Stutters
  <2>4. HeaderState = "absent" /\ HeaderState' = "whole"
    BY <2>2, HeaderIs, HeaderIsNext
  <2> QED  BY <2>1, <2>3, <2>4, <1>r
<1>9. CASE FailFlush
  BY <1>9 DEF FailFlush
<1>10. CASE Close \/ FailEmpty
  <2>1. Running' = Running /\ Running /\ journal' = Flushed
    BY <1>10 DEF Close, FailEmpty, Running
  <2>2. UNCHANGED <<OnFile, View>>
    BY <1>10, <2>1, CloseForms, Stutters
  <2>3. CASE buffered
    <3>1. journal = <<>> /\ journal' = <<Header>>
      BY <2>1, <2>3 DEF Flushed, Formed, Bare
    <3>2. HeaderState = "absent" /\ HeaderState' = "whole"
      BY <3>1, HeaderIs, HeaderIsNext
    <3> QED  BY <2>1, <2>2, <3>2, <1>r
  <2>4. CASE ~buffered
    <3>1. journal' = journal
      BY <2>1, <2>4 DEF Flushed
    <3> QED  BY <2>2, <3>1, <1>s
  <2> QED  BY <2>3, <2>4
<1>11. CASE Crash
  <2>1. Formed(k, lo, n, t)' \/ Formed(k, lo, n, 0)' \/ Formed(k, lo, n, 1)'
        \/ Formed(k, lo, n + 1, 0)'
    BY <1>11, CrashForms
  <2>2. ~Running'
    BY <1>11 DEF Crash, Running
  <2>3. ASSUME NEW n2 \in Nat, NEW t2 \in {0, 1}, Formed(k, lo, n2, t2)', n2 \in {n, n + 1}
        PROVE  View' = <<>> /\ OnFile' \in {OnFile, Append(OnFile, Log!Following(OnFile))}
    <3>1. OnFile' = Run(1, lo + n2 - 1) /\ View' = <<>>
      BY <2>2, <2>3, FormViewNext
    <3>2. (lo + n - 1) + 1 = lo + (n + 1) - 1
      OBVIOUS
    <3>3. Append(Run(1, lo + n - 1), Log!Following(Run(1, lo + n - 1)))
            = Run(1, (lo + n - 1) + 1)
      BY <1>0, Follows
    <3> QED  BY <1>0, <2>3, <3>1, <3>2, <3>3
  <2>4. n + 1 \in Nat
    OBVIOUS
  <2>5. View' = <<>> /\ OnFile' \in {OnFile, Append(OnFile, Log!Following(OnFile))}
    BY <2>1, <2>3, <2>4
  <2>6. Log!HeaderMoves
    <3>1. ASSUME journal # <<>> PROVE journal' # <<>> /\ FirstOf(journal') = FirstOf(journal)
      <4>1. ~buffered /\ phase # "emptied" /\ Flushed = journal
        BY <3>1 DEF Formed, Bare, Flushed
      <4>2. \/ journal' = journal
            \/ CanAppend /\ \E how \in Interruptions : journal' = Leftover(how)
        BY <1>11, <4>1 DEF Crash
      <4>3. ASSUME CanAppend, NEW how \in Interruptions, journal' = Leftover(how)
            PROVE  journal' \in {journal, Append(journal, Torn), Append(journal, NextSequence)}
        BY <4>1, <4>3 DEF Leftover, Interruptions
      <4>4. CanAppend => NextSequence \in Int
        BY FormFlushed DEF CanAppend
      <4>5. journal \in Seq(Int) /\ Torn \in Int
        BY ShapeSeq DEF Torn
      <4> QED  BY <3>1, <4>2, <4>3, <4>4, <4>5, FirstStays
    <3> QED  BY <3>1, HeaderKept
  <2>7. Log!End
    BY <2>5, <2>6 DEF Log!End, View
  <2> QED  BY <2>7 DEF Log!Next
<1>12. CASE UNCHANGED vars
  BY <1>12 DEF vars, OnFile, View, Beyond, Above, Whole, Body, Pieces, FirstOf, LastOf, HeaderState
<1> QED
  BY <1>1, <1>2, <1>3, <1>4, <1>5, <1>6, <1>7, <1>8, <1>9, <1>10, <1>11, <1>12 DEF Next

\* While writes succeed, and with a kill possible at every step, the store
\* implements DurableLog: the records on file only grow, by the record being
\* appended, a process that loads has all of them, and what a kill can cost is
\* the header, in the two places where it is absent.
THEOREM StoreIsALog ==
  ASSUME Faults = {}
  PROVE  Spec => ImplementsLog
<1>1. Init => Log!Init
  <2> SUFFICES ASSUME Init PROVE OnFile = <<>> /\ View = <<>> /\ HeaderState = "absent"
    BY DEF Log!Init, View
  <2>1. journal = <<>> /\ snapshot = <<>> /\ ~Running
    BY DEF Init, Running
  <2>3. Pieces(journal) = Rest(1, 0, 0)
    <3>1. Pieces(<<>>) = <<>>
      BY DEF Pieces, FirstOf, Header, Part
    <3>2. Rest(1, 0, 0) = <<>>
      BY DEF Rest
    <3> QED  BY <2>1, <3>1, <3>2
  <2>4. LastOf(snapshot) = 0
    BY <2>1 DEF LastOf
  <2>5. Beyond(snapshot, Pieces(journal)) = Run(1, 0)
    <3>1. Above(Run(1, 0), 0) = Run(0 + 1, 1 + 0 - 1 - 0)
      BY AboveRun
    <3>2. Whole(Rest(1, 0, 0)) = Run(1, 0)
      BY WholeOfRest
    <3> QED  BY <3>1, <3>2, <2>3, <2>4 DEF Beyond
  <2>6. Run(1, 0) = <<>>
    BY DEF Run
  <2>7. HeaderState = "absent"
    BY <2>1, HeaderIs
  <2> QED  BY <2>1, <2>5, <2>6, <2>7 DEF OnFile, View, Running
<1>2. FormInv /\ [Next]_vars => [Log!Next]_<<OnFile, View, HeaderState>>
  BY LogStep
<1>3. Spec => []FormInv
  BY FormHolds
<1> QED  BY <1>1, <1>2, <1>3, PTL DEF Spec, ImplementsLog, Log!Spec, View

-----------------------------------------------------------------------------
(* The operators of load on any journal.                                   *)

\* The records before the first torn piece: all of them, or up to that piece.
LEMMA WholeIs ==
  ASSUME NEW b \in Seq(Int)
  PROVE  \E m \in 0..Len(b) :
           /\ Whole(b) = SubSeq(b, 1, m)
           /\ \A i \in 1..m : b[i] # Torn
           /\ m = Len(b) \/ b[m + 1] = Torn
<1> DEFINE torn == {j \in 1..Len(b) : b[j] = Torn}
           S == {Len(b)} \cup {i - 1 : i \in torn}
<1>1. Len(b) \in Nat /\ S \subseteq Nat /\ Len(b) \in S
  OBVIOUS
<1> HIDE DEF S
<1> PICK m \in S : \A x \in S : m <= x
  <2>1. PICK m \in S : \A y \in S : ~(<<y, m>> \in OpToRel(<, Nat))
    BY <1>1, NatLessThanWellFounded, WFMin
  <2>2. \A y \in S : ~(y < m)
    BY <2>1, <1>1 DEF OpToRel
  <2> QED  BY <2>2, <1>1
<1>2. Min(S) = m
  <2>1. \A x \in S : x \in Int /\ m <= x
    BY <1>1
  <2> QED  BY <2>1, MinIs
<1>3. m \in 0..Len(b)
  BY <1>1
<1>4. ASSUME NEW i \in 1..m PROVE b[i] # Torn
  <2> SUFFICES ASSUME b[i] = Torn PROVE FALSE
    OBVIOUS
  <2>1. i \in torn /\ i \in Int
    BY <1>3, <1>1
  <2>2. i - 1 \in S
    BY <2>1 DEF S
  <2>3. m <= i - 1
    BY <2>2
  <2> QED  BY <2>3, <1>3
<1>5. m = Len(b) \/ b[m + 1] = Torn
  <2>1. m = Len(b) \/ \E i \in torn : m = i - 1
    BY DEF S
  <2> QED  BY <2>1, <1>3
<1>6. Whole(b) = SubSeq(b, 1, m)
  BY <1>2 DEF Whole, S
<1> QED  BY <1>3, <1>4, <1>5, <1>6

\* x is a record load reads from the journal f.
Reads(f, x) == \E i \in 2..Len(f) : f[i] = x /\ \A j \in 2..i : f[j] # Torn

LEMMA WholeReads ==
  ASSUME NEW f \in Seq(Int), f # <<>>
  PROVE  /\ Whole(Body(f)) \in Seq(Int) /\ Len(Whole(Body(f))) \in 0..(Len(f) - 1)
         /\ \A i \in 1..Len(Whole(Body(f))) : Whole(Body(f))[i] = f[i + 1] /\ f[i + 1] # Torn
         /\ \A x : Reads(f, x) <=> \E i \in 1..Len(Whole(Body(f))) : Whole(Body(f))[i] = x
<1> DEFINE b == Body(f)
           w == Whole(b)
<1>1. Len(f) \in Nat /\ Len(f) >= 1
  OBVIOUS
<1>2. b \in Seq(Int) /\ Len(b) = Len(f) - 1 /\ \A i \in 1..Len(b) : b[i] = f[i + 1]
  <2>1. b = SubSeq(f, 2, Len(f))
    BY DEF Body
  <2>2. \A i \in 2..Len(f) : f[i] \in Int
    OBVIOUS
  <2>3. /\ b \in Seq(Int) /\ Len(b) = IF 2 <= Len(f) THEN Len(f) - 2 + 1 ELSE 0
        /\ \A i \in 1..(Len(f) - 2 + 1) : b[i] = f[2 + i - 1]
    BY <2>1, <2>2, <1>1, SubSeqProperties
  <2> HIDE DEF b
  <2>4. Len(b) = Len(f) - 1
    <3> DEFINE L == Len(f)
    <3>1. L \in Nat /\ L >= 1 /\ Len(b) = IF 2 <= L THEN L - 2 + 1 ELSE 0
      BY <1>1, <2>3
    <3> HIDE DEF L
    <3>2. CASE 2 <= L
      <4>1. Len(b) = L - 2 + 1
        BY <3>1, <3>2
      <4>2. L - 2 + 1 = L - 1
        BY <3>1
      <4> QED  BY <4>1, <4>2 DEF L
    <3>3. CASE L = 1
      BY <3>1, <3>3 DEF L
    <3> QED  BY <3>1, <3>2, <3>3
  <2>5. \A i \in 1..Len(b) : i \in 1..(Len(f) - 2 + 1) /\ 2 + i - 1 = i + 1
    BY <2>4, <1>1
  <2> QED  BY <2>3, <2>4, <2>5
<1> HIDE DEF b
<1> PICK m \in 0..Len(b) :
           /\ Whole(b) = SubSeq(b, 1, m)
           /\ \A i \in 1..m : b[i] # Torn
           /\ m = Len(b) \/ b[m + 1] = Torn
  BY <1>2, WholeIs
<1>3. w \in Seq(Int) /\ Len(w) = m /\ \A i \in 1..m : w[i] = b[i]
  BY <1>2
<1> HIDE DEF w
<1>4. ASSUME NEW i \in 1..m PROVE w[i] = f[i + 1] /\ f[i + 1] # Torn
  <2>1. i \in 1..Len(b)
    BY <1>2
  <2>2. b[i] = f[i + 1] /\ w[i] = b[i] /\ b[i] # Torn
    BY <2>1, <1>2, <1>3
  <2> QED  BY <2>2
<1>5. ASSUME NEW x, Reads(f, x) PROVE \E i \in 1..m : w[i] = x
  <2> PICK i \in 2..Len(f) : f[i] = x /\ \A j \in 2..i : f[j] # Torn
    BY <1>5 DEF Reads
  <2>1. i - 1 \in 1..Len(b) /\ (i - 1) + 1 = i
    BY <1>1, <1>2
  <2>2. i - 1 <= m
    <3> SUFFICES ASSUME ~(i - 1 <= m) PROVE FALSE
      OBVIOUS
    <3>1. m # Len(b) /\ m + 1 \in 1..Len(b) /\ m + 2 \in 2..i /\ (m + 1) + 1 = m + 2
      BY <2>1, <1>2
    <3>2. b[m + 1] = Torn /\ b[m + 1] = f[(m + 1) + 1]
      BY <3>1, <1>2
    <3> QED  BY <3>1, <3>2
  <2>3. i - 1 \in 1..m
    BY <2>1, <2>2
  <2>4. w[i - 1] = f[(i - 1) + 1]
    BY <2>3, <1>4
  <2>5. w[i - 1] = x
    BY <2>1, <2>4
  <2> QED  BY <2>3, <2>5
<1>6. ASSUME NEW i \in 1..m PROVE Reads(f, w[i])
  <2>1. i + 1 \in 2..Len(f) /\ f[i + 1] = w[i]
    BY SMTT(30), <1>1, <1>2, <1>4
  <2>2. ASSUME NEW j \in 2..(i + 1) PROVE f[j] # Torn
    <3> PICK l \in 1..m : j = l + 1
      BY <2>1
    <3> QED  BY <1>4
  <2> QED  BY <2>1, <2>2 DEF Reads
<1> QED  BY <1>2, <1>3, <1>4, <1>5, <1>6 DEF w, b

\* Above keeps every record above the watermark, and no other.
LEMMA AboveIs ==
  ASSUME NEW s \in Seq(Int), NEW n \in Int
  PROVE  /\ Above(s, n) \in Seq(Int)
         /\ \A i \in 1..Len(Above(s, n)) : Above(s, n)[i] > n
         /\ \A i \in 1..Len(s) : s[i] > n => \E k \in 1..Len(Above(s, n)) : Above(s, n)[k] = s[i]
<1> DEFINE places == {i \in 1..Len(s) : s[i] > n}
           upto(i) == {j \in places : j <= i}
           rank == [i \in places |-> Cardinality(upto(i))]
           C == Cardinality(places)
<1>1. Len(s) \in Nat /\ IsFiniteSet(1..Len(s))
  BY FS_Interval
<1>2. IsFiniteSet(places) /\ C \in Nat /\ \A i \in places : i \in Int /\ s[i] \in Int /\ s[i] > n
  <2>1. places \in SUBSET (1..Len(s))
    OBVIOUS
  <2>2. IsFiniteSet(places)
    BY <1>1, <2>1, FS_Subset
  <2> QED  BY <2>2, FS_CardinalityType
<1> HIDE DEF places
<1>3. ASSUME NEW i \in places
      PROVE  IsFiniteSet(upto(i)) /\ Cardinality(upto(i)) \in 1..C /\ i \in upto(i)
  <2>1. upto(i) \in SUBSET places /\ i \in upto(i)
    BY <1>2
  <2> HIDE DEF upto
  <2>2. IsFiniteSet(upto(i)) /\ Cardinality(upto(i)) <= C
    BY <1>2, <2>1, FS_Subset
  <2>3. Cardinality(upto(i)) \in Nat /\ Cardinality(upto(i)) # 0
    BY <2>1, <2>2, FS_CardinalityType, FS_EmptySet
  <2> QED  BY <1>2, <2>1, <2>2, <2>3
<1>4. ASSUME NEW i \in places, NEW j \in places, i < j
      PROVE  Cardinality(upto(i)) # Cardinality(upto(j))
  <2>1. upto(i) \in SUBSET upto(j) /\ j \notin upto(i) /\ j \in upto(j)
    BY <1>2, <1>4
  <2>2. IsFiniteSet(upto(j))
    BY <1>3
  <2> HIDE DEF upto
  <2> QED  BY <2>1, <2>2, FS_Subset
<1> HIDE DEF upto
<1>5. rank \in Injection(places, 1..C)
  <2>1. rank \in [places -> 1..C]
    BY <1>3
  <2>2. ASSUME NEW i \in places, NEW j \in places, rank[i] = rank[j] PROVE i = j
    <3>1. Cardinality(upto(i)) = Cardinality(upto(j))
      BY <2>2
    <3>2. i \in Int /\ j \in Int
      BY <1>2
    <3>3. ~(i < j) /\ ~(j < i)
      BY <3>1, <1>4
    <3> QED  BY <3>2, <3>3
  <2>3. DOMAIN rank = places
    OBVIOUS
  <2> HIDE DEF rank
  <2> QED  BY <2>1, <2>2, <2>3 DEF Injection, IsInjective
<1>6. rank \in Surjection(places, 1..C)
  <2>1. IsFiniteSet(1..C) /\ Cardinality(1..C) = C
    BY <1>2, FS_Interval
  <2> HIDE DEF rank
  <2> QED  BY <2>1, <1>5, FS_Injection
<1> DEFINE at(k) == CHOOSE i \in places : Cardinality(upto(i)) = k
<1>7. ASSUME NEW k \in 1..C PROVE at(k) \in places
  <2>1. \E i \in places : rank[i] = k
    <3> HIDE DEF rank
    <3> QED  BY <1>6 DEF Surjection
  <2>2. \E i \in places : Cardinality(upto(i)) = k
    BY <2>1
  <2> QED  BY <2>2
<1>8. ASSUME NEW i \in places PROVE at(Cardinality(upto(i))) = i
  <2> DEFINE k == Cardinality(upto(i))
  <2>1. k \in 1..C
    BY <1>3
  <2>2. \A j \in places : Cardinality(upto(j)) = k => j = i
    <3> TAKE j \in places
    <3> HAVE Cardinality(upto(j)) = k
    <3>1. ~(i < j) /\ ~(j < i)
      BY <1>4
    <3> QED  BY <3>1, <1>2
  <2> QED  BY <2>2
<1> DEFINE u == [k \in 1..C |-> s[at(k)]]
<1>9. Above(s, n) = u
  BY DEF Above, places, upto
<1> HIDE DEF at
<1>10. u \in Seq(Int) /\ Len(u) = C /\ \A k \in 1..C : u[k] = s[at(k)] /\ u[k] > n
  <2>1. \A k \in 1..C : s[at(k)] \in Int /\ s[at(k)] > n
    BY <1>2, <1>7
  <2>2. u \in [1..C -> Int]
    BY <2>1
  <2>3. u \in Seq(Int) /\ Len(u) = C
    <3> HIDE DEF u
    <3> QED  BY <2>2, <1>2
  <2> QED  BY <2>1, <2>3
<1> HIDE DEF u
<1>11. ASSUME NEW i \in 1..Len(s), s[i] > n PROVE \E k \in 1..C : u[k] = s[i]
  <2>1. i \in places
    BY <1>11 DEF places
  <2>2. Cardinality(upto(i)) \in 1..C /\ at(Cardinality(upto(i))) = i
    BY <2>1, <1>3, <1>8
  <2> QED  BY <2>2, <1>10
<1> QED  BY <1>9, <1>10, <1>11

-----------------------------------------------------------------------------
(* What was acknowledged is still there.                                   *)

\* Every acknowledged record is in the snapshot, or is beyond it and read from
\* the journal.
CoveredBy(f) ==
  \A x \in ToSet(acked) :
    x \in ToSet(snapshot) \/ (x > LastOf(snapshot) /\ Reads(f, x))

\* A journal that load would not refuse for its header covers them.
Held(f) == Readable(f) => CoveredBy(f)

KeptInv ==
  /\ exists \in BOOLEAN /\ buffered \in BOOLEAN /\ journal \in Seq(Int)
  /\ phase \in {"down", "loaded", "open", "renamed", "emptied", "closed", "refused"}
  /\ snapshot \in Seq(Nat \ {0}) /\ records \in Seq(Nat \ {0}) /\ acked \in Seq(Int)
  /\ Running => ToSet(acked) \subseteq ToSet(records) /\ LastOf(records) >= LastOf(snapshot)
  /\ Held(journal)
  /\ phase = "loaded" => /\ Readable(journal)
                         /\ good = IF journal = <<>> THEN 0 ELSE 1 + Len(Whole(Body(journal)))
  /\ phase = "open" => \A i \in 1..Len(journal) : journal[i] # Torn
  /\ phase \in {"open", "renamed", "emptied"} => exists
  /\ phase \in {"renamed", "emptied"} => ToSet(acked) \subseteq ToSet(snapshot)
  /\ ~exists \/ buffered => journal = <<>>
  /\ buffered => phase \in {"open", "renamed"}

\* Whether something is among the elements of a sequence.
LEMMA InToSet ==
  ASSUME NEW S, NEW s \in Seq(S)
  PROVE  \A x : x \in ToSet(s) <=> \E i \in 1..Len(s) : s[i] = x
<1>1. DOMAIN s = 1..Len(s)
  OBVIOUS
<1> QED  BY <1>1 DEF ToSet

LEMMA AppendToSet ==
  ASSUME NEW S, NEW s \in Seq(S), NEW x \in S
  PROVE  ToSet(Append(s, x)) = ToSet(s) \cup {x}
<1> DEFINE u == Append(s, x)
<1>1. /\ u \in Seq(S) /\ Len(u) = Len(s) + 1 /\ Len(s) \in Nat
      /\ \A i \in 1..Len(s) : u[i] = s[i]
      /\ u[Len(s) + 1] = x
  BY Written
<1> HIDE DEF u
<1>2. DOMAIN u = 1..(Len(s) + 1) /\ DOMAIN s = 1..Len(s)
  BY <1>1
<1>3. \A i \in 1..(Len(s) + 1) : i \in 1..Len(s) \/ i = Len(s) + 1
  BY <1>1
<1>4. \A i \in 1..Len(s) : i \in 1..(Len(s) + 1)
  BY <1>1
<1>5. Len(s) + 1 \in 1..(Len(s) + 1)
  BY <1>1
<1>6. ToSet(u) \subseteq ToSet(s) \cup {x}
  BY <1>1, <1>2, <1>3 DEF ToSet
<1>7. ToSet(s) \subseteq ToSet(u)
  BY <1>1, <1>2, <1>4 DEF ToSet
<1>8. x \in ToSet(u)
  BY <1>1, <1>2, <1>5 DEF ToSet
<1> QED  BY <1>6, <1>7, <1>8 DEF u

LEMMA LastIs ==
  ASSUME NEW s \in Seq(Nat \ {0})
  PROVE  /\ LastOf(s) \in Nat
         /\ \A x \in Nat \ {0} : LastOf(Append(s, x)) = x
<1>1. LastOf(s) \in Nat
  BY DEF LastOf, Last
<1>2. ASSUME NEW x \in Nat \ {0} PROVE LastOf(Append(s, x)) = x
  <2> DEFINE u == Append(s, x)
  <2>1. u \in Seq(Nat \ {0}) /\ Len(u) = Len(s) + 1 /\ u[Len(s) + 1] = x /\ u # <<>>
    BY Written, AppendProperties
  <2> HIDE DEF u
  <2>2. LastOf(u) = x
    BY <2>1 DEF LastOf, Last
  <2> QED  BY <2>2 DEF u
<1> QED  BY <1>1, <1>2

\* A journal that grows reads no less, and has the header it had.
LEMMA Grown ==
  ASSUME NEW f \in Seq(Int), NEW x \in Int
  PROVE  /\ Append(f, x) \in Seq(Int)
         /\ Readable(Append(f, x)) => Readable(f)
         /\ f = <<>> /\ x \notin {0, Header} => ~Readable(Append(f, x))
         /\ \A y : Reads(f, y) => Reads(Append(f, x), y)
         /\ f # <<>> /\ x # Torn /\ (\A i \in 1..Len(f) : f[i] # Torn) => Reads(Append(f, x), x)
<1> DEFINE g == Append(f, x)
<1>1. /\ g \in Seq(Int) /\ Len(g) = Len(f) + 1 /\ Len(f) \in Nat
      /\ \A i \in 1..Len(f) : g[i] = f[i]
      /\ g[Len(f) + 1] = x
      /\ g # <<>>
  BY Written, AppendProperties
<1> HIDE DEF g
<1>2. FirstOf(g) = g[1] /\ (f # <<>> => FirstOf(f) = f[1] /\ Len(f) >= 1)
  BY <1>1 DEF FirstOf
<1>3. f = <<>> => FirstOf(f) = 0 /\ FirstOf(g) = x
  BY <1>1, <1>2 DEF FirstOf
<1>4. f # <<>> => FirstOf(g) = FirstOf(f)
  BY <1>1, <1>2
<1>5. ASSUME NEW y, Reads(f, y) PROVE Reads(g, y)
  <2> PICK i \in 2..Len(f) : f[i] = y /\ \A j \in 2..i : f[j] # Torn
    BY <1>5 DEF Reads
  <2>1. i \in 2..Len(g) /\ g[i] = y
    BY <1>1
  <2>2. ASSUME NEW j \in 2..i PROVE g[j] # Torn
    <3>1. j \in 1..Len(f) /\ f[j] # Torn
      BY <1>1
    <3> QED  BY <3>1, <1>1
  <2> QED  BY <2>1, <2>2 DEF Reads
<1>6. ASSUME f # <<>>, x # Torn, \A i \in 1..Len(f) : f[i] # Torn PROVE Reads(g, x)
  <2>1. Len(f) + 1 \in 2..Len(g) /\ g[Len(f) + 1] = x
    BY <1>1, <1>2, <1>6
  <2>2. ASSUME NEW j \in 2..(Len(f) + 1) PROVE g[j] # Torn
    <3>1. CASE j \in 1..Len(f)
      BY <3>1, <1>1, <1>6
    <3>2. CASE j = Len(f) + 1
      BY <3>2, <1>1, <1>6
    <3> QED  BY <3>1, <3>2, <1>1
  <2> QED  BY <2>1, <2>2 DEF Reads
<1> QED  BY <1>1, <1>3, <1>4, <1>5, <1>6 DEF g, Readable

LEMMA HeldGrows ==
  ASSUME NEW f \in Seq(Int), NEW x \in Int, Held(f)
  PROVE  Append(f, x) \in Seq(Int) /\ Held(Append(f, x))
<1>1. /\ Append(f, x) \in Seq(Int)
      /\ Readable(Append(f, x)) => Readable(f)
      /\ \A y : Reads(f, y) => Reads(Append(f, x), y)
  BY Grown
<1> QED  BY <1>1 DEF Held, CoveredBy

\* Where everything is in the snapshot any journal will do.
LEMMA HeldBySnapshot ==
  ASSUME NEW f, ToSet(acked) \subseteq ToSet(snapshot)
  PROVE  Held(f)
  BY DEF Held, CoveredBy

LEMMA KeptInit == Init => KeptInv
<1> SUFFICES ASSUME Init PROVE KeptInv
  OBVIOUS
<1>1. ToSet(acked) = {}
  BY DEF Init, ToSet
<1>2. Held(journal)
  BY <1>1 DEF Held, CoveredBy
<1>3. <<>> \in Seq(Int) /\ <<>> \in Seq(Nat \ {0})
  OBVIOUS
<1>4. exists \in BOOLEAN /\ buffered \in BOOLEAN /\ ~Running
  BY DEF Init, Running
<1> QED  BY <1>2, <1>3, <1>4 DEF Init, KeptInv

\* What load replays has every acknowledged record.
LEMMA ReplaysAll ==
  ASSUME KeptInv, Readable(journal)
  PROVE  /\ Replayed \in Seq(Nat \ {0})
         /\ ToSet(acked) \subseteq ToSet(Replayed)
         /\ LastOf(Replayed) >= LastOf(snapshot)
<1> DEFINE w == Whole(Body(journal))
           n == LastOf(snapshot)
           u == Above(w, n)
           P == Nat \ {0}
<1>1. snapshot \in Seq(P) /\ journal \in Seq(Int) /\ n \in Nat
  BY LastIs DEF KeptInv
<1>2. w \in Seq(Int) /\ \A x : Reads(journal, x) => \E i \in 1..Len(w) : w[i] = x
  <2>1. CASE journal # <<>>
    BY <2>1, <1>1, WholeReads
  <2>2. CASE journal = <<>>
    <3>1. Body(journal) = Rest(1, 0, 0)
      BY <2>2 DEF Body, Rest
    <3>2. w = Run(1, 0)
      BY <3>1, WholeOfRest
    <3>3. w \in Seq(Int)
      BY <3>2, RunIs
    <3>4. \A x : ~Reads(journal, x)
      BY <2>2 DEF Reads
    <3> QED  BY <3>3, <3>4
  <2> QED  BY <2>1, <2>2
<1> HIDE DEF w, n
<1>3. /\ u \in Seq(Int)
      /\ \A i \in 1..Len(u) : u[i] > n
      /\ \A i \in 1..Len(w) : w[i] > n => \E k \in 1..Len(u) : u[k] = w[i]
  <2>1. n \in Int
    BY <1>1
  <2> QED  BY <2>1, <1>2, AboveIs
<1> HIDE DEF u
<1>4. u \in Seq(P)
  <2>1. \A i \in 1..Len(u) : u[i] \in P
    BY <1>1, <1>3
  <2> QED  BY <1>3, <2>1
<1>5. Replayed = snapshot \o u
  BY DEF Replayed, Beyond, u, w, n
<1> DEFINE r == snapshot \o u
<1>6. /\ r \in Seq(P) /\ Len(r) = Len(snapshot) + Len(u)
      /\ Len(snapshot) \in Nat /\ Len(u) \in Nat
      /\ \A i \in 1..Len(snapshot) : r[i] = snapshot[i]
      /\ \A i \in 1..Len(u) : r[Len(snapshot) + i] = u[i]
  <2> HIDE DEF P
  <2> QED  BY <1>1, <1>4
<1> HIDE DEF r, P
<1>7. ASSUME NEW x \in ToSet(acked) PROVE x \in ToSet(r)
  <2>1. x \in ToSet(snapshot) \/ (x > n /\ Reads(journal, x))
    BY DEF KeptInv, Held, CoveredBy, n
  <2>2. CASE x \in ToSet(snapshot)
    <3> PICK i \in 1..Len(snapshot) : snapshot[i] = x
      BY <2>2, <1>1, InToSet
    <3>1. i \in 1..Len(r) /\ r[i] = x
      BY <1>6
    <3> QED  BY <3>1, <1>6, InToSet
  <2>3. CASE x > n /\ Reads(journal, x)
    <3> PICK i \in 1..Len(w) : w[i] = x
      BY <2>3, <1>2
    <3> PICK k \in 1..Len(u) : u[k] = x
      BY <2>3, <1>3
    <3>1. Len(snapshot) + k \in 1..Len(r) /\ r[Len(snapshot) + k] = x
      BY <1>6
    <3> QED  BY <3>1, <1>6, InToSet
  <2> QED  BY <2>1, <2>2, <2>3
<1>8. LastOf(r) >= n
  <2>1. CASE Len(u) = 0
    <3>1. u = <<>>
      BY <2>1, <1>4, EmptyWhenShort
    <3>2. r = snapshot
      BY <3>1, <1>1 DEF r
    <3> QED  BY <3>2, <1>1 DEF n
  <2>2. CASE Len(u) # 0
    <3>1. Len(u) \in 1..Len(u) /\ Len(r) = Len(snapshot) + Len(u) /\ Len(r) # 0
      BY <2>2, <1>6
    <3>2. r # <<>> /\ r[Len(r)] = u[Len(u)] /\ u[Len(u)] > n
      BY <3>1, <1>3, <1>6
    <3>3. u[Len(u)] \in Int
      BY <3>1, <1>3
    <3> QED  BY <3>2, <3>3, <1>1 DEF LastOf, Last
  <2> QED  BY <2>1, <2>2
<1> QED  BY <1>5, <1>6, <1>7, <1>8 DEF r, n, P

\* A step that writes to neither the snapshot nor the history.
LEMMA HeldStays ==
  ASSUME acked' = acked, snapshot' = snapshot, Held(journal')
  PROVE  Held(journal)'
  BY DEF Held, CoveredBy, Readable, FirstOf, Reads, LastOf, Last, ToSet

LEMMA FlushedHeld ==
  ASSUME KeptInv
  PROVE  /\ Flushed \in Seq(Int) /\ Held(Flushed)
         /\ phase = "open" => \A i \in 1..Len(Flushed) : Flushed[i] # Torn
<1>1. journal \in Seq(Int) /\ Held(journal) /\ Header \in Int
  BY DEF KeptInv, Header
<1>2. Append(journal, Header) \in Seq(Int) /\ Held(Append(journal, Header))
  BY <1>1, HeldGrows
<1>3. CASE ~buffered
  BY <1>1, <1>3 DEF Flushed, KeptInv
<1>4. CASE buffered
  <2>1. journal = <<>>
    BY <1>4 DEF KeptInv
  <2>2. Len(Append(<<>>, Header)) = 1 /\ Append(<<>>, Header)[1] = Header
    OBVIOUS
  <2>3. Header # Torn
    BY DEF Header, Torn
  <2> QED  BY <1>2, <1>4, <2>1, <2>2, <2>3 DEF Flushed
<1> QED  BY <1>3, <1>4

LEMMA NextIs ==
  ASSUME KeptInv
  PROVE  /\ NextSequence \in Nat \ {0} /\ NextSequence \in Int
         /\ NextSequence \notin {0, Header, Torn}
         /\ Running => NextSequence > LastOf(snapshot)
<1>1. LastOf(records) \in Nat /\ LastOf(snapshot) \in Nat
  BY LastIs DEF KeptInv
<1>2. Running => LastOf(records) >= LastOf(snapshot)
  BY DEF KeptInv
<1> QED  BY <1>1, <1>2 DEF NextSequence, Header, Torn

LEMMA LoadKeeps ==
  ASSUME KeptInv, Load
  PROVE  KeptInv'
<1>1. phase = "down" /\ Loadable /\ phase' = "loaded" /\ records' = Replayed
      /\ exists' = exists /\ journal' = journal /\ buffered' = buffered
      /\ snapshot' = snapshot /\ acked' = acked
      /\ good' = IF journal = <<>> THEN 0 ELSE 1 + Len(Whole(Body(journal)))
  BY DEF Load
<1>2. Readable(journal)
  <2>1. CASE exists
    BY <1>1, <2>1 DEF Loadable
  <2>2. CASE ~exists
    BY <2>2 DEF KeptInv, Readable, FirstOf
  <2> QED  BY <2>1, <2>2 DEF KeptInv
<1>3. /\ records' \in Seq(Nat \ {0}) /\ ToSet(acked) \subseteq ToSet(records')
      /\ LastOf(records') >= LastOf(snapshot)
  BY <1>1, <1>2, ReplaysAll
<1>4. Held(journal)'
  BY <1>1, HeldStays DEF KeptInv
<1>5. Readable(journal)' /\ good' = (IF journal = <<>> THEN 0 ELSE 1 + Len(Whole(Body(journal))))'
  BY <1>1, <1>2
<1>6. ToSet(acked)' \subseteq ToSet(records)' /\ LastOf(records)' >= LastOf(snapshot)'
  BY <1>1, <1>3
<1> QED  BY <1>1, <1>3, <1>4, <1>5, <1>6 DEF KeptInv

LEMMA RefuseKeeps ==
  ASSUME KeptInv, RefuseLoad
  PROVE  KeptInv'
<1>1. phase = "down" /\ phase' = "refused" /\ records' = records
      /\ exists' = exists /\ journal' = journal /\ buffered' = buffered
      /\ snapshot' = snapshot /\ acked' = acked
  BY DEF RefuseLoad
<1>2. Held(journal)'
  BY <1>1, HeldStays DEF KeptInv
<1> QED  BY <1>1, <1>2 DEF KeptInv, Running

\* The trimmed file has every record load found good, and no torn piece.
LEMMA TrimKeeps ==
  ASSUME NEW f \in Seq(Int), Readable(f), f # <<>>,
         NEW size, size = 1 + Len(Whole(Body(f)))
  PROVE  /\ Trim(f, size) \in Seq(Int)
         /\ \A i \in 1..Len(Trim(f, size)) : Trim(f, size)[i] # Torn
         /\ \A x : Reads(f, x) => Reads(Trim(f, size), x)
<1> DEFINE w == Whole(Body(f))
           g == SubSeq(f, 1, size)
<1>1. /\ w \in Seq(Int) /\ Len(w) \in 0..(Len(f) - 1)
      /\ \A i \in 1..Len(w) : w[i] = f[i + 1] /\ f[i + 1] # Torn
      /\ \A x : Reads(f, x) <=> \E i \in 1..Len(w) : w[i] = x
  BY WholeReads
<1>2. size = 1 + Len(w)
  OBVIOUS
<1> HIDE DEF w
<1>3. size \in 1..Len(f) /\ Len(f) \in Nat
  BY <1>1, <1>2
<1>4. g \in Seq(Int) /\ Len(g) = size /\ \A i \in 1..size : g[i] = f[i]
  BY <1>3
<1>5. Trim(f, size) = g
  BY <1>3 DEF Trim
<1> HIDE DEF g
<1>6. f[1] # Torn
  BY DEF Readable, FirstOf, Header, Torn
<1>7. ASSUME NEW i \in 1..size PROVE f[i] # Torn
  <2>1. CASE i = 1
    BY <2>1, <1>6
  <2>2. CASE i # 1
    <3> PICK j \in 1..Len(w) : i = j + 1
      BY <2>2, <1>1, <1>2
    <3> QED  BY <1>1
  <2> QED  BY <2>1, <2>2
<1>8. ASSUME NEW x, Reads(f, x) PROVE Reads(g, x)
  <2> PICK j \in 1..Len(w) : w[j] = x
    BY <1>1, <1>8
  <2>1. j + 1 \in 2..size /\ f[j + 1] = x /\ j + 1 \in 1..size
    BY SMTT(30), <1>1, <1>2
  <2>2. \A l \in 2..(j + 1) : l \in 1..size
    BY <2>1, <1>3
  <2>3. \A l \in 2..(j + 1) : g[l] # Torn
    BY <2>2, <1>4, <1>7
  <2>4. g[j + 1] = x
    BY <2>1, <1>4
  <2> QED  BY <2>1, <2>3, <2>4, <1>4 DEF Reads
<1> QED  BY <1>4, <1>5, <1>7, <1>8

LEMMA OpenKeeps ==
  ASSUME KeptInv, OpenForAppend
  PROVE  KeptInv'
<1>1. phase = "loaded" /\ phase' = "open" /\ exists' = TRUE /\ buffered' = ~exists
      /\ journal' = Trim(journal, good) /\ snapshot' = snapshot /\ records' = records
      /\ acked' = acked
  BY DEF OpenForAppend
<1>2. journal \in Seq(Int) /\ Held(journal) /\ Readable(journal)
      /\ good = IF journal = <<>> THEN 0 ELSE 1 + Len(Whole(Body(journal)))
  BY <1>1 DEF KeptInv
<1>3. /\ journal' \in Seq(Int) /\ Held(journal')
      /\ \A i \in 1..Len(journal') : journal'[i] # Torn
      /\ journal = <<>> => journal' = <<>>
  <2>1. CASE journal = <<>>
    <3>1. journal' = <<>>
      BY <1>1, <1>2, <2>1 DEF Trim
    <3> QED  BY <3>1, <2>1, <1>2
  <2>2. CASE journal # <<>>
    <3>1. good = 1 + Len(Whole(Body(journal)))
      BY <1>2, <2>2
    <3>2. /\ Trim(journal, good) \in Seq(Int)
          /\ \A i \in 1..Len(Trim(journal, good)) : Trim(journal, good)[i] # Torn
          /\ \A x : Reads(journal, x) => Reads(Trim(journal, good), x)
      BY <3>1, <2>2, <1>2, TrimKeeps
    <3>3. CoveredBy(journal)
      BY <1>2 DEF Held
    <3>4. CoveredBy(journal')
      BY <1>1, <3>2, <3>3 DEF CoveredBy
    <3> QED  BY <1>1, <2>2, <3>2, <3>4 DEF Held
  <2> QED  BY <2>1, <2>2
<1>4. Held(journal)'
  BY <1>1, <1>3, HeldStays
<1>5. exists \in BOOLEAN /\ (buffered' => journal' = <<>>)
  BY <1>1, <1>3 DEF KeptInv
<1> QED  BY <1>1, <1>3, <1>4, <1>5 DEF KeptInv, Running

LEMMA AppendKeeps ==
  ASSUME KeptInv, AppendRecord
  PROVE  KeptInv'
<1> DEFINE x == NextSequence
           g == Append(Flushed, x)
<1>1. phase = "open" /\ phase' = "open" /\ journal' = g /\ buffered' = FALSE
      /\ records' = Append(records, x) /\ acked' = Append(acked, x)
      /\ exists' = exists /\ snapshot' = snapshot
  BY DEF AppendRecord, CanAppend
<1>2. x \in Nat \ {0} /\ x \in Int /\ x \notin {0, Header, Torn} /\ x > LastOf(snapshot)
  BY <1>1, NextIs DEF Running
<1> HIDE DEF x
<1>3. /\ Flushed \in Seq(Int) /\ Held(Flushed)
      /\ \A i \in 1..Len(Flushed) : Flushed[i] # Torn
  BY <1>1, FlushedHeld
<1>4. /\ g \in Seq(Int)
      /\ Readable(g) => Readable(Flushed)
      /\ Flushed = <<>> => ~Readable(g)
      /\ \A y : Reads(Flushed, y) => Reads(g, y)
      /\ Flushed # <<>> => Reads(g, x)
  BY <1>2, <1>3, Grown
<1>5. Len(g) = Len(Flushed) + 1 /\ \A i \in 1..Len(g) : g[i] # Torn
  <2>1. Len(g) = Len(Flushed) + 1 /\ (\A i \in 1..Len(Flushed) : g[i] = Flushed[i])
        /\ g[Len(Flushed) + 1] = x /\ Len(Flushed) \in Nat
    BY <1>2, <1>3, Written
  <2> HIDE DEF g
  <2>2. ASSUME NEW i \in 1..Len(g) PROVE g[i] # Torn
    <3>1. CASE i \in 1..Len(Flushed)
      BY <3>1, <2>1, <1>3
    <3>2. CASE i = Len(Flushed) + 1
      BY <3>2, <2>1, <1>2
    <3> QED  BY <3>1, <3>2, <2>1
  <2> QED  BY <2>1, <2>2
<1> HIDE DEF g
<1>6. /\ records \in Seq(Nat \ {0}) /\ acked \in Seq(Int) /\ ToSet(acked) \subseteq ToSet(records)
      /\ exists
  BY <1>1 DEF KeptInv, Running
<1>7. ToSet(acked') = ToSet(acked) \cup {x} /\ ToSet(records') = ToSet(records) \cup {x}
  <2>1. ToSet(Append(acked, x)) = ToSet(acked) \cup {x}
    BY <1>2, <1>6, AppendToSet
  <2>2. ToSet(Append(records, x)) = ToSet(records) \cup {x}
    BY SMTT(30), <1>2, <1>6, AppendToSet
  <2> QED  BY <1>1, <2>1, <2>2
<1>8. records' \in Seq(Nat \ {0}) /\ acked' \in Seq(Int) /\ LastOf(records') = x
  BY <1>1, <1>2, <1>6, LastIs
<1>9. Held(journal)'
  <2> SUFFICES ASSUME Readable(g), NEW y \in ToSet(acked')
               PROVE  y \in ToSet(snapshot) \/ (y > LastOf(snapshot) /\ Reads(g, y))
    BY <1>1 DEF Held, CoveredBy
  <2>1. CASE y = x
    BY <2>1, <1>2, <1>4
  <2>2. CASE y \in ToSet(acked)
    BY <2>2, <1>3, <1>4 DEF Held, CoveredBy
  <2> QED  BY <2>1, <2>2, <1>7
<1>10. LastOf(records') >= LastOf(snapshot')
  <2>1. LastOf(snapshot) \in Nat
    BY LastIs DEF KeptInv
  <2> QED  BY <2>1, <1>1, <1>2, <1>8
<1>11. ToSet(acked)' \subseteq ToSet(records)' /\ LastOf(records)' >= LastOf(snapshot)'
  BY <1>6, <1>7, <1>10
<1> QED  BY <1>1, <1>4, <1>5, <1>6, <1>8, <1>9, <1>11 DEF KeptInv

LEMMA FailAppendKeeps ==
  ASSUME KeptInv, "write" \notin Faults, NEW how \in Interruptions, FailAppend(how)
  PROVE  KeptInv'
<1> DEFINE x == NextSequence
           g == Append(Flushed, x)
<1>1. how = "whole" \/ (buffered /\ how \in {"none", "part"})
  BY DEF FailAppend, FaultOf, Interruptions
<1>2. phase = "open" /\ phase' = "open" /\ journal' = Leftover(how) /\ buffered' = FALSE
      /\ records' = records /\ acked' = acked /\ exists' = exists /\ snapshot' = snapshot
  BY DEF FailAppend, CanAppend
<1>3. x \in Int /\ x \notin {0, Header, Torn} /\ Part \in Int /\ Part # Torn
  BY NextIs DEF Part, Torn
<1> HIDE DEF x
<1>4. /\ Flushed \in Seq(Int) /\ Held(Flushed)
      /\ \A i \in 1..Len(Flushed) : Flushed[i] # Torn
  BY <1>2, FlushedHeld
<1>5. /\ journal \in Seq(Int) /\ Held(journal) /\ \A i \in 1..Len(journal) : journal[i] # Torn
  BY <1>2 DEF KeptInv
<1>6. ASSUME NEW f \in Seq(Int), NEW y \in Int, y # Torn, \A i \in 1..Len(f) : f[i] # Torn
      PROVE  \A i \in 1..Len(Append(f, y)) : Append(f, y)[i] # Torn
  <2> DEFINE u == Append(f, y)
  <2>1. Len(u) = Len(f) + 1 /\ (\A j \in 1..Len(f) : u[j] = f[j])
        /\ u[Len(f) + 1] = y /\ Len(f) \in Nat
    BY <1>6, Written
  <2> HIDE DEF u
  <2>2. \A i \in 1..Len(u) : i \in 1..Len(f) \/ i = Len(f) + 1
    BY <2>1
  <2>3. \A i \in 1..Len(u) : u[i] # Torn
    BY <2>1, <2>2, <1>6
  <2> QED  BY <2>3 DEF u
<1>7. /\ journal' \in Seq(Int) /\ Held(journal')
      /\ \A i \in 1..Len(journal') : journal'[i] # Torn
  <2>1. CASE how = "whole"
    <3>1. journal' = g
      BY <1>2, <2>1 DEF Leftover, x
    <3>2. g \in Seq(Int) /\ Held(g)
      BY <1>3, <1>4, HeldGrows
    <3> QED  BY <3>1, <3>2, <1>3, <1>4, <1>6
  <2>2. CASE buffered /\ how \in {"none", "part"}
    <3>1. journal' = journal \/ journal' = Append(journal, Part)
      BY <1>2, <2>2 DEF Leftover
    <3>2. Append(journal, Part) \in Seq(Int) /\ Held(Append(journal, Part))
      BY <1>3, <1>5, HeldGrows
    <3> QED  BY <3>1, <3>2, <1>3, <1>5, <1>6
  <2> QED  BY <1>1, <2>1, <2>2
<1>8. Held(journal)'
  BY <1>2, <1>7, HeldStays
<1> QED  BY <1>2, <1>7, <1>8 DEF KeptInv, Running

LEMMA SnapshotKeeps ==
  ASSUME KeptInv, WriteSnapshot
  PROVE  KeptInv'
<1>1. phase = "open" /\ phase' = "renamed" /\ snapshot' = records /\ records' = records
      /\ journal' = journal /\ buffered' = buffered /\ exists' = exists /\ acked' = acked
  BY DEF WriteSnapshot
<1>2. ToSet(acked) \subseteq ToSet(records) /\ LastOf(records) \in Nat
  BY <1>1, LastIs DEF KeptInv, Running
<1>3. Held(journal)'
  BY <1>1, <1>2 DEF Held, CoveredBy, ToSet
<1>4. ToSet(acked)' \subseteq ToSet(snapshot)' /\ LastOf(records)' >= LastOf(snapshot)'
      /\ ToSet(acked)' \subseteq ToSet(records)'
  BY <1>1, <1>2
<1> QED  BY <1>1, <1>3, <1>4 DEF KeptInv

LEMMA TruncateKeeps ==
  ASSUME KeptInv,
         TruncateJournal \/ RewriteHeader \/ FailFlush \/ FailEmpty \/ FailRewrite
  PROVE  KeptInv'
<1>1. phase \in {"renamed", "emptied"} /\ phase' \in {"emptied", "open", "closed"}
      /\ snapshot' = snapshot /\ records' = records /\ exists' = exists /\ acked' = acked
  BY DEF TruncateJournal, RewriteHeader, FailFlush, FailEmpty, FailRewrite
<1>2. ToSet(acked) \subseteq ToSet(snapshot) /\ exists
  BY <1>1 DEF KeptInv
<1>3. buffered' = FALSE
  <2>1. CASE TruncateJournal \/ FailFlush \/ FailEmpty
    BY <2>1 DEF TruncateJournal, FailFlush, FailEmpty
  <2>2. CASE RewriteHeader \/ FailRewrite
    BY <2>2 DEF RewriteHeader, FailRewrite, KeptInv
  <2> QED  BY <2>1, <2>2
<1>4. Held(journal)'
  <2>1. Held(journal')
    BY <1>2 DEF Held, CoveredBy
  <2> QED  BY <1>1, <2>1, HeldStays
<1>5. journal' \in Seq(Int) /\ (phase' = "open" => \A i \in 1..Len(journal') : journal'[i] # Torn)
  <2>1. ASSUME NEW f \in {<<>>, <<Part>>, <<Header>>}
        PROVE  f \in Seq(Int) /\ \A i \in 1..Len(f) : f[i] # Torn
    <3>1. CASE f = <<>>  BY <3>1
    <3>2. CASE f = <<Part>>
      <4>1. f \in Seq(Int) /\ Len(f) = 1 /\ f[1] # Torn
        BY <3>2 DEF Part, Torn
      <4> QED  BY <4>1
    <3>3. CASE f = <<Header>>
      <4>1. f \in Seq(Int) /\ Len(f) = 1 /\ f[1] # Torn
        BY <3>3 DEF Header, Torn
      <4> QED  BY <4>1
    <3> QED  BY <3>1, <3>2, <3>3
  <2>2. CASE FailEmpty
    <3>1. Flushed \in Seq(Int)
      BY FlushedHeld
    <3> QED  BY <2>2, <3>1 DEF FailEmpty
  <2>3. CASE TruncateJournal \/ RewriteHeader \/ FailFlush \/ FailRewrite
    <3>1. journal' \in {<<>>, <<Part>>, <<Header>>}
      BY <2>3 DEF TruncateJournal, RewriteHeader, FailFlush, FailRewrite
    <3> QED  BY <2>1, <3>1
  <2> QED  BY <2>2, <2>3
<1>6. ToSet(acked)' \subseteq ToSet(records)' /\ LastOf(records)' >= LastOf(snapshot)'
      /\ ToSet(acked)' \subseteq ToSet(snapshot)'
  BY <1>1, <1>2 DEF KeptInv, Running
<1> QED  BY <1>1, <1>2, <1>3, <1>4, <1>5, <1>6 DEF KeptInv

LEMMA CloseKeeps ==
  ASSUME KeptInv, Close
  PROVE  KeptInv'
<1>1. phase = "open" /\ phase' = "closed" /\ journal' = Flushed /\ buffered' = FALSE
      /\ snapshot' = snapshot /\ records' = records /\ exists' = exists /\ acked' = acked
  BY DEF Close
<1>2. journal' \in Seq(Int) /\ Held(journal') /\ exists
  BY <1>1, FlushedHeld DEF KeptInv
<1>3. Held(journal)'
  BY <1>1, <1>2, HeldStays
<1> QED  BY <1>1, <1>2, <1>3 DEF KeptInv, Running

LEMMA CrashKeeps ==
  ASSUME KeptInv, Crash
  PROVE  KeptInv'
<1>1. phase' = "down" /\ exists' = exists /\ buffered' = FALSE /\ snapshot' = snapshot
      /\ acked' = acked /\ records' = <<>> /\ ~Running'
  BY DEF Crash, Running
<1>2. journal \in Seq(Int) /\ Held(journal)
  BY DEF KeptInv
<1>3. ASSUME CanAppend, NEW how \in Interruptions
      PROVE  Leftover(how) \in Seq(Int) /\ Held(Leftover(how)) /\ exists
  <2>1. Flushed \in Seq(Int) /\ Held(Flushed) /\ exists
    BY <1>3, FlushedHeld DEF CanAppend, KeptInv
  <2>2. Part \in Int /\ Torn \in Int /\ NextSequence \in Int
    BY NextIs DEF Part, Torn
  <2>3. CASE how = "none"
    BY <2>3, <1>2, <2>1 DEF Leftover
  <2>4. CASE how = "part"
    <3>1. Append(journal, Part) \in Seq(Int) /\ Held(Append(journal, Part))
      BY <1>2, <2>2, HeldGrows
    <3>2. Leftover(how) \in {journal, Append(journal, Part)}
      BY <2>4 DEF Leftover
    <3> QED  BY <3>1, <3>2, <1>2, <2>1
  <2>5. CASE how = "header"
    BY <2>5, <2>1 DEF Leftover
  <2>6. CASE how = "torn"
    <3>1. Append(Flushed, Torn) \in Seq(Int) /\ Held(Append(Flushed, Torn))
      BY <2>1, <2>2, HeldGrows
    <3>2. Leftover(how) = Append(Flushed, Torn)
      BY <2>6 DEF Leftover
    <3> QED  BY <3>1, <3>2, <2>1
  <2>7. CASE how = "whole"
    <3>1. Append(Flushed, NextSequence) \in Seq(Int) /\ Held(Append(Flushed, NextSequence))
      BY <2>1, <2>2, HeldGrows
    <3>2. Leftover(how) = Append(Flushed, NextSequence)
      BY <2>7 DEF Leftover
    <3> QED  BY <3>1, <3>2, <2>1
  <2> QED  BY <2>3, <2>4, <2>5, <2>6, <2>7 DEF Interruptions
<1>4. journal' \in Seq(Int) /\ Held(journal') /\ (exists \/ journal' = journal)
  <2>1. \/ journal' = journal
        \/ \E how \in Interruptions : CanAppend /\ journal' = Leftover(how)
        \/ phase = "emptied" /\ journal' \in {<<Part>>, <<Header>>}
    BY DEF Crash
  <2>2. CASE journal' = journal
    BY <2>2, <1>2
  <2>3. CASE \E how \in Interruptions : CanAppend /\ journal' = Leftover(how)
    BY <2>3, <1>3
  <2>4. CASE phase = "emptied" /\ journal' \in {<<Part>>, <<Header>>}
    <3>1. ToSet(acked) \subseteq ToSet(snapshot) /\ exists
      BY <2>4 DEF KeptInv
    <3>2. <<Part>> \in Seq(Int) /\ <<Header>> \in Seq(Int)
      BY DEF Part, Header
    <3> QED  BY <2>4, <3>1, <3>2 DEF Held, CoveredBy
  <2> QED  BY <2>1, <2>2, <2>3, <2>4
<1>5. Held(journal)'
  BY <1>1, <1>4, HeldStays
<1>6. <<>> \in Seq(Nat \ {0})
  OBVIOUS
<1> QED  BY <1>1, <1>4, <1>5, <1>6 DEF KeptInv

\* No acknowledged record is missing from what a load has accepted, however
\* kills, lost headers, failed syncs and compactions are interleaved, as
\* long as no append fails with its bytes written in part.
THEOREM AcknowledgedIsKept ==
  ASSUME "write" \notin Faults
  PROVE  Spec => []NoSilentLoss
<1>1. Init => KeptInv
  BY KeptInit
<1>2. ASSUME KeptInv, [Next]_vars PROVE KeptInv'
  <2>1. CASE Load  BY <1>2, <2>1, LoadKeeps
  <2>2. CASE RefuseLoad  BY <1>2, <2>2, RefuseKeeps
  <2>3. CASE OpenForAppend  BY <1>2, <2>3, OpenKeeps
  <2>4. CASE AppendRecord  BY <1>2, <2>4, AppendKeeps
  <2>5. CASE \E how \in Interruptions : FailAppend(how)  BY <1>2, <2>5, FailAppendKeeps
  <2>6. CASE WriteSnapshot  BY <1>2, <2>6, SnapshotKeeps
  <2>7. CASE TruncateJournal \/ RewriteHeader \/ FailFlush \/ FailEmpty \/ FailRewrite
    BY <1>2, <2>7, TruncateKeeps
  <2>8. CASE Close  BY <1>2, <2>8, CloseKeeps
  <2>9. CASE Crash  BY <1>2, <2>9, CrashKeeps
  <2>10. CASE UNCHANGED vars
    <3>1. Held(journal)'
      BY <1>2, <2>10, HeldStays DEF vars, KeptInv
    <3> QED  BY <1>2, <2>10, <3>1 DEF vars, KeptInv, Running
  <2> QED
    BY <1>2, <2>1, <2>2, <2>3, <2>4, <2>5, <2>6, <2>7, <2>8, <2>9, <2>10 DEF Next
<1>3. KeptInv => NoSilentLoss
  BY DEF KeptInv, NoSilentLoss, Running
<1> QED  BY <1>1, <1>2, <1>3, PTL DEF Spec
=============================================================================
