----------------------------- MODULE SequenceFacts -----------------------------
(***************************************************************************)
(* Facts about sequences: of elements of a type, for the proofs about logs *)
(* and streams, and of elements that have no type of their own, for the    *)
(* proofs about the records and fences of the runtime.                     *)
(***************************************************************************)
EXTENDS Integers, Sequences, Functions, SequenceTheorems, TLAPS

\* An element of a sequence, and the one sequence that has none.
LEMMA Element ==
  ASSUME NEW S, NEW q \in Seq(S), NEW i \in 1..Len(q)
  PROVE  q[i] \in S
  OBVIOUS

LEMMA EmptyWhenShort ==
  ASSUME NEW S, NEW q \in Seq(S), Len(q) = 0
  PROVE  q = <<>>
  OBVIOUS

\* A queue after an element has been written to it.
LEMMA Written ==
  ASSUME NEW S, NEW q \in Seq(S), NEW x \in S
  PROVE  /\ Append(q, x) \in Seq(S) /\ Len(Append(q, x)) = Len(q) + 1
         /\ \A i \in 1..Len(q) : Append(q, x)[i] = q[i]
         /\ Append(q, x)[Len(q) + 1] = x
         /\ q = <<>> => Len(Append(q, x)) = 1 /\ Append(q, x)[1] = x
  OBVIOUS

\* A queue after its first element has been read.
LEMMA Decoded ==
  ASSUME NEW S, NEW q \in Seq(S), q # <<>>
  PROVE  /\ Head(q) \in S /\ Head(q) = q[1] /\ Len(q) \in Nat /\ Len(q) >= 1
         /\ Tail(q) \in Seq(S) /\ Len(Tail(q)) = Len(q) - 1
         /\ \A i \in 1..Len(Tail(q)) : i + 1 \in 1..Len(q) /\ Tail(q)[i] = q[i + 1]
         /\ Len(q) = 1 => Tail(q) = <<>>
<1>1. /\ Head(q) \in S /\ Head(q) = q[1] /\ Len(q) \in Nat /\ Len(q) >= 1
      /\ Tail(q) \in Seq(S) /\ Len(Tail(q)) = Len(q) - 1
      /\ \A i \in 1..Len(Tail(q)) : Tail(q)[i] = q[i + 1]
  OBVIOUS
<1>2. \A i \in 1..Len(Tail(q)) : i + 1 \in 1..Len(q)
  BY <1>1
<1>3. ASSUME Len(q) = 1 PROVE Tail(q) = <<>>
  <2>1. Tail(q) \in Seq(S) /\ Len(Tail(q)) = 0
    BY <1>1, <1>3
  <2> QED
    BY <2>1, EmptyWhenShort
<1> QED
  BY <1>1, <1>2, <1>3

\* Queues with nothing or one element in them.
LEMMA Short ==
  ASSUME NEW S
  PROVE  /\ <<>> \in Seq(S) /\ Len(<<>>) = 0
         /\ \A x \in S : <<x>> \in Seq(S) /\ Len(<<x>>) = 1 /\ <<x>>[1] = x
         /\ \A q \in Seq(S) : q # <<>> <=> Len(q) >= 1
  OBVIOUS

-----------------------------------------------------------------------------
\* A sequence, of whatever elements.
IsSeq(s) == s \in Seq(Range(s))

LEMMA SeqIntro ==
  ASSUME NEW n \in Nat, NEW s, s = [i \in 1..n |-> s[i]]
  PROVE  IsSeq(s) /\ Len(s) = n /\ DOMAIN s = 1..n
<1>1. s \in [1..n -> Range(s)]  BY DEF Range
<1>2. s \in Seq(Range(s)) /\ Len(s) = n  BY <1>1
<1> QED  BY <1>2 DEF IsSeq

LEMMA SeqIsSeq ==
  ASSUME NEW T, NEW s \in Seq(T)
  PROVE  IsSeq(s)
<1>1. Len(s) \in Nat /\ s \in [1..Len(s) -> T]  OBVIOUS
<1>2. s = [i \in 1..Len(s) |-> s[i]]  BY <1>1
<1> QED  BY <1>1, <1>2, SeqIntro

LEMMA SeqElim ==
  ASSUME NEW s, IsSeq(s)
  PROVE  Len(s) \in Nat /\ DOMAIN s = 1..Len(s) /\ s = [i \in 1..Len(s) |-> s[i]]
  BY DEF IsSeq

LEMMA EmptyIsSeq == IsSeq(<<>>) /\ Range(<<>>) = {}
<1>1. <<>> \in Seq({})  OBVIOUS
<1>2. Range(<<>>) = {}  BY DEF Range
<1> QED  BY <1>1, <1>2 DEF IsSeq

LEMMA SingleIsSeq ==
  ASSUME NEW x
  PROVE  IsSeq(<<x>>) /\ Range(<<x>>) = {x}
<1>1. <<x>> \in Seq({x})  OBVIOUS
<1>2. Range(<<x>>) = {x}  BY DEF Range
<1> QED  BY <1>1, <1>2 DEF IsSeq

LEMMA ConcatIsSeq ==
  ASSUME NEW a, NEW b, IsSeq(a), IsSeq(b)
  PROVE  IsSeq(a \o b) /\ Range(a \o b) = Range(a) \cup Range(b)
<1> DEFINE T == Range(a) \cup Range(b)
<1>1. a \in Seq(T) /\ b \in Seq(T)
  <2>1. a \in Seq(Range(a)) /\ b \in Seq(Range(b))  BY DEF IsSeq
  <2>2. Range(a) \subseteq T /\ Range(b) \subseteq T  OBVIOUS
  <2> QED  BY <2>1, <2>2, SeqMonotonic
<1> HIDE DEF T
<1>2. Range(a \o b) = Range(a) \cup Range(b)
  BY <1>1, RangeConcatenation
<1>3. a \o b \in Seq(T)
  BY <1>1
<1> QED  BY <1>2, <1>3, SeqIsSeq

\* The elements of two sequences put together.
LEMMA ConcatElements ==
  ASSUME NEW a, NEW b, IsSeq(a), IsSeq(b)
  PROVE  /\ Len(a) \in Nat /\ Len(b) \in Nat /\ Len(a \o b) = Len(a) + Len(b)
         /\ \A i \in 1..Len(a) : (a \o b)[i] = a[i]
         /\ \A i \in 1..Len(b) : (a \o b)[Len(a) + i] = b[i]
<1> DEFINE T == Range(a) \cup Range(b)
<1>1. a \in Seq(T) /\ b \in Seq(T)
  <2>1. a \in Seq(Range(a)) /\ b \in Seq(Range(b))  BY DEF IsSeq
  <2>2. Range(a) \subseteq T /\ Range(b) \subseteq T  OBVIOUS
  <2> QED  BY <2>1, <2>2, SeqMonotonic
<1> HIDE DEF T
<1> QED  BY <1>1

LEMMA TailIsSeq ==
  ASSUME NEW s, IsSeq(s), s # <<>>
  PROVE  /\ IsSeq(Tail(s))
         /\ Range(s) = {Head(s)} \cup Range(Tail(s))
<1>1. s \in Seq(Range(s))  BY DEF IsSeq
<1>2. Tail(s) \in Seq(Range(s)) /\ Len(Tail(s)) = Len(s) - 1 /\ Len(s) \in Nat \ {0}
  BY <1>1
<1>3. IsSeq(Tail(s))  BY <1>2, SeqIsSeq
<1>4. DOMAIN s = 1..Len(s) /\ DOMAIN Tail(s) = 1..(Len(s) - 1) /\ Head(s) = s[1]
  BY <1>1, <1>2
<1>5. \A i \in 1..(Len(s) - 1) : Tail(s)[i] = s[i + 1]
  BY <1>1, <1>2
<1>6. Range(s) = {s[i] : i \in 1..Len(s)}  BY <1>4 DEF Range
<1>7. Range(Tail(s)) = {s[i + 1] : i \in 1..(Len(s) - 1)}
  <2> DEFINE t == Tail(s)
  <2>1. Range(t) = {t[i] : i \in 1..(Len(s) - 1)}  BY <1>4 DEF Range
  <2> HIDE DEF t
  <2>2. \A i \in 1..(Len(s) - 1) : t[i] = s[i + 1]  BY <1>5 DEF t
  <2>3. Range(t) = {s[i + 1] : i \in 1..(Len(s) - 1)}  BY <2>1, <2>2
  <2> QED  BY <2>3 DEF t
<1>8. ASSUME NEW i \in 1..Len(s), i # 1
      PROVE  i - 1 \in 1..(Len(s) - 1) /\ s[i] = s[(i - 1) + 1]
  BY <1>2, <1>8
<1>9. 1 \in 1..Len(s) /\ \A i \in 1..(Len(s) - 1) : i + 1 \in 1..Len(s)
  BY <1>2
<1> DEFINE rest == {s[i + 1] : i \in 1..(Len(s) - 1)}
<1>10. \A i \in 1..Len(s) : s[i] \in {s[1]} \cup rest
  BY <1>8
<1>11. s[1] \in Range(s) /\ rest \subseteq Range(s)
  BY <1>6, <1>9
<1>12. Range(s) \subseteq {s[1]} \cup rest
  <2> HIDE DEF rest
  <2> QED  BY <1>6, <1>10
<1> HIDE DEF rest
<1>13. Range(s) = {s[1]} \cup rest
  BY <1>11, <1>12
<1> QED  BY <1>3, <1>4, <1>7, <1>13 DEF rest

LEMMA AppendIsSeq ==
  ASSUME NEW s, IsSeq(s), NEW x
  PROVE  IsSeq(Append(s, x))
<1> DEFINE T == Range(s) \cup {x}
<1>1. s \in Seq(T)
  <2>1. s \in Seq(Range(s)) /\ Range(s) \subseteq T  BY DEF IsSeq
  <2> QED  BY <2>1, SeqMonotonic
<1> HIDE DEF T
<1>2. x \in T  BY DEF T
<1>3. Append(s, x) \in Seq(T)  BY <1>1, <1>2
<1> QED  BY <1>3, SeqIsSeq

LEMMA AppendElements ==
  ASSUME NEW s, IsSeq(s), NEW x
  PROVE  /\ Append(s, x) # <<>> /\ Len(s) \in Nat /\ Len(Append(s, x)) = Len(s) + 1
         /\ Append(s, x)[Len(Append(s, x))] = x
<1> DEFINE T == Range(s) \cup {x}
<1>1. s \in Seq(T)
  <2>1. s \in Seq(Range(s)) /\ Range(s) \subseteq T  BY DEF IsSeq
  <2> QED  BY <2>1, SeqMonotonic
<1>2. x \in T  OBVIOUS
<1> HIDE DEF T
<1> QED  BY <1>1, <1>2

LEMMA AppendPrefix ==
  ASSUME NEW s, IsSeq(s), NEW x
  PROVE  \A i \in 1..Len(s) : Append(s, x)[i] = s[i]
<1> DEFINE T == Range(s) \cup {x}
<1>1. s \in Seq(T)
  <2>1. s \in Seq(Range(s)) /\ Range(s) \subseteq T  BY DEF IsSeq
  <2> QED  BY <2>1, SeqMonotonic
<1>2. x \in T  OBVIOUS
<1> HIDE DEF T
<1> QED  BY <1>1, <1>2

\* The elements of a tail, and the sequences that have a first element.
LEMMA TailElements ==
  ASSUME NEW s, IsSeq(s), s # <<>>
  PROVE  /\ IsSeq(Tail(s)) /\ Head(s) = s[1] /\ Len(s) \in Nat /\ Len(s) >= 1
         /\ Len(Tail(s)) = Len(s) - 1
         /\ \A i \in 1..Len(Tail(s)) : i \in Nat /\ i + 1 \in 1..Len(s) /\ Tail(s)[i] = s[i + 1]
<1>1. s \in Seq(Range(s))  BY DEF IsSeq
<1>2. /\ Head(s) = s[1] /\ Len(s) \in Nat /\ Len(s) >= 1
      /\ Tail(s) \in Seq(Range(s)) /\ Len(Tail(s)) = Len(s) - 1
      /\ \A i \in 1..Len(Tail(s)) : i + 1 \in 1..Len(s) /\ Tail(s)[i] = s[i + 1]
  BY <1>1, Decoded
<1>3. IsSeq(Tail(s))  BY <1>2, SeqIsSeq
<1> QED  BY <1>2, <1>3

LEMMA ElementInRange ==
  ASSUME NEW s, IsSeq(s), NEW i \in 1..Len(s)
  PROVE  s[i] \in Range(s)
  BY SeqElim DEF Range
=============================================================================
