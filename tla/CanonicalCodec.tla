---------------------------- MODULE CanonicalCodec ----------------------------
(***************************************************************************)
(* The canonical byte encoding (encoding.cpp): what the writer appends for  *)
(* a value of each kind and what the reader takes back, with every check it *)
(* makes on the way.  A kind is a record that names one call of the writer  *)
(* or the reader, with the bounds that call is given; a payload is a list   *)
(* of named kinds, and the functions that encode and decode it are such     *)
(* lists (module Payloads).                                                 *)
(*                                                                         *)
(* A byte has Base values instead of 256, the fixed-width identities and    *)
(* digests are shorter, and the alphabet of an identity is a handful of     *)
(* bytes; widths of integers and of length prefixes are those of the code.  *)
(***************************************************************************)
EXTENDS Integers, Sequences, TLC

CONSTANTS
  Base,         \* the number of values of a byte
  BinaryBytes,  \* BinaryId::byte_count, and the bytes of a session handle
  DigestBytes,  \* digest_bytes
  IdLength,     \* MaxLength of a TextId
  Alphanumeric, \* the bytes is_id_alphanumeric accepts
  Separators,   \* the bytes is_id_separator accepts
  Digest(_)     \* SHA-256 of a sequence of bytes

ASSUME CodecAssumption ==
  /\ Base \in Nat \ {0, 1}
  /\ {BinaryBytes, DigestBytes, IdLength} \subseteq Nat \ {0}
  /\ Alphanumeric \cup Separators \subseteq 0 .. Base - 1
  /\ Alphanumeric \cap Separators = {}

-----------------------------------------------------------------------------
(* Kinds.                                                                  *)

UInt(n) == [k |-> "int", n |-> n]
U8 == UInt(1)
U16 == UInt(2)
U32 == UInt(4)
U64 == UInt(8)
Bool == [k |-> "bool"]
Enum(top) == [k |-> "enum", top |-> top]
Exact(n, v) == [k |-> "exact", n |-> n, v |-> v]
Caps == [k |-> "caps"]
Raw(n) == [k |-> "raw", n |-> n]
Text(top) == [k |-> "text", top |-> top]
Id == [k |-> "id"]

\* Fields one after the other; a record that is refused unless seal holds of it.
Rec(fields) == [k |-> "rec", fields |-> fields]
Sealed(fields) == [k |-> "sealed", fields |-> fields]

\* A count and at most top items.  The items of an ordered list must increase
\* strictly in key: the item itself, or the named field.
List(item, top, key) == [k |-> "list", item |-> item, top |-> top, key |-> key]

\* A length and an item that must fill it exactly.
Blob(item, top) == [k |-> "blob", item |-> item, top |-> top]

\* A length that no list or text of a model reaches.
Unbounded == Base * Base * Base

Field(name, kind) == << <<name, kind>> >>
Fields(kind, names) == [i \in DOMAIN names |-> <<names[i], kind>>]

-----------------------------------------------------------------------------
(* Identities.                                                             *)

is_valid(s) ==
  /\ Len(s) \in 1 .. IdLength
  /\ {s[1], s[Len(s)]} \subseteq Alphanumeric
  /\ \A i \in DOMAIN s : s[i] \in Alphanumeric \cup Separators

\* Pre-validated construction truncates, and looks at nothing.
from_validated(s) == SubSeq(s, 1, IF Len(s) < IdLength THEN Len(s) ELSE IdLength)

\* The lexicographic order of the bytes.
Less(s, t) ==
  \E i \in DOMAIN t :
    /\ \A j \in 1 .. i - 1 : j <= Len(s) /\ s[j] = t[j]
    /\ i <= Len(s) => s[i] < t[i]

\* valid_capability_bits: the seven capabilities and no other bit.
Capabilities == 7
AllCapabilities == 2 ^ Capabilities - 1

-----------------------------------------------------------------------------
(* The writer.                                                             *)

\* Big-endian, n bytes.
RECURSIVE Bytes(_, _)
Bytes(n, v) == IF n = 0 THEN << >> ELSE Append(Bytes(n - 1, v \div Base), v % Base)

WriteText(s) == Bytes(4, Len(s)) \o s

Truncated(s, top) == SubSeq(s, 1, IF Len(s) < top THEN Len(s) ELSE top)

RECURSIVE Write(_, _), WriteFields(_, _), WriteItems(_, _)

WriteFields(fields, v) ==
  IF fields = << >> THEN << >>
  ELSE Write(Head(fields)[2], v[Head(fields)[1]]) \o WriteFields(Tail(fields), v)

WriteItems(item, s) ==
  IF s = << >> THEN << >> ELSE Write(item, Head(s)) \o WriteItems(item, Tail(s))

Write(kind, v) ==
  CASE kind.k = "int" -> Bytes(kind.n, v)
    [] kind.k = "bool" -> Bytes(1, IF v THEN 1 ELSE 0)
    [] kind.k = "raw" -> v
    [] kind.k \in {"text", "id"} -> WriteText(v)
    [] kind.k = "rec" -> WriteFields(kind.fields, v)
    [] kind.k = "list" ->
         LET s == Truncated(v, kind.top)
         IN  Bytes(4, Len(s)) \o WriteItems(kind.item, s)
    [] kind.k = "blob" -> WriteText(Write(kind.item, v))

-----------------------------------------------------------------------------
(* The reader: a value and the offset behind it, or a refusal, after which  *)
(* nothing more is read.                                                    *)

Refused == [ok |-> FALSE]
Got(v, at) == [ok |-> TRUE, v |-> v, at |-> at]

need(b, at, n) == n <= Len(b) - at

Only(r, condition) == IF r.ok /\ condition THEN r ELSE Refused

RECURSIVE Number(_)
Number(s) == IF s = << >> THEN 0 ELSE Number(SubSeq(s, 1, Len(s) - 1)) * Base + s[Len(s)]

ReadRaw(n, b, at) ==
  IF need(b, at, n) THEN Got(SubSeq(b, at + 1, at + n), at + n) ELSE Refused

ReadInt(n, b, at) ==
  LET r == ReadRaw(n, b, at) IN IF r.ok THEN Got(Number(r.v), r.at) ELSE Refused

\* A variant that takes every byte but zero for true.
ReadBoolLenient(b, at) ==
  LET r == ReadInt(1, b, at) IN IF r.ok THEN Got(r.v # 0, r.at) ELSE Refused

ReadBool(b, at) ==
  LET r == ReadInt(1, b, at)
  IN  IF r.ok /\ r.v <= 1 THEN Got(r.v = 1, r.at) ELSE Refused

ReadEnum(top, b, at) == LET r == ReadInt(1, b, at) IN Only(r, r.v <= top)

ReadCaps(b, at) == LET r == ReadInt(4, b, at) IN Only(r, r.v <= AllCapabilities)

bounded_text(top, b, at) ==
  LET size == ReadInt(4, b, at)
  IN  IF size.ok /\ size.v <= top THEN ReadRaw(size.v, b, size.at) ELSE Refused

\* A variant to which the empty text is malformed.
TextIdRequired(b, at) ==
  LET r == bounded_text(IdLength, b, at) IN Only(r, is_valid(r.v))

\* The empty text is the nil identity.
text_id(b, at) ==
  LET r == bounded_text(IdLength, b, at) IN Only(r, r.v = << >> \/ is_valid(r.v))

Increases(key, s) ==
  LET last == s[Len(s)]
      previous == s[Len(s) - 1]
  IN  Len(s) < 2 \/ CASE key = "none" -> TRUE
                      [] key = "self" -> Less(previous, last)
                      [] OTHER -> Less(previous[key], last[key])

\* The two digests of a lineage record: of its members, and of the whole.
seal(v) ==
  LET members == Write(List(Id, Unbounded, "none"), v.members)
      membership == Digest(members)
  IN  [membership |-> membership,
       digest |-> Digest(Bytes(8, v.sequence) \o WriteText(v.lineage) \o Bytes(8, v.generation)
                         \o membership \o members \o <<v.event>>
                         \o WriteText(v.parent_left) \o WriteText(v.parent_right)
                         \o Bytes(8, v.epoch) \o v.boot \o WriteText(v.decision)
                         \o Bytes(8, v.tick))]

RECURSIVE Read(_, _, _), ReadFields(_, _, _), ReadItems(_, _, _, _)

\* The fields from a position on, onto those already read.
ReadFields(fields, b, r) ==
  IF fields = << >> \/ ~r.ok THEN r
  ELSE LET next == Read(Head(fields)[2], b, r.at)
       IN  IF next.ok
           THEN ReadFields(Tail(fields), b, Got(r.v @@ (Head(fields)[1] :> next.v), next.at))
           ELSE Refused

ReadItems(kind, n, b, r) ==
  IF n = 0 \/ ~r.ok THEN r
  ELSE LET next == Read(kind.item, b, r.at)
           items == Append(r.v, next.v)
       IN  IF next.ok /\ Increases(kind.key, items)
           THEN ReadItems(kind, n - 1, b, Got(items, next.at))
           ELSE Refused

\* A variant that leaves what follows the payload unread.
DecodedPrefix(kind, b) == Read(kind, b, 0)

\* exhausted: a payload is the whole of its bytes.
Decoded(kind, b) == LET r == Read(kind, b, 0) IN Only(r, r.at = Len(b))

ReadList(kind, b, at) ==
  LET count == ReadInt(4, b, at)
  IN  IF count.ok /\ count.v <= kind.top
      THEN ReadItems(kind, count.v, b, Got(<< >>, count.at)) ELSE Refused

ReadBlob(kind, b, at) ==
  LET entry == bounded_text(kind.top, b, at)
      r == Decoded(kind.item, entry.v)
  IN  IF entry.ok /\ r.ok THEN Got(r.v, entry.at) ELSE Refused

ReadSealed(fields, b, at) ==
  LET r == ReadFields(fields, b, Got(<< >>, at))
  IN  Only(r, [membership |-> r.v.membership, digest |-> r.v.digest] = seal(r.v))

Read(kind, b, at) ==
  CASE kind.k = "int" -> ReadInt(kind.n, b, at)
    [] kind.k = "bool" -> ReadBool(b, at)
    [] kind.k = "enum" -> ReadEnum(kind.top, b, at)
    [] kind.k = "exact" -> LET r == ReadInt(kind.n, b, at) IN Only(r, r.v = kind.v)
    [] kind.k = "caps" -> ReadCaps(b, at)
    [] kind.k = "raw" -> ReadRaw(kind.n, b, at)
    [] kind.k = "text" -> bounded_text(kind.top, b, at)
    [] kind.k = "id" -> text_id(b, at)
    [] kind.k = "rec" -> ReadFields(kind.fields, b, Got(<< >>, at))
    [] kind.k = "sealed" -> ReadSealed(kind.fields, b, at)
    [] kind.k = "list" -> ReadList(kind, b, at)
    [] kind.k = "blob" -> ReadBlob(kind, b, at)
=============================================================================
