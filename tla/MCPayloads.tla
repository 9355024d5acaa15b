------------------------------ MODULE MCPayloads ------------------------------
(***************************************************************************)
(* Instances of Payloads for TLC.  The values are those the program may     *)
(* hold when it encodes: the fields are the encoder's, and how far each     *)
(* goes is what the rest of the program allows, not what either codec does. *)
(* A payload is sampled by one value that fills every field and by those    *)
(* that differ from it in one field: two fields in the wrong order differ   *)
(* in at least one of these.                                                *)
(***************************************************************************)
EXTENDS Payloads

MCDigest(s) ==
  LET hash[i \in 0 .. Len(s)] == IF i = 0 THEN 1 ELSE (5 * hash[i - 1] + s[i]) % (Base * Base)
  IN  Bytes(DigestBytes, hash[Len(s)])

\* Fewer fences than partitions, as in default_limits().
MCLimits ==
  [components |-> 2, observations |-> 2, covered |-> 2, partitions |-> 3, reasons |-> 2,
   fences |-> 2, lineages |-> 2, record |-> 200, text |-> 3]

\* A process with fewer components and reasons.
MCTighter == [MCLimits EXCEPT !.components = 1, !.reasons = 1]

\* "partition:" ends in a separator.
MCPrefix == <<1, 4>>

\* A partition identity as compute_partition_id makes them, and requests that
\* name none or one of the full length.
MCSubjects == {<<1, 2>>, << >>, <<1, 4, 2, 3>>}

-----------------------------------------------------------------------------
(* What the program holds.                                                 *)

\* The last value of an enumeration, by the field that holds one.
Last ==
  [verdict |-> 8, completeness |-> 1, value |-> 2, certainty |-> 1, lifecycle |-> 5,
   class |-> 5, basis |-> 9, application |-> 5, event |-> 4, kind |-> 12, scope_kind |-> 4]

CapabilitySets ==
  {"authorized", "eligible", "observed", "recommended", "withheld", "denied",
   "degraded_capabilities", "readonly_capabilities"}

\* The most items of a list, by its field: what canonicalised and create let
\* through, a mark for every partition, a fence for every interrupted one that a
\* revalidation restores, and the triggers finalize_decision names.  Of the other
\* lists the encoder is given one item more than it writes.
Most(name, kind) ==
  CASE name \in {"members", "weights"} -> WriterLimits.components
    [] name \in {"live_grants", "subjects", "fences_issued", "fenced_partitions"} ->
         WriterLimits.partitions
    [] name = "revocation_triggers" -> 3
    [] OTHER -> kind.top + 1

RECURSIVE Full(_, _), Samples(_, _), Variants(_)

\* The i-th of several items: identities and weights are in order.
Nth(item, i) ==
  LET full == Full("item", item)
  IN  CASE item.k = "id" -> <<i>>
        [] item.k = "rec" /\ "component" \in DOMAIN full -> [full EXCEPT !.component = <<i>>]
        [] OTHER -> full

Items(kind, n) == [i \in 1 .. n |-> Nth(kind.item, i)]

\* A lineage record carries its digests.
Signed(v) == IF "membership" \in DOMAIN v THEN seal(v) @@ v ELSE v

Names(fields) == {fields[i][1] : i \in DOMAIN fields}

Full(name, kind) ==
  CASE name = "schema" -> PolicySchema
    [] name \in DOMAIN Last -> Last[name]
    [] name \in CapabilitySets -> 3
    [] kind.k = "rec" ->
         Signed([field \in Names(kind.fields) |-> Full(field, KindOf(kind.fields, field))])
    [] kind.k = "list" -> Items(kind, 2)
    [] kind.k = "blob" -> Full(name, kind.item)
    [] kind.k = "int" -> 1
    [] kind.k = "bool" -> TRUE
    [] kind.k = "raw" -> [i \in 1 .. kind.n |-> i]
    [] kind.k = "text" -> [i \in 1 .. WriterLimits.text |-> i]
    [] kind.k = "id" -> <<1>>

Variants(fields) ==
  LET full == Full("none", Rec(fields))
  IN  {full} \cup UNION {{Signed([full EXCEPT ![fields[i][1]] = s]) :
                            s \in Samples(fields[i][1], fields[i][2])} : i \in DOMAIN fields}

Samples(name, kind) ==
  CASE name = "schema" -> {PolicySchema}
    [] name \in DOMAIN Last -> {0, Last[name]}
    [] name \in CapabilitySets -> {0, AllCapabilities}
    [] kind.k = "rec" -> Variants(kind.fields)
    [] kind.k = "list" ->
         {Items(kind, n) : n \in 0 .. Most(name, kind)}
           \cup {<<s>> : s \in Samples("item", kind.item)}
    [] kind.k = "blob" -> Samples(name, kind.item)
    [] kind.k = "int" -> {0, 1, 2}
    [] kind.k = "bool" -> BOOLEAN
    [] kind.k = "raw" -> {[i \in 1 .. kind.n |-> 0], [i \in 1 .. kind.n |-> 3]}
    [] kind.k = "text" -> {<< >>, <<0>>}
    [] kind.k = "id" -> {<< >>, <<2>>, <<1, 4, 2, 3>>}

-----------------------------------------------------------------------------

MCSpecimens(p) == {Full("none", Encoder[p])}

\* A request names a partition, and the scope of its decision is made of it.
MCScoped(p) ==
  IF p # "decision" THEN {}
  ELSE {[Full("none", Encoder[p]) EXCEPT !.scope = partition_scope(s)] : s \in Subjects}

\* An assessment grants authority to every partition.
MCGranted(p) ==
  IF p # "epoch_state" THEN {}
  ELSE {[Full("none", Encoder[p]) EXCEPT
           !.live_grants = Items(KindOf(Encoder[p].fields, "live_grants"), n)] :
          n \in 0 .. WriterLimits.partitions}

\* A caller lists the components of a topology, or in a request the weights of a
\* policy, as it likes.
Backwards(s) == [i \in DOMAIN s |-> s[Len(s) + 1 - i]]
MCUnordered(p) ==
  IF p # "topology" THEN {} ELSE {[Full("none", Encoder[p]) EXCEPT !.members = Backwards(@)]}
Requested(p) ==
  IF p # "policy" THEN {} ELSE {[Full("none", Encoder[p]) EXCEPT !.weights = Backwards(@)]}

MCValues(p) ==
  Samples("none", Encoder[p])
    \cup MCScoped(p) \cup MCGranted(p) \cup MCUnordered(p) \cup Requested(p)
=============================================================================
