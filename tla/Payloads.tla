------------------------------- MODULE Payloads -------------------------------
(***************************************************************************)
(* The payloads of the wire protocol (protocol.cpp, service.cpp) and of the *)
(* durable records (persistence.cpp), and the life of one payload: a process *)
(* encodes a value, the bytes may be cut short, extended or altered on their *)
(* way, and a process decodes them.                                        *)
(*                                                                         *)
(* encode_x and decode_x are two lists, each in the order of its function,  *)
(* so that their agreement is checked and not assumed.  The two processes   *)
(* may run with different limits.  A field that holds a scope's kind and    *)
(* name is two fields, as it is in the bytes.                               *)
(***************************************************************************)
EXTENDS CanonicalCodec

CONSTANTS
  WriterLimits,   \* the limits of the process that encodes
  ReaderLimits,   \* the limits of the process that decodes
  DefaultLimits,  \* default_limits()
  Subjects,       \* the partition identities requests name
  ScopePrefix,    \* the bytes of "partition:"
  PolicySchema,   \* policy_schema_version
  Values(_),      \* the values of a payload that are encoded
  Specimens(_),   \* those whose bytes are damaged
  Glitches        \* the bytes an altered or extended payload may carry

LimitNames == {"components", "observations", "covered", "partitions", "reasons",
               "fences", "lineages", "record", "text"}

ASSUME LimitsAssumption ==
  /\ {WriterLimits, ReaderLimits, DefaultLimits} \subseteq [LimitNames -> Nat]
  /\ Subjects \subseteq {s \in Seq(0 .. Base - 1) : s = << >> \/ is_valid(s)}
  /\ Glitches \subseteq 0 .. Base - 1

VARIABLES
  phase,    \* idle, sent or received
  payload,  \* which payload
  value,    \* the value that was encoded
  bytes,    \* the bytes on their way
  damage,   \* what happened to them: none, cut, extended or altered
  outcome   \* what the decoder returned

vars == <<phase, payload, value, bytes, damage, outcome>>

Binary == Raw(BinaryBytes)
Sha == Raw(DigestBytes)

-----------------------------------------------------------------------------
(* Shared parts.                                                           *)

encode_reasons(limits) ==
  Field("reasons", List(Rec(Field("code", U16)
                            \o Fields(Text(Unbounded), <<"subject", "detail">>)),
                        limits.reasons, "none"))
decode_reasons(limits) ==
  Field("reasons", List(Rec(Field("code", U16)
                            \o Fields(Text(limits.text), <<"subject", "detail">>)),
                        limits.reasons, "none"))

encode_members == Field("members", List(Id, Unbounded, "none"))
decode_members(limits) == Field("members", List(Id, limits.components, "self"))

encode_attempt == Field("attempt", Rec(Field("id", Id) \o Field("sequence", U64)))
decode_attempt == Field("attempt", Rec(Field("id", Id) \o Field("sequence", U64)))

-----------------------------------------------------------------------------
(* The wire.                                                               *)

encode_hello_request ==
  Rec(Field("publisher", Id) \o Field("boot", Binary) \o Field("expected_epoch", U64)
      \o Field("provenance", Id))
decode_hello_request ==
  Rec(Field("publisher", Id) \o Field("boot", Binary) \o Field("expected_epoch", U64)
      \o Field("provenance", Id))

encode_hello_response(limits) ==
  Rec(Field("session", Binary) \o Field("epoch", U64) \o Field("boot", Binary)
      \o Field("protocol_version", U16) \o Field("accepted", Bool) \o encode_reasons(limits))
decode_hello_response(limits) ==
  Rec(Field("session", Binary) \o Field("epoch", U64) \o Field("boot", Binary)
      \o Field("protocol_version", U16) \o Field("accepted", Bool) \o decode_reasons(limits))

encode_operation_result(limits) ==
  Rec(Field("verdict", U8) \o Field("decision", Id) \o encode_reasons(limits))
decode_operation_result(limits) ==
  Rec(Field("verdict", Enum(8)) \o Field("decision", Id) \o decode_reasons(limits))

encode_evidence(limits) ==
  Rec(Field("id", Id) \o Field("sequence", U64) \o Field("publisher", Id)
      \o Field("publisher_boot", Binary)
      \o Fields(U64, <<"topology_generation", "generation", "observed_at", "validity">>)
      \o Field("completeness", U8) \o Field("provenance", Id)
      \o Field("covered", List(Id, limits.covered, "none"))
      \o Field("observations", List(Rec(Fields(Id, <<"source", "target">>) \o Field("value", U8)),
                                    limits.observations, "none")))
decode_evidence(limits) ==
  Rec(Field("id", Id) \o Field("sequence", U64) \o Field("publisher", Id)
      \o Field("publisher_boot", Binary)
      \o Fields(U64, <<"topology_generation", "generation", "observed_at", "validity">>)
      \o Field("completeness", Enum(1)) \o Field("provenance", Id)
      \o Field("covered", List(Id, limits.covered, "none"))
      \o Field("observations", List(Rec(Fields(Id, <<"source", "target">>)
                                        \o Field("value", Enum(2))),
                                    limits.observations, "none")))

encode_partition_view ==
  Rec(Fields(Id, <<"id", "lineage">>) \o Fields(U64, <<"generation", "member_count">>)
      \o Fields(U8, <<"certainty", "lifecycle", "class", "basis", "application">>)
      \o Fields(U32, <<"authorized", "eligible", "observed">>)
      \o Field("authority_sequence", U64) \o Fields(Bool, <<"authoritative", "pending_merge">>))
decode_partition_view ==
  Rec(Fields(Id, <<"id", "lineage">>) \o Fields(U64, <<"generation", "member_count">>)
      \o Field("certainty", Enum(1)) \o Field("lifecycle", Enum(5)) \o Field("class", Enum(5))
      \o Field("basis", Enum(9)) \o Field("application", Enum(5))
      \o Fields(Caps, <<"authorized", "eligible", "observed">>)
      \o Field("authority_sequence", U64) \o Fields(Bool, <<"authoritative", "pending_merge">>))

encode_assessment_view(limits) ==
  Rec(Field("verdict", U8) \o Fields(U64, <<"generation", "epoch">>) \o Field("boot", Binary)
      \o Fields(Bool, <<"confirmed", "split_brain">>)
      \o Fields(U64, <<"ordered_pairs", "ordered_unknown", "ordered_conflicting",
                       "ordered_stale", "ordered_asymmetric", "undirected_reachable",
                       "cross_component", "topology_generation", "reachability_generation">>)
      \o Field("decision", Id)
      \o Field("partitions", List(encode_partition_view, limits.partitions, "none"))
      \o encode_reasons(limits))
decode_assessment_view(limits) ==
  Rec(Field("verdict", Enum(8)) \o Fields(U64, <<"generation", "epoch">>) \o Field("boot", Binary)
      \o Fields(Bool, <<"confirmed", "split_brain">>)
      \o Fields(U64, <<"ordered_pairs", "ordered_unknown", "ordered_conflicting",
                       "ordered_stale", "ordered_asymmetric", "undirected_reachable",
                       "cross_component", "topology_generation", "reachability_generation">>)
      \o Field("decision", Id)
      \o Field("partitions", List(decode_partition_view, limits.partitions, "none"))
      \o decode_reasons(limits))

encode_status_view ==
  Rec(Field("epoch", U64) \o Fields(Binary, <<"boot", "incarnation">>)
      \o Fields(U64, <<"tick", "partition_generation", "authority_sequence", "decision_sequence",
                       "attempt_sequence", "lineage_sequence", "fence_sequence",
                       "partition_count", "lineage_records", "fence_records",
                       "evidence_bundles", "interrupted", "decision_history",
                       "decisions_dropped">>)
      \o Field("durable", Bool))
decode_status_view ==
  Rec(Field("epoch", U64) \o Fields(Binary, <<"boot", "incarnation">>)
      \o Fields(U64, <<"tick", "partition_generation", "authority_sequence", "decision_sequence",
                       "attempt_sequence", "lineage_sequence", "fence_sequence",
                       "partition_count", "lineage_records", "fence_records",
                       "evidence_bundles", "interrupted", "decision_history",
                       "decisions_dropped">>)
      \o Field("durable", Bool))

encode_merge_request ==
  Rec(encode_attempt \o Field("expected_epoch", U64)
      \o Fields(Id, <<"subject", "left", "right", "requester">>))
decode_merge_request ==
  Rec(decode_attempt \o Field("expected_epoch", U64)
      \o Fields(Id, <<"subject", "left", "right", "requester">>))

encode_merge_ack(limits) ==
  Rec(Field("result", encode_operation_result(limits))
      \o Fields(Id, <<"merged_lineage", "merged_partition">>))
decode_merge_ack(limits) ==
  Rec(Field("result", Rec(Field("verdict", Enum(8)) \o Field("decision", Id)
                          \o decode_reasons(limits)))
      \o Fields(Id, <<"merged_lineage", "merged_partition">>))

encode_isolation_request ==
  Rec(encode_attempt \o Field("expected_epoch", U64) \o Field("lineage", Id)
      \o Field("cause", U16) \o Field("duration", U64) \o Field("requester", Id)
      \o Field("clear", Bool))
decode_isolation_request ==
  Rec(decode_attempt \o Field("expected_epoch", U64) \o Field("lineage", Id)
      \o Field("cause", U16) \o Field("duration", U64) \o Field("requester", Id)
      \o Field("clear", Bool))

encode_revalidation_request ==
  Rec(encode_attempt \o Field("expected_epoch", U64) \o Field("requester", Id))
decode_revalidation_request ==
  Rec(decode_attempt \o Field("expected_epoch", U64) \o Field("requester", Id))

encode_retire_request ==
  Rec(encode_attempt \o Field("expected_epoch", U64) \o Fields(Id, <<"lineage", "requester">>))
decode_retire_request ==
  Rec(decode_attempt \o Field("expected_epoch", U64) \o Fields(Id, <<"lineage", "requester">>))

-----------------------------------------------------------------------------
(* The durable records; a policy, a topology and the two listings travel as *)
(* they are stored.                                                         *)

encode_authority ==
  Rec(Fields(U8, <<"class", "basis", "application">>)
      \o Fields(U32, <<"observed", "eligible", "recommended", "authorized", "withheld",
                       "denied">>)
      \o Field("revocable", Bool) \o encode_reasons(DefaultLimits))
decode_authority(limits) ==
  Rec(Field("class", Enum(5)) \o Field("basis", Enum(9)) \o Field("application", Enum(5))
      \o Fields(Caps, <<"observed", "eligible", "recommended", "authorized", "withheld",
                        "denied">>)
      \o Field("revocable", Bool) \o decode_reasons(limits))

encode_epoch_state ==
  Rec(Field("epoch", U64) \o Fields(Binary, <<"boot", "incarnation">>)
      \o Fields(U64, <<"boot_sequence", "partition_generation", "authority_sequence",
                       "decision_sequence", "attempt_sequence", "lineage_sequence",
                       "fence_sequence", "tick">>)
      \o Field("live_grants", List(Rec(Fields(Id, <<"partition", "lineage">>)
                                      \o Field("authority_sequence", U64)), Unbounded, "none")))
decode_epoch_state(limits) ==
  Rec(Field("epoch", U64) \o Fields(Binary, <<"boot", "incarnation">>)
      \o Fields(U64, <<"boot_sequence", "partition_generation", "authority_sequence",
                       "decision_sequence", "attempt_sequence", "lineage_sequence",
                       "fence_sequence", "tick">>)
      \o Field("live_grants", List(Rec(Fields(Id, <<"partition", "lineage">>)
                                      \o Field("authority_sequence", U64)), limits.fences, "none")))

encode_quorum ==
  Rec(Fields(U32, <<"min_components", "min_voters">>)
      \o Fields(U64, <<"min_weight", "domain_weight">>) \o Field("strict_majority", Bool))
decode_quorum ==
  Rec(Fields(U32, <<"min_components", "min_voters">>)
      \o Fields(U64, <<"min_weight", "domain_weight">>) \o Field("strict_majority", Bool))

encode_policy ==
  Rec(Field("id", Id) \o Field("generation", U64) \o Field("schema", U16)
      \o Field("weights", List(Rec(Field("component", Id) \o Field("weight", U64)
                                  \o Field("voter", Bool)), Unbounded, "none"))
      \o Fields(encode_quorum, <<"full_authority", "degraded_authority">>)
      \o Fields(U32, <<"degraded_capabilities", "readonly_capabilities">>)
      \o Field("max_evidence_age", U64)
      \o Fields(Bool, <<"symmetric", "confirmed_for_write", "confirmed_for_read",
                       "allow_multiple", "unknown_downgrades">>))
decode_policy(limits) ==
  Rec(Field("id", Id) \o Field("generation", U64) \o Field("schema", Exact(2, PolicySchema))
      \o Field("weights", List(Rec(Field("component", Id) \o Field("weight", U64)
                                  \o Field("voter", Bool)), limits.components, "component"))
      \o Fields(decode_quorum, <<"full_authority", "degraded_authority">>)
      \o Fields(Caps, <<"degraded_capabilities", "readonly_capabilities">>)
      \o Field("max_evidence_age", U64)
      \o Fields(Bool, <<"symmetric", "confirmed_for_write", "confirmed_for_read",
                       "allow_multiple", "unknown_downgrades">>))

encode_topology ==
  Rec(Field("id", Id) \o Field("generation", U64) \o Field("provenance", Id) \o encode_members)
decode_topology(limits) ==
  Rec(Field("id", Id) \o Field("generation", U64) \o Field("provenance", Id)
      \o decode_members(limits))

encode_lineage ==
  Rec(Field("sequence", U64) \o Field("lineage", Id) \o Field("generation", U64)
      \o Field("membership", Sha) \o encode_members \o Field("event", U8)
      \o Fields(Id, <<"parent_left", "parent_right">>) \o Field("epoch", U64)
      \o Field("boot", Binary) \o Field("decision", Id) \o Field("tick", U64)
      \o Field("digest", Sha))
decode_lineage(limits) ==
  Sealed(Field("sequence", U64) \o Field("lineage", Id) \o Field("generation", U64)
         \o Field("membership", Sha) \o decode_members(limits) \o Field("event", Enum(4))
         \o Fields(Id, <<"parent_left", "parent_right">>) \o Field("epoch", U64)
         \o Field("boot", Binary) \o Field("decision", Id) \o Field("tick", U64)
         \o Field("digest", Sha))

encode_decision ==
  Rec(Field("id", Id) \o Fields(U8, <<"kind", "verdict", "scope_kind">>) \o Field("scope", Id)
      \o Field("epoch", U64) \o Fields(Binary, <<"boot", "incarnation">>)
      \o Field("topology_generation", U64) \o Field("topology_digest", Sha)
      \o Field("reachability_generation", U64) \o Field("evidence_digest", Sha)
      \o Fields(U64, <<"policy_generation", "partition_generation", "authority_sequence",
                       "decision_sequence">>)
      \o Field("attempt", Id) \o Field("evaluated_at", U64)
      \o Field("subjects", List(Id, Unbounded, "none"))
      \o Field("authority", encode_authority)
      \o Fields(List(Id, Unbounded, "none"), <<"fences_issued", "fenced_partitions">>)
      \o Field("revocation_triggers", List(U16, Unbounded, "none"))
      \o Field("revocable", Bool) \o encode_reasons(DefaultLimits))
decode_decision(limits) ==
  Rec(Field("id", Id) \o Field("kind", Enum(12)) \o Field("verdict", Enum(8))
      \o Field("scope_kind", Enum(4)) \o Field("scope", Id)
      \o Field("epoch", U64) \o Fields(Binary, <<"boot", "incarnation">>)
      \o Field("topology_generation", U64) \o Field("topology_digest", Sha)
      \o Field("reachability_generation", U64) \o Field("evidence_digest", Sha)
      \o Fields(U64, <<"policy_generation", "partition_generation", "authority_sequence",
                       "decision_sequence">>)
      \o Field("attempt", Id) \o Field("evaluated_at", U64)
      \o Field("subjects", List(Id, limits.partitions, "none"))
      \o Field("authority", decode_authority(limits))
      \o Field("fences_issued", List(Id, limits.fences, "none"))
      \o Field("fenced_partitions", List(Id, limits.partitions, "none"))
      \o Field("revocation_triggers", List(U16, limits.reasons, "none"))
      \o Field("revocable", Bool) \o decode_reasons(limits))

encode_fence ==
  Rec(Field("id", Id) \o Field("sequence", U64) \o Field("scope_kind", U8)
      \o Fields(Id, <<"scope", "partition">>)
      \o Fields(U64, <<"fenced_sequence", "fenced_epoch">>) \o Field("fenced_boot", Binary)
      \o Field("issuing_epoch", U64) \o Field("issuing_boot", Binary) \o Field("tick", U64)
      \o Field("cause", U16))
decode_fence ==
  Rec(Field("id", Id) \o Field("sequence", U64) \o Field("scope_kind", Enum(4))
      \o Fields(Id, <<"scope", "partition">>)
      \o Fields(U64, <<"fenced_sequence", "fenced_epoch">>) \o Field("fenced_boot", Binary)
      \o Field("issuing_epoch", U64) \o Field("issuing_boot", Binary) \o Field("tick", U64)
      \o Field("cause", U16))

encode_fence_list(limits) == List(Blob(encode_fence, Unbounded), limits.fences, "none")
decode_fence_list(limits) == List(Blob(decode_fence, limits.record), limits.fences, "none")

encode_lineage_list(limits) == List(Blob(encode_lineage, Unbounded), limits.lineages, "none")
decode_lineage_list(limits) ==
  List(Blob(decode_lineage(limits), limits.record), limits.lineages, "none")

-----------------------------------------------------------------------------
(* One payload on its way.                                                 *)

\* A prefix and a name; what they are together is not looked at.
make_scope_id(prefix, name) == from_validated(prefix \o name)

partition_scope(partition) == make_scope_id(ScopePrefix, partition)

Durable == {"epoch_state", "policy", "topology", "lineage", "decision", "fence"}

Encoder ==
  [hello_request |-> encode_hello_request,
   hello_response |-> encode_hello_response(WriterLimits),
   operation_result |-> encode_operation_result(WriterLimits),
   evidence |-> encode_evidence(WriterLimits),
   assessment_view |-> encode_assessment_view(WriterLimits),
   status_view |-> encode_status_view,
   merge_request |-> encode_merge_request,
   merge_ack |-> encode_merge_ack(WriterLimits),
   isolation_request |-> encode_isolation_request,
   revalidation_request |-> encode_revalidation_request,
   retire_request |-> encode_retire_request,
   fence_list |-> encode_fence_list(WriterLimits),
   lineage_list |-> encode_lineage_list(WriterLimits),
   epoch_state |-> encode_epoch_state,
   policy |-> encode_policy,
   topology |-> encode_topology,
   lineage |-> encode_lineage,
   decision |-> encode_decision,
   fence |-> encode_fence]

Decoders(limits) ==
  [hello_request |-> decode_hello_request,
   hello_response |-> decode_hello_response(limits),
   operation_result |-> decode_operation_result(limits),
   evidence |-> decode_evidence(limits),
   assessment_view |-> decode_assessment_view(limits),
   status_view |-> decode_status_view,
   merge_request |-> decode_merge_request,
   merge_ack |-> decode_merge_ack(limits),
   isolation_request |-> decode_isolation_request,
   revalidation_request |-> decode_revalidation_request,
   retire_request |-> decode_retire_request,
   fence_list |-> decode_fence_list(limits),
   lineage_list |-> decode_lineage_list(limits),
   epoch_state |-> decode_epoch_state(limits),
   policy |-> decode_policy(limits),
   topology |-> decode_topology(limits),
   lineage |-> decode_lineage(limits),
   decision |-> decode_decision(limits),
   fence |-> decode_fence]

Decoder == Decoders(ReaderLimits)

Init ==
  /\ phase = "idle"
  /\ payload = "fence"
  /\ value = << >>
  /\ bytes = << >>
  /\ damage = "none"
  /\ outcome = Refused

\* A request, a response or a record is encoded from the value it carries.
Encode(p, v) ==
  /\ phase = "idle"
  /\ phase' = "sent"
  /\ payload' = p
  /\ value' = v
  /\ bytes' = Write(Encoder[p], v)
  /\ UNCHANGED <<damage, outcome>>

\* What a peer, or a file, may hold in place of the bytes that were written.
Damage(kind, b) ==
  /\ phase = "sent"
  /\ damage = "none"
  /\ value \in Specimens(payload)
  /\ damage' = kind
  /\ bytes' = b
  /\ UNCHANGED <<phase, payload, value, outcome>>

Cut == \E n \in 0 .. Len(bytes) - 1 : Damage("cut", SubSeq(bytes, 1, n))
Extend == \E b \in Glitches : Damage("extended", Append(bytes, b))
Alter ==
  \E i \in DOMAIN bytes : \E b \in Glitches \ {bytes[i]} :
    Damage("altered", [bytes EXCEPT ![i] = b])

\* The handler of the request, the client, or restore_from_records decodes it.
Decode ==
  /\ phase = "sent"
  /\ phase' = "received"
  /\ outcome' = Decoded(Decoder[payload], bytes)
  /\ UNCHANGED <<payload, value, bytes, damage>>

Forget ==
  /\ phase = "received"
  /\ phase' = "idle"
  /\ payload' = "fence"
  /\ value' = << >>
  /\ bytes' = << >>
  /\ damage' = "none"
  /\ outcome' = Refused

Next ==
  \/ \E p \in DOMAIN Encoder : \E v \in Values(p) : Encode(p, v)
  \/ Cut \/ Extend \/ Alter
  \/ Decode
  \/ Forget

Spec == Init /\ [][Next]_vars

-----------------------------------------------------------------------------
(* Properties.                                                             *)

KindOf(fields, name) == fields[CHOOSE i \in DOMAIN fields : fields[i][1] = name][2]

\* What the bytes of a value stand for: the value, with no more of a list than
\* the encoder writes.
RECURSIVE Kept(_, _)
Kept(kind, v) ==
  CASE kind.k = "rec" -> [name \in DOMAIN v |-> Kept(KindOf(kind.fields, name), v[name])]
    [] kind.k = "list" ->
         [i \in DOMAIN Truncated(v, kind.top) |-> Kept(kind.item, v[i])]
    [] kind.k = "blob" -> Kept(kind.item, v)
    [] OTHER -> v

\* The values that the encoder writes and the decoder refuses: a topology or a
\* policy whose components are not in order (adopt_topology commits the one it was
\* given, runtime.cpp 587), more live grants or issued fences than a process keeps
\* fences (persistence.cpp 360, 629), more revocation triggers than reasons
\* (persistence.cpp 653), a scope that is not an identity (decision.cpp 12).
Unreadable(p, v) ==
  \/ p = "topology" /\ \E i \in 2 .. Len(v.members) : ~Less(v.members[i - 1], v.members[i])
  \/ p = "policy" /\ \E i \in 2 .. Len(v.weights) :
                       ~Less(v.weights[i - 1].component, v.weights[i].component)
  \/ p = "epoch_state" /\ Len(v.live_grants) > ReaderLimits.fences
  \/ p = "decision" /\ Len(v.fences_issued) > ReaderLimits.fences
  \/ p = "decision" /\ Len(v.revocation_triggers) > ReaderLimits.reasons
  \/ p = "decision" /\ v.scope # << >> /\ ~is_valid(v.scope)

\* Every request, response and durable record decodes to the value it was encoded
\* from, whatever list is empty, full or longer than the encoder writes and whatever
\* optional identity is nil, except the values of Unreadable, which are refused: but
\* for these the encoder and the decoder, written apart, agree on the order and the
\* width of every field, and the decoder takes all that the program holds.
WrittenIsRead ==
  phase = "received" /\ damage = "none" =>
    IF Unreadable(payload, value) THEN ~outcome.ok
    ELSE outcome.ok /\ outcome.v = Kept(Encoder[payload], value)

\* "A partially decoded record cannot be mistaken for a shorter valid one"
\* (encoding.hpp:10-11), nor one with something behind it: no proper prefix and
\* no extension of a payload decodes.
PartialRefused == phase = "received" /\ damage \in {"cut", "extended"} => ~outcome.ok

\* "The byte image of a value is a pure function of the value" (encoding.hpp:6-7):
\* bytes altered anywhere are refused, or they are exactly what the encoder
\* writes for the value they were taken for. What is accepted from a peer and
\* then committed is the same record again after a restart.
AcceptedIsCanonical ==
  phase = "received" /\ outcome.ok => Write(Encoder[payload], outcome.v) = bytes

-----------------------------------------------------------------------------
(* What the documentation says and the code does not do.                   *)

\* Every durable record that a runtime commits is decoded by the next start:
\* "a store written under wider limits remains loadable" (limits.hpp:20-22), and
\* no identity in it is malformed (README.md:180-181).
CommittedReloads ==
  phase = "received" /\ damage = "none" /\ payload \in Durable => outcome.ok

=============================================================================
