--------------------------- MODULE EventEnvelope ---------------------------
(***************************************************************************)
(* The JSON envelope of an event as the Inventory service writes and reads *)
(* it, services/inventory/src/envelope.cpp.  A message body is an object   *)
(* (or not), with some of the fields, of which some may have a type other  *)
(* than the expected one.                                                  *)
(***************************************************************************)
CONSTANTS NoTrace     \* the empty trace id

\* A traceparent: the ids of a trace and of a span in it.
NoContext == [trace |-> NoTrace, span |-> NoTrace]

WireField == {"eventId", "eventType", "schemaVersion", "occurredAt", "sagaId",
              "idempotencyKey", "traceparent", "data"}

\* An Envelope as it is constructed, with the defaults of its members.
Blank ==
  [event_id |-> "", event_type |-> "", schema_version |-> 1, occurred_at |-> "",
   saga_id |-> "", idempotency_key |-> "", traceparent |-> NoContext, data |-> "{}"]

\* uuid_v4: a fresh id, called after the item it is drawn for.  An item leaves
\* at most one envelope, so that no two envelopes share it.
UuidV4(item) == item

\* rfc3339_now: nothing reads the time of an event.
Rfc3339Now == "now"

\* make_envelope, for the event that item leaves.
MakeEnvelope(type, saga, data, traceparent, item) ==
  [event_id |-> UuidV4(item), event_type |-> type, schema_version |-> 1,
   occurred_at |-> Rfc3339Now, saga_id |-> saga, idempotency_key |-> UuidV4(item),
   traceparent |-> traceparent, data |-> data]

\* A JSON object with exactly these fields, all of the expected types.
Json(fields) == [object |-> TRUE, fields |-> fields, illTyped |-> {}]

ToJson(env) ==
  Json([eventId |-> env.event_id, eventType |-> env.event_type,
        schemaVersion |-> env.schema_version, occurredAt |-> env.occurred_at,
        sagaId |-> env.saga_id, idempotencyKey |-> env.idempotency_key,
        traceparent |-> env.traceparent, data |-> env.data])

\* obj.value(field, default): the default if the field is absent.
Value(raw, field, default) ==
  IF field \in DOMAIN raw.fields THEN raw.fields[field] ELSE default

\* obj.value throws when a field it is asked for has another type; data may be
\* any JSON value.
ParseThrows(raw) == raw.object /\ raw.illTyped \cap (WireField \ {"data"}) # {}

\* parse: a body that is not a JSON object gives an envelope of defaults.
Parse(raw) ==
  IF ~ raw.object THEN Blank
  ELSE [event_id        |-> Value(raw, "eventId", Blank.event_id),
        event_type      |-> Value(raw, "eventType", Blank.event_type),
        schema_version  |-> Value(raw, "schemaVersion", Blank.schema_version),
        occurred_at     |-> Value(raw, "occurredAt", Blank.occurred_at),
        saga_id         |-> Value(raw, "sagaId", Blank.saga_id),
        idempotency_key |-> Value(raw, "idempotencyKey", Blank.idempotency_key),
        traceparent     |-> Value(raw, "traceparent", Blank.traceparent),
        data            |-> Value(raw, "data", Blank.data)]
=============================================================================
