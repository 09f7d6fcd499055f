------------------------ MODULE InventoryTelemetry ------------------------
(***************************************************************************)
(* Tracing in the Inventory service, services/inventory/src/{obs,obs_otel} *)
(* .cpp: the span that is active on each thread, what is injected in       *)
(* events and log lines, and the spans that wait for export.  A span is    *)
(* named after the request or record it was started for; a new root span   *)
(* starts a trace of the same name.  Metrics are left out.                 *)
(***************************************************************************)
EXTENDS EventEnvelope

CONSTANTS Threads,    \* the threads that handle requests and records
          Spans       \* the names of spans

VARIABLES tracing,    \* setup has installed tracer, propagator and log hook
          current,    \* current[t]: the span context active on thread t
          queued      \* the batch processor's queue has spans to export

telemetryVars == <<tracing, current, queued>>

TelemetryTypeOK(Traces) ==
  /\ tracing \in BOOLEAN
  /\ current \in [Threads -> [trace : Traces, span : Spans \cup {NoTrace}]]
  /\ queued \in BOOLEAN

TelemetryInit ==
  /\ tracing = FALSE
  /\ current = [t \in Threads |-> NoContext]
  /\ queued = FALSE

Setup == tracing' = TRUE /\ UNCHANGED <<current, queued>>

\* inject_traceparent, on thread t.
Inject(t) == IF tracing THEN current[t] ELSE NoContext

\* The trace_id and span_id that emit stamps on a line logged by thread t.
LogContext(t) == IF tracing THEN current[t] ELSE NoContext

\* The parent of a new span: the traceparent given, or else the active span.
Parent(t, traceparent) == IF traceparent # NoContext THEN traceparent ELSE current[t]

\* Mutation: the new span is not made the active one.
StartSpanDetached(t, name, traceparent) == UNCHANGED telemetryVars

\* start_span: the span becomes the active one of its thread.
StartSpan(t, name, traceparent) ==
  /\ current' =
       IF ~ tracing THEN current
       ELSE LET parent == Parent(t, traceparent)
            IN [current EXCEPT ![t] =
                  [trace |-> IF parent = NoContext THEN name ELSE parent.trace,
                   span |-> name]]
  /\ UNCHANGED <<tracing, queued>>

\* Mutation: the scope outlives the span.
EndSpanKeepsScope(t) ==
  /\ queued' = (queued \/ current[t] # NoContext)
  /\ UNCHANGED <<tracing, current>>

\* ~SpanScope: the span ends and is handed to the batch processor, and the
\* scope gives the thread back the context it had.  No handler starts a span
\* inside another one, so that is the empty one.
EndSpan(t) ==
  /\ queued' = (queued \/ current[t] # NoContext)
  /\ current' = [current EXCEPT ![t] = NoContext]
  /\ UNCHANGED tracing

\* shutdown: ForceFlush exports what is queued.  (The processor exports by
\* itself too, which only empties the queue earlier.)
Flush == queued' = FALSE /\ UNCHANGED <<tracing, current>>

\* The process is gone, and what was not exported with it.
TelemetryLost ==
  /\ tracing' = FALSE
  /\ current' = [t \in Threads |-> NoContext]
  /\ queued' = FALSE
=============================================================================
