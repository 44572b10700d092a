---------------------------- MODULE DebugIncidents ----------------------------
(***************************************************************************)
(* The words of debug_system::CDebugServiceState that any thread reads and *)
(* writes without a lock (src/core/debug/service.cpp): the count of        *)
(* incidents, the configuration, the shutdown request, and the breakpoint  *)
(* state with the context that is shown while a thread is in the debugger. *)
(* process_event() and panic() go through them; the submission of the      *)
(* event in between is DebugService.                                       *)
(*                                                                         *)
(* The fields of the context are relaxed atomics: their stores are ordered *)
(* only before the release of the state, their loads only after the first  *)
(* acquire of it, so the second look at the state may come before them.    *)
(***************************************************************************)
EXTENDS Naturals, FiniteSets

CONSTANTS
    Reporter,           \* the threads that report incidents
    MaxIncidents        \* bound: the incidents reported

VARIABLES
    counter,            \* m_incident_counter
    shutdown,           \* m_shutdown_request
    flags,              \* m_configuration: the bits that are set
    pause,              \* m_breakpoint_state
    context,            \* m_breakpoint_incident_id, _system_id, _source_line: the incident each is of
    doing,              \* each reporter: step, incident, reason of a shutdown, request seen, fields to store
    reader,             \* a call of read_breakpoint_context(): what is left to load, what was loaded
    requested           \* the greatest reason whose request has returned

incidentVars == <<counter, shutdown, flags, pause, context, doing, reader, requested>>

Reasons == 0 .. 3       \* none, critical, fatal, panic
Critical == 1
Panicking == 3
Flags == {"breakpoints", "critical_shutdown"}
Fields == {"incident_id", "source"}     \* source: system_id and source_line, alike

Idle == [step |-> "idle", incident |-> 0, reason |-> 0, seen |-> 0, fields |-> {}]
NoReader == [left |-> {}, loaded |-> [f \in Fields |-> 0], active |-> FALSE, amid |-> FALSE]

IncidentsInit ==
    /\ counter = 0 /\ shutdown = 0 /\ flags \in SUBSET Flags /\ pause = "inactive"
    /\ context = [f \in Fields |-> 0]
    /\ doing = [t \in Reporter |-> Idle]
    /\ reader = NoReader /\ requested = 0

Does(t, from, to) == doing[t].step = from /\ doing' = [doing EXCEPT ![t] = to]
Steps(t, from, to) == Does(t, from, [doing[t] EXCEPT !.step = to])
-----------------------------------------------------------------------------
(* Reporters.                                                                *)

\* process_event() as far as its shutdown reason, after the submission.
ProcessEvent(t, reason) ==
    /\ counter < MaxIncidents /\ counter' = counter + 1
    /\ LET asks == reason # 0 /\ (reason = Critical => "critical_shutdown" \in flags)
       IN  Does(t, "idle", [Idle EXCEPT !.step = IF asks THEN "load" ELSE "react",
                                        !.incident = counter + 1, !.reason = reason])
    /\ UNCHANGED <<shutdown, flags, pause, context, reader, requested>>

\* panic(): the request comes before the incident.
Panic(t) ==
    /\ counter < MaxIncidents
    /\ Does(t, "idle", [Idle EXCEPT !.step = "load", !.reason = Panicking])
    /\ UNCHANGED <<counter, shutdown, flags, pause, context, reader, requested>>

RequestLoads(t) ==
    /\ Does(t, "load", [doing[t] EXCEPT !.step = "exchange", !.seen = shutdown])
    /\ UNCHANGED <<counter, shutdown, flags, pause, context, reader, requested>>

RequestReturns(t) ==
    /\ Does(t, "exchange", [Idle EXCEPT !.step = IF doing[t].incident = 0 THEN "panic" ELSE "react",
                                        !.incident = doing[t].incident])
    /\ requested' = IF doing[t].reason > requested THEN doing[t].reason ELSE requested

\* Mutant: a plain store of the reason.
RequestOverwrites(t) ==
    /\ doing[t].seen < doing[t].reason /\ shutdown' = doing[t].reason
    /\ RequestReturns(t)
    /\ UNCHANGED <<counter, flags, pause, context, reader>>

\* The loop of request_shutdown() ends: enough is requested, or it exchanges.
RequestEnds(t) ==
    /\ \/ doing[t].seen >= doing[t].reason /\ UNCHANGED shutdown
       \/ doing[t].seen < doing[t].reason /\ shutdown = doing[t].seen /\ shutdown' = doing[t].reason
    /\ RequestReturns(t)
    /\ UNCHANGED <<counter, flags, pause, context, reader>>

RequestRetries(t) ==
    /\ doing[t].seen < doing[t].reason
    /\ Does(t, "exchange", [doing[t] EXCEPT !.seen = shutdown])
    /\ UNCHANGED <<counter, shutdown, flags, pause, context, reader, requested>>

\* allocate_incident_id() of panic(), its record, and fail_fast().
FailsFast(t) ==
    /\ Steps(t, "panic", "over") /\ counter' = counter + 1
    /\ UNCHANGED <<shutdown, flags, pause, context, reader, requested>>

\* breakpoint_enabled(): the override and the default of the usage point allow it or not.
Reacts(t) ==
    /\ \/ Does(t, "react", Idle)
       \/ "breakpoints" \in flags /\ Steps(t, "react", "claim")
    /\ UNCHANGED <<counter, shutdown, flags, pause, context, reader, requested>>

\* The exchange that makes one thread the owner of the context.
ClaimsContext(t) ==
    /\ IF pause = "inactive"
       THEN /\ pause' = "installing" /\ reader' = [reader EXCEPT !.amid = @ \/ reader.left # {}]
            /\ Does(t, "claim", [doing[t] EXCEPT !.step = "install", !.fields = Fields])
       ELSE Steps(t, "claim", "break") /\ UNCHANGED <<pause, reader>>
    /\ UNCHANGED <<counter, shutdown, flags, context, requested>>

StoresField(t, f) ==
    /\ f \in doing[t].fields /\ context' = [context EXCEPT ![f] = doing[t].incident]
    /\ Does(t, "install", [doing[t] EXCEPT !.fields = @ \ {f}])
    /\ UNCHANGED <<counter, shutdown, flags, pause, reader, requested>>

Activates(t) ==
    /\ doing[t].fields = {} /\ pause' = "active" /\ Steps(t, "install", "owner_breaks")
    /\ UNCHANGED <<counter, shutdown, flags, context, reader, requested>>

\* break_into_debugger() returns.
Resumes(t) ==
    /\ \/ Does(t, "owner_breaks", Idle) /\ pause' = "inactive"
       \/ Does(t, "break", Idle) /\ UNCHANGED pause
    /\ UNCHANGED <<counter, shutdown, flags, context, reader, requested>>
-----------------------------------------------------------------------------
(* Those who look on.                                                        *)

\* publish_configuration()
PublishConfiguration(new) ==
    /\ flags' = new
    /\ UNCHANGED <<counter, shutdown, pause, context, doing, reader, requested>>

\* read_breakpoint_context(); amid: another context was begun meanwhile.  A call
\* that finds the state changed gives nothing; one that overlaps another context
\* gives what may be of both, and is forgotten.
ReadBegins ==
    /\ reader.left = {} /\ pause = "active"
    /\ reader' = [NoReader EXCEPT !.left = Fields \cup {"state"}]
    /\ UNCHANGED <<counter, shutdown, flags, pause, context, doing, requested>>

ReadLoads(x) ==
    /\ x \in reader.left
    /\ LET loads == IF x = "state"
                    THEN [reader EXCEPT !.left = @ \ {x}, !.active = pause = "active"]
                    ELSE [reader EXCEPT !.left = @ \ {x}, !.loaded[x] = context[x]]
       IN  reader' = IF loads.left = {} /\ (~loads.active \/ loads.amid) THEN NoReader ELSE loads
    /\ UNCHANGED <<counter, shutdown, flags, pause, context, doing, requested>>

IncidentsNext ==
    /\ \A t \in Reporter : doing[t].step # "over"
    /\ \/ \E t \in Reporter :
            \/ \E reason \in Reasons \ {Panicking} : ProcessEvent(t, reason)
            \/ Panic(t) \/ RequestLoads(t) \/ RequestEnds(t) \/ RequestRetries(t) \/ FailsFast(t)
            \/ Reacts(t) \/ ClaimsContext(t) \/ (\E f \in Fields : StoresField(t, f))
            \/ Activates(t) \/ Resumes(t)
       \/ \E new \in SUBSET Flags : PublishConfiguration(new)
       \/ ReadBegins \/ \E x \in Fields \cup {"state"} : ReadLoads(x)
-----------------------------------------------------------------------------
Owners == {t \in Reporter : doing[t].step \in {"install", "owner_breaks"}}

(* A request is never taken back by a lesser one, whatever the order in    *)
(* which threads load and exchange.                                        *)
RequestsAreKept == shutdown >= requested

(* The context has one owner while a pause is requested, and is its own    *)
(* once active.                                                            *)
OneOwnerOfContext ==
    /\ Cardinality(Owners) = IF pause = "inactive" THEN 0 ELSE 1
    /\ pause = "active" => \A t \in Owners, f \in Fields : context[f] = doing[t].incident

(* What read_breakpoint_context() gives is of one incident, unless another *)
(* context was begun while it read: nothing tells the reader that it was.  *)
ContextsAreWhole ==
    reader.left = {} /\ reader.active =>
        \E i \in 1 .. counter : \A f \in Fields : reader.loaded[f] = i
=============================================================================
