----------------------------- MODULE DebugService -----------------------------
(***************************************************************************)
(* debug_system::CDebugServiceState (src/core/debug/service.cpp): threads  *)
(* submit events; a writer thread takes them from an arena transport and   *)
(* writes them to the event log; what the transport does not take is       *)
(* written to the direct log by the thread that submits it.                *)
(*                                                                         *)
(* The transport is TMpmcArena, each of its steps a step here.  A write to *)
(* the direct log is one step: it is made under a lock, and no other lock  *)
(* is ever taken meanwhile.  Which log an event is written to is not told  *)
(* apart, nor whether the writer succeeds in writing it.                   *)
(***************************************************************************)
EXTENDS Integers, Sequences, FiniteSets

CONSTANTS
    Producer, Writer, Host, \* the threads that submit, that write, that start and stop
    Capacity,               \* of the transport
    EpochValues,            \* 2^32 in the code
    MaxEvents               \* the events submitted; bounds the model

(* The epoch does not come round within what is modelled.                  *)
ASSUME EpochAssumption == MaxEvents \in Nat /\ EpochValues \in Nat /\ EpochValues > MaxEvents + 1

VARIABLES
    supplier, populated, status, outstanding, at, index, lost,  \* of the transport
    content,        \* the event in each arena slot
    serviceState,   \* m_writer_state
    epoch,          \* m_writer_wake_epoch
    incident,       \* m_incident_counter
    stage,          \* where each producer is in its submission
    event,          \* what it submits
    writerAt,       \* where the writer is in writer_thread_main()
    observed,       \* the epoch the writer has observed
    hostAt,         \* where the host is in start() and stop()
    accepted,       \* the events whose submission returned, or will return, true
    copies,         \* how often each event has been written to a log
    amid            \* what was under way when the closing began

transportVars == <<supplier, populated, status, outstanding, at, index, lost>>
producerVars == <<stage, event, incident, content>>
writerVars == <<writerAt, observed, serviceState>>
logs == <<accepted, copies>>
vars == <<transportVars, producerVars, writerVars, epoch, hostAt, logs, amid>>

Transport == INSTANCE TMpmcArena
    WITH Consumer <- {Writer}, Closer <- Host, MayShutdown <- FALSE

ASSUME ThreadsAssumption == Transport!ArenaAssumption

NoEvent == 0
Event == 1 .. MaxEvents

Init ==
    /\ Transport!Init
    /\ content = [i \in Transport!Index |-> NoEvent]
    /\ serviceState = "empty" /\ epoch = 0 /\ incident = 0
    /\ stage = [p \in Producer |-> "idle"]
    /\ event = [p \in Producer |-> NoEvent]
    /\ writerAt = "none" /\ observed = 0
    /\ hostAt = "idle"
    /\ accepted = {} /\ copies = [e \in Event |-> 0]
    /\ amid = {}
-----------------------------------------------------------------------------
(* Submissions: submit_text(), submit_event() and report_va().  A report   *)
(* whose publication fails is written directly and signals nobody; other   *)
(* events signal in any case and are written directly only if no slot      *)
(* could be reserved.                                                      *)

ProducerLeaves == UNCHANGED <<writerVars, hostAt, amid>>
Proceeds(p, to) == stage' = [stage EXCEPT ![p] = to]

(* What is written or given up is forgotten, for TLC.                      *)
Forgets(p) == event' = [event EXCEPT ![p] = NoEvent]

(* capture_incident(); then the status check of reserve() or, with a text  *)
(* that no slot can hold, the direct log at once.                          *)
Submit(p) ==
    /\ stage[p] = "idle" /\ incident < MaxEvents
    /\ incident' = incident + 1
    /\ event' = [event EXCEPT ![p] = incident + 1]
    /\ \/ Transport!ReserveCheck(p) /\ Proceeds(p, "transport")
       \/ Proceeds(p, "direct") /\ UNCHANGED transportVars
    /\ ProducerLeaves /\ UNCHANGED <<content, epoch, logs>>

ReserveSlot(p) ==
    /\ Transport!ReserveClaim(p)
    /\ IF at'[p] = "idle" THEN Proceeds(p, "direct") ELSE UNCHANGED stage
    /\ ProducerLeaves /\ UNCHANGED <<content, event, incident, epoch, logs>>

PopsSlot(p) ==
    /\ Transport!ReserveComplete(p)
    /\ ProducerLeaves /\ UNCHANGED <<producerVars, epoch, logs>>

(* The count, and the event is put into the slot.                          *)
FillSlot(p) ==
    /\ Transport!ReserveCount(p)
    /\ content' = [content EXCEPT ![index[p]] = event[p]]
    /\ ProducerLeaves /\ UNCHANGED <<stage, event, incident, epoch, logs>>

(* What a publish() that returned false leads to, with a report and with   *)
(* any other event.                                                        *)
AfterRefusal(p) ==
    /\ Proceeds(p, "direct") \/ Proceeds(p, "signal")
    /\ UNCHANGED accepted

PublishSlot(p) ==
    /\ Transport!PublishCheck(p) \/ Transport!PublishClaim(p)
    /\ IF at'[p] = "idle" THEN AfterRefusal(p) ELSE UNCHANGED <<stage, accepted>>
    /\ ProducerLeaves /\ UNCHANGED <<content, event, incident, epoch, copies>>

(* Mutant: nobody is signalled of what has been published.                 *)
PublishedUnsignalled(p) ==
    /\ Transport!PublishComplete(p)
    /\ Proceeds(p, "idle") /\ Forgets(p)
    /\ accepted' = accepted \cup {event[p]}
    /\ ProducerLeaves /\ UNCHANGED <<content, incident, epoch, copies>>

PublishedSlot(p) ==
    /\ Transport!PublishComplete(p)
    /\ Proceeds(p, "signal") /\ Forgets(p)
    /\ accepted' = accepted \cup {event[p]}
    /\ ProducerLeaves /\ UNCHANGED <<content, incident, epoch, copies>>

(* signal_writer(): the epoch, then the wake-up.                           *)
NextEpoch == epoch' = (epoch + 1) % EpochValues
WakeWriter == writerAt' = IF writerAt = "parked" THEN "observe" ELSE writerAt

Signal(p) ==
    /\ stage[p] = "signal" /\ Proceeds(p, "wake") /\ NextEpoch /\ Forgets(p)
    /\ ProducerLeaves /\ UNCHANGED <<transportVars, content, incident, logs>>

WakeUp(p) ==
    /\ stage[p] = "wake" /\ Proceeds(p, "idle") /\ WakeWriter
    /\ UNCHANGED <<transportVars, content, event, incident, observed, serviceState, epoch, hostAt, logs, amid>>

(* write_direct_record() and write_direct_event(): the direct log may fail *)
(* to open, to take the record or, once it has taken it, to be flushed.    *)
WriteDirect(p) ==
    /\ stage[p] = "direct" /\ Proceeds(p, "idle") /\ Forgets(p)
    /\ \/ UNCHANGED logs
       \/ /\ copies' = [copies EXCEPT ![event[p]] = @ + 1]
          /\ accepted' = accepted \cup {event[p]} \/ UNCHANGED accepted
    /\ ProducerLeaves /\ UNCHANGED <<transportVars, content, incident, epoch>>

ProducerContinues(p) ==
    \/ ReserveSlot(p) \/ PopsSlot(p) \/ FillSlot(p) \/ PublishSlot(p) \/ PublishedSlot(p)
    \/ Signal(p) \/ WakeUp(p) \/ WriteDirect(p)
-----------------------------------------------------------------------------
(* writer_thread_main().                                                   *)

WriterLeaves == UNCHANGED <<producerVars, epoch, hostAt, amid>>
WriterMoves(from, to) == writerAt = from /\ writerAt' = to

(* The event log is open already, or is opened, or cannot be.              *)
WriterStarts ==
    /\ \/ WriterMoves("opening", "observe") /\ serviceState' = "running"
       \/ WriterMoves("opening", "ended") /\ serviceState' = "failed"
    /\ WriterLeaves /\ UNCHANGED <<transportVars, observed, logs>>

WriterObserves ==
    /\ WriterMoves("observe", "drain") /\ observed' = epoch
    /\ WriterLeaves /\ UNCHANGED <<transportVars, serviceState, logs>>

(* A slot is acquired, or the transport has none to give.                  *)
WriterAcquires ==
    /\ writerAt = "drain"
    /\ \/ Transport!AcquireCheck(Writer) /\ UNCHANGED writerAt
       \/ /\ at[Writer] = "idle" /\ ~Transport!AllowsAcquireOrComplete
          /\ writerAt' = "status" /\ UNCHANGED transportVars
       \/ /\ Transport!AcquireClaim(Writer)
          /\ writerAt' = IF at'[Writer] = "idle" THEN "status" ELSE "drain"
       \/ Transport!AcquireComplete(Writer) /\ UNCHANGED writerAt
    /\ WriterLeaves /\ UNCHANGED <<observed, serviceState, logs>>

(* write_event(), whose failure with both logs goes unnoticed and is not   *)
(* told apart here; then recycle().                                        *)
WriterWrites ==
    LET e == content[index[Writer]]
    IN  /\ Transport!RecycleCheck(Writer)
        /\ content' = [content EXCEPT ![index[Writer]] = NoEvent]
        /\ copies' = [copies EXCEPT ![e] = @ + 1]
        /\ UNCHANGED <<stage, event, incident, epoch, hostAt, amid, writerVars, accepted>>

WriterRecycles ==
    /\ \/ Transport!RecycleClaim(Writer) \/ Transport!RecycleComplete(Writer)
       \/ Transport!RecycleCount(Writer) \/ Transport!RecycleClose(Writer)
    /\ WriterLeaves /\ UNCHANGED <<writerVars, logs>>

(* Mutant: the writer leaves as soon as the transport begins to close.     *)
WriterChecksClosing ==
    /\ WriterMoves("status", IF status # "open" THEN "finish" ELSE "wait")
    /\ WriterLeaves /\ UNCHANGED <<transportVars, observed, serviceState, logs>>

WriterChecks ==
    /\ WriterMoves("status", IF status = "closed" THEN "finish" ELSE "wait")
    /\ WriterLeaves /\ UNCHANGED <<transportVars, observed, serviceState, logs>>

(* Mutant: the writer parks on the epoch of now, not on the one observed.  *)
WriterParks ==
    /\ WriterMoves("wait", "parked") /\ observed' = 0
    /\ WriterLeaves /\ UNCHANGED <<transportVars, serviceState, logs>>

(* The epoch is compared, and compared again by the kernel as it parks;    *)
(* what was observed is not used again.                                    *)
WriterWaits ==
    /\ WriterMoves("wait", IF epoch = observed THEN "parked" ELSE "observe")
    /\ observed' = 0
    /\ WriterLeaves /\ UNCHANGED <<transportVars, serviceState, logs>>

WriterFinishes ==
    /\ WriterMoves("finish", "ended") /\ serviceState' = "stopped"
    /\ WriterLeaves /\ UNCHANGED <<transportVars, observed, logs>>

WriterReturnsSpuriously ==
    /\ WriterMoves("parked", "observe")
    /\ WriterLeaves /\ UNCHANGED <<transportVars, observed, serviceState, logs>>

WriterNext ==
    \/ WriterStarts \/ WriterObserves \/ WriterAcquires \/ WriterWrites \/ WriterRecycles
    \/ WriterChecks \/ WriterWaits \/ WriterFinishes
-----------------------------------------------------------------------------
(* start() and stop().                                                     *)

HostMoves(from, to) == hostAt = from /\ hostAt' = to
HostLeaves == UNCHANGED <<producerVars, observed, logs>>

HostStarts ==
    /\ \/ HostMoves("idle", "await") /\ writerAt' = "opening" /\ serviceState' = "starting"
       \/ HostMoves("idle", "unstarted") /\ UNCHANGED <<writerAt, serviceState>>
    /\ HostLeaves /\ UNCHANGED <<transportVars, epoch, amid>>

(* The wait for the writer to be running or to have failed, and the join   *)
(* of one that has.                                                        *)
HostAwaitsWriter ==
    /\ \/ HostMoves("await", "started") /\ serviceState = "running"
       \/ HostMoves("await", "unstarted") /\ serviceState = "failed" /\ writerAt = "ended"
    /\ HostLeaves /\ UNCHANGED <<transportVars, writerAt, serviceState, epoch, amid>>

HostBeginsClosing ==
    /\ HostMoves("started", "closing")
    /\ Transport!BeginClosing
    /\ amid' = {w \in {"submission"} : \E p \in Producer : stage[p] # "idle"}
               \cup {w \in {"recycle"} : at[Writer] = "close"}
    /\ HostLeaves /\ UNCHANGED <<writerAt, serviceState, epoch>>

HostCloses ==
    /\ Transport!ClosingLoad \/ Transport!ClosingClose
    /\ hostAt' = IF at'[Host] = "done" THEN "signal" ELSE "closing"
    /\ HostLeaves /\ UNCHANGED <<writerAt, serviceState, epoch, amid>>

HostSignals ==
    /\ HostMoves("signal", "wake") /\ NextEpoch
    /\ HostLeaves /\ UNCHANGED <<transportVars, writerAt, serviceState, amid>>

HostWakes ==
    /\ HostMoves("wake", "join") /\ WakeWriter
    /\ HostLeaves /\ UNCHANGED <<transportVars, serviceState, epoch, amid>>

HostJoins ==
    /\ HostMoves("join", "stopped") /\ writerAt = "ended"
    /\ HostLeaves /\ UNCHANGED <<transportVars, writerAt, serviceState, epoch, amid>>

HostNext ==
    \/ HostStarts \/ HostAwaitsWriter \/ HostBeginsClosing \/ HostCloses
    \/ HostSignals \/ HostWakes \/ HostJoins
-----------------------------------------------------------------------------
Next ==
    \/ \E p \in Producer : Submit(p) \/ ProducerContinues(p)
    \/ WriterNext \/ WriterReturnsSpuriously \/ HostNext

Spec == Init /\ [][Next]_vars

(* Threads run.  Nobody has to submit an event, to start the service or to *)
(* stop it.                                                                *)
FairSpec ==
    /\ Spec
    /\ \A p \in Producer : WF_vars(ProducerContinues(p))
    /\ WF_vars(WriterNext)
    /\ WF_vars(HostNext /\ ~HostStarts /\ ~HostBeginsClosing)
-----------------------------------------------------------------------------
TypeOK ==
    /\ Transport!TypeOK
    /\ content \in [Transport!Index -> {NoEvent} \cup Event]
    /\ serviceState \in {"empty", "starting", "running", "failed", "stopped"}
    /\ epoch \in 0 .. EpochValues - 1 /\ observed \in 0 .. EpochValues - 1
    /\ incident \in 0 .. MaxEvents
    /\ event \in [Producer -> {NoEvent} \cup Event]
    /\ accepted \subseteq Event
    /\ copies \in [Event -> 0 .. 1]

(* The writer never sleeps with an event it could take, or a transport     *)
(* that has closed, unless somebody is about to wake it: whatever the      *)
(* interleaving of its last look and its wait with publish() and signal.   *)
NoSleepWithEvents ==
    writerAt = "parked" /\ (Transport!Populated!CanPop \/ status = "closed") =>
        \/ \E p \in Producer : stage[p] \in {"signal", "wake"}
        \/ hostAt \in {"closing", "signal", "wake"}

(* The arena slots whose event has been published and not been written.    *)
Unwritten(e) ==
    {i \in Transport!Index : content[i] = e /\
        \/ \E k \in DOMAIN populated : populated[k] = [item |-> i, state |-> "full"]
        \/ index[Writer] = i /\ at[Writer] \in {"acquired", "holding"}}

(* No event is written twice, or both written and still waiting; one whose *)
(* submission is reported a success is one or the other, and one that      *)
(* waits is reported a success.  Once the writer has stopped none waits,   *)
(* unless the closing began amid a submission, or amid a recycle() that    *)
(* had seen the count come down to zero and had yet to act on it.          *)
AcceptedAreWritten ==
    /\ TypeOK
    /\ \A e \in Event :
          /\ copies[e] + Cardinality(Unwritten(e)) <= 1
          /\ e \in accepted => copies[e] + Cardinality(Unwritten(e)) = 1
          /\ Unwritten(e) # {} => e \in accepted
    /\ serviceState = "stopped" /\ amid = {} => \A e \in Event : Unwritten(e) = {}

(* debug_service_substrate.md, on a stop: "producers quiesce", and then    *)
(* "writer drains and recycles every outstanding event".                   *)
StopDrains ==
    serviceState = "stopped" /\ "submission" \notin amid => \A e \in Event : Unwritten(e) = {}

(* An event that is accepted while the writer runs, or before, is written, *)
(* unless the closing begins amid a call.                                  *)
EventsReachTheLog ==
    \A e \in Event :
        (e \in accepted /\ serviceState = "running") ~> (copies[e] = 1 \/ amid # {})

(* stop() returns, unless the transport has lost an index, whose count     *)
(* then keeps it from closing.                                             *)
StopCompletes == (hostAt = "closing") ~> (hostAt = "stopped" \/ lost # {})

(* Both: an event reaches the log, and a stop its end.                     *)
EventsAndStopsComplete == EventsReachTheLog /\ StopCompletes
=============================================================================
