------------------------------ MODULE HostPipeline ------------------------------
(***************************************************************************)
(* The engine at run time: CHost (src/host/runtime/host.cpp), its two      *)
(* worker threads (host_worker_thread.cpp) and the executive               *)
(* (src/executive/runtime/executive_thread.cpp), over their CThreadPackages*)
(*                                                                         *)
(* The executive asks the host to load an image and then to save it.  The  *)
(* host turns each request into two jobs of workers: it keeps what a job   *)
(* refers to in its asset repository, what it is to do with the answer in  *)
(* an asynchronous state, and sends the index of that state along.         *)
(*                                                                         *)
(* A handler is one action up to the point where its message is visible;   *)
(* the poke and the wake-up of the recipient follow as steps of their own. *)
(* The assets and the states are the host thread's own, so that what a     *)
(* handler does to them after posting is not told apart from before.  Any  *)
(* allocation, post, file operation or conversion may fail.                *)
(*                                                                         *)
(* The first part has what the owner of a thread and the thread itself do  *)
(* to the resources they share: CThreadPackage, CThreadContext and         *)
(* CThreadControlState (src/core/threading/), with the CWaitPredicate a    *)
(* thread sleeps on.  A transport is the FIFO channel its own module shows *)
(* it to be.  A wait word is the one of the native path, which every       *)
(* supported platform has: the kernel compares the word and parks the      *)
(* caller in one step.                                                     *)
(***************************************************************************)
EXTENDS Naturals, Sequences, FiniteSets, Functions

CONSTANTS
    Thread,
    Released,       \* k_control_released_word, above every epoch
    HostSlot        \* the indices of the host's asynchronous states

(* Two messages reach a worker in all: its epoch does not come round.      *)
ASSUME ReleasedAssumption == Released \in Nat \ (0 .. 2)

VARIABLES
    created,        \* CThreadResources::created
    word,           \* CWaitPredicate::m_word
    exitRequest,    \* CThreadControlState::m_exit_request
    runState,       \* CThreadControlState::m_state
    inbox,          \* host_to_worker_msgs
    outbox,         \* worker_to_host_msgs
    owned,          \* worker_to_host_owned_msgs
    at,             \* where each thread is
    epoch,          \* the epoch each thread last saw
    notify          \* the notification CThreadPackage::post() has under way

controls == <<created, word, exitRequest, runState>>
transports == <<inbox, outbox, owned>>
packageVars == <<controls, transports, at, epoch, notify>>

(* next_predicate_word(): an epoch wraps without passing the sentinel.     *)
NextEpoch(e) == IF e + 1 >= Released THEN 0 ELSE e + 1

Idle == [step |-> "idle"]

RunState == {"Empty", "Pending", "Startup", "Running", "Waiting", "Exited", "Failed"}
IsStarting(t) == runState[t] \in {"Pending", "Startup"}
IsReady(t) == runState[t] \in {"Running", "Waiting"}

(* Mutant: a thread that failed is not done.                               *)
IsExited(t) == runState[t] = "Exited"

IsDone(t) == runState[t] \in {"Exited", "Failed"}

HasControl(t) == word[t] # Released
IsAlive(t) == at[t] \notin {"none", "ended"}

PackageInit ==
    /\ created = [t \in Thread |-> FALSE]
    /\ word = [t \in Thread |-> Released]
    /\ exitRequest = [t \in Thread |-> FALSE]
    /\ runState = [t \in Thread |-> "Empty"]
    /\ inbox = [t \in Thread |-> <<>>]
    /\ outbox = [t \in Thread |-> <<>>]
    /\ owned = [t \in Thread |-> <<>>]
    /\ at = [t \in Thread |-> "none"]
    /\ epoch = [t \in Thread |-> 0]
    /\ notify = Idle

Moves(t, from, to) == at[t] = from /\ at' = [at EXCEPT ![t] = to]
Marks(t, state) == runState' = [runState EXCEPT ![t] = state]
-----------------------------------------------------------------------------
(* The owner's side.                                                       *)

(* startup() as far as a thread that exists; when a transport, the wait    *)
(* word or the thread cannot be had, all is undone and nothing changes.    *)
Create(t) ==
    /\ word' = [word EXCEPT ![t] = 0]
    /\ Marks(t, "Pending")
    /\ created' = [created EXCEPT ![t] = TRUE]
    /\ Moves(t, "none", "enter")
    /\ UNCHANGED <<exitRequest, transports, epoch, notify>>

(* startup() of a thread that did not become ready: joined and undone.     *)
Abandon(t) ==
    /\ at[t] = "ended"
    /\ created' = [created EXCEPT ![t] = FALSE]
    /\ word' = [word EXCEPT ![t] = Released]
    /\ Marks(t, "Empty")
    /\ inbox' = [inbox EXCEPT ![t] = <<>>]
    /\ outbox' = [outbox EXCEPT ![t] = <<>>]
    /\ owned' = [owned EXCEPT ![t] = <<>>]
    /\ UNCHANGED <<exitRequest, at, epoch, notify>>

(* post(): the message, then the poke of the epoch, then the wake-up.  A   *)
(* post that is refused leaves nothing; one that is visible and refused as *)
(* well (TQueueTransport) has to grow a buffer, beyond 32 messages.        *)
Posts(t, message) ==
    /\ inbox' = [inbox EXCEPT ![t] = Append(@, message)]
    /\ notify' = [step |-> "poke", thread |-> t]

(* Mutant: the recipient is woken and the epoch is not poked.              *)
PokeNothing ==
    /\ notify.step = "poke"
    /\ notify' = [notify EXCEPT !.step = "wake"]
    /\ UNCHANGED <<controls, transports, at, epoch>>

Poke ==
    /\ notify.step = "poke"
    /\ word' = [word EXCEPT ![notify.thread] = NextEpoch(@)]
    /\ notify' = [notify EXCEPT !.step = "wake"]
    /\ UNCHANGED <<created, exitRequest, runState, transports, at, epoch>>

(* A wake-up of a thread that is not parked is without effect.             *)
WakeUp(t) == at' = [at EXCEPT ![t] = IF @ = "parked" THEN "waiting" ELSE @]

Wake ==
    /\ notify.step = "wake"
    /\ WakeUp(notify.thread)
    /\ notify' = Idle
    /\ UNCHANGED <<controls, transports, epoch>>

(* shutdown(): the request, the release of the word, the wake-up, the wait *)
(* for a state that is done, and the join.                                 *)
RequestExit(t) ==
    /\ exitRequest' = [exitRequest EXCEPT ![t] = TRUE]
    /\ UNCHANGED <<created, word, runState, transports, at, epoch, notify>>

ReleaseControl(t) ==
    /\ word' = [word EXCEPT ![t] = Released]
    /\ UNCHANGED <<created, exitRequest, runState, transports, at, epoch, notify>>

(* Mutant: the word is released and nobody is woken.                       *)
WakeNobody(t) == UNCHANGED packageVars

WakeAll(t) ==
    /\ WakeUp(t)
    /\ UNCHANGED <<controls, transports, epoch, notify>>

(* Mutant: a thread that is done is not joined.                            *)
JoinAtOnce(t) == IsDone(t) /\ UNCHANGED packageVars

(* A join that succeeds leaves created as it is.                           *)
Join(t) ==
    /\ IsDone(t) /\ at[t] = "ended"
    /\ UNCHANGED packageVars
-----------------------------------------------------------------------------
(* The thread's side.                                                      *)

(* thread_entry_point() and CThreadContext::startup().                     *)
Enter(t) ==
    /\ Moves(t, "enter", "starting")
    /\ Marks(t, "Startup")
    /\ UNCHANGED <<created, word, exitRequest, transports, epoch, notify>>

(* thread_entry_point() of a thread that cannot be prepared.               *)
EnterFails(t) ==
    /\ Moves(t, "enter", "return")
    /\ Marks(t, "Failed")
    /\ UNCHANGED <<created, word, exitRequest, transports, epoch, notify>>

(* wait_for_new_epoch() of a thread that has read nothing.  The kernel     *)
(* parks it only if the word is still its epoch; a word that changes       *)
(* between the load and the park sends the thread round to the load, so    *)
(* that the two are one step.  Control that is released ends every wait,   *)
(* and a wait for the word to be other than released ends at once.         *)
WaitForNewEpoch(t) ==
    /\ IF word[t] # epoch[t] \/ epoch[t] = Released
       THEN /\ Moves(t, "waiting", "check")
            /\ epoch' = [epoch EXCEPT ![t] = word[t]]
            /\ Marks(t, "Running")
       ELSE Moves(t, "waiting", "parked") /\ UNCHANGED <<epoch, runState>>
    /\ UNCHANGED <<created, word, exitRequest, transports, notify>>

(* The kernel may return from a wait that nobody ended.                    *)
SpuriousReturn(t) ==
    /\ Moves(t, "parked", "waiting")
    /\ UNCHANGED <<controls, transports, epoch, notify>>

Return(t) ==
    /\ Moves(t, "return", "ended")
    /\ UNCHANGED <<controls, transports, epoch, notify>>

-----------------------------------------------------------------------------
(* The host, the workers and the executive.                                *)

VARIABLES
    hostAt,         \* where the host is
    turn,           \* the thread its loop is at, by its place in Order
    debugShutdown,  \* whether the debug service has asked for a shutdown
    assets,         \* CAssetRepository: the kind of each asset, by id
    nextId,         \* CAssetRepository::m_next_id
    slots,          \* CASyncStates of the host, by index
    job,            \* the message each worker is busy with
    execState,      \* the executive's only asynchronous state
    complete,       \* m_operation_complete
    failure,        \* m_failure_code
    written,        \* external: whether the output file has been saved
    lost            \* whether a message whose loss is ignored was refused

store == <<assets, nextId, slots>>
executiveVars == <<execState, complete, failure>>
history == <<written, lost>>
hostVars == <<hostAt, turn, debugShutdown, store>>
vars == <<packageVars, hostVars, job, executiveVars, history>>

Worker == {"file_io", "conditioning"}
ASSUME ThreadsAssumption == Thread = Worker \cup {"executive"}

Order == <<"file_io", "conditioning", "executive">>
Turn == Order[turn]

(* The executive's slot is the first of a repository of one.               *)
ExecutiveSlot == 0
NoAsset == 0
NoJob == [type |-> "none"]

Message(type, slot, ok, ids) == [type |-> type, slot |-> slot, ok |-> ok, assets |-> ids]

Init ==
    /\ PackageInit
    /\ hostAt = "startup" /\ turn = 1
    /\ debugShutdown = FALSE
    /\ assets = [id \in {} |-> "none"] /\ nextId = 1
    /\ slots = [s \in {} |-> NoAsset]
    /\ job = [w \in Worker |-> NoJob]
    /\ execState = "none" /\ complete = FALSE /\ failure = 0
    /\ written = FALSE /\ lost = FALSE
-----------------------------------------------------------------------------
(* CHost::start_threads(), with CThreadPackage::startup().                 *)

HostGoes(from, to) == hostAt = from /\ hostAt' = to

HostStarts ==
    /\ HostGoes("startup", "await") /\ Create(Turn)
    /\ UNCHANGED <<turn, debugShutdown, store, job, executiveVars, history>>

HostCannotStart ==
    /\ HostGoes("startup", "stop") /\ turn' = Len(Order)
    /\ UNCHANGED <<packageVars, debugShutdown, store, job, executiveVars, history>>

HostReady ==
    /\ hostAt = "await" /\ IsReady(Turn)
    /\ IF turn < Len(Order)
       THEN hostAt' = "startup" /\ turn' = turn + 1
       ELSE hostAt' = "check" /\ UNCHANGED turn
    /\ UNCHANGED <<packageVars, debugShutdown, store, job, executiveVars, history>>

HostNotReady ==
    /\ HostGoes("await", "stop") /\ turn' = Len(Order)
    /\ ~IsStarting(Turn) /\ ~IsReady(Turn)
    /\ Abandon(Turn)
    /\ UNCHANGED <<debugShutdown, store, job, executiveVars, history>>
-----------------------------------------------------------------------------
(* CHost::run(): a pass over the packages, each read until both of its     *)
(* queues are empty, until the executive is done or a shutdown is asked.   *)

HostPasses ==
    /\ hostAt = "check"
    /\ IF IsDone("executive") \/ debugShutdown
       THEN hostAt' = "stop" /\ turn' = Len(Order)
       ELSE hostAt' = "pods" /\ turn' = 1
    /\ UNCHANGED <<packageVars, debugShutdown, store, job, executiveVars, history>>

HostNoPod ==
    /\ HostGoes("pods", "owned") /\ notify = Idle /\ outbox[Turn] = <<>>
    /\ UNCHANGED <<packageVars, turn, debugShutdown, store, job, executiveVars, history>>

HostNoOwned ==
    /\ hostAt = "owned" /\ notify = Idle /\ owned[Turn] = <<>>
    /\ IF turn < Len(Order)
       THEN hostAt' = "pods" /\ turn' = turn + 1
       ELSE hostAt' = "check" /\ UNCHANGED turn
    /\ UNCHANGED <<packageVars, debugShutdown, store, job, executiveVars, history>>

(* The state of an asynchronous operation, and what a handler does to it.  *)
Holds(slot, kind) == slot \in DOMAIN slots /\ slots[slot].kind = kind
State(kind, executiveSlot, request) ==
    [kind |-> kind, executive |-> executiveSlot, request |-> request]
Sets(slot, state) == slots' = [s \in DOMAIN slots \cup {slot} |-> IF s = slot THEN state ELSE slots[s]]
Releasing(set) == Restrict(slots, DOMAIN slots \ set)

Releases(slot) == slots' = Releasing({slot})

(* An id whose asset could not be stored or is erased by the handler that  *)
(* stored it is nobody's: that it is spent is not told apart.              *)
Erased(id) == Restrict(assets, DOMAIN assets \ {id})
Stored(content, kind) == [id \in DOMAIN content \cup {nextId} |-> IF id = nextId THEN kind ELSE content[id]]

Spends == nextId' = nextId + 1

(* post_tga_load_result() and post_tga_save_result(), whose failure is     *)
(* ignored.                                                                *)
Reports(type, slot, ok, ids) ==
    \/ Posts("executive", Message(type, slot, ok, ids)) /\ UNCHANGED lost
    \/ lost' = TRUE /\ UNCHANGED <<inbox, notify>>


(* Mutant: a load that fails is not reported.                              *)
LoadFailsSilently(slot) == UNCHANGED <<inbox, notify, lost>>

LoadFails(slot) == Reports("TgaLoadResult", slot, FALSE, <<NoAsset>>)
SaveFails(slot) == Reports("TgaSaveResult", slot, FALSE, <<>>)

Asks(worker, type, slot, ids) ==
    /\ Posts(worker, Message(type, slot, TRUE, ids))
    /\ UNCHANGED lost

(* A handler takes the first message of a queue of the package it is at.   *)
Takes(queue, type) ==
    /\ notify = Idle
    /\ queue[Turn] # <<>> /\ Head(queue[Turn]).type = type

TakesOwned(type) ==
    /\ hostAt = "owned" /\ Takes(owned, type)
    /\ owned' = [owned EXCEPT ![Turn] = Tail(@)]
    /\ UNCHANGED <<outbox, controls, at, epoch>>
    /\ UNCHANGED <<hostAt, turn, debugShutdown, job, executiveVars, written>>

TakesPod(type) ==
    /\ hostAt = "pods" /\ Takes(outbox, type)
    /\ outbox' = [outbox EXCEPT ![Turn] = Tail(@)]
    /\ UNCHANGED <<owned, controls, at, epoch>>
    /\ UNCHANGED <<hostAt, turn, debugShutdown, job, executiveVars, written>>

(* An answer for a slot that does not hold what it should is dropped.      *)
Ignored == UNCHANGED <<store, inbox, notify, lost>>

HostTakesLoadRequest ==
    LET m == Head(owned[Turn])
    IN  /\ TakesOwned("TgaLoadRequest")
        /\ \/ LoadFails(m.slot) /\ UNCHANGED store
           \/ \E slot \in HostSlot \ DOMAIN slots :
                /\ assets' = Stored(assets, "load_request") /\ Spends
                /\ Sets(slot, State("load", m.slot, nextId))
                /\ Asks("file_io", "FileLoadRequest", slot, <<nextId>>)

HostTakesLoadedFile ==
    LET m == Head(owned[Turn])
        state == slots[m.slot]
    IN  /\ TakesOwned("FileLoadResult")
        /\ IF ~Holds(m.slot, "load") THEN Ignored
           ELSE \/ /\ LoadFails(state.executive) /\ UNCHANGED nextId
                   /\ assets' = Erased(state.request)
                   /\ Releases(m.slot)
                \/ /\ m.ok /\ state.request \in DOMAIN assets
                   /\ assets' = Stored(Erased(state.request), "loaded_file") /\ Spends
                   /\ \/ /\ Sets(m.slot, State("decode", state.executive, NoAsset))
                         /\ Asks("conditioning", "TgaDecodeRequest", m.slot, <<nextId>>)
                      \/ LoadFails(state.executive) /\ Releases(m.slot)

HostTakesDecodedImage ==
    LET m == Head(owned[Turn])
        state == slots[m.slot]
    IN  /\ TakesOwned("TgaDecodeResult")
        /\ IF ~Holds(m.slot, "decode") THEN Ignored
           ELSE /\ \/ LoadFails(state.executive) /\ UNCHANGED <<assets, nextId>>
                   \/ /\ m.ok
                      /\ assets' = Stored(assets, "decoded_image") /\ Spends
                      /\ Reports("TgaLoadResult", state.executive, TRUE, <<nextId>>)
                /\ Releases(m.slot)

HostTakesSaveRequest ==
    LET m == Head(owned[Turn])
        source == m.assets[1]
    IN  /\ TakesOwned("TgaSaveRequest")
        /\ \/ SaveFails(m.slot) /\ UNCHANGED store
           \/ \E slot \in HostSlot \ DOMAIN slots :
                /\ source \in DOMAIN assets /\ assets[source] = "decoded_image"
                /\ assets' = Stored(assets, "save_request") /\ Spends
                /\ Sets(slot, State("encode", m.slot, nextId))
                /\ Asks("conditioning", "TgaEncodeRequest", slot, <<source>>)

HostTakesEncodedFile ==
    LET m == Head(owned[Turn])
        state == slots[m.slot]
    IN  /\ TakesOwned("TgaEncodeResult")
        /\ IF ~Holds(m.slot, "encode") THEN Ignored
           ELSE \/ /\ SaveFails(state.executive) /\ UNCHANGED nextId
                   /\ assets' = Erased(state.request)
                   /\ Releases(m.slot)
                \/ /\ m.ok /\ state.request \in DOMAIN assets
                   /\ Spends
                   /\ \/ /\ assets' = Stored(assets, "encoded_file")
                         /\ Sets(m.slot, State("save", state.executive, state.request))
                         /\ Asks("file_io", "FileSaveRequest", m.slot, <<state.request, nextId>>)
                      \/ /\ assets' = Stored(Erased(state.request), "encoded_file")
                         /\ SaveFails(state.executive)
                         /\ Releases(m.slot)

HostTakesSaveResult ==
    LET m == Head(outbox[Turn])
        state == slots[m.slot]
    IN  /\ TakesPod("FileSaveResult")
        /\ IF ~Holds(m.slot, "save") THEN Ignored
           ELSE /\ Reports("TgaSaveResult", state.executive, m.ok, <<>>)
                /\ assets' = Erased(state.request)
                /\ Releases(m.slot)
                /\ UNCHANGED nextId

HostNotifies ==
    /\ Poke \/ Wake
    /\ UNCHANGED <<hostVars, job, executiveVars, history>>
-----------------------------------------------------------------------------
(* CHost::shutdown(): the threads in reverse order, then what they used.   *)

HostTurnsBack ==
    IF turn > 1
    THEN hostAt' = "stop" /\ turn' = turn - 1
    ELSE hostAt' = "teardown" /\ UNCHANGED turn

HostSkips ==
    /\ hostAt = "stop" /\ ~(created[Turn] /\ HasControl(Turn))
    /\ HostTurnsBack
    /\ UNCHANGED <<packageVars, debugShutdown, store, job, executiveVars, history>>

HostRequestsExit ==
    /\ HostGoes("stop", "release") /\ created[Turn] /\ HasControl(Turn)
    /\ RequestExit(Turn)
    /\ UNCHANGED <<turn, debugShutdown, store, job, executiveVars, history>>

HostReleases ==
    /\ HostGoes("release", "rouse") /\ ReleaseControl(Turn)
    /\ UNCHANGED <<turn, debugShutdown, store, job, executiveVars, history>>

HostRouses ==
    /\ HostGoes("rouse", "join") /\ WakeAll(Turn)
    /\ UNCHANGED <<turn, debugShutdown, store, job, executiveVars, history>>

HostJoins ==
    /\ hostAt = "join" /\ Join(Turn) /\ HostTurnsBack
    /\ UNCHANGED <<debugShutdown, store, job, executiveVars, history>>

HostTearsDown ==
    /\ HostGoes("teardown", "done")
    /\ slots' = Releasing(DOMAIN slots)
    /\ assets' = Restrict(assets, {})
    /\ inbox' = [t \in Thread |-> <<>>]
    /\ outbox' = [t \in Thread |-> <<>>]
    /\ owned' = [t \in Thread |-> <<>>]
    /\ UNCHANGED <<controls, at, epoch, notify, turn, debugShutdown, nextId, job, executiveVars, history>>

HostNext ==
    \/ HostStarts \/ HostCannotStart \/ HostReady \/ HostNotReady
    \/ HostPasses \/ HostNoPod \/ HostNoOwned \/ HostNotifies
    \/ HostTakesLoadRequest \/ HostTakesLoadedFile \/ HostTakesDecodedImage
    \/ HostTakesSaveRequest \/ HostTakesEncodedFile \/ HostTakesSaveResult
    \/ HostSkips \/ HostRequestsExit \/ HostReleases \/ HostRouses \/ HostJoins
    \/ HostTearsDown

(* External: a panic anywhere in the process asks the host to shut down.   *)
DebugRequestsShutdown ==
    /\ ~debugShutdown /\ debugShutdown' = TRUE
    /\ UNCHANGED <<packageVars, hostAt, turn, store, job, executiveVars, history>>
-----------------------------------------------------------------------------
(* CHostWorkerThread.                                                      *)

WorkerLeaves == UNCHANGED <<hostVars, executiveVars>>

WorkerRuns(w) ==
    /\ Moves(w, "starting", "check") /\ Marks(w, "Running")
    /\ WorkerLeaves
    /\ UNCHANGED <<created, word, exitRequest, transports, epoch, notify, job, history>>

(* operate(): nothing the host does between the check of exit_requested()  *)
(* and the read that follows alters what the read finds.                   *)
WorkerStops(w) ==
    /\ exitRequest[w]
    /\ Moves(w, "check", "exiting")
    /\ WorkerLeaves
    /\ UNCHANGED <<controls, transports, epoch, notify, job, history>>

WorkerReads(w) ==
    /\ ~exitRequest[w] /\ inbox[w] # <<>>
    /\ Moves(w, "check", "work")
    /\ job' = [job EXCEPT ![w] = Head(inbox[w])]
    /\ inbox' = [inbox EXCEPT ![w] = Tail(@)]
    /\ WorkerLeaves
    /\ UNCHANGED <<controls, outbox, owned, epoch, notify, history>>

WorkerReadsNothing(w) ==
    /\ ~exitRequest[w] /\ inbox[w] = <<>>
    /\ Moves(w, "check", "waiting") /\ Marks(w, "Waiting")
    /\ WorkerLeaves
    /\ UNCHANGED <<created, word, exitRequest, transports, epoch, notify, job, history>>

(* The answer to a job, whose refusal is ignored.                          *)
Answers(w, queue, type, ok) ==
    LET answer == Message(type, job[w].slot, ok, <<>>)
    IN  \/ queue' = [queue EXCEPT ![w] = Append(@, answer)] /\ UNCHANGED lost
        \/ lost' = TRUE /\ UNCHANGED queue

ResultOf(type) ==
    CASE type = "FileLoadRequest" -> "FileLoadResult"
      [] type = "TgaDecodeRequest" -> "TgaDecodeResult"
      [] type = "TgaEncodeRequest" -> "TgaEncodeResult"
      [] type = "FileSaveRequest" -> "FileSaveResult"

WorkerWorks(w) ==
    /\ Moves(w, "work", "check")
    /\ job' = [job EXCEPT ![w] = NoJob]
    /\ \E ok \in BOOLEAN :
         IF job[w].type = "FileSaveRequest"
         THEN /\ Answers(w, outbox, "FileSaveResult", ok)
              /\ written' = (written \/ ok)
              /\ UNCHANGED owned
         ELSE /\ Answers(w, owned, ResultOf(job[w].type), ok)
              /\ UNCHANGED <<outbox, written>>
    /\ WorkerLeaves
    /\ UNCHANGED <<controls, inbox, epoch, notify>>

(* shutdown(): the state on the way, Exiting, is told apart by nobody.     *)
WorkerExits(w) ==
    /\ Moves(w, "exiting", "return") /\ Marks(w, "Exited")
    /\ WorkerLeaves
    /\ UNCHANGED <<created, word, exitRequest, transports, epoch, notify, job, history>>

(* What a thread of either kind does in its package.                       *)
InPackage(t) ==
    /\ Enter(t) \/ Return(t)
    /\ UNCHANGED <<hostVars, job, executiveVars, history>>

WorkerWaits(w) ==
    /\ WaitForNewEpoch(w)
    /\ UNCHANGED <<hostVars, job, executiveVars, history>>

WorkerReturnsSpuriously(w) ==
    /\ SpuriousReturn(w)
    /\ UNCHANGED <<hostVars, job, executiveVars, history>>

WorkerNext(w) ==
    \/ InPackage(w) \/ WorkerRuns(w) \/ WorkerStops(w) \/ WorkerReads(w) \/ WorkerReadsNothing(w)
    \/ WorkerWorks(w) \/ WorkerWaits(w) \/ WorkerExits(w)
-----------------------------------------------------------------------------
(* CExecutiveThread.                                                       *)

Executive == "executive"
ExecutiveLeaves == UNCHANGED <<hostVars, job, created, word, exitRequest, epoch, notify, outbox, written>>

(* fail(): the host sees the failure while the executive still runs.       *)
Fails(code) ==
    /\ failure' = code /\ complete' = TRUE
    /\ Marks(Executive, "Failed")

ExecutiveCannotEnter ==
    /\ EnterFails(Executive)
    /\ UNCHANGED <<hostVars, job, executiveVars, history>>

ExecutiveInitialises ==
    /\ \/ /\ Moves(Executive, "starting", "started")
          /\ execState' = "load"
          /\ owned' = [owned EXCEPT ![Executive] =
                 Append(@, Message("TgaLoadRequest", ExecutiveSlot, TRUE, <<>>))]
          /\ UNCHANGED <<complete, failure, runState>>
       \/ /\ Moves(Executive, "starting", "shutdown")
          /\ Fails(1)
          /\ UNCHANGED <<owned, execState>>
    /\ ExecutiveLeaves /\ UNCHANGED <<inbox, lost>>

ExecutiveRuns ==
    /\ Moves(Executive, "started", "check") /\ Marks(Executive, "Running")
    /\ ExecutiveLeaves /\ UNCHANGED <<inbox, owned, executiveVars, lost>>

(* The executive polls: only the reads that find a message are steps.      *)
ExecutiveStops ==
    /\ exitRequest[Executive] \/ complete
    /\ Moves(Executive, "check", "shutdown")
    /\ ExecutiveLeaves /\ UNCHANGED <<runState, inbox, owned, executiveVars, lost>>

ExecutiveTakes(type) ==
    /\ ~exitRequest[Executive] /\ ~complete
    /\ inbox[Executive] # <<>> /\ Head(inbox[Executive]).type = type
    /\ at[Executive] = "check" /\ UNCHANGED at
    /\ inbox' = [inbox EXCEPT ![Executive] = Tail(@)]
    /\ ExecutiveLeaves /\ UNCHANGED lost

ExecutiveTakesLoadResult ==
    LET m == Head(inbox[Executive])
    IN  /\ ExecutiveTakes("TgaLoadResult")
        /\ IF execState # "load"
           THEN Fails(2) /\ UNCHANGED <<owned, execState>>
           ELSE IF ~m.ok
           THEN Fails(2) /\ execState' = "none" /\ UNCHANGED owned
           ELSE \/ /\ execState' = "save"
                   /\ owned' = [owned EXCEPT ![Executive] =
                          Append(@, Message("TgaSaveRequest", m.slot, TRUE, m.assets))]
                   /\ UNCHANGED <<complete, failure, runState>>
                \/ Fails(3) /\ execState' = "none" /\ UNCHANGED owned

(* Mutant: the executive does not look whether the save succeeded.         *)
ExecutiveTakesAnySaveResult ==
    /\ ExecutiveTakes("TgaSaveResult")
    /\ execState' = "none" /\ complete' = TRUE
    /\ UNCHANGED <<owned, failure, runState>>

ExecutiveTakesSaveResult ==
    LET m == Head(inbox[Executive])
    IN  /\ ExecutiveTakes("TgaSaveResult")
        /\ UNCHANGED owned
        /\ IF execState # "save"
           THEN Fails(4) /\ UNCHANGED execState
           ELSE /\ execState' = "none"
                /\ IF m.ok
                   THEN complete' = TRUE /\ UNCHANGED <<failure, runState>>
                   ELSE Fails(4)

(* shutdown(): a failure that was marked stays marked.                     *)
ExecutiveShutsDown ==
    /\ Moves(Executive, "shutdown", "return")
    /\ IF failure = 0 THEN Marks(Executive, "Exited") ELSE UNCHANGED runState
    /\ execState' = "none"
    /\ ExecutiveLeaves /\ UNCHANGED <<inbox, owned, complete, failure, lost>>

ExecutiveNext ==
    \/ InPackage(Executive) \/ ExecutiveCannotEnter \/ ExecutiveInitialises \/ ExecutiveRuns
    \/ ExecutiveStops
    \/ ExecutiveTakesLoadResult \/ ExecutiveTakesSaveResult
    \/ ExecutiveShutsDown
-----------------------------------------------------------------------------
(* main() has returned.                                                    *)
Finished == hostAt = "done" /\ UNCHANGED vars

Next ==
    \/ HostNext \/ ExecutiveNext \/ DebugRequestsShutdown
    \/ \E w \in Worker : WorkerNext(w) \/ WorkerReturnsSpuriously(w)
    \/ Finished

Spec == Init /\ [][Next]_vars

(* The operating system runs every thread.                                 *)
FairSpec ==
    /\ Spec
    /\ WF_vars(HostNext) /\ WF_vars(ExecutiveNext)
    /\ \A w \in Worker : WF_vars(WorkerNext(w))
-----------------------------------------------------------------------------
Kind == {"load_request", "loaded_file", "decoded_image", "save_request", "encoded_file"}
SlotKind == {"load", "decode", "encode", "save"}

TypeOK ==
    /\ \A t \in Thread :
         /\ created[t] \in BOOLEAN /\ exitRequest[t] \in BOOLEAN
         /\ word[t] \in 0 .. Released /\ epoch[t] \in 0 .. Released
         /\ runState[t] \in RunState
    /\ turn \in DOMAIN Order /\ debugShutdown \in BOOLEAN
    /\ DOMAIN assets \subseteq 1 .. nextId - 1
    /\ \A id \in DOMAIN assets : assets[id] \in Kind
    /\ DOMAIN slots \subseteq HostSlot
    /\ \A s \in DOMAIN slots : slots[s].kind \in SlotKind
    /\ execState \in {"none", "load", "save"} /\ failure \in 0 .. 4
    /\ complete \in BOOLEAN /\ written \in BOOLEAN /\ lost \in BOOLEAN

(* A worker never sleeps with a message in its queue or an exit requested, *)
(* unless the host is about to wake it: whatever the interleaving of a     *)
(* failed read and the wait with post(), its poke and its wake-up, or with *)
(* shutdown().                                                             *)
NoSleepWithMail ==
    \A w \in Worker :
        at[w] = "parked" /\ (inbox[w] # <<>> \/ exitRequest[w]) =>
            \/ notify # Idle /\ notify.thread = w
            \/ hostAt \in {"release", "rouse"} /\ Turn = w

(* Requests to and answers of the workers, wherever they are.              *)
Pending(w) == Range(inbox[w]) \cup ({job[w]} \ {NoJob})
Carried == UNION {Pending(w) \cup Range(outbox[w]) \cup Range(owned[w]) : w \in Worker}

StateFor(type) ==
    CASE type \in {"FileLoadRequest", "FileLoadResult"} -> "load"
      [] type \in {"TgaDecodeRequest", "TgaDecodeResult"} -> "decode"
      [] type \in {"TgaEncodeRequest", "TgaEncodeResult"} -> "encode"
      [] type \in {"FileSaveRequest", "FileSaveResult"} -> "save"

(* Every message between host and workers names an asynchronous state of   *)
(* the kind its answer will be taken for; and a state that is held has its *)
(* message, unless an answer was refused: no answer meets a state that was *)
(* released or redefined, and no state is leaked.                          *)
SlotsMatchMessages ==
    /\ \A m \in Carried : Holds(m.slot, StateFor(m.type))
    /\ \A s \in DOMAIN slots : lost \/ \E m \in Carried : m.slot = s

(* While the executive waits, its conversion is in exactly one place: its  *)
(* request, one state of the host, or its answer; nowhere only if a post   *)
(* whose failure is ignored was refused.                                   *)
AnswerIsOnItsWay ==
    at[Executive] \in {"started", "check"} =>
        Len(owned[Executive]) + Cardinality(DOMAIN slots) + Len(inbox[Executive])
          = IF execState = "none" \/ (lost /\ DOMAIN slots = {}) THEN 0 ELSE 1

(* What a request points into is in the repository until the worker has    *)
(* answered, and nothing is torn down under a thread that still runs.      *)
ViewsAreLive ==
    /\ \A w \in Worker : \A m \in Pending(w) : Range(m.assets) \subseteq DOMAIN assets
    /\ hostAt = "done" => \A t \in Thread : ~IsAlive(t)

(* No message, state or view is left without what it refers to.            *)
NothingDangles == TypeOK /\ SlotsMatchMessages /\ ViewsAreLive

(* An executive that completes without a failure has had its file saved.   *)
SuccessMeansSaved == complete /\ failure = 0 => written

(* The engine comes to an end by itself unless a message whose refusal is  *)
(* ignored was refused: no thread waits for another for ever.              *)
EngineEnds == <>(lost \/ hostAt = "done")

(* A shutdown that has begun completes, whatever the threads are doing.    *)
ShutdownCompletes == hostAt = "stop" ~> hostAt = "done"

(* Both: the engine comes to its end, and so does each shutdown.           *)
EngineAndShutdownEnd == EngineEnds /\ ShutdownCompletes
=============================================================================
