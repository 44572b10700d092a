----------------------------- MODULE ThreadLifetime -----------------------------
(***************************************************************************)
(* platform::threading::CThread                                            *)
(* (src/core/platform/threading/thread_lifetime.cpp): the object that owns *)
(* the join token of a native thread, and is the argument of that thread:  *)
(* the thread reads its entry point and its user data out of the object    *)
(* when it gets to run.                                                    *)
(***************************************************************************)
EXTENDS Naturals, FiniteSets

CONSTANTS
    NativeThread,       \* the threads of the operating system
    NoThread,
    MaxStarts           \* bound: the threads that are started

StartsAssumption == MaxStarts \in Nat /\ NoThread \notin NativeThread

VARIABLES
    token,              \* m_native_token, meaningful while isValid
    isValid,            \* m_valid
    entry,              \* m_entry_point and m_user_data: the work of a start, or 0
    native,             \* each native thread: step, the work it has read, the work it was for
    starts,             \* how many threads have been started
    joining,            \* whether the owner is inside join_and_close()
    joined,             \* the starts whose join succeeded
    abandons            \* whether close_handle() is ever called on a running thread

lifetimeVars == <<token, isValid, entry, native, starts, joining, joined, abandons>>

Unused == [step |-> "none", read |-> 0, for |-> 0, self |-> FALSE]

LifetimeInit ==
    /\ token = NoThread /\ isValid = FALSE /\ entry = 0
    /\ native = [n \in NativeThread |-> Unused]
    /\ starts = 0 /\ joining = FALSE /\ joined = {}
    /\ abandons \in BOOLEAN

Clear == token' = NoThread /\ isValid' = FALSE /\ entry' = 0

(* create(): the thread may run before create() has stored its token.      *)
Create ==
    /\ ~joining /\ ~isValid /\ token = NoThread /\ entry = 0 /\ starts < MaxStarts
    /\ entry' = starts + 1 /\ starts' = starts + 1
    /\ UNCHANGED <<token, isValid, native, joining, joined, abandons>>

CreateNative ==
    /\ ~isValid /\ token = NoThread /\ entry # 0
    /\ \/ \E n \in NativeThread :
            /\ native[n].step = "none" /\ n # NoThread
            /\ native' = [native EXCEPT ![n] = [Unused EXCEPT !.step = "shim", !.for = entry]]
            /\ token' = n
            /\ UNCHANGED <<isValid, entry>>
       \/ Clear /\ UNCHANGED native         \* create_native_thread() failed
    /\ UNCHANGED <<starts, joining, joined, abandons>>

CreateReturns ==
    /\ token # NoThread /\ ~isValid
    /\ isValid' = TRUE
    /\ UNCHANGED <<token, entry, native, starts, joining, joined, abandons>>

(* entry_point_shim(): both pointers are tested, and read again to call.   *)
ShimTests(n) ==
    /\ native[n].step = "shim"
    /\ native' = [native EXCEPT ![n].step = IF entry # 0 THEN "call" ELSE "ended"]
    /\ UNCHANGED <<token, isValid, entry, starts, joining, joined, abandons>>

ShimCalls(n) ==
    /\ native[n].step = "call"
    /\ native' = [native EXCEPT ![n].step = "running", ![n].read = entry]
    /\ UNCHANGED <<token, isValid, entry, starts, joining, joined, abandons>>

EntryReturns(n) ==
    /\ native[n].step = "running"
    /\ native' = [native EXCEPT ![n].step = "ended"]
    /\ UNCHANGED <<token, isValid, entry, starts, joining, joined, abandons>>

(* A thread that calls join_and_close() on its own object is refused.      *)
SelfJoin(n) ==
    /\ native[n].step = "running" /\ token = n /\ isValid /\ ~native[n].self
    /\ native' = [native EXCEPT ![n].self = TRUE]
    /\ UNCHANGED <<token, isValid, entry, starts, joining, joined, abandons>>

Join ==
    /\ isValid /\ ~joining
    /\ joining' = TRUE
    /\ UNCHANGED <<token, isValid, entry, native, starts, joined, abandons>>

(* Mutant: the object is cleared without waiting for the thread.           *)
JoinsWithoutWaiting ==
    /\ joining
    /\ Clear /\ joined' = joined \cup {native[token].for}
    /\ native' = [native EXCEPT ![token].self = TRUE]
    /\ joining' = FALSE
    /\ UNCHANGED <<starts, abandons>>

(* The native join waits for the end of the thread, and may fail.          *)
JoinReturns ==
    /\ joining
    /\ \/ /\ native[token].step = "ended"
          /\ Clear /\ joined' = joined \cup {native[token].for}
          /\ native' = [native EXCEPT ![token] = Unused]
       \/ UNCHANGED <<token, isValid, entry, native, joined>>
    /\ joining' = FALSE
    /\ UNCHANGED <<starts, abandons>>

(* close_handle(), and the destructor.                                     *)
CloseHandle ==
    /\ isValid /\ ~joining
    /\ abandons \/ native[token].step = "ended"
    /\ Clear
    /\ UNCHANGED <<native, starts, joining, joined, abandons>>

LifetimeNext ==
    \/ Create \/ CreateNative \/ CreateReturns
    \/ Join \/ JoinReturns \/ CloseHandle
    \/ \E n \in NativeThread : ShimTests(n) \/ ShimCalls(n) \/ EntryReturns(n) \/ SelfJoin(n)
-----------------------------------------------------------------------------
(* A thread that is joined, or closed once it has ended, ran its own entry *)
(* point with its own user data, and ran it to its end.                    *)
ThreadsRunTheirEntry ==
    ~abandons => \A n \in NativeThread :
        /\ native[n].step \in {"running", "ended"} => native[n].read = native[n].for
        /\ native[n].for \in joined => native[n].step = "none"

(* "close_handle() abandons join ownership only. It does not stop the      *)
(* running thread": every thread that ends has run its entry point.        *)
ClosingStopsNothing ==
    \A n \in NativeThread : native[n].step \in {"running", "ended"} => native[n].read = native[n].for
================================================================================
