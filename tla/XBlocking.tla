----------------------------- MODULE XBlocking -----------------------------
(***************************************************************************)
(* BlockingServer (xserver/blocking.rs): run() waits on a watch channel    *)
(* that stop() writes.  run() clones the receiver kept in the server,      *)
(* which has never seen a value but the first, so that a run that starts   *)
(* after stop() returns at once.  The server may be shared: several calls  *)
(* of run() and of stop() may be under way.                                *)
(*                                                                         *)
(* The names of the specification differ from those of XAxum, the other    *)
(* implementation of the trait, so that one module can speak of both.      *)
(***************************************************************************)
EXTENDS Naturals

CONSTANTS
    Runs,      \* the tasks that call run()
    MaxStops   \* bound: the calls of stop()

ASSUME BlockingAssumption == MaxStops \in Nat

VARIABLES
    value,     \* the watch channel's value
    version,   \* the watch channel's version: the number of sends
    pc,        \* per run: "idle", "check" the value, "wait" for a change, "returned"
    seen       \* per run: the version its receiver has seen

blockingVars == <<value, version, pc, seen>>
-----------------------------------------------------------------------------
BlockingInit ==
    /\ value = FALSE /\ version = 0
    /\ pc = [r \in Runs |-> "idle"]
    /\ seen = [r \in Runs |-> 0]

\* Mutant: the receiver is a fresh subscription, and waits before it looks.
StartSubscribed(r) ==
    /\ pc[r] \in {"idle", "returned"}
    /\ pc' = [pc EXCEPT ![r] = "wait"]
    /\ seen' = [seen EXCEPT ![r] = version]
    /\ UNCHANGED <<value, version>>

\* run(): the clone has seen what the server's own receiver has, the first value.
Start(r) ==
    /\ pc[r] \in {"idle", "returned"}
    /\ pc' = [pc EXCEPT ![r] = "check"]
    /\ seen' = [seen EXCEPT ![r] = 0]
    /\ UNCHANGED <<value, version>>

\* `while !*rx.borrow()`: looking does not mark the value as seen.
Check(r) ==
    /\ pc[r] = "check"
    /\ pc' = [pc EXCEPT ![r] = IF value THEN "returned" ELSE "wait"]
    /\ UNCHANGED <<value, version, seen>>

\* Mutant: the runs share the server's receiver instead of cloning it.
ChangedShared(r) ==
    /\ pc[r] = "wait"
    /\ seen[r] # version
    /\ seen' = [q \in Runs |-> version]
    /\ pc' = [pc EXCEPT ![r] = "check"]
    /\ UNCHANGED <<value, version>>

\* changed() resolves when the version is not the one seen, and marks it seen.  It
\* cannot fail: the server keeps the sender.
Changed(r) ==
    /\ pc[r] = "wait"
    /\ seen[r] # version
    /\ seen' = [seen EXCEPT ![r] = version]
    /\ pc' = [pc EXCEPT ![r] = "check"]
    /\ UNCHANGED <<value, version>>

\* stop(): send(true) never fails, the server keeps a receiver.
BlockingStop ==
    /\ version < MaxStops
    /\ value' = TRUE
    /\ version' = version + 1
    /\ UNCHANGED <<pc, seen>>

BlockingNext == BlockingStop \/ \E r \in Runs : Start(r) \/ Check(r) \/ Changed(r)

\* The runtime polls a task that was woken.
BlockingFairness == \A r \in Runs : WF_blockingVars(Check(r) \/ Changed(r))

BlockingSpec == BlockingInit /\ [][BlockingNext]_blockingVars /\ BlockingFairness
-----------------------------------------------------------------------------
BlockingTypeOK ==
    /\ value \in BOOLEAN /\ version \in 0 .. MaxStops /\ (value <=> version > 0)
    /\ pc \in [Runs -> {"idle", "check", "wait", "returned"}]
    /\ seen \in [Runs -> 0 .. version]

\* No stop is lost: a run that is asleep although stop() was called is due to wake,
\* whether the call came before run(), between the look and the wait, or during
\* the wait (blocking.rs: `while !*rx.borrow()`, changed()).
NoStopLost == \A r \in Runs : pc[r] = "wait" /\ version > 0 => seen[r] # version

\* BlockingServer keeps the contract of the Server trait.
BlockingContract == INSTANCE ServerContract WITH
         serving <- {r \in Runs : pc[r] \in {"check", "wait"}}, told <- version > 0
BlockingHonoursContract == BlockingContract!ContractSpec
=============================================================================
