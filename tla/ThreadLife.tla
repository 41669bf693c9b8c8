----------------------------- MODULE ThreadLife -----------------------------
(***************************************************************************)
(* The life of Thread objects (include/thread.h, util/thread.cc), with the *)
(* per-thread buffer pools of ThreadCtx (include/thread-ctx.h) and the log *)
(* they all write to (Logger and ConsoleLogWriter, include/logger.h).      *)
(*                                                                         *)
(* Main sets the Logger up and tears it down as the test fixture does      *)
(* (include/unit-test.h).  It owns the objects: it starts, cancels, joins  *)
(* or detaches, destroys and deletes them.  It keeps to the assumption     *)
(* stated in util/thread.cc:18-21: it destroys or deletes an object only   *)
(* when its thread does not run.                                           *)
(*                                                                         *)
(* A thread started on object t is called t, too.  Its pool is <<t, n>> if *)
(* it is the n-th one.  What ThreadMain does is the client's business: it  *)
(* may fill the pool, call GarbageCollect, write messages, reach a         *)
(* cancellation point and return.  It disables cancellation around its     *)
(* messages, as ThFn does around its own: ThreadCtx and Thread log only    *)
(* with cancellation disabled, and so has the client to.                   *)
(***************************************************************************)
EXTENDS Naturals, FiniteSets

CONSTANTS Threads, Main, NULL,
          MaxStarts,        \* bound: how often an object is started
          MaxBuffers,       \* bound: buffers in a pool
          Busy,             \* bound: only these objects are started again, and only
                            \* their threads fill a pool
          DestroyFirst      \* does Main call Destroy before a second Start?

ASSUME LifeAssumption ==
  /\ Main \notin Threads
  /\ NULL \notin Threads
  /\ MaxStarts \in Nat
  /\ MaxBuffers \in Nat
  /\ Busy \subseteq Threads
  /\ DestroyFirst \in BOOLEAN

Pools == Threads \X (1..MaxStarts)

ASSUME PoolAssumption == NULL \notin Pools

Processes == Threads \cup {Main}

VARIABLES
  object,     \* object[t]: "owned", "detached" or "deleted"
  ctx_pool_,  \* ctx_pool_[t]: the field of the object
  starts,     \* starts[t]: the threads started on it so far
  pc,         \* pc[p]: where thread or Main is
  target,     \* the object Main works on
  state,      \* state[t]: "none", "joinable", "joined" or "detached" (pthread)
  enabled,    \* enabled[t]: cancellation is enabled
  pending,    \* pending[t]: cancellation is requested
  pool_,      \* pool_[t]: the thread-local pointer
  live,       \* the pools allocated and not freed
  pooled,     \* pooled[b]: the number of buffers in pool b
  log,        \* log[p]: how far p is with the message it writes
  isopen_,    \* of ConsoleLogWriter
  logger_,    \* Singleton<Logger>: "none", "bare" (no writer_ yet) or "attached"
  printstat,  \* the static flag of ThreadCtx::Cleanup
  printed     \* history: the threads that printed the statistics

vars == <<object, ctx_pool_, starts, pc, target, state, enabled, pending,
          pool_, live, pooled, log, isopen_, logger_, printstat, printed>>

objectVars == <<object, ctx_pool_, starts, state>>
poolVars == <<pool_, live, pooled>>
staticVars == <<logger_, printstat, printed>>

\* Mutant: the constructor leaves ctx_pool_ as it finds it.
MInitGarbage ==
  /\ object = [t \in Threads |-> "owned"]
  /\ ctx_pool_ = [t \in Threads |-> "garbage"]
  /\ starts = [t \in Threads |-> 0]
  /\ pc = [p \in Processes |-> IF p = Main THEN "setup" ELSE "none"]
  /\ target = NULL
  /\ state = [t \in Threads |-> "none"]
  /\ enabled = [t \in Threads |-> TRUE]
  /\ pending = [t \in Threads |-> FALSE]
  /\ pool_ = [t \in Threads |-> NULL]
  /\ live = {}
  /\ pooled = [b \in Pools |-> 0]
  /\ log = [p \in Processes |-> "done"]
  /\ isopen_ = TRUE
  /\ logger_ = "none"
  /\ printstat = TRUE
  /\ printed = {}

Init ==
  /\ object = [t \in Threads |-> "owned"]
  /\ ctx_pool_ = [t \in Threads |-> NULL]
  /\ starts = [t \in Threads |-> 0]
  /\ pc = [p \in Processes |-> IF p = Main THEN "setup" ELSE "none"]
  /\ target = NULL
  /\ state = [t \in Threads |-> "none"]
  /\ enabled = [t \in Threads |-> TRUE]
  /\ pending = [t \in Threads |-> FALSE]
  /\ pool_ = [t \in Threads |-> NULL]
  /\ live = {}
  /\ pooled = [b \in Pools |-> 0]
  /\ log = [p \in Processes |-> "done"]
  /\ isopen_ = TRUE
  /\ logger_ = "none"
  /\ printstat = TRUE
  /\ printed = {}

-----------------------------------------------------------------------------
(* ConsoleLogWriter::Append: exchange isopen_ for false, write, reset it.  *)

\* Where a process with this value in expected is before its next exchange.
Expect(open) == IF open THEN "open" ELSE "closed"

\* isopen_ is what compare_exchange_strong expects.
LogEnter(p) ==
  /\ log[p] = Expect(isopen_)
  /\ isopen_' = FALSE
  /\ log' = [log EXCEPT ![p] = "write"]
  /\ UNCHANGED <<objectVars, pc, target, enabled, pending, poolVars, staticVars>>

\* It is not: the exchange fails and leaves in expected what it found there.
\* The loop does not set expected to true again.
LogRetry(p) ==
  /\ log[p] = Expect(~isopen_)
  /\ log' = [log EXCEPT ![p] = Expect(isopen_)]
  /\ UNCHANGED <<objectVars, pc, target, enabled, pending, poolVars, isopen_, staticVars>>

\* The write changes nothing modelled; the reset of isopen_ after it does.
LogWrite(p) ==
  /\ log[p] = "write"
  /\ isopen_' = TRUE
  /\ log' = [log EXCEPT ![p] = "done"]
  /\ UNCHANGED <<objectVars, pc, target, enabled, pending, poolVars, staticVars>>

Log(p) == LogEnter(p) \/ LogRetry(p) \/ LogWrite(p)

\* p leaves one place for another, where it first writes a message, or not.
Goto(p, from, to) ==
  /\ pc[p] = from
  /\ log[p] = "done"
  /\ pc' = [pc EXCEPT ![p] = to]
  /\ UNCHANGED log

GotoLog(p, from, to) ==
  /\ pc[p] = from
  /\ log[p] = "done"
  /\ pc' = [pc EXCEPT ![p] = to]
  /\ log' = [log EXCEPT ![p] = Expect(TRUE)]

-----------------------------------------------------------------------------
(* Thread::ThFn and ThreadCtx.                                             *)

\* DisableThreadCancellation, and the message of ThreadCtx::Init.
Enter(t) ==
  /\ GotoLog(t, "enter", "init")
  /\ enabled' = [enabled EXCEPT ![t] = FALSE]
  /\ UNCHANGED <<objectVars, target, pending, poolVars, isopen_, staticVars>>

Pool(t) == <<t, starts[t]>>

\* Mutant: cancellation stays disabled in ThreadMain.
MInitPoolDisabled(t) ==
  /\ Goto(t, "init", "main")
  /\ pool_' = [pool_ EXCEPT ![t] = Pool(t)]
  /\ live' = live \cup {Pool(t)}
  /\ ctx_pool_' = [ctx_pool_ EXCEPT ![t] = Pool(t)]
  /\ UNCHANGED <<object, starts, state, target, enabled, pending, pooled, isopen_, staticVars>>

\* The rest of ThreadCtx::Init, and EnableThreadCancellation.
InitPool(t) ==
  /\ Goto(t, "init", "main")
  /\ pool_' = [pool_ EXCEPT ![t] = Pool(t)]
  /\ live' = live \cup {Pool(t)}
  /\ ctx_pool_' = [ctx_pool_ EXCEPT ![t] = Pool(t)]
  /\ enabled' = [enabled EXCEPT ![t] = TRUE]
  /\ UNCHANGED <<object, starts, state, target, pending, pooled, isopen_, staticVars>>

PoolBuffer(t) ==
  /\ t \in Busy
  /\ Goto(t, "main", "main")
  /\ pooled[pool_[t]] < MaxBuffers
  /\ pooled' = [pooled EXCEPT ![pool_[t]] = @ + 1]
  /\ UNCHANGED <<objectVars, target, enabled, pending, pool_, live, isopen_, staticVars>>

\* GarbageCollect after its timeout.
GarbageCollect(t) ==
  /\ Goto(t, "main", "main")
  /\ pooled' = [pooled EXCEPT ![pool_[t]] = 0]
  /\ UNCHANGED <<objectVars, target, enabled, pending, pool_, live, isopen_, staticVars>>

\* DisableThreadCancellation, a message, EnableThreadCancellation.
MainLogs(t) ==
  /\ GotoLog(t, "main", "guarded")
  /\ enabled' = [enabled EXCEPT ![t] = FALSE]
  /\ UNCHANGED <<objectVars, target, pending, poolVars, isopen_, staticVars>>

MainLogged(t) ==
  /\ Goto(t, "guarded", "main")
  /\ enabled' = [enabled EXCEPT ![t] = TRUE]
  /\ UNCHANGED <<objectVars, target, pending, poolVars, isopen_, staticVars>>

\* Mutant: cancellation stays enabled in Cleanup.
MMainReturnsEnabled(t) ==
  /\ GotoLog(t, "main", "cleanup")
  /\ UNCHANGED <<objectVars, target, enabled, pending, poolVars, isopen_, staticVars>>

\* ThreadMain returns: DisableThreadCancellation, the message of Cleanup.
MainReturns(t) ==
  /\ GotoLog(t, "main", "cleanup")
  /\ enabled' = [enabled EXCEPT ![t] = FALSE]
  /\ UNCHANGED <<objectVars, target, pending, poolVars, isopen_, staticVars>>

\* The test, and the first of the two messages.
TestStat(t) ==
  /\ IF printstat THEN GotoLog(t, "cleanup", "stat") ELSE Goto(t, "cleanup", "unlink")
  /\ UNCHANGED <<objectVars, target, enabled, pending, poolVars, isopen_, staticVars>>

PrintHits(t) ==
  /\ GotoLog(t, "stat", "hits")
  /\ UNCHANGED <<objectVars, target, enabled, pending, poolVars, isopen_, staticVars>>

StatPrinted(t) ==
  /\ Goto(t, "hits", "unlink")
  /\ printstat' = FALSE
  /\ printed' = printed \cup {t}
  /\ UNCHANGED <<objectVars, target, enabled, pending, poolVars, isopen_, logger_>>

\* Mutant: the object keeps its pointer to the pool.
MUnlinkPoolKeep(t) ==
  /\ Goto(t, "unlink", "free")
  /\ UNCHANGED <<objectVars, target, enabled, pending, poolVars, isopen_, staticVars>>

\* tinst_->ctx_pool_ = NULL
UnlinkPool(t) ==
  /\ Goto(t, "unlink", "free")
  /\ ctx_pool_' = [ctx_pool_ EXCEPT ![t] = NULL]
  /\ UNCHANGED <<object, starts, state, target, enabled, pending, poolVars, isopen_, staticVars>>

\* Cleanup(pool): the buffers, then the lists.
FreePool(b) ==
  /\ live' = live \ {b}
  /\ pooled' = [pooled EXCEPT ![b] = 0]

CleanupPool(t) ==
  /\ Goto(t, "free", "exited")
  /\ FreePool(pool_[t])
  /\ pool_' = [pool_ EXCEPT ![t] = NULL]
  /\ enabled' = [enabled EXCEPT ![t] = TRUE]
  /\ UNCHANGED <<objectVars, target, pending, isopen_, staticVars>>

\* ThreadMain's cancellation points, and the write of a message.
CancellationPoint(t) == pc[t] = "main" \/ log[t] = "write"

\* A requested cancellation takes effect.
Cancelled(t) ==
  /\ pending[t] /\ enabled[t]
  /\ CancellationPoint(t)
  /\ pc' = [pc EXCEPT ![t] = "exited"]
  /\ log' = [log EXCEPT ![t] = "done"]
  /\ UNCHANGED <<objectVars, target, enabled, pending, poolVars, isopen_, staticVars>>

Run(t) ==
  \/ Enter(t) \/ InitPool(t) \/ MainLogged(t) \/ TestStat(t) \/ PrintHits(t)
  \/ StatPrinted(t) \/ UnlinkPool(t) \/ CleanupPool(t) \/ Cancelled(t)

ThreadMain(t) ==
  PoolBuffer(t) \/ GarbageCollect(t) \/ MainLogs(t) \/ MainReturns(t)

-----------------------------------------------------------------------------
(* Main                                                                    *)

\* The fixture's SetUp and TearDown around everything: LogHelper creates the
\* Logger and then attaches its writer; it is destroyed after the objects.
SetLogger(from, to, logger) ==
  /\ Goto(Main, from, to)
  /\ logger_' = logger
  /\ UNCHANGED <<objectVars, target, enabled, pending, poolVars, isopen_, printstat, printed>>

InitLogger == SetLogger("setup", "attach", "bare")
AttachWriter == SetLogger("attach", "idle", "attached")

\* Mutant: the Logger goes before the objects, when their threads are joined.
MTearDownFirst ==
  /\ \A t \in Threads : state[t] \in {"none", "joined"}
  /\ SetLogger("idle", "idle", "none")

TearDown ==
  /\ \A t \in Threads : object[t] = "deleted"
  /\ SetLogger("idle", "down", "none")

\* Main may destroy the object: no thread of it runs, and none is unjoined.
Quiet(t) == object[t] = "owned" /\ state[t] \in {"none", "joined"}

Start(t) ==
  /\ Quiet(t)
  /\ starts[t] < MaxStarts
  /\ starts[t] > 0 => t \in Busy
  /\ DestroyFirst => ctx_pool_[t] = NULL
  /\ pc[Main] = "idle" /\ log[Main] = "done"
  /\ pc' = [pc EXCEPT ![Main] = "start", ![t] = "enter"]
  /\ log' = [log EXCEPT ![Main] = Expect(TRUE)]
  /\ starts' = [starts EXCEPT ![t] = @ + 1]
  /\ state' = [state EXCEPT ![t] = "joinable"]
  /\ enabled' = [enabled EXCEPT ![t] = TRUE]
  /\ pending' = [pending EXCEPT ![t] = FALSE]
  /\ pool_' = [pool_ EXCEPT ![t] = NULL]
  /\ UNCHANGED <<object, ctx_pool_, target, live, pooled, isopen_, staticVars>>

Started ==
  /\ Goto(Main, "start", "idle")
  /\ UNCHANGED <<objectVars, target, enabled, pending, poolVars, isopen_, staticVars>>

Cancel(t) ==
  /\ state[t] = "joinable"
  /\ Goto(Main, "idle", "idle")
  /\ pending' = [pending EXCEPT ![t] = TRUE]
  /\ UNCHANGED <<objectVars, target, enabled, poolVars, isopen_, staticVars>>

Join(t) ==
  /\ state[t] = "joinable"
  /\ Goto(Main, "idle", "join")
  /\ target' = t
  /\ UNCHANGED <<objectVars, enabled, pending, poolVars, isopen_, staticVars>>

Joined ==
  /\ Goto(Main, "join", "idle")
  /\ pc[target] = "exited"
  /\ state' = [state EXCEPT ![target] = "joined"]
  /\ target' = NULL
  /\ UNCHANGED <<object, ctx_pool_, starts, enabled, pending, poolVars, isopen_, staticVars>>

Detach(t) ==
  /\ state[t] = "joinable"
  /\ Goto(Main, "idle", "idle")
  /\ state' = [state EXCEPT ![t] = "detached"]
  /\ object' = [object EXCEPT ![t] = "detached"]
  /\ UNCHANGED <<ctx_pool_, starts, target, enabled, pending, poolVars, isopen_, staticVars>>

\* Mutant: the pool of a cancelled thread is forgotten.
MDestroyKeepsPool(t, fate) ==
  /\ Quiet(t)
  /\ GotoLog(Main, "idle", "destroyed")
  /\ target' = t
  /\ object' = [object EXCEPT ![t] = fate]
  /\ UNCHANGED <<ctx_pool_, starts, state, enabled, pending, poolVars, isopen_, staticVars>>

\* Destroy, of its own or by the destructor (then the object is deleted).
Destroy(t, fate) ==
  /\ Quiet(t)
  /\ GotoLog(Main, "idle", IF ctx_pool_[t] = NULL THEN "destroyed" ELSE "destroy")
  /\ target' = t
  /\ object' = [object EXCEPT ![t] = fate]
  /\ UNCHANGED <<ctx_pool_, starts, state, enabled, pending, poolVars, isopen_, staticVars>>

DestroyPool ==
  /\ GotoLog(Main, "destroy", "destroyed")
  /\ FreePool(ctx_pool_[target])
  /\ ctx_pool_' = [ctx_pool_ EXCEPT ![target] = NULL]
  /\ UNCHANGED <<object, starts, state, target, enabled, pending, pool_, isopen_, staticVars>>

Destroyed ==
  /\ Goto(Main, "destroyed", "idle")
  /\ target' = NULL
  /\ UNCHANGED <<objectVars, enabled, pending, poolVars, isopen_, staticVars>>

MainCalls ==
  \/ \E t \in Threads :
       \/ Start(t) \/ Cancel(t) \/ Join(t) \/ Detach(t)
       \/ \E fate \in {"owned", "deleted"} : Destroy(t, fate)
  \/ TearDown

MainGoesOn ==
  InitLogger \/ AttachWriter \/ Started \/ Joined \/ DestroyPool \/ Destroyed

-----------------------------------------------------------------------------
Next ==
  \/ \E p \in Processes : Log(p)
  \/ \E t \in Threads : Run(t) \/ ThreadMain(t)
  \/ MainCalls
  \/ MainGoesOn

Spec == Init /\ [][Next]_vars

\* All threads are scheduled; no thread's exchanges fail for ever; a ThreadMain
\* that enables cancellation again and again reaches a cancellation point at
\* one of these times, but need not return.  Main need not go on, except from
\* a Join that may return.
Fairness ==
  /\ \A t \in Threads :
       WF_vars(Run(t) \/ Log(t)) /\ SF_vars(LogEnter(t)) /\ SF_vars(Cancelled(t))
  /\ WF_vars(Joined)

FairSpec == Spec /\ Fairness

-----------------------------------------------------------------------------
TypeOK ==
  /\ object \in [Threads -> {"owned", "detached", "deleted"}]
  /\ ctx_pool_ \in [Threads -> Pools \cup {NULL}]
  /\ starts \in [Threads -> 0..MaxStarts]
  /\ pc \in [Processes -> {"none", "enter", "init", "main", "guarded", "cleanup", "stat",
                           "hits", "unlink", "free", "exited",
                           "setup", "attach", "idle", "start", "join", "destroy",
                           "destroyed", "down"}]
  /\ target \in Threads \cup {NULL}
  /\ state \in [Threads -> {"none", "joinable", "joined", "detached"}]
  /\ enabled \in [Threads -> BOOLEAN]
  /\ pending \in [Threads -> BOOLEAN]
  /\ pool_ \in [Threads -> Pools \cup {NULL}]
  /\ live \subseteq Pools
  /\ pooled \in [Pools -> 0..MaxBuffers]
  /\ log \in [Processes -> {"open", "closed", "write", "done"}]
  /\ isopen_ \in BOOLEAN
  /\ logger_ \in {"none", "bare", "attached"}
  /\ printstat \in BOOLEAN
  /\ printed \subseteq Threads

(***************************************************************************)
(* However a thread ends, cancelled at any point or by returning, its pool *)
(* stays within reach of the object or of the thread that is about to free *)
(* it, and nothing is left when the object is deleted, neither the pool    *)
(* nor its buffers (util/thread.cc:12-52, include/thread-ctx.h:55-92).     *)
(***************************************************************************)
NoLeak ==
  /\ \A t \in Threads, n \in 1..MaxStarts : <<t, n>> \in live =>
       \/ ctx_pool_[t] = <<t, n>> /\ (object[t] = "deleted" => target = t)
       \/ pool_[t] = <<t, n>> /\ pc[t] = "free"
  /\ \A b \in Pools \ live : pooled[b] = 0

(***************************************************************************)
(* Nobody holds a pool that was freed: neither Destroy nor a second one    *)
(* after it, nor the thread itself, frees or uses a pool that is gone      *)
(* (util/thread.cc:14-24, include/thread-ctx.h:70-77).                     *)
(***************************************************************************)
NoDangling ==
  \A t \in Threads :
    /\ ctx_pool_[t] # NULL => ctx_pool_[t] \in live
    /\ pc[t] \in {"main", "guarded", "cleanup", "stat", "hits", "unlink", "free"}
         => pool_[t] \in live

(***************************************************************************)
(* Whether it returns or is cancelled, at any point, a thread ends outside *)
(* of a message, of ThreadCtx::Init and of Cleanup: nothing of it is left  *)
(* half done, and it and its object agree on the pool, so that Destroy     *)
(* frees it exactly if the thread did not (util/thread.cc:12-52,           *)
(* include/thread-ctx.h:40-78).                                            *)
(***************************************************************************)
ThreadsEndInOrder ==
  [][\A t \in Threads : pc[t] # "exited" /\ pc'[t] = "exited" =>
       log[t] = "done" /\ pool_'[t] = ctx_pool_'[t]]_vars

(***************************************************************************)
(* Whoever is in a LogMessage finds the Logger, with its writer: no thread *)
(* and no destructor of an object writes before SetUp is over or after     *)
(* TearDown (include/logger.h:132-151, 219-228, include/util.h:312-329,    *)
(* include/unit-test.h:15-25, test/thread-test.cc:33-54).                  *)
(***************************************************************************)
LoggerServes == \A p \in Processes : log[p] # "done" => logger_ = "attached"

(***************************************************************************)
(* A Join of a thread that was asked to cancel returns, even if its        *)
(* ThreadMain never does (include/thread.h:53-70, util/thread.cc:37-49).   *)
(***************************************************************************)
CancelledJoinReturns ==
  \A t \in Threads :
    (pc[Main] = "join" /\ target = t /\ pending[t]) ~> pc[Main] # "join"

(***************************************************************************)
(* The log is closed to others while somebody writes: "while               *)
(* (!isopen_.compare_exchange_strong(expected, false));" comes before the  *)
(* write and "isopen_ = true;" after it (include/logger.h:198-204).        *)
(***************************************************************************)
OneWriter == \A p, q \in Processes : log[p] = "write" /\ log[q] = "write" => p = q

(***************************************************************************)
(* "Little trick to prevent printing of stats for every thread"            *)
(* (include/thread-ctx.h:62-68).                                           *)
(***************************************************************************)
NotEveryThreadPrints == printed # Threads

=============================================================================
