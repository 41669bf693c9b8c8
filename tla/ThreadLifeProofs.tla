-------------------------- MODULE ThreadLifeProofs --------------------------
(***************************************************************************)
(* Proofs about ThreadLife (include/thread.h, util/thread.cc,              *)
(* include/thread-ctx.h), for any number of objects, starts and buffers.   *)
(***************************************************************************)
EXTENDS ThreadLife, TLAPS

\* Where a thread has a pool of its own.
Pooling == {"main", "guarded", "cleanup", "stat", "hits", "unlink", "free"}
\* Where a thread runs with cancellation disabled.
Protected == {"init", "guarded", "cleanup", "stat", "hits", "unlink", "free"}
ThreadLabels == {"none", "enter", "init", "exited"} \cup Pooling
MainLabels == {"setup", "attach", "idle", "start", "join", "destroy", "destroyed", "down"}

\* Main's view of a thread agrees with the thread.
ProtocolInv ==
  /\ pc[Main] \in MainLabels
  /\ pc[Main] \in {"join", "destroy", "destroyed"} <=> target # NULL
  /\ pc[Main] = "join" => state[target] = "joinable"
  /\ pc[Main] \in {"destroy", "destroyed"} => state[target] \in {"none", "joined"}
  /\ \A t \in Threads :
       /\ pc[t] \in ThreadLabels
       /\ state[t] \in {"none", "joined"} => pc[t] \in {"none", "exited"}
       /\ pc[t] # "none" => starts[t] >= 1
       /\ object[t] = "deleted" => state[t] \in {"none", "joined"}

\* Only a thread that cannot be cancelled is writing a message.
CancelInv ==
  \A t \in Threads :
    /\ pc[t] \in Protected => ~enabled[t]
    /\ log[t] # "done" => pc[t] \in Protected

LifeInv == TypeOK /\ ProtocolInv /\ CancelInv

\* The invariant holds before the first Start.
LEMMA InitLifeInv == Init => LifeInv
  BY LifeAssumption
     DEF Init, LifeInv, TypeOK, ProtocolInv, CancelInv,
         Processes, Pools, ThreadLabels, MainLabels, Pooling, Protected

\* Every step of Main and of a thread keeps the invariant: a thread
\* writes messages only between DisableThreadCancellation and
\* EnableThreadCancellation (util/thread.cc:37-49).
LEMMA NextLifeInv == LifeInv /\ [Next]_vars => LifeInv'
<1> SUFFICES ASSUME LifeInv, [Next]_vars PROVE LifeInv'
  OBVIOUS
<1> USE LifeAssumption
    DEF LifeInv, TypeOK, ProtocolInv, CancelInv,
        Processes, ThreadLabels, MainLabels, Pooling, Protected,
        Goto, GotoLog, Expect, objectVars, poolVars, staticVars
<1>1. ASSUME NEW p \in Processes, Log(p) PROVE LifeInv'
  <2>1. CASE LogEnter(p)
    BY <2>1 DEF LogEnter, Expect
  <2>2. CASE LogRetry(p)
    BY <2>2 DEF LogRetry, Expect
  <2>3. CASE LogWrite(p)
    BY <2>3 DEF LogWrite
  <2>4. QED
    BY <1>1, <2>1, <2>2, <2>3 DEF Log
<1>2. ASSUME NEW t \in Threads, Enter(t) PROVE LifeInv'
  BY <1>2 DEF Enter
<1>3. ASSUME NEW t \in Threads, InitPool(t) PROVE LifeInv'
  <2>1. TypeOK'
    BY <1>3 DEF InitPool, Pool, Pools
  <2>2. ProtocolInv'
    BY <1>3 DEF InitPool, Pool, Pools
  <2>3. CancelInv'
    BY <1>3 DEF InitPool, Pool, Pools
  <2>4. QED
    BY ONLY <2>1, <2>2, <2>3 DEF LifeInv
<1>4. ASSUME NEW t \in Threads, PoolBuffer(t) \/ GarbageCollect(t) PROVE LifeInv'
  <2>1. pooled' \in [Pools -> 0..MaxBuffers]
    <3>1. CASE PoolBuffer(t)
      <4>1. \A b \in Pools : pooled'[b] \in 0..MaxBuffers
        BY <3>1 DEF PoolBuffer
      <4>2. pooled' = [pooled EXCEPT ![pool_[t]] = @ + 1]
        BY <3>1 DEF PoolBuffer
      <4>3. QED
        BY <4>1, <4>2
    <3>2. CASE GarbageCollect(t)
      <4>1. \A b \in Pools : pooled'[b] \in 0..MaxBuffers
        BY <3>2 DEF GarbageCollect
      <4>2. pooled' = [pooled EXCEPT ![pool_[t]] = 0]
        BY <3>2 DEF GarbageCollect
      <4>3. QED
        BY <4>1, <4>2
    <3>3. QED
      BY <1>4, <3>1, <3>2
  <2>2. /\ UNCHANGED <<objectVars, target, enabled, pending, pool_, live, isopen_, staticVars>>
        /\ Goto(t, "main", "main")
    BY <1>4 DEF PoolBuffer, GarbageCollect
  <2>3. QED
    BY <2>1, <2>2
<1>5. ASSUME NEW t \in Threads, MainReturns(t) \/ MainLogs(t) PROVE LifeInv'
  <2>1. CASE MainReturns(t)
    BY <2>1 DEF MainReturns
  <2>2. CASE MainLogs(t)
    BY <2>2 DEF MainLogs
  <2>3. QED
    BY <1>5, <2>1, <2>2
<1>6. ASSUME NEW t \in Threads, MainLogged(t) PROVE LifeInv'
  BY <1>6 DEF MainLogged
<1>7. ASSUME NEW t \in Threads, TestStat(t) \/ PrintHits(t) PROVE LifeInv'
  <2>1. CASE TestStat(t)
    BY <2>1 DEF TestStat
  <2>2. CASE PrintHits(t)
    BY <2>2 DEF PrintHits
  <2>3. QED
    BY <1>7, <2>1, <2>2
<1>8. ASSUME NEW t \in Threads, StatPrinted(t) PROVE LifeInv'
  <2>1. TypeOK'
    <3>1. pc' = [pc EXCEPT ![t] = "unlink"] /\ printstat' = FALSE /\ printed' = printed \cup {t}
      BY <1>8 DEF StatPrinted
    <3>2. UNCHANGED <<object, ctx_pool_, starts, state, target, enabled, pending, pool_,
                      live, pooled, log, isopen_, logger_>>
      BY <1>8 DEF StatPrinted
    <3>3. QED
      BY ONLY TypeOK, <3>1, <3>2 DEF TypeOK
  <2>2. ProtocolInv'
    BY <1>8 DEF StatPrinted
  <2>3. CancelInv'
    BY <1>8 DEF StatPrinted
  <2>4. QED
    BY ONLY <2>1, <2>2, <2>3 DEF LifeInv
<1>9. ASSUME NEW t \in Threads, UnlinkPool(t) PROVE LifeInv'
  BY <1>9 DEF UnlinkPool
<1>10. ASSUME NEW t \in Threads, CleanupPool(t) PROVE LifeInv'
  <2>1. TypeOK'
    <3>1. pooled' = [pooled EXCEPT ![pool_[t]] = 0] /\ live' \subseteq Pools
      BY <1>10 DEF CleanupPool, FreePool
    <3>2. pooled' \in [Pools -> 0..MaxBuffers]
      <4>1. pooled \in [Pools -> 0..MaxBuffers] /\ 0 \in 0..MaxBuffers
        OBVIOUS
      <4>2. QED
        BY ONLY <3>1, <4>1
    <3>3. QED
      BY <1>10, <3>1, <3>2 DEF CleanupPool
  <2>2. ProtocolInv'
    BY <1>10 DEF CleanupPool, FreePool
  <2>3. CancelInv'
    BY <1>10 DEF CleanupPool, FreePool
  <2>4. QED
    BY ONLY <2>1, <2>2, <2>3 DEF LifeInv
<1>11. ASSUME NEW t \in Threads, Cancelled(t) PROVE LifeInv'
  BY <1>11 DEF Cancelled, CancellationPoint
<1>12. ASSUME NEW t \in Threads, Start(t) PROVE LifeInv'
  BY <1>12 DEF Start, Quiet, Expect
<1>13. ASSUME NEW t \in Threads, Cancel(t) \/ Join(t) \/ Detach(t) PROVE LifeInv'
  <2>1. TypeOK'
    <3>1. CASE Cancel(t)
      BY <3>1 DEF Cancel
    <3>2. CASE Join(t)
      BY <3>2 DEF Join
    <3>3. CASE Detach(t)
      BY <3>3 DEF Detach
    <3>4. QED
      BY <1>13, <3>1, <3>2, <3>3
  <2>2. ProtocolInv'
    BY <1>13 DEF Cancel, Join, Detach
  <2>3. CancelInv'
    BY <1>13 DEF Cancel, Join, Detach
  <2>4. QED
    BY ONLY <2>1, <2>2, <2>3 DEF LifeInv
<1>14. ASSUME NEW t \in Threads, NEW fate \in {"owned", "deleted"}, Destroy(t, fate)
       PROVE  LifeInv'
  BY <1>14 DEF Destroy, Quiet
<1>15. CASE Started \/ Joined
  BY <1>15 DEF Started, Joined
<1>16. CASE DestroyPool \/ Destroyed
  BY <1>16 DEF DestroyPool, Destroyed, FreePool
<1>17. CASE InitLogger \/ AttachWriter \/ TearDown
  BY <1>17 DEF InitLogger, AttachWriter, TearDown, SetLogger
<1>18. CASE UNCHANGED vars
  BY <1>18 DEF vars
<1>19. QED
  BY ONLY [Next]_vars, <1>1, <1>2, <1>3, <1>4, <1>5, <1>6, <1>7, <1>8, <1>9, <1>10, <1>11,
     <1>12, <1>13, <1>14, <1>15, <1>16, <1>17, <1>18
     DEF Next, Run, ThreadMain, MainCalls, MainGoesOn

(***************************************************************************)
(* Every variable keeps its type, with any number of objects, starts and   *)
(* buffers; Main's target is an object and no pool pointer is wild.        *)
(***************************************************************************)
THEOREM Typing == Spec => []TypeOK
<1>1. LifeInv => TypeOK
  BY DEF LifeInv
<1>2. QED
  BY InitLifeInv, NextLifeInv, <1>1, PTL DEF Spec

-----------------------------------------------------------------------------
\* Nobody runs before SetUp is over, and no object is left when TearDown begins.
LoggerInv ==
  /\ pc[Main] \in {"setup", "attach"} => \A t \in Threads : state[t] = "none"
  /\ pc[Main] = "down" => \A t \in Threads : object[t] = "deleted"
  /\ pc[Main] \in {"setup", "attach", "down"} => log[Main] = "done"
  /\ pc[Main] \notin {"setup", "attach", "down"} => logger_ = "attached"

\* Every step keeps the Logger in place for the messages.
LEMMA NextLoggerInv ==
  ASSUME LifeInv, LoggerInv, [Next]_vars
  PROVE  LoggerInv'
<1> USE LifeAssumption
    DEF LifeInv, TypeOK, ProtocolInv, LoggerInv, Processes, MainLabels,
        Goto, GotoLog, Expect, objectVars, poolVars, staticVars
<1>1. ASSUME NEW p \in Processes, Log(p) PROVE LoggerInv'
  BY <1>1 DEF Log, LogEnter, LogRetry, LogWrite, Expect
<1>2. ASSUME NEW t \in Threads, Run(t) \/ ThreadMain(t) PROVE LoggerInv'
  <2>1. /\ UNCHANGED <<object, state, logger_>>
        /\ pc'[Main] = pc[Main] /\ log'[Main] = log[Main]
    BY <1>2 DEF Run, ThreadMain, Enter, InitPool, MainLogged, TestStat, PrintHits, StatPrinted,
                UnlinkPool, CleanupPool, Cancelled, PoolBuffer, GarbageCollect,
                MainLogs, MainReturns
  <2>2. QED
    BY ONLY LoggerInv, <2>1 DEF LoggerInv
<1>3. ASSUME NEW t \in Threads, Start(t) \/ Cancel(t) \/ Join(t) \/ Detach(t)
      PROVE  LoggerInv'
  BY <1>3 DEF Start, Cancel, Join, Detach
<1>4. ASSUME NEW t \in Threads, NEW fate \in {"owned", "deleted"}, Destroy(t, fate)
      PROVE  LoggerInv'
  BY <1>4 DEF Destroy
<1>5. CASE Started \/ Joined \/ DestroyPool \/ Destroyed
  BY <1>5 DEF Started, Joined, DestroyPool, Destroyed
<1>6. CASE InitLogger \/ AttachWriter \/ TearDown
  BY <1>6 DEF InitLogger, AttachWriter, TearDown, SetLogger
<1>7. CASE UNCHANGED vars
  BY <1>7 DEF vars
<1>8. QED
  BY ONLY [Next]_vars, <1>1, <1>2, <1>3, <1>4, <1>5, <1>6, <1>7
     DEF Next, MainCalls, MainGoesOn

(***************************************************************************)
(* A LogMessage always finds the Logger and its writer, in any number of   *)
(* threads and in the destructors that TearDown of the test runs: an       *)
(* object is deleted only after its thread has ended, and the Logger after *)
(* all of them (include/unit-test.h:15-25, test/thread-test.cc:33-54).     *)
(***************************************************************************)
THEOREM LoggerOutlivesMessages == Spec => []LoggerServes
<1>1. LifeInv /\ LoggerInv => LoggerServes
  <2> SUFFICES ASSUME LifeInv, LoggerInv, NEW p \in Processes, log[p] # "done"
               PROVE  pc[Main] \notin {"setup", "attach", "down"}
    BY DEF LoggerServes, LoggerInv
  <2>1. CASE p = Main
    BY <2>1 DEF LoggerInv
  <2>2. CASE p \in Threads
    <3>1. pc[p] \in Protected
      BY <2>2 DEF LifeInv, CancelInv
    <3>2. state[p] \notin {"none", "joined"} /\ object[p] # "deleted"
      BY <2>2, <3>1 DEF LifeInv, ProtocolInv, Protected
    <3>3. QED
      BY <2>2, <3>2 DEF LoggerInv
  <2>3. QED
    BY <2>1, <2>2 DEF Processes
<1>2. Init => LifeInv /\ LoggerInv
  BY InitLifeInv, LifeAssumption DEF Init, LoggerInv, Processes
<1>3. LifeInv /\ LoggerInv /\ [Next]_vars => (LifeInv /\ LoggerInv)'
  BY NextLifeInv, NextLoggerInv
<1>4. QED
  BY <1>1, <1>2, <1>3, PTL DEF Spec

-----------------------------------------------------------------------------
\* A pool was allocated by one of the threads of its object.  Between "init"
\* and "unlink" both pointers lead to the last one's, then only the thread's,
\* and after a cancellation only the object's.
ThreadPoolInv(t) ==
  /\ pc[t] \in Pooling => pool_[t] = Pool(t) /\ Pool(t) \in live
  /\ pc[t] \in Pooling \ {"free"} => ctx_pool_[t] = Pool(t)
  /\ pc[t] = "free" => ctx_pool_[t] = NULL
  /\ ctx_pool_[t] # NULL =>
       ctx_pool_[t] \in live /\ \E n \in 1..starts[t] : ctx_pool_[t] = <<t, n>>
  /\ \A n \in 1..MaxStarts : <<t, n>> \in live => n <= starts[t]
  /\ Pool(t) \in live =>
       /\ pc[t] \in Pooling \cup {"exited"}
       /\ pc[t] = "exited" => ctx_pool_[t] = Pool(t)
  /\ object[t] = "deleted" /\ target # t => ctx_pool_[t] = NULL

MainPoolInv ==
  /\ pc[Main] = "destroy" => ctx_pool_[target] # NULL
  /\ pc[Main] = "destroyed" => ctx_pool_[target] = NULL

FreedInv == \A b \in Pools \ live : pooled[b] = 0

PoolInv == (\A t \in Threads : ThreadPoolInv(t)) /\ MainPoolInv /\ FreedInv

\* There are no pools before the first Start.
LEMMA InitPoolInv == Init => PoolInv
  BY LifeAssumption, PoolAssumption
     DEF Init, PoolInv, ThreadPoolInv, MainPoolInv, FreedInv, Pooling, Processes

\* Every step keeps the pools with their owners (include/thread-ctx.h:40-92,
\* util/thread.cc:12-52).
LEMMA NextPoolInv ==
  ASSUME LifeInv, LifeInv', PoolInv, [Next]_vars
  PROVE  PoolInv'
<1> USE LifeAssumption, PoolAssumption
    DEF LifeInv, TypeOK, ProtocolInv, CancelInv, PoolInv, ThreadPoolInv, MainPoolInv, FreedInv,
        Pool, Pools, Processes, ThreadLabels, MainLabels, Pooling, Protected,
        Goto, GotoLog, objectVars, poolVars, staticVars
<1>1. ASSUME NEW p \in Processes, Log(p) PROVE PoolInv'
  BY <1>1 DEF Log, LogEnter, LogRetry, LogWrite, Expect
<1>2. ASSUME NEW t \in Threads, Enter(t) PROVE PoolInv'
  BY <1>2 DEF Enter
<1>3. ASSUME NEW t \in Threads, InitPool(t) PROVE PoolInv'
  <2>1. /\ Pool(t) \in Pools /\ t # Main /\ pc[t] = "init"
        /\ pool_' = [pool_ EXCEPT ![t] = Pool(t)]
        /\ live' = live \cup {Pool(t)}
        /\ ctx_pool_' = [ctx_pool_ EXCEPT ![t] = Pool(t)]
        /\ pc' = [pc EXCEPT ![t] = "main"]
        /\ UNCHANGED <<object, starts, state, target, pooled>>
    BY <1>3 DEF InitPool
  <2>2. FreedInv' /\ MainPoolInv'
    BY <2>1
  <2>3. ThreadPoolInv(t)'
    <3>1. pc'[t] = "main" /\ pool_'[t] = Pool(t) /\ ctx_pool_'[t] = Pool(t) /\ Pool(t) \in live'
      BY <2>1
    <3>2. starts[t] \in 1..MaxStarts /\ object[t] # "deleted"
      BY <2>1
    <3>3. \A n \in 1..MaxStarts : <<t, n>> \in live' => n <= starts[t]
      BY <2>1, <3>2
    <3>4. QED
      BY ONLY <2>1, <3>1, <3>2, <3>3 DEF ThreadPoolInv, Pool, Pooling
  <2>4. ASSUME NEW u \in Threads \ {t} PROVE ThreadPoolInv(u)'
    <3>1. /\ pc'[u] = pc[u] /\ pool_'[u] = pool_[u] /\ ctx_pool_'[u] = ctx_pool_[u]
          /\ UNCHANGED <<object, starts, target>>
      BY <2>1
    <3>2. \A n : <<u, n>> \in live' <=> <<u, n>> \in live
      BY <2>1
    <3>3. ThreadPoolInv(u)
      BY DEF PoolInv
    <3>4. QED
      BY ONLY <3>1, <3>2, <3>3 DEF ThreadPoolInv, Pool
  <2>5. QED
    BY ONLY <2>2, <2>3, <2>4 DEF PoolInv
<1>4. ASSUME NEW t \in Threads, PoolBuffer(t) PROVE PoolInv'
  <2>1. pool_[t] \in live
    <3>1. pc[t] = "main"
      BY <1>4 DEF PoolBuffer
    <3>2. QED
      BY ONLY <3>1, PoolInv DEF PoolInv, ThreadPoolInv, Pooling
  <2>2. pooled' = [pooled EXCEPT ![pool_[t]] = pooled[pool_[t]] + 1]
    BY ONLY <1>4 DEF PoolBuffer
  <2>3. \A b \in Pools \ live : pooled'[b] = pooled[b]
    BY <2>1, <2>2
  <2>4. FreedInv'
    BY <1>4, <2>3 DEF PoolBuffer
  <2>5. (\A u \in Threads : ThreadPoolInv(u))' /\ MainPoolInv'
    BY <1>4 DEF PoolBuffer
  <2>6. QED
    BY ONLY <2>4, <2>5 DEF PoolInv
<1>5. ASSUME NEW t \in Threads, GarbageCollect(t) PROVE PoolInv'
  BY <1>5 DEF GarbageCollect
<1>6. ASSUME NEW t \in Threads, MainReturns(t) \/ MainLogs(t) \/ MainLogged(t) PROVE PoolInv'
  <2>1. CASE MainReturns(t)
    BY <2>1 DEF MainReturns
  <2>2. CASE MainLogs(t)
    BY <2>2 DEF MainLogs
  <2>3. CASE MainLogged(t)
    BY <2>3 DEF MainLogged
  <2>4. QED
    BY <1>6, <2>1, <2>2, <2>3
<1>7. ASSUME NEW t \in Threads, TestStat(t) \/ PrintHits(t) \/ StatPrinted(t)
      PROVE  PoolInv'
  <2>1. /\ pc[t] \in {"cleanup", "stat", "hits"}
        /\ \E to \in {"stat", "hits", "unlink"} : pc' = [pc EXCEPT ![t] = to]
        /\ UNCHANGED <<object, ctx_pool_, starts, state, target, pool_, live, pooled>>
    BY <1>7 DEF TestStat, PrintHits, StatPrinted
  <2>2. QED
    BY <2>1
<1>8. ASSUME NEW t \in Threads, UnlinkPool(t) PROVE PoolInv'
  BY <1>8 DEF UnlinkPool
<1>9. ASSUME NEW t \in Threads, CleanupPool(t) PROVE PoolInv'
  <2>1. pool_[t] = Pool(t) /\ ctx_pool_[t] = NULL /\ pc[t] = "free"
    BY <1>9 DEF CleanupPool
  <2>2. /\ live' = live \ {Pool(t)}
        /\ pooled' = [pooled EXCEPT ![Pool(t)] = 0]
        /\ pc' = [pc EXCEPT ![t] = "exited"]
        /\ UNCHANGED <<object, starts, state, target, ctx_pool_>>
    BY ONLY <1>9, <2>1 DEF CleanupPool, FreePool, Goto, objectVars
  <2>3. \A u \in Threads \ {t} : pool_'[u] = pool_[u]
    BY ONLY <1>9, TypeOK DEF CleanupPool, TypeOK
  <2>4. FreedInv'
    BY <2>2
  <2>5. ThreadPoolInv(t)'
    BY <2>1, <2>2
  <2>6. ASSUME NEW u \in Threads \ {t} PROVE ThreadPoolInv(u)'
    <3>1. /\ pc'[u] = pc[u] /\ pool_'[u] = pool_[u]
          /\ UNCHANGED <<object, starts, target, ctx_pool_>>
      BY <2>2, <2>3
    <3>2. \A n : <<u, n>> \in live' <=> <<u, n>> \in live
      BY <2>2
    <3>3. ThreadPoolInv(u)
      BY DEF PoolInv
    <3>4. QED
      BY ONLY <3>1, <3>2, <3>3 DEF ThreadPoolInv, Pool
  <2>7. MainPoolInv'
    BY <2>2
  <2>8. QED
    BY ONLY <2>4, <2>5, <2>6, <2>7 DEF PoolInv
<1>10. ASSUME NEW t \in Threads, Cancelled(t) PROVE PoolInv'
  BY <1>10 DEF Cancelled, CancellationPoint
<1>11. ASSUME NEW t \in Threads, Start(t) PROVE PoolInv'
  <2>1. /\ pc[t] \in {"none", "exited"} /\ starts[t] < MaxStarts
        /\ pc' = [pc EXCEPT ![Main] = "start", ![t] = "enter"]
        /\ starts' = [starts EXCEPT ![t] = @ + 1]
        /\ pool_' = [pool_ EXCEPT ![t] = NULL]
        /\ object[t] = "owned"
        /\ UNCHANGED <<object, ctx_pool_, target, live, pooled>>
    BY <1>11 DEF Start, Quiet
  <2>2. FreedInv' /\ MainPoolInv'
    BY <2>1
  <2>3. ThreadPoolInv(t)'
    <3>1. starts'[t] = starts[t] + 1 /\ starts[t] \in Nat /\ pc'[t] = "enter"
      BY <2>1
    <3>2. ThreadPoolInv(t)
      BY DEF PoolInv
    <3>3. starts[t] + 1 \in 1..MaxStarts /\ ~(starts[t] + 1 <= starts[t])
      BY <2>1, <3>1
    <3>4. <<t, starts[t] + 1>> \notin live
      BY ONLY <3>2, <3>3 DEF ThreadPoolInv
    <3>5. \A n \in 1..starts[t] : n \in 1..starts'[t]
      BY <3>1
    <3>6. \A n \in 1..MaxStarts : n <= starts[t] => n <= starts'[t]
      BY <3>1
    <3>7. QED
      BY ONLY <2>1, <3>1, <3>2, <3>4, <3>5, <3>6 DEF ThreadPoolInv, Pool, Pooling
  <2>4. ASSUME NEW u \in Threads \ {t} PROVE ThreadPoolInv(u)'
    <3>1. /\ pc'[u] = pc[u] /\ starts'[u] = starts[u] /\ pool_'[u] = pool_[u]
          /\ UNCHANGED <<object, ctx_pool_, target, live>>
      BY <2>1
    <3>2. ThreadPoolInv(u)
      BY DEF PoolInv
    <3>3. QED
      BY ONLY <3>1, <3>2 DEF ThreadPoolInv, Pool
  <2>5. QED
    BY ONLY <2>2, <2>3, <2>4 DEF PoolInv
<1>12. ASSUME NEW t \in Threads, Cancel(t) \/ Join(t) \/ Detach(t) PROVE PoolInv'
  <2>1. \A u \in Threads : object[u] = "deleted" => ctx_pool_[u] = NULL
    <3>1. target = NULL
      BY <1>12 DEF Cancel, Join, Detach
    <3>2. QED
      BY ONLY <3>1, LifeAssumption, PoolInv DEF PoolInv, ThreadPoolInv
  <2>2. /\ pc'[Main] \in {"idle", "join"}
        /\ \A u \in Threads : /\ pc'[u] = pc[u]
                              /\ object'[u] = "deleted" => object[u] = "deleted"
        /\ UNCHANGED <<ctx_pool_, starts, pool_, live, pooled>>
    <3>1. CASE Cancel(t)
      BY <3>1 DEF Cancel
    <3>2. CASE Join(t)
      BY <3>2 DEF Join
    <3>3. CASE Detach(t)
      BY <3>3 DEF Detach
    <3>4. QED
      BY <1>12, <3>1, <3>2, <3>3
  <2>3. ASSUME NEW u \in Threads PROVE ThreadPoolInv(u)'
    <3>1. ThreadPoolInv(u)
      BY DEF PoolInv
    <3>2. QED
      BY ONLY <2>1, <2>2, <3>1 DEF ThreadPoolInv, Pool
  <2>4. FreedInv' /\ MainPoolInv'
    BY <2>2
  <2>5. QED
    BY ONLY <2>3, <2>4 DEF PoolInv
<1>13. ASSUME NEW t \in Threads, NEW fate \in {"owned", "deleted"}, Destroy(t, fate)
       PROVE  PoolInv'
  BY <1>13 DEF Destroy, Quiet
<1>14. CASE Started \/ Joined
  <2>1. /\ pc[Main] # "destroyed" /\ pc[Main] # "destroy"
        /\ pc' = [pc EXCEPT ![Main] = "idle"]
        /\ UNCHANGED <<object, starts, ctx_pool_, pool_, live, pooled>>
    BY <1>14 DEF Started, Joined
  <2>2. \A t \in Threads : object[t] = "deleted" /\ target' # t => ctx_pool_[t] = NULL
    <3>1. CASE Started
      BY <3>1 DEF Started
    <3>2. CASE Joined
      BY <3>2 DEF Joined
    <3>3. QED
      BY <1>14, <3>1, <3>2
  <2>3. QED
    BY <2>1, <2>2
<1>15. CASE DestroyPool
  <2>1. PICK t \in Threads :
          /\ t = target /\ ctx_pool_[t] # NULL
          /\ pc[t] \in {"none", "exited"} /\ pc[Main] = "destroy"
    BY <1>15 DEF DestroyPool
  <2> PICK n \in 1..starts[t] : ctx_pool_[t] = <<t, n>>
    BY ONLY PoolInv, <2>1 DEF PoolInv, ThreadPoolInv
  <2>2. /\ live' = live \ {<<t, n>>}
        /\ pooled' = [pooled EXCEPT ![<<t, n>>] = 0]
        /\ ctx_pool_' = [ctx_pool_ EXCEPT ![t] = NULL]
        /\ pc' = [pc EXCEPT ![Main] = "destroyed"]
        /\ UNCHANGED <<object, starts, state, target, pool_>>
    BY <1>15, <2>1 DEF DestroyPool, FreePool, GotoLog
  <2>3. FreedInv'
    BY <2>2
  <2>4. ThreadPoolInv(t)'
    <3>1. pc'[t] = pc[t] /\ ctx_pool_'[t] = NULL /\ pc[t] \notin Pooling
      BY <2>1, <2>2
    <3>2. Pool(t) \notin live'
      BY <2>1, <2>2
    <3>3. QED
      BY <2>2, <3>1, <3>2
  <2>5. ASSUME NEW u \in Threads \ {t} PROVE ThreadPoolInv(u)'
    <3>1. /\ pc'[u] = pc[u] /\ ctx_pool_'[u] = ctx_pool_[u]
          /\ UNCHANGED <<object, starts, target, pool_>>
      BY <2>1, <2>2
    <3>2. \A m : <<u, m>> \in live' <=> <<u, m>> \in live
      BY <2>2
    <3>3. ThreadPoolInv(u)
      BY DEF PoolInv
    <3>4. QED
      BY ONLY <3>1, <3>2, <3>3 DEF ThreadPoolInv, Pool
  <2>6. MainPoolInv'
    BY <2>1, <2>2
  <2>7. QED
    BY ONLY <2>1, <2>3, <2>4, <2>5, <2>6 DEF PoolInv
<1>16. CASE Destroyed
  BY <1>16 DEF Destroyed
<1>17. CASE InitLogger \/ AttachWriter \/ TearDown
  <2>1. /\ UNCHANGED <<object, ctx_pool_, starts, target, pool_, live, pooled>>
        /\ \A t \in Threads : pc'[t] = pc[t]
        /\ pc'[Main] \in {"attach", "idle", "down"}
    BY <1>17 DEF InitLogger, AttachWriter, TearDown, SetLogger
  <2>2. QED
    BY <2>1
<1>18. CASE UNCHANGED vars
  BY <1>18 DEF vars
<1>19. QED
  BY ONLY [Next]_vars, <1>1, <1>2, <1>3, <1>4, <1>5, <1>6, <1>7, <1>8, <1>9, <1>10, <1>11,
     <1>12, <1>13, <1>14, <1>15, <1>16, <1>17, <1>18
     DEF Next, Run, ThreadMain, MainCalls, MainGoesOn

LEMMA PoolInvHolds == Spec => [](LifeInv /\ PoolInv)
<1>1. Init => LifeInv /\ PoolInv
  BY InitLifeInv, InitPoolInv
<1>2. LifeInv /\ PoolInv /\ [Next]_vars => (LifeInv /\ PoolInv)'
  BY NextLifeInv, NextPoolInv
<1>3. QED
  BY <1>1, <1>2, PTL DEF Spec

(***************************************************************************)
(* Nobody holds a pool that was freed, wherever threads are cancelled and  *)
(* however often an object is started, destroyed or not in between         *)
(* (util/thread.cc:12-52, include/thread-ctx.h:55-92).                     *)
(***************************************************************************)
THEOREM PoolsNeverDangle == Spec => []NoDangling
<1>1. LifeInv /\ PoolInv => NoDangling
  BY DEF PoolInv, ThreadPoolInv, NoDangling, Pooling
<1>2. QED
  BY <1>1, PoolInvHolds, PTL

\* Only Cancelled, in ThreadMain, and CleanupPool, the last step of Cleanup, end a thread.
LEMMA EndsInOrder ==
  ASSUME LifeInv, PoolInv, [Next]_vars, NEW t \in Threads, pc[t] # "exited", pc'[t] = "exited"
  PROVE  log[t] = "done" /\ pool_'[t] = ctx_pool_'[t]
<1> USE LifeAssumption DEF LifeInv, TypeOK, Processes, Goto, GotoLog, objectVars, poolVars
<1>1. Cancelled(t) \/ CleanupPool(t)
  <2>1. \A p \in Processes : ~Log(p)
    BY DEF Log, LogEnter, LogRetry, LogWrite
  <2>2. ASSUME NEW u \in Threads, Run(u) \/ ThreadMain(u)
        PROVE  Cancelled(t) \/ CleanupPool(t)
    <3>1. u = t
      BY <2>2 DEF Run, ThreadMain, Enter, InitPool, MainLogged, TestStat, PrintHits, StatPrinted,
                  UnlinkPool, CleanupPool, Cancelled, PoolBuffer, GarbageCollect,
                  MainLogs, MainReturns
    <3>2. CASE Cancelled(u) \/ CleanupPool(u)
      BY <3>1, <3>2
    <3>3. CASE ~(Cancelled(u) \/ CleanupPool(u))
      <4>1. pc'[u] # "exited"
        BY <2>2, <3>3 DEF Run, ThreadMain, Enter, InitPool, MainLogged, TestStat, PrintHits,
                    StatPrinted, UnlinkPool, PoolBuffer, GarbageCollect, MainLogs, MainReturns
      <4>2. QED
        BY <3>1, <4>1
    <3>4. QED
      BY <3>2, <3>3
  <2>3. ASSUME NEW u \in Threads PROVE ~(Start(u) \/ Cancel(u) \/ Join(u) \/ Detach(u))
    <3>1. ASSUME Start(u) PROVE FALSE
      <4>1. pc' = [pc EXCEPT ![Main] = "start", ![u] = "enter"]
        BY ONLY <3>1 DEF Start
      <4>2. CASE t = u
        BY <4>1, <4>2
      <4>3. CASE t # u
        BY <4>1, <4>3
      <4>4. QED
        BY <4>2, <4>3
    <3>2. ~(Cancel(u) \/ Join(u) \/ Detach(u))
      BY DEF Cancel, Join, Detach
    <3>3. QED
      BY <3>1, <3>2
  <2>4. /\ ~TearDown
        /\ \A u \in Threads : \A fate \in {"owned", "deleted"} : ~Destroy(u, fate)
    BY DEF Destroy, TearDown, SetLogger
  <2>5. ~MainGoesOn
    BY DEF MainGoesOn, InitLogger, AttachWriter, SetLogger, Started, Joined,
           DestroyPool, Destroyed
  <2>6. QED
    BY ONLY [Next]_vars, pc[t] # "exited", pc'[t] = "exited", <2>1, <2>2, <2>3, <2>4, <2>5
       DEF Next, MainCalls, vars
<1>2. CASE CleanupPool(t)
  <2>1. pool_'[t] = NULL /\ ctx_pool_'[t] = ctx_pool_[t] /\ pc[t] = "free" /\ log[t] = "done"
    BY <1>2 DEF CleanupPool
  <2>2. ctx_pool_[t] = NULL
    BY <2>1 DEF PoolInv, ThreadPoolInv
  <2>3. QED
    BY <2>1, <2>2
<1>3. CASE Cancelled(t)
  <2>1. pc[t] = "main" /\ log[t] = "done"
    <3>1. enabled[t] /\ (pc[t] = "main" \/ log[t] = "write")
      BY <1>3 DEF Cancelled, CancellationPoint
    <3>2. pc[t] \notin Protected
      BY <3>1 DEF CancelInv
    <3>3. QED
      BY <3>1, <3>2 DEF CancelInv
  <2>2. pool_[t] = Pool(t) /\ ctx_pool_[t] = Pool(t)
    BY <2>1 DEF PoolInv, ThreadPoolInv, Pooling
  <2>3. pool_' = pool_ /\ ctx_pool_' = ctx_pool_
    BY <1>3 DEF Cancelled
  <2>4. QED
    BY <2>1, <2>2, <2>3
<1>4. QED
  BY <1>1, <1>2, <1>3

(***************************************************************************)
(* A thread ends outside of ThreadCtx::Init, Cleanup and messages, and     *)
(* agrees with its object on who frees the pool, wherever it is cancelled  *)
(* (util/thread.cc:12-52, include/thread-ctx.h:40-78).                     *)
(***************************************************************************)
THEOREM EveryThreadEndsInOrder == Spec => ThreadsEndInOrder
<1>1. LifeInv /\ PoolInv /\ [Next]_vars =>
        [\A t \in Threads : pc[t] # "exited" /\ pc'[t] = "exited" =>
            log[t] = "done" /\ pool_'[t] = ctx_pool_'[t]]_vars
  BY EndsInOrder
<1>2. QED
  BY <1>1, PoolInvHolds, PTL DEF Spec, ThreadsEndInOrder

\* Main can get at the pool by the object, or the thread is about to free it.
WithinReach(t, n) ==
  \/ ctx_pool_[t] = <<t, n>> /\ (object[t] = "deleted" => target = t)
  \/ pool_[t] = <<t, n>> /\ pc[t] = "free"

\* The pool of an object's last thread is always within reach.
LEMMA LastPoolIsReached ==
  ASSUME LifeInv, PoolInv, NEW t \in Threads, Pool(t) \in live
  PROVE  WithinReach(t, starts[t])
<1>1. ThreadPoolInv(t)
  BY DEF PoolInv
<1>2. Pool(t) \in Pools /\ Pool(t) # NULL
  BY PoolAssumption DEF LifeInv, TypeOK
<1>3. CASE pc[t] = "free"
  BY <1>1, <1>3 DEF ThreadPoolInv, Pool, Pooling, WithinReach
<1>4. CASE pc[t] # "free"
  BY <1>1, <1>2, <1>4 DEF ThreadPoolInv, Pool, Pooling, WithinReach
<1>5. QED
  BY <1>3, <1>4

(***************************************************************************)
(* The only way to lose a pool is a second Start without Destroy after a   *)
(* cancellation: Init then overwrites the object's pointer to the pool of  *)
(* an earlier thread.  Cancellations alone lose none                       *)
(* (include/thread-ctx.h:40-49, util/thread.cc:12-52).                     *)
(***************************************************************************)
THEOREM OnlyEarlierPoolsAreLost ==
  Spec => [](\A t \in Threads, n \in 1..MaxStarts :
               <<t, n>> \in live => WithinReach(t, n) \/ n < starts[t])
<1>1. LifeInv /\ PoolInv =>
        \A t \in Threads, n \in 1..MaxStarts :
          <<t, n>> \in live => WithinReach(t, n) \/ n < starts[t]
  <2> SUFFICES ASSUME LifeInv, PoolInv, NEW t \in Threads, NEW n \in 1..MaxStarts,
                      <<t, n>> \in live, ~ (n < starts[t])
               PROVE  WithinReach(t, n)
    OBVIOUS
  <2>1. starts[t] \in Nat
    BY DEF LifeInv, TypeOK
  <2>2. n = starts[t]
    BY <2>1 DEF PoolInv, ThreadPoolInv
  <2>3. QED
    BY <2>2, LastPoolIsReached DEF Pool
<1>2. QED
  BY <1>1, PoolInvHolds, PTL

\* If Main destroys an object before it starts it again, a new thread finds
\* no pool, and no pool is left but that of the last one.
LastInv ==
  \A t \in Threads :
    /\ pc[t] \in {"none", "enter", "init"} => ctx_pool_[t] = NULL
    /\ \A n \in 1..MaxStarts : <<t, n>> \in live => n = starts[t]

LEMMA NextLastInv ==
  ASSUME DestroyFirst, LifeInv, PoolInv, LastInv, [Next]_vars
  PROVE  LastInv'
<1> USE LifeAssumption, PoolAssumption
    DEF LifeInv, TypeOK, ProtocolInv, PoolInv, ThreadPoolInv, LastInv,
        Pool, Pools, Processes, ThreadLabels, Pooling,
        Goto, GotoLog, objectVars, poolVars, staticVars
<1>1. ASSUME NEW p \in Processes, Log(p) PROVE LastInv'
  BY <1>1 DEF Log, LogEnter, LogRetry, LogWrite, Expect
<1>2. ASSUME NEW t \in Threads, Enter(t) PROVE LastInv'
  BY <1>2 DEF Enter
<1>3. ASSUME NEW t \in Threads, InitPool(t) PROVE LastInv'
  BY <1>3 DEF InitPool
<1>4. ASSUME NEW t \in Threads,
             PoolBuffer(t) \/ GarbageCollect(t) \/ MainReturns(t) \/ MainLogs(t) \/ MainLogged(t)
      PROVE  LastInv'
  <2>1. CASE PoolBuffer(t) \/ GarbageCollect(t)
    BY <2>1 DEF PoolBuffer, GarbageCollect
  <2>2. CASE MainReturns(t) \/ MainLogs(t) \/ MainLogged(t)
    <3>1. /\ \E to \in {"cleanup", "guarded", "main"} : pc' = [pc EXCEPT ![t] = to]
          /\ UNCHANGED <<ctx_pool_, starts, live>>
      BY <2>2 DEF MainReturns, MainLogs, MainLogged
    <3>2. QED
      BY <3>1
  <2>3. QED
    BY <1>4, <2>1, <2>2
<1>5. ASSUME NEW t \in Threads, TestStat(t) \/ PrintHits(t) \/ StatPrinted(t)
      PROVE  LastInv'
  <2>1. /\ \E to \in {"stat", "hits", "unlink"} : pc' = [pc EXCEPT ![t] = to]
        /\ UNCHANGED <<ctx_pool_, starts, live>>
    BY <1>5 DEF TestStat, PrintHits, StatPrinted
  <2>2. QED
    BY <2>1
<1>6. ASSUME NEW t \in Threads, UnlinkPool(t) \/ Cancelled(t) PROVE LastInv'
  BY <1>6 DEF UnlinkPool, Cancelled, CancellationPoint
<1>7. ASSUME NEW t \in Threads, CleanupPool(t) PROVE LastInv'
  BY <1>7 DEF CleanupPool, FreePool
<1>8. ASSUME NEW t \in Threads, Start(t) PROVE LastInv'
  <2>1. /\ ctx_pool_[t] = NULL /\ pc[t] \in {"none", "exited"}
        /\ UNCHANGED <<ctx_pool_, live>>
        /\ \A u \in Threads \ {t} : pc'[u] = pc[u] /\ starts'[u] = starts[u]
    BY <1>8, DestroyFirst DEF Start, Quiet
  <2>2. \A n \in 1..MaxStarts : <<t, n>> \notin live
    <3>1. Pool(t) \notin live
      BY <2>1
    <3>2. QED
      BY <3>1
  <2>3. QED
    BY ONLY LastInv, <2>1, <2>2 DEF LastInv
<1>9. ASSUME NEW t \in Threads, Cancel(t) \/ Join(t) \/ Detach(t) PROVE LastInv'
  BY <1>9 DEF Cancel, Join, Detach
<1>10. ASSUME NEW t \in Threads, NEW fate \in {"owned", "deleted"}, Destroy(t, fate)
       PROVE  LastInv'
  BY <1>10 DEF Destroy
<1>11. CASE Started \/ Joined \/ Destroyed
  BY <1>11 DEF Started, Joined, Destroyed
<1>12. CASE DestroyPool
  BY <1>12 DEF DestroyPool, FreePool
<1>13. CASE InitLogger \/ AttachWriter \/ TearDown
  BY <1>13 DEF InitLogger, AttachWriter, TearDown, SetLogger
<1>14. CASE UNCHANGED vars
  BY <1>14 DEF vars
<1>15. QED
  BY ONLY [Next]_vars, <1>1, <1>2, <1>3, <1>4, <1>5, <1>6, <1>7, <1>8, <1>9, <1>10, <1>11,
     <1>12, <1>13, <1>14
     DEF Next, Run, ThreadMain, MainCalls, MainGoesOn

(***************************************************************************)
(* A pool is freed exactly once, by its thread's Cleanup or by the         *)
(* object's Destroy, wherever the thread is cancelled, and with it all its *)
(* buffers (util/thread.cc:12-52, include/thread-ctx.h:55-92).             *)
(***************************************************************************)
THEOREM PoolsAreNotLost ==
  ASSUME DestroyFirst
  PROVE  Spec => []NoLeak
<1>1. LifeInv /\ PoolInv /\ LastInv => NoLeak
  <2> SUFFICES ASSUME LifeInv, PoolInv, LastInv, NEW t \in Threads, NEW n \in 1..MaxStarts,
                      <<t, n>> \in live
               PROVE  WithinReach(t, n)
    BY DEF NoLeak, WithinReach, PoolInv, FreedInv
  <2>1. n = starts[t]
    BY DEF LastInv
  <2>2. QED
    BY <2>1, LastPoolIsReached DEF Pool
<1>2. Init => LastInv
  BY LifeAssumption DEF Init, LastInv, Processes
<1>3. LifeInv /\ PoolInv /\ LastInv /\ [Next]_vars => LastInv'
  BY NextLastInv, DestroyFirst
<1>4. QED
  BY <1>1, <1>2, <1>3, PoolInvHolds, PTL DEF Spec

=============================================================================
