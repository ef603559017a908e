----------------------------- MODULE TsanThreads ------------------------------
(***************************************************************************)
(* The sanitizers' ThreadRegistry, and ThreadSanitizer's interceptors of   *)
(* pthread_create, pthread_join and pthread_detach, with the hooks that    *)
(* ThreadContext gives the registry.                                       *)
(*                                                                         *)
(* The registry has a context for every thread of the program, with a      *)
(* small tid that is reused once the thread is dead and has been in        *)
(* quarantine.  Every operation holds mtx_ from its first line to its      *)
(* last, so each is one step; names, OS ids and the parent's tid are left  *)
(* out.  RegistrySpec is the registry by itself, with empty hooks.         *)
(*                                                                         *)
(* Between the real pthread function and the runtime's own bookkeeping     *)
(* other threads run: the interceptors are modelled step by step, over     *)
(* the registry's operations.                                              *)
(*                                                                         *)
(* A clock is the set of the moments it covers: the creation of a thread   *)
(* and its end.  Pthreads number the program's threads; Main is 0.  The    *)
(* program is a correct one: every thread is joined or detached once at    *)
(* most.  hb is what POSIX says of the program, apart from the runtime.    *)
(***************************************************************************)
EXTENDS Integers, Sequences, FiniteSets

CONSTANTS
  MaxThreads,      (* max_threads_ *)
  QuarantineSize,  (* thread_quarantine_size_ *)
  MaxReuse,        (* max_reuse_; 0 means no limit *)
  UserIds,         (* the pthread_t values; NoUser is the code's 0 *)
  NoUser,
  MaxTotal         (* bound: threads created in one behaviour *)

ASSUME RegistryAssumption ==
  /\ MaxThreads \in Nat /\ QuarantineSize \in Nat
  /\ MaxReuse \in Nat /\ MaxTotal \in Nat
  /\ NoUser \notin UserIds

Tids == 0 .. MaxThreads - 1

VARIABLES
  status, detached, userId, uniqueId, reuseCount,  (* of every context *)
  nContexts, totalThreads, aliveThreads, maxAlive, runningThreads,
  deadThreads,     (* the quarantine, first in first out *)
  invalidThreads   (* contexts ready to be used again *)

context  == <<status, detached, userId, uniqueId, reuseCount>>
counters == <<nContexts, totalThreads, aliveThreads, maxAlive, runningThreads>>
lists    == <<deadThreads, invalidThreads>>
registryVars == <<context, counters, lists>>

Statuses == {"invalid", "created", "running", "finished", "dead"}

RegistryInit ==
  /\ status = [t \in Tids |-> "invalid"]
  /\ detached = [t \in Tids |-> FALSE]
  /\ userId = [t \in Tids |-> NoUser]
  /\ uniqueId = [t \in Tids |-> 0]
  /\ reuseCount = [t \in Tids |-> 0]
  /\ nContexts = 0 /\ totalThreads = 0
  /\ aliveThreads = 0 /\ maxAlive = 0 /\ runningThreads = 0
  /\ deadThreads = <<>> /\ invalidThreads = <<>>

Allocated == {t \in Tids : t < nContexts}
Retired(t, count) == MaxReuse > 0 /\ count >= MaxReuse

-------------------------------------------------------------------------------
(* Which context the next thread gets: the one that has been invalid for    *)
(* longest, or a new one.  When there is neither the process dies.          *)
NextTid == IF invalidThreads # <<>> THEN Head(invalidThreads) ELSE nContexts

(* Mutant: the context stays on the list of invalid ones.                   *)
CreateThreadKeepsInvalid(uid, detach) ==
  /\ invalidThreads # <<>> \/ nContexts < MaxThreads
  /\ nContexts' = IF invalidThreads = <<>> THEN nContexts + 1 ELSE nContexts
  /\ status' = [status EXCEPT ![NextTid] = "created"]
  /\ detached' = [detached EXCEPT ![NextTid] = detach]
  /\ userId' = [userId EXCEPT ![NextTid] = uid]
  /\ uniqueId' = [uniqueId EXCEPT ![NextTid] = totalThreads]
  /\ totalThreads' = totalThreads + 1
  /\ aliveThreads' = aliveThreads + 1
  /\ maxAlive' = IF maxAlive < aliveThreads' THEN maxAlive + 1 ELSE maxAlive
  /\ UNCHANGED <<reuseCount, runningThreads, deadThreads, invalidThreads>>

CreateThread(uid, detach) ==
  /\ invalidThreads # <<>> \/ nContexts < MaxThreads
  /\ IF invalidThreads # <<>>
     THEN invalidThreads' = Tail(invalidThreads) /\ UNCHANGED nContexts
     ELSE nContexts' = nContexts + 1 /\ UNCHANGED invalidThreads
  /\ status' = [status EXCEPT ![NextTid] = "created"]
  /\ detached' = [detached EXCEPT ![NextTid] = detach]
  /\ userId' = [userId EXCEPT ![NextTid] = uid]
  /\ uniqueId' = [uniqueId EXCEPT ![NextTid] = totalThreads]
  /\ totalThreads' = totalThreads + 1
  /\ aliveThreads' = aliveThreads + 1
  /\ maxAlive' = IF maxAlive < aliveThreads' THEN maxAlive + 1 ELSE maxAlive
  /\ UNCHANGED <<reuseCount, runningThreads, deadThreads>>

StartThread(t) ==
  /\ status[t] = "created"
  /\ status' = [status EXCEPT ![t] = "running"]
  /\ runningThreads' = runningThreads + 1
  /\ UNCHANGED <<detached, userId, uniqueId, reuseCount, nContexts, totalThreads,
                 aliveThreads, maxAlive, lists>>

(* SetDead() or SetJoined(), and QuarantinePush(): t goes in, and when      *)
(* there are too many the oldest comes out, is Reset(), and unless it has   *)
(* been used too often is ready to be used again.  With no quarantine that  *)
(* is t itself.                                                             *)
QuarantinePush(t) ==
  LET all == Append(deadThreads, t)
      old == Head(all)
  IN
  IF Len(all) <= QuarantineSize
  THEN /\ deadThreads' = all
       /\ status' = [status EXCEPT ![t] = "dead"]
       /\ UNCHANGED <<reuseCount, invalidThreads>>
  ELSE /\ deadThreads' = Tail(all)
       /\ status' = [status EXCEPT ![t] = "dead", ![old] = "invalid"]
       /\ reuseCount' = [reuseCount EXCEPT ![old] = @ + 1]
       /\ invalidThreads' = IF Retired(old, reuseCount'[old]) THEN invalidThreads
                            ELSE Append(invalidThreads, old)

Die(t) ==
  /\ userId' = [userId EXCEPT ![t] = NoUser]
  /\ QuarantinePush(t)

FinishThread(t) ==
  /\ status[t] = "running"
  /\ aliveThreads' = aliveThreads - 1
  /\ runningThreads' = runningThreads - 1
  /\ IF detached[t]
     THEN Die(t)
     ELSE /\ status' = [status EXCEPT ![t] = "finished"]
          /\ UNCHANGED <<userId, reuseCount, lists>>
  /\ UNCHANGED <<detached, uniqueId, nContexts, totalThreads, maxAlive>>

(* A thread that was never created, or is long gone, is only reported.      *)
JoinThread(t) ==
  IF status[t] = "invalid"
  THEN UNCHANGED registryVars
  ELSE /\ status[t] = "finished" /\ ~detached[t]
       /\ Die(t)
       /\ UNCHANGED <<detached, uniqueId, counters>>

DetachThread(t) ==
  IF status[t] = "invalid"
  THEN UNCHANGED registryVars
  ELSE IF status[t] = "finished"
  THEN /\ Die(t)
       /\ UNCHANGED <<detached, uniqueId, counters>>
  ELSE /\ detached' = [detached EXCEPT ![t] = TRUE]
       /\ UNCHANGED <<status, userId, reuseCount, lists, uniqueId, counters>>

(* The tool's callback for FindThread(), which takes the user id away from  *)
(* the first context that has it.  Found(uid) is the code's kUnknownTid     *)
(* when no context does.                                                    *)
HasUser(uid) == {t \in Allocated : userId[t] = uid /\ status[t] # "invalid"}
UnknownTid == -1
Found(uid) == IF HasUser(uid) = {} THEN UnknownTid
              ELSE CHOOSE t \in HasUser(uid) : \A u \in HasUser(uid) : t <= u

FindThreadByUid(uid) ==
  /\ userId' = IF HasUser(uid) = {} THEN userId
               ELSE [userId EXCEPT ![Found(uid)] = NoUser]
  /\ UNCHANGED <<status, detached, uniqueId, reuseCount, counters, lists>>

-------------------------------------------------------------------------------
(* What a client does that respects the CHECKs: a tid is started when it    *)
(* was created, finished when it runs, joined when it is finished and not   *)
(* detached.  Anything may be detached at any time.                         *)
RegistryNext ==
  \/ totalThreads < MaxTotal /\ \E uid \in UserIds, d \in BOOLEAN : CreateThread(uid, d)
  \/ \E t \in Allocated :
       StartThread(t) \/ FinishThread(t) \/ JoinThread(t) \/ DetachThread(t)
  \/ \E uid \in UserIds : FindThreadByUid(uid)

RegistrySpec == RegistryInit /\ [][RegistryNext]_registryVars

-------------------------------------------------------------------------------
(* The types of the variables.                                              *)
RegistryTypeOK ==
  /\ status \in [Tids -> Statuses]
  /\ detached \in [Tids -> BOOLEAN]
  /\ userId \in [Tids -> UserIds \cup {NoUser}]
  /\ uniqueId \in [Tids -> Nat]
  /\ reuseCount \in [Tids -> Nat]
  /\ nContexts \in 0 .. MaxThreads
  /\ totalThreads \in Nat
  /\ aliveThreads \in Nat /\ maxAlive \in Nat /\ runningThreads \in Nat
  /\ deadThreads \in Seq(Tids) /\ invalidThreads \in Seq(Tids)

With(S) == {t \in Tids : status[t] \in S}

(* GetNumberOfThreads() counts what it says: "Created or running" threads   *)
(* are alive (sanitizer_thread_registry.h), and running ones run.           *)
CountersCount ==
  /\ aliveThreads = Cardinality(With({"created", "running"}))
  /\ runningThreads = Cardinality(With({"running"}))
  /\ aliveThreads <= maxAlive

Elements(s) == {s[i] : i \in 1 .. Len(s)}
NoRepeats(s) == \A i, j \in 1 .. Len(s) : s[i] = s[j] => i = j

(* Every context is where its status says, once: the dead ones are in the   *)
(* quarantine, the invalid ones that may be used again wait for that, and   *)
(* no context is lost or handed out twice.                                  *)
EveryContextInPlace ==
  /\ Elements(deadThreads) = With({"dead"})
  /\ Elements(invalidThreads) =
       {t \in Allocated : status[t] = "invalid" /\ ~Retired(t, reuseCount[t])}
  /\ NoRepeats(deadThreads) /\ NoRepeats(invalidThreads)
  /\ Len(deadThreads) <= QuarantineSize
  /\ \A t \in Tids \ Allocated : status[t] = "invalid"

(* A finished thread waits for a join that may still come.                  *)
FinishedIsJoinable == \A t \in Tids : status[t] = "finished" => ~detached[t]

(* No two contexts have the same unique id, which names the thread in       *)
(* reports and in the deadlock detector long after its tid is reused.       *)
UniqueIdsDiffer ==
  /\ \A t \in Allocated : uniqueId[t] < totalThreads
  /\ \A t, u \in Allocated : uniqueId[t] = uniqueId[u] => t = u

(* A tid comes back only when its thread has been in quarantine, and when   *)
(* it leaves, QuarantineSize threads that died are still described: "some   *)
(* info is still available" (sanitizer_thread_registry.h).                  *)
ReuseWaits ==
  \A t \in Tids : status[t] # "invalid" /\ status'[t] = "invalid"
    => /\ QuarantineSize > 0 => status[t] = "dead"
       /\ Cardinality(With({"dead"})') = QuarantineSize
ReuseIsDelayed == [][ReuseWaits]_registryVars

-------------------------------------------------------------------------------
(* The interceptors.                                                        *)

(* There is a main thread, and a context for it.                            *)
ASSUME ThreadsAssumption == MaxThreads > 0 /\ MaxTotal > 0

Pthreads == 0 .. MaxTotal - 1
Main == 0

VARIABLES
  pc, target, argTid,  (* pc[k]; the thread k creates, joins or detaches;  *)
                       (* what ThreadTid() found for it                    *)
  param,               (* param[k]: the p.tid that the creator of k shares with it *)
  tidOf,               (* thr->tid *)
  handle, real,        (* pthread_t of k; "joinable", "detached" or "joined" *)
  claimed,             (* threads joined or detached, or created detached  *)
  knows,               (* knows[k]: the clock of k *)
  sync,                (* sync[t]: the clock in the context of tid t *)
  hb                   (* hb[k]: the moments that happen before k's present *)

threadVars == <<pc, target, argTid, param, tidOf, handle, real, claimed>>
clockVars  == <<knows, sync, hb>>
vars == <<registryVars, threadVars, clockVars>>

Creation(k) == <<"creation", k>>
End(k)      == <<"end", k>>
Moments == {Creation(k) : k \in Pthreads} \cup {End(k) : k \in Pthreads}

(* The main thread has been created, detached and with no user id, and      *)
(* started.                                                                 *)
Init ==
  /\ status = [t \in Tids |-> IF t = 0 THEN "running" ELSE "invalid"]
  /\ detached = [t \in Tids |-> t = 0]
  /\ userId = [t \in Tids |-> NoUser]
  /\ uniqueId = [t \in Tids |-> 0]
  /\ reuseCount = [t \in Tids |-> 0]
  /\ nContexts = 1 /\ totalThreads = 1
  /\ aliveThreads = 1 /\ maxAlive = 1 /\ runningThreads = 1
  /\ deadThreads = <<>> /\ invalidThreads = <<>>
  /\ pc = [k \in Pthreads |-> IF k = Main THEN "run" ELSE "absent"]
  /\ target = [k \in Pthreads |-> k]
  /\ argTid = [k \in Pthreads |-> UnknownTid]
  /\ param = [k \in Pthreads |-> 0]
  /\ tidOf = [k \in Pthreads |-> IF k = Main THEN 0 ELSE UnknownTid]
  /\ handle = [k \in Pthreads |-> NoUser]
  /\ real = [k \in Pthreads |-> "detached"]
  /\ claimed = {Main}
  /\ knows = [k \in Pthreads |-> {}]
  /\ sync = [t \in Tids |-> {}]
  /\ hb = [k \in Pthreads |-> {}]

Move(k, from, to) == pc[k] = from /\ pc' = [pc EXCEPT ![k] = to]

(* A pthread_t is taken until its thread has ended and been joined, or was  *)
(* detached.                                                                *)
Taken == {handle[k] : k \in {j \in Pthreads : /\ pc[j] # "absent"
                                               /\ \/ real[j] = "joinable"
                                                  \/ real[j] = "detached" /\ pc[j] # "gone"}}

(* Other threads have a pthread_t when pthread_create() has returned, or    *)
(* when the new thread hands out its own.                                   *)
Named == {j \in Pthreads :
            /\ pc[j] # "absent"
            /\ \/ pc[j] \notin {"spin", "started"}
               \/ ~ \E a \in Pthreads : target[a] = j /\ pc[a] \in {"creating", "waiting"}}

-------------------------------------------------------------------------------
(* The real pthread_create(): the new thread runs, up to its spin loop.     *)
Create(a, j, h, detach) ==
  /\ j = CHOOSE k \in Pthreads : pc[k] = "absent" /\ \A i \in 0 .. k - 1 : pc[i] # "absent"
  /\ h \notin Taken
  /\ pc[a] = "run"
  /\ pc' = [pc EXCEPT ![a] = "creating", ![j] = "spin"]
  /\ target' = [target EXCEPT ![a] = j]
  /\ handle' = [handle EXCEPT ![j] = h]
  /\ real' = [real EXCEPT ![j] = IF detach THEN "detached" ELSE "joinable"]
  /\ claimed' = IF detach THEN claimed \cup {j} ELSE claimed
  /\ hb' = [hb EXCEPT ![a] = @ \cup {Creation(j)}, ![j] = hb[a] \cup {Creation(j)}]
  /\ UNCHANGED <<registryVars, argTid, param, tidOf, knows, sync>>

(* Mutant: pthread_create() does not wait for the new thread.               *)
ThreadCreateOnly(a) ==
  LET j == target[a] IN
  /\ Move(a, "creating", "run")
  /\ CreateThread(handle[j], real[j] = "detached")
  /\ knows' = [knows EXCEPT ![a] = @ \cup {Creation(j)}]
  /\ sync' = [sync EXCEPT ![NextTid] = @ \cup knows'[a]]
  /\ param' = [param EXCEPT ![j] = NextTid]
  /\ UNCHANGED <<target, argTid, tidOf, handle, real, claimed, hb>>

(* ThreadCreate() with OnCreated(), and p.tid for the new thread.           *)
ThreadCreate(a) ==
  LET j == target[a] IN
  /\ Move(a, "creating", "waiting")
  /\ CreateThread(handle[j], real[j] = "detached")
  /\ knows' = [knows EXCEPT ![a] = @ \cup {Creation(j)}]
  /\ sync' = [sync EXCEPT ![NextTid] = @ \cup knows'[a]]
  /\ param' = [param EXCEPT ![j] = NextTid]
  /\ UNCHANGED <<target, argTid, tidOf, handle, real, claimed, hb>>

(* ThreadStart() with OnStarted(): a new clock that acquires the creator's. *)
ThreadStart(j) ==
  LET tid == param[j] IN
  /\ tid # 0
  /\ Move(j, "spin", "started")
  /\ StartThread(tid)
  /\ tidOf' = [tidOf EXCEPT ![j] = tid]
  /\ knows' = [knows EXCEPT ![j] = sync[tid]]
  /\ sync' = [sync EXCEPT ![tid] = {}]
  /\ UNCHANGED <<target, argTid, param, handle, real, claimed, hb>>

(* Mutant: each side waits for the other to reset p.tid.                    *)
HandoffWaits(j) ==
  /\ pc[j] = "started"
  /\ IF param[j] = 0 THEN pc' = [pc EXCEPT ![j] = "run"] ELSE UNCHANGED pc
  /\ UNCHANGED <<registryVars, target, argTid, param, tidOf, handle, real, claimed, clockVars>>

(* The new thread stores 0 in p.tid and calls the user's function; the      *)
(* creator, which waited for that, returns.                                 *)
Handoff(j) ==
  /\ Move(j, "started", "run")
  /\ param' = [param EXCEPT ![j] = 0]
  /\ UNCHANGED <<registryVars, target, argTid, tidOf, handle, real, claimed, clockVars>>

CreateReturns(a) ==
  /\ param[target[a]] = 0
  /\ Move(a, "waiting", "run")
  /\ UNCHANGED <<registryVars, target, argTid, param, tidOf, handle, real, claimed, clockVars>>

(* The user's function has returned: DestroyThreadState() runs among the    *)
(* destructors of the thread's keys, ThreadFinish() with OnFinished().      *)
ThreadFinish(k) ==
  LET tid == tidOf[k] IN
  /\ k # Main
  /\ Move(k, "run", "finalized")
  /\ FinishThread(tid)
  /\ hb' = [hb EXCEPT ![k] = @ \cup {End(k)}]
  /\ IF detached[tid] THEN UNCHANGED <<knows, sync>>
     ELSE /\ knows' = [knows EXCEPT ![k] = @ \cup {End(k)}]
          /\ sync' = [sync EXCEPT ![tid] = @ \cup knows'[k]]
  /\ UNCHANGED <<target, argTid, param, tidOf, handle, real, claimed>>

(* The thread ends; its pthread_t is free if it was detached.               *)
Exit(k) ==
  /\ Move(k, "finalized", "gone")
  /\ UNCHANGED <<registryVars, target, argTid, param, tidOf, handle, real, claimed, clockVars>>

(* ThreadTid(), before the real pthread_join() or pthread_detach().         *)
ThreadTid(a, j, next) ==
  /\ j \in Named \ claimed
  /\ Move(a, "run", next)
  /\ FindThreadByUid(handle[j])
  /\ argTid' = [argTid EXCEPT ![a] = Found(handle[j])]
  /\ target' = [target EXCEPT ![a] = j]
  /\ claimed' = claimed \cup {j}
  /\ UNCHANGED <<param, tidOf, handle, real, clockVars>>

(* Threads join younger ones, so that they never wait for each other.       *)
Join(a, j) == a < j /\ ThreadTid(a, j, "joining")
Detach(a, j) == ThreadTid(a, j, "detaching")

RealJoin(a) ==
  LET j == target[a] IN
  /\ pc[j] = "gone"
  /\ Move(a, "joining", "joined")
  /\ real' = [real EXCEPT ![j] = "joined"]
  /\ hb' = [hb EXCEPT ![a] = @ \cup hb[j]]
  /\ UNCHANGED <<registryVars, target, argTid, param, tidOf, handle, claimed, knows, sync>>

(* ThreadJoin() with OnJoined().                                            *)
ThreadJoin(a) ==
  LET tid == argTid[a] IN
  /\ Move(a, "joined", "run")
  /\ tid > 0
  /\ JoinThread(tid)
  /\ IF status[tid] = "invalid" THEN UNCHANGED <<knows, sync>>
     ELSE /\ knows' = [knows EXCEPT ![a] = @ \cup sync[tid]]
          /\ sync' = [sync EXCEPT ![tid] = {}]
  /\ UNCHANGED <<target, argTid, param, tidOf, handle, real, claimed, hb>>

RealDetach(a) ==
  /\ Move(a, "detaching", "detached")
  /\ real' = [real EXCEPT ![target[a]] = "detached"]
  /\ UNCHANGED <<registryVars, target, argTid, param, tidOf, handle, claimed, clockVars>>

(* ThreadDetach() with OnDetached(): what the thread published is dropped.  *)
ThreadDetach(a) ==
  LET tid == argTid[a] IN
  /\ Move(a, "detached", "run")
  /\ tid > 0
  /\ DetachThread(tid)
  /\ sync' = IF status[tid] = "invalid" THEN sync ELSE [sync EXCEPT ![tid] = {}]
  /\ UNCHANGED <<target, argTid, param, tidOf, handle, real, claimed, knows, hb>>

-------------------------------------------------------------------------------
AllEnded == /\ \A k \in Pthreads : pc[k] = IF k = Main THEN "run" ELSE "gone"
            /\ claimed = Pthreads
            /\ UNCHANGED vars

Runtime(k) ==
  \/ ThreadCreate(k) \/ ThreadStart(k) \/ Handoff(k) \/ CreateReturns(k) \/ Exit(k)
  \/ RealJoin(k) \/ ThreadJoin(k) \/ RealDetach(k) \/ ThreadDetach(k)

Next ==
  \/ \E a \in Pthreads, j \in Pthreads :
       \/ \E h \in UserIds, detach \in BOOLEAN : pc[j] = "absent" /\ Create(a, j, h, detach)
       \/ Join(a, j) \/ Detach(a, j)
  \/ \E k \in Pthreads : Runtime(k) \/ ThreadFinish(k)
  \/ AllEnded

Spec == Init /\ [][Next]_vars

(* A thread inside the runtime keeps running.  A program need not end its   *)
(* threads, nor create, join or detach any.                                 *)
FairSpec == Spec /\ \A k \in Pthreads : WF_vars(Runtime(k))

-------------------------------------------------------------------------------
PCs == {"absent", "spin", "started", "run", "creating", "waiting", "joining", "joined",
        "detaching", "detached", "finalized", "gone"}

(* The types of the threads' variables; the registry has its own.           *)
TypeOK ==
  /\ pc \in [Pthreads -> PCs]
  /\ target \in [Pthreads -> Pthreads]
  /\ argTid \in [Pthreads -> Tids \cup {UnknownTid}]
  /\ param \in [Pthreads -> Tids]
  /\ tidOf \in [Pthreads -> Tids \cup {UnknownTid}]
  /\ handle \in [Pthreads -> UserIds \cup {NoUser}]
  /\ real \in [Pthreads -> {"joinable", "detached", "joined"}]
  /\ claimed \subseteq Pthreads
  /\ knows \in [Pthreads -> SUBSET Moments]
  /\ sync \in [Tids -> SUBSET Moments]
  /\ hb \in [Pthreads -> SUBSET Moments]

(* The runtime's clocks say of every thread in user code exactly what POSIX *)
(* does: an edge too few is a false report, one too many hides a race.      *)
ClocksAreHappensBefore == \A k \in Pthreads : pc[k] = "run" => knows[k] = hb[k]

(* What ThreadTid() found is the context of the thread that is meant, and   *)
(* until the runtime is done with it nobody else gets that context,         *)
(* although the pthread_t may be another thread's by then.                  *)
RightContext ==
  \A k \in Pthreads : pc[k] \in {"joining", "joined", "detaching", "detached"} =>
    /\ tidOf[target[k]] = argTid[k]
    /\ \A j \in Pthreads \ {target[k]} :
         tidOf[j] = argTid[k] => pc[j] \in {"finalized", "gone"}

(* The interceptors act on the thread that is meant, with the clock that    *)
(* its history gives it; a tid is not used again before its quarantine is   *)
(* over.                                                                    *)
ThreadsAreKnown == [](RightContext /\ ClocksAreHappensBefore) /\ ReuseIsDelayed

(* pthread_create() returns.                                                *)
CreationReturns == \A a \in Pthreads : pc[a] = "creating" ~> pc[a] = "run"
===============================================================================
