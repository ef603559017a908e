---------------------------- MODULE LockFileManager ---------------------------
(***************************************************************************)
(* LLVM's LockFileManager, which processes use to agree on who builds a    *)
(* file, and the loop around it in clang's compileAndLoadModule().  The    *)
(* lock is a symbolic link to a file of the owner's own with its process   *)
(* id.  Every step here is one system call on the shared file system.      *)
(*                                                                         *)
(* The output is "old" where a module has to be rebuilt.  A process that   *)
(* is killed may or may not get to run its signal handler.                 *)
(***************************************************************************)
EXTENDS Integers, FiniteSets

CONSTANTS
  Processes, None,
  HostOf,       (* HostOf[p]: whether a process is alive is known on its host only *)
  OutputsAtStart, (* what may be there at first: "none", "old" *)
  MaxCrashes,   (* bound: processes killed in one behaviour *)
  Timeouts      (* bound: whether waitForUnlock() may give up *)

ProcessAssumption ==
  /\ None \notin Processes
  /\ DOMAIN HostOf = Processes
  /\ OutputsAtStart \subseteq {"none", "old"}
  /\ MaxCrashes \in Nat /\ Timeouts \in BOOLEAN

VARIABLES
  lock,      (* the process whose file the link names, or None *)
  unique,    (* the processes whose own lock file exists *)
  output,    (* the file the lock is about: "none", "old" or "new" *)
  pc,
  owner,     (* owner[p]: the process that p read from the lock, Owner *)
  linking    (* linking[p]: p has its own file and tries to link it *)

vars == <<lock, unique, output, pc, owner, linking>>

PCs == {"read", "probe", "remove", "create", "link", "exists", "clear", "drop",
        "owned", "unlock", "unlink", "wait", "look", "load", "timeout",
        "done", "failed", "exited", "killed"}

Init ==
  /\ lock = None /\ unique = {}
  /\ output \in OutputsAtStart
  /\ pc = [p \in Processes |-> "read"]
  /\ owner = [p \in Processes |-> None]
  /\ linking = [p \in Processes |-> FALSE]

Goto(p, from, to) == pc[p] = from /\ pc' = [pc EXCEPT ![p] = to]

(* The link leads to a file.                                                *)
Resolves == lock # None /\ lock \in unique

Alive(q) == pc[q] \notin {"exited", "killed"}

(* processStillExecuting(): yes, when in doubt.                             *)
StillExecuting(p, q) == HostOf[p] # HostOf[q] \/ Alive(q)

-------------------------------------------------------------------------------
(* readLockFile(), called first and after a link that failed.  The process  *)
(* id is complete, since the owner's file is linked only when it is.        *)
Read(p) ==
  /\ pc[p] = "read"
  /\ IF Resolves
     THEN /\ pc' = [pc EXCEPT ![p] = "probe"]
          /\ owner' = [owner EXCEPT ![p] = lock]
     ELSE /\ pc' = [pc EXCEPT ![p] = "remove"]
          /\ UNCHANGED owner
  /\ UNCHANGED <<lock, unique, output, linking>>

(* With a live owner the lock is shared, and a file of one's own is of no   *)
(* more use.                                                                *)
Probe(p) ==
  /\ pc[p] = "probe"
  /\ IF StillExecuting(p, owner[p])
     THEN /\ pc' = [pc EXCEPT ![p] = IF linking[p] THEN "drop" ELSE "wait"]
          /\ UNCHANGED owner
     ELSE /\ pc' = [pc EXCEPT ![p] = "remove"]
          /\ owner' = [owner EXCEPT ![p] = None]
  /\ UNCHANGED <<lock, unique, output, linking>>

(* Remove the lock by its name: it need not be the one that was read.       *)
Remove(p) ==
  /\ Goto(p, "remove", IF linking[p] THEN "exists" ELSE "create")
  /\ lock' = None
  /\ UNCHANGED <<unique, output, owner, linking>>

(* The file of one's own, or LFS_Error.  (Where the host's name cannot be   *)
(* found, on OS X only, the file stays; that is left out.)                  *)
CreateUnique(p) ==
  /\ Goto(p, "create", "link")
  /\ unique' = unique \cup {p}
  /\ linking' = [linking EXCEPT ![p] = TRUE]
  /\ UNCHANGED <<lock, output, owner>>

CreateFails(p) ==
  /\ Goto(p, "create", "failed")
  /\ UNCHANGED <<lock, unique, output, owner, linking>>

(* symlink() fails if the name is taken, by a dangling link too.            *)
Link(p) ==
  /\ pc[p] = "link"
  /\ IF lock = None
     THEN lock' = p /\ pc' = [pc EXCEPT ![p] = "owned"]
     ELSE pc' = [pc EXCEPT ![p] = "read"] /\ UNCHANGED lock
  /\ UNCHANGED <<unique, output, owner, linking>>

(* LFS_Error: no link for another reason, or a lock that cannot be removed. *)
LinkFails(p) ==
  /\ pc[p] \in {"link", "clear"}
  /\ pc' = [pc EXCEPT ![p] = "failed"]
  /\ unique' = unique \ {p}
  /\ linking' = [linking EXCEPT ![p] = FALSE]
  /\ UNCHANGED <<lock, output, owner>>

Exists(p) ==
  /\ Goto(p, "exists", IF Resolves THEN "clear" ELSE "link")
  /\ UNCHANGED <<lock, unique, output, owner, linking>>

Clear(p) ==
  /\ Goto(p, "clear", "link")
  /\ lock' = None
  /\ UNCHANGED <<unique, output, owner, linking>>

(* Mutant: the file is left behind.                                         *)
DropNothing(p) ==
  /\ Goto(p, "drop", "wait")
  /\ linking' = [linking EXCEPT ![p] = FALSE]
  /\ UNCHANGED <<lock, output, owner, unique>>

Drop(p) ==
  /\ Goto(p, "drop", "wait")
  /\ unique' = unique \ {p}
  /\ linking' = [linking EXCEPT ![p] = FALSE]
  /\ UNCHANGED <<lock, output, owner>>

-------------------------------------------------------------------------------
(* LFS_Owned: the client builds the output, which appears in one piece, or  *)
(* fails.  Either way ~LockFileManager() removes the lock, by its name, and *)
(* then the file of its own.                                                *)
Build(p) ==
  /\ Goto(p, "owned", "unlock")
  /\ output' = "new"
  /\ UNCHANGED <<lock, unique, owner, linking>>

BuildFails(p) ==
  /\ Goto(p, "owned", "unlock")
  /\ UNCHANGED <<lock, unique, output, owner, linking>>

Unlock(p) ==
  /\ Goto(p, "unlock", "unlink")
  /\ lock' = None
  /\ UNCHANGED <<unique, output, owner, linking>>

Unlink(p) ==
  /\ Goto(p, "unlink", "done")
  /\ unique' = unique \ {p}
  /\ linking' = [linking EXCEPT ![p] = FALSE]
  /\ UNCHANGED <<lock, output, owner>>

(* waitForUnlock(), after every sleep: is the lock gone, or its owner?  A   *)
(* client whose owner died starts again.                                    *)
Restart(p) ==
  /\ pc' = [pc EXCEPT ![p] = "read"]
  /\ owner' = [owner EXCEPT ![p] = None]

Wait(p) ==
  /\ pc[p] = "wait"
  /\ IF ~Resolves THEN pc' = [pc EXCEPT ![p] = "look"] /\ UNCHANGED owner
     ELSE IF StillExecuting(p, owner[p]) THEN UNCHANGED <<pc, owner>>
     ELSE Restart(p)
  /\ UNCHANGED <<lock, unique, output, linking>>

Look(p) ==
  /\ pc[p] = "look"
  /\ IF output = "none" THEN Restart(p)
     ELSE pc' = [pc EXCEPT ![p] = "load"] /\ UNCHANGED owner
  /\ UNCHANGED <<lock, unique, output, linking>>

(* Res_Success: the client reads the output; an old one sends it back.      *)
Load(p) ==
  /\ pc[p] = "load"
  /\ IF output = "old" THEN Restart(p)
     ELSE pc' = [pc EXCEPT ![p] = "done"] /\ UNCHANGED owner
  /\ UNCHANGED <<lock, unique, output, linking>>

(* Res_Timeout: unsafeRemoveLockFile(), and the client gives up.            *)
GiveUp(p) ==
  /\ Timeouts
  /\ Goto(p, "wait", "timeout")
  /\ UNCHANGED <<lock, unique, output, owner, linking>>

UnsafeRemove(p) ==
  /\ Goto(p, "timeout", "failed")
  /\ lock' = None
  /\ UNCHANGED <<unique, output, owner, linking>>

(* The process goes on to its end when it has the output, or not.           *)
Exit(p) ==
  /\ pc[p] \in {"done", "failed"}
  /\ pc' = [pc EXCEPT ![p] = "exited"]
  /\ UNCHANGED <<lock, unique, output, owner, linking>>

(* A signal: the handler removes the file, unless the process is killed     *)
(* outright.                                                                *)
Killed == {p \in Processes : pc[p] = "killed"}

Kill(p, handled) ==
  /\ Alive(p)
  /\ Cardinality(Killed) < MaxCrashes
  /\ pc' = [pc EXCEPT ![p] = "killed"]
  /\ unique' = IF handled THEN unique \ {p} ELSE unique
  /\ UNCHANGED <<lock, output, owner, linking>>

-------------------------------------------------------------------------------
Step(p) ==
  \/ Read(p) \/ Probe(p) \/ Remove(p) \/ CreateUnique(p) \/ CreateFails(p)
  \/ Link(p) \/ LinkFails(p) \/ Exists(p) \/ Clear(p) \/ Drop(p)
  \/ Build(p) \/ BuildFails(p) \/ Unlock(p) \/ Unlink(p)
  \/ Wait(p) \/ Look(p) \/ Load(p) \/ UnsafeRemove(p) \/ Exit(p)

AllEnded == (\A p \in Processes : ~Alive(p)) /\ UNCHANGED vars

Next ==
  \/ \E p \in Processes : Step(p) \/ GiveUp(p) \/ \E h \in BOOLEAN : Kill(p, h)
  \/ AllEnded

Spec == Init /\ [][Next]_vars

(* A process that lives keeps running, to its end.  waitForUnlock() gives   *)
(* up in the end where it may; only a wait for an owner on another host is  *)
(* assumed to need that.                                                    *)
GiveUpOnHost(p) == GiveUp(p) /\ HostOf[owner[p]] # HostOf[p]

FairSpec == Spec /\ \A p \in Processes : WF_vars(Step(p)) /\ WF_vars(GiveUpOnHost(p))

-------------------------------------------------------------------------------
TypeOK ==
  /\ lock \in Processes \cup {None}
  /\ unique \subseteq Processes
  /\ output \in {"none", "old", "new"}
  /\ pc \in [Processes -> PCs]
  /\ owner \in [Processes -> Processes \cup {None}]
  /\ linking \in [Processes -> BOOLEAN]
  /\ \A p \in Processes :
       pc[p] \in {"link", "exists", "clear", "drop", "owned", "unlock", "unlink"} => linking[p]

Owners == {p \in Processes : pc[p] \in {"owned", "unlock"}}

(* "only a single process can create that .lock file" and "is owned by this *)
(* instance" (LockFileManager.h): there is one owner at a time.             *)
OneOwner == Cardinality(Owners) <= 1

(* A process that ends leaves neither its own file nor a link to it: what   *)
(* is left of locks belongs to processes that were killed.                  *)
NothingLeftBehind ==
  \A p \in Processes : pc[p] \in {"done", "failed", "exited"} => p \notin unique /\ lock # p

(* A client that was told the lock was released finds an output.            *)
ReleasedMeansOutput == \A p \in Processes : pc[p] = "load" => output # "none"

(* Every process gets to an end, whoever is killed and wherever.            *)
EveryoneEnds == <>(\A p \in Processes : ~Alive(p))
===============================================================================
