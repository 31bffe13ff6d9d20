-------------------------------- MODULE MergeQueue -------------------------------
(*****************************************************************************)
(* The FIFO merge queue and its single worker (agile/merge_queue.py), with   *)
(* the post-merge collection gate (agile/collection_gate.py).  What a merge  *)
(* does to the branches is the subject of module Worktrees; here an attempt  *)
(* ends merged, in conflict, or in an exception.                             *)
(*****************************************************************************)
EXTENDS Board, Sequences

CONSTANTS
  CollectionGate,   \* BOOLEAN: run_merge_worker(collection_gate=...)
  GitTimeouts,      \* BOOLEAN: may a git command exceed its 60 s timeout?
  MaxQueue          \* bound: requests waiting at a time

ASSUME MergeQueueAssumption ==
  /\ CollectionGate \in BOOLEAN
  /\ GitTimeouts \in BOOLEAN
  /\ MaxQueue \in Nat

VARIABLES
  queue,    \* requests waiting, oldest first
  worker    \* what run_merge_worker is doing, and for which request

mergeVars == <<queue, worker>>

Requests == [story : Stories, actor : Actors]

NoRequest == [story |-> None, actor |-> None]

WorkerPhases == {"idle", "merging", "gate", "dead"}

MergeInit ==
  /\ queue = <<>>
  /\ worker = [phase |-> "idle", req |-> NoRequest]

MergeTypeOK ==
  /\ queue \in Seq(Requests)
  /\ worker \in [phase : WorkerPhases, req : Requests \cup {NoRequest}]
  /\ (worker.req = NoRequest) <=> (worker.phase = "idle")

(* merge_queue.enqueue.  The asyncio queue is unbounded and put never waits;  *)
(* MaxQueue only keeps TLC's state space finite.                             *)
Enqueue(s, a) ==
  /\ Len(queue) < MaxQueue
  /\ queue' = Append(queue, [story |-> s, actor |-> a])

-----------------------------------------------------------------------------
WorkerIdle == worker' = [phase |-> "idle", req |-> NoRequest]

(* dequeue, then hand _attempt_merge to a pool thread. *)
Dequeue ==
  /\ worker.phase = "idle"
  /\ queue # <<>>
  /\ worker' = [phase |-> "merging", req |-> Head(queue)]
  /\ queue' = Tail(queue)
  /\ UNCHANGED boardVars

(* The merge was clean: hand over to the PO.  An illegal transition is       *)
(* reported and swallowed; the collection check runs in either case.         *)
MergeCompleted ==
  /\ worker.phase = "merging"
  /\ TryMove(worker.req.story, "pending_acceptance")
  /\ IF CollectionGate THEN worker' = [worker EXCEPT !.phase = "gate"] ELSE WorkerIdle
  /\ UNCHANGED <<queue, assignee, attempts, committed, sprintOf>>

(* Mutant of MergeConflict: the conflict is only logged. *)
MergeConflictLogged ==
  /\ worker.phase = "merging"
  /\ WorkerIdle
  /\ UNCHANGED <<queue, boardVars>>

(* The merge conflicted (or the checkout or the fast-forward failed). *)
MergeConflict ==
  /\ worker.phase = "merging"
  /\ TryMove(worker.req.story, "blocked")
  /\ WorkerIdle
  /\ UNCHANGED <<queue, assignee, attempts, committed, sprintOf>>

(* A git command outlives its timeout: subprocess.TimeoutExpired is not      *)
(* caught, run_merge_worker ends, and _cmd_start does not start another.     *)
WorkerDies ==
  /\ GitTimeouts
  /\ worker.phase = "merging"
  /\ worker' = [worker EXCEPT !.phase = "dead"]
  /\ UNCHANGED <<queue, boardVars>>

(* Integration still collects, or the gate failed open. *)
GateOK ==
  /\ worker.phase = "gate"
  /\ WorkerIdle
  /\ UNCHANGED <<queue, boardVars>>

(* Integration is broken.  The story goes back to ready without a commit,    *)
(* unless somebody already moved it out of pending_acceptance.               *)
GateBroken ==
  /\ worker.phase = "gate"
  /\ LET s == worker.req.story IN
       IF state[s] = "pending_acceptance"
         THEN /\ committed' = committed \ {s}
              /\ Move(s, "ready")
         ELSE UNCHANGED <<state, activation, committed>>
  /\ WorkerIdle
  /\ UNCHANGED <<queue, assignee, attempts, sprintOf>>

MergeNext ==
  \/ Dequeue
  \/ MergeCompleted
  \/ MergeConflict
  \/ WorkerDies
  \/ GateOK
  \/ GateBroken

(* The story has a request waiting, or one the worker has taken but not yet  *)
(* answered.                                                                 *)
Queued(s) ==
  \/ \E i \in 1 .. Len(queue) : queue[i].story = s
  \/ worker.phase \in {"merging", "dead"} /\ worker.req.story = s
=============================================================================
