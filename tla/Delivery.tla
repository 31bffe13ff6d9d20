--------------------------------- MODULE Delivery --------------------------------
(*****************************************************************************)
(* The delivery agents (AsyncAgent._pull_and_work_once and _handle_no_commit *)
(* of agile/agent_loop.py) under TeamSupervisor.                             *)
(*                                                                           *)
(* An agent runs on the event loop and gives it up only while its executor   *)
(* works in a pool thread: claiming is one step, what follows the executor's *)
(* result is another, and everything else may happen in between.             *)
(*****************************************************************************)
EXTENDS MergeQueue

CONSTANT MaxAttempts   \* MAX_ATTEMPTS_PER_STORY

ASSUME DeliveryAssumption ==
  MaxAttempts \in 1 .. AttemptCap

VARIABLES
  work,      \* actor -> the story its executor is running for, or None
  crashed    \* the actors whose task ended in an exception

deliveryVars == <<work, crashed>>

DeliveryInit ==
  /\ work = [a \in Actors |-> None]
  /\ crashed = {}

DeliveryTypeOK ==
  /\ work \in [Actors -> Stories \cup {None}]
  /\ crashed \in SUBSET Actors
  /\ \A a \in crashed : work[a] = None

-----------------------------------------------------------------------------
Idle(a) == work[a] = None /\ a \notin crashed

Free(a) == work' = [work EXCEPT ![a] = None]

(* The first half of _pull_and_work_once, up to the await of the executor.   *)
Pull(a, s, sn) ==
  /\ Idle(a)
  /\ ClaimStory(a, s, sn)
  /\ work' = [work EXCEPT ![a] = s]
  /\ UNCHANGED <<mergeVars, crashed>>

(* Mutant of CommitLanded: the merge request is forgotten. *)
CommitLandedUnqueued(a) ==
  LET s == work[a] IN
  /\ s # None
  /\ Move(s, "review")
  /\ committed' = committed \cup {s}
  /\ Free(a)
  /\ UNCHANGED <<assignee, attempts, sprintOf, mergeVars, crashed>>

(* The executor reports a commit: review, set_commit, enqueue. *)
CommitLanded(a) ==
  LET s == work[a] IN
  /\ s # None
  /\ Move(s, "review")
  /\ committed' = committed \cup {s}
  /\ Enqueue(s, a)
  /\ Free(a)
  /\ UNCHANGED <<assignee, attempts, sprintOf, worker, crashed>>

(* Mutant of CommitRefused: the crashed agent still holds its story. *)
CommitRefusedHolding(a) ==
  LET s == work[a] IN
  /\ s # None
  /\ ~Legal(s, "review")
  /\ crashed' = crashed \cup {a}
  /\ UNCHANGED <<boardVars, mergeVars, work>>

(* The executor reports a commit, but the story was moved meanwhile and      *)
(* cannot go to review: InvalidTransition ends the agent's task.             *)
CommitRefused(a) ==
  LET s == work[a] IN
  /\ s # None
  /\ ~Legal(s, "review")
  /\ crashed' = crashed \cup {a}
  /\ Free(a)
  /\ UNCHANGED <<boardVars, mergeVars>>

(* Mutant of NoCommit: a story that is given up is not blocked. *)
NoCommitUnblocked(a, hard) ==
  LET s == work[a]
      n == NextAttempt(s)
      retry == ~hard /\ n < MaxAttempts
  IN
  /\ s # None
  /\ attempts' = [attempts EXCEPT ![s] = n]
  /\ IF retry /\ Legal(s, "ready") THEN Move(s, "ready") ELSE UNCHANGED <<state, activation>>
  /\ Free(a)
  /\ UNCHANGED <<assignee, committed, sprintOf, mergeVars, crashed>>

(* No commit: executor timeout, crash, or a failed result (hard when its     *)
(* error says "not found").  Retry below MaxAttempts, else block; a retry    *)
(* that cannot go to ready blocks as well.                                   *)
NoCommit(a, hard) ==
  LET s == work[a]
      n == NextAttempt(s)
      retry == ~hard /\ n < MaxAttempts
  IN
  /\ s # None
  /\ attempts' = [attempts EXCEPT ![s] = n]
  /\ IF retry /\ Legal(s, "ready") THEN Move(s, "ready") ELSE TryMove(s, "blocked")
  /\ Free(a)
  /\ UNCHANGED <<assignee, committed, sprintOf, mergeVars, crashed>>

(* TeamSupervisor.run restarts the task after its backoff. *)
RestartAgent(a) ==
  /\ a \in crashed
  /\ crashed' = crashed \ {a}
  /\ UNCHANGED <<boardVars, mergeVars, work>>

DeliveryNext(sn) ==
  \E a \in Actors :
    \/ \E s \in Stories : Pull(a, s, sn)
    \/ CommitLanded(a)
    \/ CommitRefused(a)
    \/ \E hard \in BOOLEAN : NoCommit(a, hard)
    \/ RestartAgent(a)
=============================================================================
