--------------------------------- MODULE ScrumTeam -------------------------------
(*****************************************************************************)
(* One orgos team (`orgos start`, cli.py _cmd_start): the delivery agents,   *)
(* the merge worker and the ceremonies of the coordination agents, all       *)
(* acting on the one board.                                                  *)
(*****************************************************************************)
EXTENDS Delivery, Ceremonies

CONSTANT MaxRestarts   \* bound: process restarts in a behaviour

ASSUME ScrumTeamAssumption == MaxRestarts \in Nat

VARIABLES
  restarts,   \* how often the process was started again
  orphans,    \* history: the stories a stop left in progress or in review
  torn        \* history: a stop cut a sprint boundary short

processVars == <<restarts, orphans, torn>>

vars == <<boardVars, mergeVars, deliveryVars, ceremonyVars, processVars>>

Init ==
  /\ BoardInit
  /\ MergeInit
  /\ DeliveryInit
  /\ CeremoniesInit
  /\ restarts = 0
  /\ orphans = {}
  /\ torn = FALSE

(* The process stops (SIGINT, the watchdog's os._exit, a crash) and           *)
(* `orgos start` resumes the workspace: the board and the sprint files stay,  *)
(* everything held in memory is gone.                                         *)
ProcessRestart ==
  /\ restarts < MaxRestarts
  /\ restarts' = restarts + 1
  /\ orphans' = orphans \cup {s \in Stories : state[s] \in {"in_progress", "review"}}
  /\ torn' = (torn \/ boundary.phase # "none")
  /\ queue' = <<>>
  /\ worker' = [phase |-> "idle", req |-> NoRequest]
  /\ work' = [a \in Actors |-> None]
  /\ crashed' = {}
  /\ pokerList' = {}
  /\ pokerStory' = None
  /\ batch' = [b \in Batches |-> EmptyBatch]
  /\ poWaits' = None
  /\ reviewing' = {}
  /\ elevation' = NoElevation
  /\ boundary' = NoBoundary
  /\ activation' = [s \in Stories |->
       IF activation[s] = "current" THEN "earlier" ELSE activation[s]]
  /\ UNCHANGED <<state, assignee, attempts, committed, sprintOf, rejects, sprintVars>>

Next ==
  \/ DeliveryNext(sprint) /\ UNCHANGED <<ceremonyVars, processVars>>
  \/ MergeNext /\ UNCHANGED <<deliveryVars, ceremonyVars, processVars>>
  \/ CeremoniesNext /\ UNCHANGED <<mergeVars, deliveryVars, processVars>>
  \/ ProcessRestart

Spec == Init /\ [][Next]_vars

-----------------------------------------------------------------------------
(* Fairness.  The event loop schedules every agent and the merge worker, and  *)
(* an executor run ends (wait_for cuts it off after 300 s).  Which way it     *)
(* ends is not under the scheduler's control, so fairness is on the           *)
(* disjunction of the outcomes, never on one of them.  No ceremony is fair.   *)

ExecutorEnds(a) ==
  /\ CommitLanded(a) \/ CommitRefused(a) \/ \E hard \in BOOLEAN : NoCommit(a, hard)
  /\ UNCHANGED <<ceremonyVars, processVars>>

WorkerStep == MergeNext /\ UNCHANGED <<deliveryVars, ceremonyVars, processVars>>

Fairness ==
  /\ \A a \in Actors : WF_vars(ExecutorEnds(a))
  /\ WF_vars(WorkerStep)

FairSpec == Spec /\ Fairness

(* A team left to itself: every agent pulls a story on some tick, and the     *)
(* scrum master and the product owner go on with poker and acceptance (an LLM *)
(* call that hangs is cut off).  Again only disjunctions of outcomes are fair.*)
AgentPulls(a) ==
  (\E s \in Stories : Pull(a, s, sprint)) /\ UNCHANGED <<ceremonyVars, processVars>>

PokerStep ==
  /\ PokerStart \/ (\E e \in pokerList : PokerPick(e)) \/ PokerConverge \/ PokerFails
  /\ UNCHANGED <<mergeVars, deliveryVars, processVars>>

AcceptanceStep ==
  /\ \/ \E b \in Batches : AcceptStart(b)
     \/ \E b \in Batches : \E s \in batch[b].left :
          RejectOutright(b, s) \/ Accept(b, s) \/ RejectCriteria(b, s)
  /\ UNCHANGED <<mergeVars, deliveryVars, processVars>>

TeamFairSpec ==
  /\ FairSpec
  /\ \A a \in Actors : WF_vars(AgentPulls(a))
  /\ WF_vars(PokerStep)
  /\ WF_vars(AcceptanceStep)

-----------------------------------------------------------------------------
TypeOK ==
  /\ BoardTypeOK
  /\ MergeTypeOK
  /\ DeliveryTypeOK
  /\ CeremoniesTypeOK
  /\ restarts \in 0 .. MaxRestarts
  /\ orphans \in SUBSET Stories
  /\ torn \in BOOLEAN

(* An agent only ever awaits an executor for a story it is the assignee of,   *)
(* so no two agents work on one story at a time, although reclaiming, dropping *)
(* and the stale verdicts of acceptance put a story back on the board while it *)
(* is worked on (elevate.py, replan.py, agent_loop.py).                       *)
SingleExecutor ==
  \A a \in Actors : work[a] # None =>
    /\ assignee[work[a]] = a
    /\ \A b \in Actors \ {a} : work[b] # work[a]

(* Except where the process stopped, a story in in_progress is being worked   *)
(* on: every way out of _pull_and_work_once, including the agent's crash,     *)
(* leaves the story in another column.  Otherwise it would hold its component *)
(* for ever unless elevation came by.                                         *)
InProgressIsWorked ==
  \A s \in Stories :
    state[s] = "in_progress" /\ s \notin orphans => \E a \in Actors : work[a] = s

(* Except where the process stopped, every story in review has a merge        *)
(* request that the worker has still to answer; nothing else would ever move  *)
(* it on.                                                                     *)
ReviewIsQueued ==
  \A s \in Stories : state[s] = "review" /\ s \notin orphans => Queued(s)

(* A merge request names the agent that committed the story, so the branch    *)
(* merged for it is the one its commit is on, even when the story was dropped *)
(* and worked on again while the request waited.                              *)
RequestsNameTheAuthor ==
  /\ \A i \in 1 .. Len(queue) : assignee[queue[i].story] = queue[i].actor
  /\ worker.phase # "idle" => assignee[worker.req.story] = worker.req.actor

(* try_claim_next_for admits one story per component, and no two with a       *)
(* common file, to in_progress, whatever the other actors do to the board.    *)
OneInProgressPerComponent ==
  \A s, t \in Stories :
    s # t /\ state[s] = "in_progress" /\ state[t] = "in_progress" =>
      ComponentOf[s] # ComponentOf[t] /\ FilesOf[s] \cap FilesOf[t] = {}

(* A team that keeps to "done is done" (board_store.py:126): the customer     *)
(* reopens no done story, replan returns no story to the board that is with   *)
(* an agent or in the merge queue, no collection gate and no elevation pass   *)
(* returns one to ready that acceptance has in its snapshot, and acceptance   *)
(* has one thread, so no verdict is staler than the one that accepted it.     *)
Steady ==
  /\ ~CollectionGate
  /\ Active \cap {"replan", "customer", "elevation"} = {}
  /\ \A b, c \in Batches : b = c

(* In such a team no story is worked on while one it depends on is not done.  *)
(* Each of the conditions is needed: with two acceptance threads, say, the    *)
(* second can block the story after the first has accepted it and an agent    *)
(* has claimed a dependent.                                                   *)
DependenciesComeFirst ==
  Steady => \A a \in Actors : work[a] # None =>
    \A d \in DependsOn[work[a]] : state[d] = "done"

(* Why it holds, as an inductive invariant in four parts: whoever may move a  *)
(* story next has an up-to-date view of its column, so none is moved that is  *)
(* done.                                                                      *)
PokerIsCurrent ==
  /\ \A e \in pokerList : state[e[1]] = e[2] /\ e[1] # pokerStory
  /\ pokerStory # None => state[pokerStory] = "refinement"

AcceptanceIsCurrent ==
  \A b \in Batches : \A s \in batch[b].left : state[s] = "pending_acceptance"

WorkIsCurrent ==
  \A a \in Actors : work[a] # None => state[work[a]] \in {"ready", "in_progress"}

(* Every story in review has one request, not two. *)
QueueIsCurrent ==
  /\ worker.phase # "gate"
  /\ \A i \in 1 .. Len(queue) : state[queue[i].story] = "review"
  /\ \A i, j \in 1 .. Len(queue) : queue[i].story = queue[j].story => i = j
  /\ worker.phase # "idle" =>
       /\ state[worker.req.story] = "review"
       /\ \A i \in 1 .. Len(queue) : queue[i].story # worker.req.story

SteadyInv ==
  Steady => /\ reviewing = {} /\ elevation = NoElevation
            /\ PokerIsCurrent /\ AcceptanceIsCurrent /\ WorkIsCurrent /\ QueueIsCurrent

(* Once a sprint boundary is over, the two records of a sprint's contents     *)
(* agree: committed_backlog in the sprint file, sprint_number in the stories. *)
(* (A stop in the middle of the boundary leaves them apart for good; a stop   *)
(* at any other time does no harm.)                                           *)
BacklogAgrees ==
  sprint > 0 /\ boundary.phase = "none" /\ ~torn =>
    backlog = {s \in Stories : sprintOf[s] = sprint}

(* No story's points are counted in the velocity of two sprints, even if the  *)
(* customer reopens it after the first one closed.  (A stop between the       *)
(* return of an unfinished story to sprint 0 and the end of close_sprint lets *)
(* it be counted twice: the resumed sprint still lists it.)                   *)
CreditedOnce == ~torn => \A s \in Stories : credits[s] <= 1

(* Why both of these hold, as an inductive invariant of the sprint boundary,  *)
(* in three parts.  A story's number runs ahead of the sprint only while that *)
(* sprint is being planned.                                                   *)
NumbersInRange ==
  LET numbered == boundary.chosen \ boundary.todo IN
  IF boundary.phase = "open"
    THEN /\ boundary.todo \subseteq boundary.chosen
         /\ numbered = {s \in Stories : sprintOf[s] = sprint + 1}
         /\ \A s \in Stories \ numbered : sprintOf[s] <= sprint
    ELSE \A s \in Stories : sprintOf[s] <= sprint

(* The backlog of the open sprint bears its number until the boundary has     *)
(* visited it.                                                                *)
BacklogIsNumbered ==
  /\ boundary.phase \in {"none", "close"} => (sprintOpen <=> sprint > 0)
  /\ boundary.phase \in {"plan", "open"} => ~sprintOpen
  /\ boundary.phase = "none" /\ sprintOpen =>
       backlog = {s \in Stories : sprintOf[s] = sprint}
  /\ boundary.phase = "close" =>
       /\ sprintOpen
       /\ boundary.todo \cup boundary.chosen \subseteq backlog
       /\ boundary.todo \cap boundary.chosen = {}
       /\ \A s \in boundary.todo \cup boundary.chosen : sprintOf[s] = sprint

(* A credited story keeps its number, and so is never planned again.          *)
CreditsAreFinal ==
  \A s \in Stories : credits[s] # 0 =>
    /\ credits[s] = 1
    /\ sprintOf[s] # 0
    /\ sprintOpen => s \notin backlog
    /\ boundary.phase = "open" => s \notin boundary.chosen

SprintInv ==
  ~torn => NumbersInRange /\ BacklogIsNumbered /\ CreditsAreFinal

(* Each executor run is answered: its story leaves in_progress, whoever else  *)
(* moves it meanwhile.                                                        *)
ExecutionsEnd ==
  \A s \in Stories : (state[s] = "in_progress") ~> (state[s] # "in_progress")

(* The worker reaches every request: no story stays in review. *)
ReviewDrains ==
  \A s \in Stories : (state[s] = "review") ~> (state[s] # "review")

(* A team left to itself brings every ready story to an end: the retries of   *)
(* _handle_no_commit and of acceptance are counted by one counter, and both   *)
(* give up.                                                                   *)
StoriesSettle ==
  \A s \in Stories : (state[s] = "ready") ~> (state[s] \in {"done", "blocked"})

(* Claiming as StoryOwnership promises it. *)
Ownership == INSTANCE StoryOwnership WITH holder <- assignee, busy <- work

RefinesOwnership == Ownership!Spec

(* The board as StoryFlow promises it: whatever is dropped, unblocked, stale  *)
(* or late, no story is worked on but by a claim with its dependencies done,  *)
(* and none is done that was not in review or waiting for acceptance.         *)
Flow == INSTANCE StoryFlow WITH column <- state, deps <- DependsOn

RefinesFlow == Flow!Spec
=============================================================================
