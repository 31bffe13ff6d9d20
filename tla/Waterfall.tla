-------------------------------- MODULE Waterfall --------------------------------
(*****************************************************************************)
(* The waterfall campaign (agile/waterfall_runner.py): the goal is decomposed *)
(* into stories, which are made ready without refinement and go one by one   *)
(* through architect, test and devsecops, all on one worktree.  The agents'  *)
(* commits are numbered; one with a shell may leave any of them checked out.  *)
(*                                                                           *)
(* A campaign that is killed leaves the board and the branch as they are; a  *)
(* later campaign decomposes the goal again.                                 *)
(*****************************************************************************)
EXTENDS Integers, FiniteSets

CONSTANTS
  PlanSize,      \* the number of stories in a decomposition
  Limits,        \* what max_stories_worked may be
  MaxCampaigns,  \* bound: campaigns in a behaviour
  MaxCommits     \* bound: commits in a behaviour

ASSUME WaterfallAssumption ==
  /\ PlanSize \in Nat \ {0} /\ Limits \subseteq Nat
  /\ MaxCampaigns \in Nat /\ MaxCommits \in Nat

VARIABLES
  place,      \* where the campaign is
  campaign,   \* its number, 0 before the first
  column,     \* story -> its column, or "absent"
  commitOf,   \* story -> its commit_sha, or NoSha
  head,       \* the commit the worktree stands on
  turn,       \* the position of the story the loop has come to
  base,       \* head when its architect was spawned, or NoSha
  sha,        \* head after that
  fate,       \* "committed", "no_commit" or "failed"
  limit,      \* its max_stories_worked
  worked,     \* stories the campaign has worked on
  expired,    \* max_wall_seconds have passed
  result      \* of the last campaign: [reason, created, done, blocked, landed]

waterVars ==
  <<place, campaign, column, commitOf, head, turn, base, sha, fate, limit, worked, expired,
    result>>

Stories == (1 .. MaxCampaigns) \X (1 .. PlanSize)

Columns == {"absent", "draft", "refinement", "ready", "in_progress", "review", "done", "blocked"}

Own(where) == {s \in Stories : s[1] = campaign /\ column[s] \in where}
All(where) == {s \in Stories : column[s] \in where}
Current == <<campaign, turn>>

NoSha == -1

NoResult == [reason |-> "none", created |-> 0, done |-> 0, blocked |-> 0, landed |-> 0]

WaterfallInit ==
  /\ place = "idle" /\ campaign = 0
  /\ column = [s \in Stories |-> "absent"]
  /\ commitOf = [s \in Stories |-> NoSha]
  /\ head = 0 /\ turn = 0 /\ base = 0 /\ sha = 0
  /\ fate = "none" /\ limit = 0 /\ worked = 0 /\ expired = FALSE
  /\ result = NoResult

-----------------------------------------------------------------------------
BeginCampaign ==
  /\ place = "idle" /\ campaign < MaxCampaigns
  /\ campaign' = campaign + 1
  /\ place' = "ingest"
  /\ limit' \in Limits
  /\ turn' = 1 /\ worked' = 0 /\ expired' = FALSE
  /\ fate' = "none" /\ base' = 0 /\ sha' = 0
  /\ result' = NoResult
  /\ UNCHANGED <<column, commitOf, head>>

Keeps == UNCHANGED <<campaign, commitOf, head, base, sha, fate, limit, worked, expired>>

(* decompose_goal drafts one story after the other; when it raises, what was  *)
(* drafted stays and is not counted.                                         *)
Ingest ==
  /\ place = "ingest"
  /\ \/ /\ turn <= PlanSize
        /\ column' = [column EXCEPT ![Current] = "draft"]
        /\ turn' = turn + 1
        /\ UNCHANGED <<place, result>>
     \/ /\ turn > PlanSize
        /\ place' = "promote" /\ turn' = 1
        /\ UNCHANGED <<column, result>>
     \/ /\ place' = "idle"
        /\ result' = [NoResult EXCEPT !.reason = "ingest_failed"]
        /\ UNCHANGED <<column, turn>>
  /\ Keeps

(* Every story through refinement to ready, a transition at a time. *)
Promote ==
  /\ place = "promote"
  /\ \/ /\ turn <= PlanSize
        /\ column' = [column EXCEPT ![Current] = IF @ = "draft" THEN "refinement" ELSE "ready"]
        /\ turn' = IF column[Current] = "draft" THEN turn ELSE turn + 1
        /\ UNCHANGED place
     \/ /\ turn > PlanSize
        /\ place' = "loop" /\ turn' = 1
        /\ UNCHANGED column
  /\ UNCHANGED result /\ Keeps

(* The time may be up at any moment; it matters to the loop only. *)
Expire ==
  /\ place = "loop" /\ ~expired
  /\ expired' = TRUE
  /\ UNCHANGED <<place, campaign, column, commitOf, head, turn, base, sha, fate, limit, worked, result>>

(* The limits are looked at before each story, and after the last one no more. *)
(* The counts are the whole board's.                                         *)
Finish ==
  /\ place = "loop"
  /\ turn > PlanSize \/ worked >= limit \/ expired
  /\ result' = [reason |-> CASE turn > PlanSize -> "backlog_empty"
                              [] turn <= PlanSize /\ worked >= limit -> "max_stories_worked"
                              [] OTHER -> "wall_time_exceeded",
                created |-> Cardinality(All(Columns \ {"absent"})),
                done |-> Cardinality(All({"done"})),
                blocked |-> Cardinality(All({"blocked"})),
                landed |-> result.landed]
  /\ place' = "idle"
  /\ UNCHANGED <<column, turn>> /\ Keeps

Pull ==
  /\ place = "loop"
  /\ turn <= PlanSize /\ worked < limit /\ ~expired
  /\ column' = [column EXCEPT ![Current] = "in_progress"]
  /\ place' = "baseline"
  /\ UNCHANGED <<turn, result>> /\ Keeps

(* current_head does not look at git's exit code: it is empty when git fails. *)
Baseline ==
  /\ place = "baseline"
  /\ base' \in {head, NoSha}
  /\ place' = "architect"
  /\ UNCHANGED <<campaign, column, commitOf, head, turn, sha, fate, limit, worked, expired, result>>

(* What an agent with a shell may have done: commit, amend, reset or check out. *)
Shell == head' \in 0 .. MaxCommits

(* An architect that raises has failed, whatever it committed before.  It has *)
(* committed when there is a head and it is not the baseline: any head will   *)
(* do after a baseline that is missing.                                      *)
Architect ==
  /\ place = "architect"
  /\ Shell
  /\ \E seen \in {head', NoSha} :
       /\ sha' = seen
       /\ \/ fate' = "failed"
          \/ fate' = IF seen \notin {NoSha, base} THEN "committed" ELSE "no_commit"
  /\ place' = IF fate' = "committed" THEN "test" ELSE "settle"
  /\ UNCHANGED <<campaign, column, commitOf, turn, base, limit, worked, expired, result>>

(* What test and devsecops answer or raise is not looked at. *)
Check ==
  /\ place \in {"test", "devsecops"}
  /\ Shell
  /\ place' = IF place = "test" THEN "devsecops" ELSE "settle"
  /\ UNCHANGED <<campaign, column, commitOf, turn, base, sha, fate, limit, worked, expired, result>>

NextStory ==
  /\ turn' = turn + 1 /\ worked' = worked + 1
  /\ fate' = "none" /\ sha' = 0
  /\ place' = "loop"

(* Mutant of Blocks: the story stays where it is. *)
BlocksNot ==
  /\ place = "settle" /\ fate # "committed"
  /\ NextStory
  /\ UNCHANGED <<campaign, column, commitOf, head, base, limit, expired, result>>

Blocks ==
  /\ place = "settle" /\ fate # "committed"
  /\ column' = [column EXCEPT ![Current] = "blocked"]
  /\ NextStory
  /\ UNCHANGED <<campaign, commitOf, head, base, limit, expired, result>>

(* set_commit, review and done, one after the other. *)
Lands ==
  /\ place = "settle" /\ fate = "committed"
  /\ \/ /\ commitOf[Current] # sha
        /\ commitOf' = [commitOf EXCEPT ![Current] = sha]
        /\ UNCHANGED <<column, turn, worked, place, fate, sha, result>>
     \/ /\ commitOf[Current] = sha /\ column[Current] = "in_progress"
        /\ column' = [column EXCEPT ![Current] = "review"]
        /\ UNCHANGED <<commitOf, turn, worked, place, fate, sha, result>>
     \/ /\ column[Current] = "review"
        /\ column' = [column EXCEPT ![Current] = "done"]
        /\ NextStory
        /\ result' = [result EXCEPT !.landed = @ + 1]
        /\ UNCHANGED commitOf
  /\ UNCHANGED <<campaign, head, base, limit, expired>>

Killed ==
  /\ place # "idle"
  /\ place' = "idle" /\ result' = NoResult
  /\ turn' = 0 /\ worked' = 0 /\ limit' = 0 /\ expired' = FALSE
  /\ fate' = "none" /\ base' = 0 /\ sha' = 0
  /\ UNCHANGED <<campaign, column, commitOf, head>>

WaterfallNext ==
  \/ BeginCampaign \/ Ingest \/ Promote \/ Expire \/ Finish \/ Pull \/ Baseline
  \/ Architect \/ Check \/ Blocks \/ Lands \/ Killed

WaterfallTypeOK ==
  /\ place \in {"idle", "ingest", "promote", "loop", "baseline", "architect", "test",
                "devsecops", "settle"}
  /\ campaign \in 0 .. MaxCampaigns
  /\ column \in [Stories -> Columns]
  /\ commitOf \in [Stories -> (0 .. MaxCommits) \cup {NoSha}]
  /\ head \in 0 .. MaxCommits /\ {base, sha} \subseteq (0 .. MaxCommits) \cup {NoSha}
  /\ turn \in 0 .. PlanSize + 1 /\ limit \in Limits \cup {0} /\ worked \in 0 .. limit
  /\ fate \in {"none", "committed", "no_commit", "failed"}
  /\ expired \in BOOLEAN
  /\ result.landed \in Nat

-----------------------------------------------------------------------------
(* Properties *)

(* What a campaign returns is true (waterfall_runner.py:371-427).  Each story  *)
(* it worked on is done, as many as it landed, or blocked, although the       *)
(* counts are the board's and include what earlier, perhaps killed, campaigns *)
(* left; and it says that its backlog was empty exactly when no story it      *)
(* drafted is left waiting, and otherwise which limit stopped it.             *)
ResultIsTrue ==
  result.reason \notin {"none", "ingest_failed"} =>
    /\ Cardinality(Own({"done", "blocked"})) = worked
    /\ Cardinality(Own({"done"})) = result.landed
    /\ result.landed <= result.done
    /\ result.reason = "backlog_empty" <=> Own({"draft", "refinement", "ready"}) = {}
    /\ result.reason = "max_stories_worked" => worked = limit
    /\ result.reason = "wall_time_exceeded" => expired
=============================================================================
