---------------------------- MODULE Satellites_proofs ----------------------------
(*****************************************************************************)
(* Proofs about the waterfall campaign, the ingestion of reviewers' comments  *)
(* and the files of the board, for any numbers of stories, campaigns, commits, *)
(* comments, passes, threads, agents and calls.                              *)
(*****************************************************************************)
EXTENDS Satellites, FiniteSetTheorems, TLAPS

-----------------------------------------------------------------------------
(* The waterfall campaign *)

Working == {"baseline", "architect", "test", "devsecops", "settle"}
Reasons == {"none", "ingest_failed", "backlog_empty", "max_stories_worked", "wall_time_exceeded"}
Result == [reason : Reasons, created : Nat, done : Nat, blocked : Nat, landed : Nat]

Heads == (0 .. MaxCommits) \cup {NoSha}

WaterTypes ==
  /\ place \in {"idle", "ingest", "promote", "loop"} \cup Working
  /\ campaign \in 0 .. MaxCampaigns
  /\ column \in [Stories -> Columns]
  /\ commitOf \in [Stories -> Heads]
  /\ head \in 0 .. MaxCommits /\ base \in Heads /\ sha \in Heads
  /\ turn \in 0 .. PlanSize + 1 /\ limit \in Limits \cup {0}
  /\ worked \in Nat /\ worked <= limit
  /\ fate \in {"none", "committed", "no_commit", "failed"}
  /\ expired \in BOOLEAN
  /\ result \in Result

(* The campaign goes through its stories in their order: what is before its   *)
(* turn is settled, what is after it waits.                                  *)
InTurn(s) ==
  /\ place = "ingest" => column[s] = IF s[2] < turn THEN "draft" ELSE "absent"
  /\ place = "promote" =>
       /\ s[2] < turn => column[s] = "ready"
       /\ s[2] = turn => column[s] \in {"draft", "refinement"}
       /\ s[2] > turn => column[s] = "draft"
  /\ place \in {"loop"} \cup Working =>
       /\ s[2] < turn => column[s] \in {"done", "blocked"}
       /\ s[2] > turn => column[s] = "ready"
  /\ place = "loop" /\ s[2] = turn => column[s] = "ready"
  /\ place \in Working /\ s[2] = turn =>
       column[s] = "in_progress" \/ (column[s] = "review" /\ place = "settle")

(* The parts of ResultIsTrue: the reason, and the counts. *)
ReasonTrue ==
  /\ result.reason = "backlog_empty" => Own({"draft", "refinement", "ready"}) = {}
  /\ result.reason = "max_stories_worked" => worked = limit /\ Own({"ready"}) # {}
  /\ result.reason = "wall_time_exceeded" => expired /\ Own({"ready"}) # {}

Settled ==
  result.reason \notin {"none", "ingest_failed"} =>
    /\ Cardinality(Own({"done", "blocked"})) = worked
    /\ Cardinality(Own({"done"})) = result.landed
    /\ result.landed <= result.done

TurnInv ==
  /\ place # "idle" =>
       campaign \in 1 .. MaxCampaigns /\ turn \in 1 .. PlanSize + 1 /\ result.reason = "none"
  /\ \A s \in Stories : s[1] > campaign => column[s] = "absent"
  /\ place \in {"ingest", "promote"} => worked = 0 /\ result.landed = 0
  /\ place \in {"loop"} \cup Working => worked = turn - 1
  /\ place \in Working => turn <= PlanSize /\ worked < limit
  /\ \A s \in Stories : s[1] = campaign => InTurn(s)
  /\ ReasonTrue

(* The campaign's own stories are counted as they are settled. *)
CountInv ==
  /\ place \in {"loop"} \cup Working =>
       /\ Cardinality(Own({"done"})) = result.landed
       /\ Cardinality(Own({"done", "blocked"})) = worked
  /\ Settled

LEMMA WaterInit == WaterfallInit => WaterTypes /\ TurnInv /\ CountInv
<1> SUFFICES ASSUME WaterfallInit PROVE WaterTypes /\ TurnInv /\ CountInv
  OBVIOUS
<1>1. WaterTypes
  <2>1. result \in Result
    BY DEF WaterfallInit, NoResult, Result, Reasons
  <2>2. /\ 0 \in 0 .. MaxCampaigns /\ 0 \in 0 .. MaxCommits /\ 0 \in 0 .. PlanSize + 1
    BY WaterfallAssumption
  <2>3. "absent" \in Columns
    BY DEF Columns
  <2>4. column \in [Stories -> Columns] /\ commitOf \in [Stories -> Heads]
          /\ base \in Heads /\ sha \in Heads
    BY <2>2, <2>3 DEF WaterfallInit, Heads
  <2>5. limit \in Limits \cup {0} /\ worked \in Nat /\ worked <= limit
    BY DEF WaterfallInit
  <2> QED
    BY <2>1, <2>2, <2>4, <2>5 DEF WaterfallInit, WaterTypes
<1>2. \A s \in Stories : column[s] = "absent"
  BY DEF WaterfallInit
<1>3. TurnInv
  BY <1>2 DEF WaterfallInit, TurnInv, InTurn, Working, ReasonTrue, NoResult
<1>4. CountInv
  BY DEF WaterfallInit, CountInv, Working, Settled, NoResult
<1> QED
  BY <1>1, <1>3, <1>4

LEMMA CurrentIsStory ==
  ASSUME WaterTypes, campaign \in 1 .. MaxCampaigns, turn \in 1 .. PlanSize
  PROVE  /\ Current \in Stories /\ Current[1] = campaign /\ Current[2] = turn
         /\ \A s \in Stories : s[1] = campaign /\ s[2] = turn => s = Current
         /\ \A s \in Stories : s[1] \in Nat /\ s[2] \in 1 .. PlanSize
BY WaterfallAssumption DEF Stories, Current

LEMMA StoriesAreNumbered ==
  \A s \in Stories : s[1] \in 1 .. MaxCampaigns /\ s[2] \in 1 .. PlanSize
BY DEF Stories

LEMMA StoriesAreFinite ==
  ASSUME NEW S \in SUBSET Stories
  PROVE  IsFiniteSet(S) /\ Cardinality(S) \in Nat
<1>1. IsFiniteSet(1 .. MaxCampaigns) /\ IsFiniteSet(1 .. PlanSize)
  BY FS_Interval, WaterfallAssumption
<1>2. IsFiniteSet(Stories)
  BY <1>1, FS_Product DEF Stories
<1> QED
  BY <1>2, FS_Subset, FS_CardinalityType

-----------------------------------------------------------------------------
(* The types *)

LEMMA ResultType ==
  ASSUME WaterTypes, Finish
  PROVE  result' \in Result
<1>1. /\ All(Columns \ {"absent"}) \in SUBSET Stories
      /\ All({"done"}) \in SUBSET Stories /\ All({"blocked"}) \in SUBSET Stories
  BY DEF All
<1>2. /\ Cardinality(All(Columns \ {"absent"})) \in Nat
      /\ Cardinality(All({"done"})) \in Nat /\ Cardinality(All({"blocked"})) \in Nat
  BY <1>1, StoriesAreFinite
<1>3. result.landed \in Nat
  BY DEF WaterTypes, Result
<1> DEFINE why == CASE turn > PlanSize -> "backlog_empty"
                    [] turn <= PlanSize /\ worked >= limit -> "max_stories_worked"
                    [] OTHER -> "wall_time_exceeded"
<1>4. why \in Reasons
  BY WaterfallAssumption DEF WaterTypes, Reasons
<1>5. result' = [reason |-> why, created |-> Cardinality(All(Columns \ {"absent"})),
                 done |-> Cardinality(All({"done"})),
                 blocked |-> Cardinality(All({"blocked"})), landed |-> result.landed]
  BY DEF Finish
<1> HIDE DEF why
<1> QED
  BY <1>2, <1>3, <1>4, <1>5 DEF Result

LEMMA TypeStep ==
  ASSUME WaterTypes, TurnInv, WaterfallNext
  PROVE  WaterTypes'
<1> USE WaterfallAssumption
<1>n. /\ MaxCampaigns \in Nat /\ PlanSize \in Nat /\ MaxCommits \in Nat
      /\ limit \in Nat /\ worked \in Nat /\ turn \in Nat /\ head \in Nat
  BY DEF WaterTypes
<1>c. \A c \in Columns :
        column' = [column EXCEPT ![Current] = c] => column' \in [Stories -> Columns]
  BY DEF WaterTypes
<1>1. CASE BeginCampaign
  <2>1. result' \in Result
    BY <1>1 DEF BeginCampaign, NoResult, Result, Reasons
  <2>2. campaign' \in 0 .. MaxCampaigns /\ turn' \in 0 .. PlanSize + 1 /\ limit' \in Limits
    BY <1>1, <1>n DEF BeginCampaign, WaterTypes
  <2>3. worked' \in Nat /\ worked' <= limit' /\ base' \in Heads /\ sha' \in Heads
    BY <1>1, <1>n, <2>2 DEF BeginCampaign, Heads
  <2>4. /\ place' = "ingest" /\ fate' = "none" /\ expired' = FALSE
        /\ UNCHANGED <<column, commitOf, head>>
    BY <1>1 DEF BeginCampaign
  <2> QED
    BY <2>1, <2>2, <2>3, <2>4 DEF WaterTypes
<1>2. CASE Ingest
  <2>1. result' \in Result
    BY <1>2 DEF Ingest, NoResult, Result, Reasons, WaterTypes
  <2>2. column' \in [Stories -> Columns]
    BY <1>2, <1>c DEF Ingest, Columns, WaterTypes
  <2>3. turn' \in 0 .. PlanSize + 1 /\ place' \in {"idle", "ingest", "promote"}
    BY <1>2, <1>n DEF Ingest, WaterTypes
  <2> QED
    BY <1>2, <2>1, <2>2, <2>3 DEF Ingest, Keeps, WaterTypes
<1>3. CASE Promote
  <2>2. column' \in [Stories -> Columns]
    <3>1. (IF column[Current] = "draft" THEN "refinement" ELSE "ready") \in Columns
      BY DEF Columns
    <3>2. CASE UNCHANGED column
      BY <3>2 DEF WaterTypes
    <3>3. CASE column' = [column EXCEPT ![Current] = IF @ = "draft" THEN "refinement" ELSE "ready"]
      BY <3>1, <3>3 DEF WaterTypes
    <3> QED
      BY <1>3, <3>2, <3>3 DEF Promote
  <2>3. turn' \in 0 .. PlanSize + 1 /\ place' \in {"promote", "loop"}
    BY <1>3, <1>n DEF Promote, WaterTypes
  <2> QED
    BY <1>3, <2>2, <2>3 DEF Promote, Keeps, WaterTypes
<1>4. CASE Expire
  BY <1>4 DEF Expire, WaterTypes
<1>5. CASE Finish
  BY <1>5, ResultType DEF Finish, Keeps, WaterTypes
<1>6. CASE Pull
  <2>1. column' \in [Stories -> Columns]
    BY <1>6, <1>c DEF Pull, Columns
  <2> QED
    BY <1>6, <2>1 DEF Pull, Keeps, WaterTypes, Working
<1>7. CASE Baseline
  BY <1>7 DEF Baseline, WaterTypes, Working, Heads
<1>8. CASE Architect
  <2>1. head' \in 0 .. MaxCommits
    BY <1>8 DEF Architect, Shell
  <2>3. sha' \in Heads
    BY <1>8, <2>1 DEF Architect, Heads
  <2>2. fate' \in {"none", "committed", "no_commit", "failed"} /\ place' \in Working
    BY <1>8 DEF Architect, Working
  <2> QED
    BY <1>8, <2>1, <2>2, <2>3 DEF Architect, WaterTypes
<1>9. CASE Check
  <2>1. head' \in 0 .. MaxCommits
    BY <1>9 DEF Check, Shell
  <2> QED
    BY <1>9, <2>1 DEF Check, WaterTypes, Working
<1>10. ASSUME Blocks \/ Lands PROVE WaterTypes'
  <2>1. place = "settle" /\ turn <= PlanSize /\ worked < limit
    BY <1>10 DEF Blocks, Lands, TurnInv, Working
  <2>2. NextStory => /\ turn' \in 0 .. PlanSize + 1 /\ worked' \in Nat /\ worked' <= limit
                     /\ place' = "loop" /\ fate' = "none" /\ sha' \in Heads
    BY <1>n, <2>1 DEF NextStory, WaterTypes, Heads
  <2>3. CASE Blocks
    <3>1. column' \in [Stories -> Columns]
      BY <2>3, <1>c DEF Blocks, Columns
    <3> QED
      BY <2>2, <2>3, <3>1 DEF Blocks, WaterTypes
  <2>4. CASE Lands
    <3>1. CASE commitOf' = [commitOf EXCEPT ![Current] = sha] /\
               UNCHANGED <<column, turn, worked, place, fate, sha, result>>
      BY <2>4, <3>1 DEF Lands, WaterTypes
    <3>2. CASE column' = [column EXCEPT ![Current] = "review"] /\
               UNCHANGED <<commitOf, turn, worked, place, fate, sha, result>>
      <4>1. column' \in [Stories -> Columns]
        BY <3>2, <1>c DEF Columns
      <4> QED
        BY <2>4, <3>2, <4>1 DEF Lands, WaterTypes
    <3>3. CASE /\ column' = [column EXCEPT ![Current] = "done"] /\ NextStory
               /\ result' = [result EXCEPT !.landed = @ + 1] /\ UNCHANGED commitOf
      <4>1. column' \in [Stories -> Columns]
        BY <3>3, <1>c DEF Columns
      <4>2. result' \in Result
        BY <3>3 DEF WaterTypes, Result
      <4> QED
        BY <2>2, <2>4, <3>3, <4>1, <4>2 DEF Lands, WaterTypes
    <3> QED
      BY <2>4, <3>1, <3>2, <3>3 DEF Lands
  <2> QED
    BY <1>10, <2>3, <2>4
<1>11. CASE Killed
  <2>1. result' \in Result
    BY <1>11 DEF Killed, NoResult, Result, Reasons
  <2>2. /\ turn' \in 0 .. PlanSize + 1 /\ limit' = 0 /\ worked' = 0 /\ worked' <= limit'
        /\ base' \in Heads /\ sha' \in Heads
    BY <1>11, <1>n DEF Killed, Heads
  <2>3. /\ place' = "idle" /\ fate' = "none" /\ expired' = FALSE
        /\ UNCHANGED <<campaign, column, commitOf, head>>
    BY <1>11 DEF Killed
  <2> QED
    BY <2>1, <2>2, <2>3 DEF WaterTypes
<1> QED
  BY <1>1, <1>2, <1>3, <1>4, <1>5, <1>6, <1>7, <1>8, <1>9, <1>10, <1>11 DEF WaterfallNext

-----------------------------------------------------------------------------
(* The order of the stories *)

LEMMA OneStoryMoves ==
  ASSUME WaterTypes, NEW c, column' = [column EXCEPT ![Current] = c],
         campaign \in 1 .. MaxCampaigns, turn \in 1 .. PlanSize
  PROVE  \A s \in Stories :
           column'[s] = IF s[1] = campaign /\ s[2] = turn THEN c ELSE column[s]
BY CurrentIsStory DEF WaterTypes

LEMMA NoReason ==
  ASSUME result'.reason \in {"none", "ingest_failed"}
  PROVE  ReasonTrue'
BY DEF ReasonTrue

(* While the stories are drafted and promoted. *)
LEMMA TurnBegins ==
  ASSUME WaterTypes, TurnInv, BeginCampaign \/ Ingest \/ Promote
  PROVE  TurnInv'
<1> USE WaterfallAssumption
<1>n. turn \in Nat /\ campaign \in Nat /\ PlanSize \in Nat \ {0}
  BY DEF WaterTypes
<1>s. \A s \in Stories : s[1] \in 1 .. MaxCampaigns /\ s[2] \in 1 .. PlanSize
  BY StoriesAreNumbered
<1>1. CASE BeginCampaign
  <2>1. /\ campaign' \in 1 .. MaxCampaigns /\ turn' \in 1 .. PlanSize + 1 /\ turn' = 1
        /\ campaign' = campaign + 1 /\ place' = "ingest" /\ column' = column /\ worked' = 0
    BY <1>1, <1>n DEF BeginCampaign, WaterTypes
  <2>2. result'.reason = "none" /\ result'.landed = 0
    BY <1>1 DEF BeginCampaign, NoResult
  <2>3. \A s \in Stories : s[1] > campaign => column[s] = "absent"
    BY DEF TurnInv
  <2>4. \A s \in Stories : s[1] > campaign' => column'[s] = "absent"
    BY <1>n, <1>s, <2>1, <2>3
  <2>5. \A s \in Stories : s[1] = campaign' => InTurn(s)'
    BY <1>n, <1>s, <2>1, <2>3 DEF InTurn, Working
  <2> QED
    BY <2>1, <2>2, <2>4, <2>5, NoReason DEF TurnInv, Working
<1>2. CASE Ingest
  <2>1. /\ campaign \in 1 .. MaxCampaigns /\ turn \in 1 .. PlanSize + 1 /\ place = "ingest"
        /\ worked = 0 /\ result.landed = 0 /\ result.reason = "none"
        /\ campaign' = campaign /\ worked' = worked
    BY <1>2 DEF Ingest, Keeps, TurnInv
  <2>2. \A s \in Stories : s[1] > campaign => column[s] = "absent"
    BY DEF TurnInv
  <2>3. \A s \in Stories : s[1] = campaign => column[s] = IF s[2] < turn THEN "draft" ELSE "absent"
    BY <2>1 DEF TurnInv, InTurn
  <2>4. CASE /\ turn <= PlanSize /\ column' = [column EXCEPT ![Current] = "draft"]
             /\ turn' = turn + 1 /\ UNCHANGED <<place, result>>
    <3>c. turn \in 1 .. PlanSize
      BY <1>n, <2>1, <2>4
    <3>1. \A s \in Stories : column'[s] = IF s[1] = campaign /\ s[2] = turn THEN "draft" ELSE column[s]
      BY <2>1, <2>4, <3>c, OneStoryMoves
    <3>2. \A s \in Stories : s[1] > campaign => column'[s] = "absent"
      BY <1>n, <1>s, <2>2, <3>1
    <3>3. \A s \in Stories : s[1] = campaign => InTurn(s)'
      BY <1>n, <1>s, <2>1, <2>3, <2>4, <3>1 DEF InTurn, Working
    <3>4. turn' \in 1 .. PlanSize + 1
      BY <1>n, <2>1, <2>4
    <3> QED
      BY <2>1, <2>4, <3>2, <3>3, <3>4, NoReason DEF TurnInv, Working
  <2>5. CASE /\ turn > PlanSize /\ place' = "promote" /\ turn' = 1 /\ UNCHANGED <<column, result>>
    <3>1. \A s \in Stories : s[1] = campaign => InTurn(s)'
      BY <1>n, <1>s, <2>1, <2>3, <2>5 DEF InTurn, Working
    <3>2. turn' \in 1 .. PlanSize + 1
      BY <1>n, <2>5
    <3> QED
      BY <2>1, <2>2, <2>5, <3>1, <3>2, NoReason DEF TurnInv, Working
  <2>6. CASE /\ place' = "idle" /\ result' = [NoResult EXCEPT !.reason = "ingest_failed"]
             /\ UNCHANGED <<column, turn>>
    <3>1. result'.reason = "ingest_failed"
      BY <2>6 DEF NoResult
    <3>2. \A s \in Stories : s[1] = campaign => InTurn(s)'
      BY <2>6 DEF InTurn, Working
    <3> QED
      BY <2>1, <2>2, <2>6, <3>1, <3>2, NoReason DEF TurnInv, Working
  <2> QED
    BY <1>2, <2>4, <2>5, <2>6 DEF Ingest
<1>3. CASE Promote
  <2>1. /\ campaign \in 1 .. MaxCampaigns /\ turn \in 1 .. PlanSize + 1 /\ place = "promote"
        /\ worked = 0 /\ result.landed = 0 /\ result.reason = "none"
        /\ campaign' = campaign /\ worked' = worked /\ result' = result
    BY <1>3 DEF Promote, Keeps, TurnInv
  <2>2. \A s \in Stories : s[1] > campaign => column[s] = "absent"
    BY DEF TurnInv
  <2>3. \A s \in Stories : s[1] = campaign => InTurn(s)
    BY DEF TurnInv
  <2>4. CASE turn <= PlanSize
    <3>c. turn \in 1 .. PlanSize /\ Current \in Stories /\ Current[1] = campaign /\ Current[2] = turn
      BY <1>n, <2>1, <2>4, CurrentIsStory
    <3> DEFINE c == IF column[Current] = "draft" THEN "refinement" ELSE "ready"
    <3>1. column' = [column EXCEPT ![Current] = c] /\ place' = "promote"
      BY <1>n, <1>3, <2>1, <2>4, <3>c DEF Promote, WaterTypes
    <3>2. \/ column[Current] = "draft" /\ c = "refinement" /\ turn' = turn
          \/ column[Current] = "refinement" /\ c = "ready" /\ turn' = turn + 1
      BY <1>n, <1>3, <2>1, <2>3, <2>4, <3>c DEF Promote, InTurn
    <3> HIDE DEF c
    <3>3. \A s \in Stories : column'[s] = IF s[1] = campaign /\ s[2] = turn THEN c ELSE column[s]
      BY <2>1, <3>1, <3>c, OneStoryMoves
    <3>4. \A s \in Stories : s[1] > campaign => column'[s] = "absent"
      BY <1>n, <1>s, <2>2, <3>3
    <3>5. \A s \in Stories : s[1] = campaign => InTurn(s)'
      <4>1. ASSUME NEW s \in Stories, s[1] = campaign
            PROVE  /\ s[2] < turn => column[s] = "ready"
                   /\ s[2] > turn => column[s] = "draft"
                   /\ s[2] \in 1 .. PlanSize
        BY <1>s, <2>1, <2>3, <4>1 DEF InTurn
      <4> QED
        BY <1>n, <2>1, <3>1, <3>2, <3>3, <4>1 DEF InTurn, Working
    <3>6. turn' \in 1 .. PlanSize + 1
      BY <1>n, <3>2, <3>c
    <3> QED
      BY <2>1, <3>1, <3>4, <3>5, <3>6, NoReason DEF TurnInv, Working
  <2>5. CASE turn > PlanSize
    <3>1. place' = "loop" /\ turn' = 1 /\ column' = column
      BY <1>n, <1>3, <2>5 DEF Promote
    <3>2. \A s \in Stories : s[1] = campaign => InTurn(s)'
      BY <1>n, <1>s, <2>1, <2>3, <2>5, <3>1 DEF InTurn, Working
    <3> QED
      BY <1>n, <2>1, <2>2, <3>1, <3>2, NoReason DEF TurnInv, Working
  <2> QED
    BY <1>n, <2>4, <2>5
<1> QED
  BY <1>1, <1>2, <1>3

(* While they are worked on. *)
LEMMA TurnGoesOn ==
  ASSUME WaterTypes, TurnInv,
         Expire \/ Pull \/ Baseline \/ Architect \/ Check \/ Blocks \/ Lands
  PROVE  TurnInv'
<1> USE WaterfallAssumption
<1>n. turn \in Nat /\ campaign \in Nat /\ PlanSize \in Nat \ {0} /\ worked \in Nat /\ limit \in Nat
  BY DEF WaterTypes
<1>s. \A s \in Stories : s[1] \in 1 .. MaxCampaigns /\ s[2] \in 1 .. PlanSize
  BY StoriesAreNumbered
<1>0. /\ campaign \in 1 .. MaxCampaigns /\ turn \in 1 .. PlanSize + 1
      /\ result.reason = "none" /\ place \in {"loop"} \cup Working
      /\ worked = turn - 1 /\ campaign' = campaign /\ limit' = limit
  BY DEF Expire, Pull, Keeps, Baseline, Architect, Check, Blocks, Lands, TurnInv, Working
<1>a. \A s \in Stories : s[1] > campaign => column[s] = "absent"
  BY DEF TurnInv
<1>t. \A s \in Stories : s[1] = campaign => InTurn(s)
  BY DEF TurnInv
<1>1. CASE Expire
  <2>1. \A s \in Stories : s[1] = campaign => InTurn(s)'
    BY <1>1, <1>t DEF Expire, InTurn
  <2> QED
    BY <1>0, <1>1, <1>a, <2>1, NoReason DEF Expire, TurnInv, Working
<1>2. CASE Pull
  <2>1. turn \in 1 .. PlanSize /\ worked < limit /\ place = "loop" /\ place' = "baseline"
        /\ UNCHANGED <<turn, worked, result>>
    BY <1>0, <1>2, <1>n DEF Pull, Keeps
  <2>2. \A s \in Stories :
          column'[s] = IF s[1] = campaign /\ s[2] = turn THEN "in_progress" ELSE column[s]
    BY <1>0, <1>2, <2>1, OneStoryMoves DEF Pull
  <2>3. \A s \in Stories : s[1] > campaign => column'[s] = "absent"
    BY <1>n, <1>s, <1>a, <2>2
  <2>4. \A s \in Stories : s[1] = campaign => InTurn(s)'
    BY <1>n, <1>s, <1>t, <2>1, <2>2 DEF InTurn, Working
  <2> QED
    BY <1>0, <1>n, <2>1, <2>3, <2>4, NoReason DEF TurnInv, Working
<1>3. ASSUME Baseline \/ Architect \/ Check PROVE TurnInv'
  <2>1. place \in Working \ {"settle"} /\ place' \in Working
        /\ UNCHANGED <<column, turn, worked, result>>
    BY <1>3 DEF Baseline, Architect, Check, Working
  <2>2. turn <= PlanSize /\ worked < limit
    BY <2>1 DEF TurnInv
  <2>3. \A s \in Stories : s[1] = campaign => InTurn(s)'
    BY <1>t, <2>1 DEF InTurn, Working
  <2> QED
    BY <1>0, <1>a, <2>1, <2>2, <2>3, NoReason DEF TurnInv, Working
<1>4. ASSUME NEW c \in {"done", "blocked"}, place = "settle",
             column' = [column EXCEPT ![Current] = c], NextStory, result'.reason = "none"
      PROVE  TurnInv'
  <2>1. turn \in 1 .. PlanSize /\ worked < limit
    BY <1>0, <1>4, <1>n DEF TurnInv, Working
  <2>2. \A s \in Stories : column'[s] = IF s[1] = campaign /\ s[2] = turn THEN c ELSE column[s]
    BY <1>0, <1>4, <2>1, OneStoryMoves
  <2>3. \A s \in Stories : s[1] > campaign => column'[s] = "absent"
    BY <1>n, <1>s, <1>a, <2>2
  <2>4. turn' = turn + 1 /\ worked' = worked + 1 /\ place' = "loop"
    BY <1>4 DEF NextStory
  <2>5. \A s \in Stories : s[1] = campaign => InTurn(s)'
    BY <1>n, <1>s, <1>t, <1>4, <2>1, <2>2, <2>4 DEF InTurn, Working
  <2> QED
    BY <1>0, <1>n, <1>4, <2>1, <2>3, <2>4, <2>5, NoReason DEF TurnInv, Working
<1>5. CASE Blocks
  BY <1>0, <1>4, <1>5 DEF Blocks
<1>6. CASE Lands
  <2>p. place = "settle" /\ turn \in 1 .. PlanSize /\ worked < limit
    BY <1>0, <1>6, <1>n DEF Lands, TurnInv, Working
  <2>1. CASE UNCHANGED <<column, turn, worked, place, result>>
    <3>1. \A s \in Stories : s[1] = campaign => InTurn(s)'
      BY <1>t, <2>1 DEF InTurn
    <3> QED
      BY <1>0, <1>a, <2>p, <2>1, <3>1, NoReason DEF TurnInv, Working
  <2>2. CASE /\ column' = [column EXCEPT ![Current] = "review"]
             /\ UNCHANGED <<turn, worked, place, result>>
    <3>1. \A s \in Stories : column'[s] = IF s[1] = campaign /\ s[2] = turn THEN "review" ELSE column[s]
      BY <1>0, <2>p, <2>2, OneStoryMoves
    <3>2. \A s \in Stories : s[1] > campaign => column'[s] = "absent"
      BY <1>n, <1>s, <1>a, <3>1
    <3>3. \A s \in Stories : s[1] = campaign => InTurn(s)'
      BY <1>n, <1>s, <1>t, <2>p, <2>2, <3>1 DEF InTurn, Working
    <3> QED
      BY <1>0, <2>p, <2>2, <3>2, <3>3, NoReason DEF TurnInv, Working
  <2>3. CASE /\ column' = [column EXCEPT ![Current] = "done"] /\ NextStory
             /\ result' = [result EXCEPT !.landed = @ + 1]
    <3>1. result'.reason = "none"
      BY <1>0, <2>3 DEF WaterTypes, Result
    <3> QED
      BY <1>4, <2>p, <2>3, <3>1
  <2> QED
    BY <1>6, <2>1, <2>2, <2>3 DEF Lands
<1> QED
  BY <1>1, <1>2, <1>3, <1>5, <1>6

(* And when the campaign ends. *)
LEMMA TurnEnds ==
  ASSUME WaterTypes, TurnInv, Finish \/ Killed \/ UNCHANGED waterVars
  PROVE  TurnInv'
<1> USE WaterfallAssumption
<1>n. turn \in Nat /\ campaign \in Nat /\ PlanSize \in Nat \ {0} /\ worked \in Nat /\ limit \in Nat
      /\ worked <= limit
  BY DEF WaterTypes
<1>s. \A s \in Stories : s[1] \in 1 .. MaxCampaigns /\ s[2] \in 1 .. PlanSize
  BY StoriesAreNumbered
<1>a. \A s \in Stories : s[1] > campaign => column[s] = "absent"
  BY DEF TurnInv
<1>1. CASE Finish
  <2>0. /\ campaign \in 1 .. MaxCampaigns /\ turn \in 1 .. PlanSize + 1 /\ place = "loop"
        /\ place' = "idle" /\ UNCHANGED <<campaign, column, turn, worked, limit, expired>>
    BY <1>1 DEF Finish, Keeps, TurnInv
  <2>1. \A s \in Stories : s[1] = campaign =>
          /\ s[2] < turn => column[s] \in {"done", "blocked"}
          /\ s[2] = turn => column[s] = "ready"
    BY <2>0 DEF TurnInv, InTurn
  <2>2. turn > PlanSize => Own({"draft", "refinement", "ready"}) = {}
    BY <1>n, <1>s, <2>1 DEF Own
  <2>3. turn <= PlanSize => Own({"ready"}) # {}
    <3> SUFFICES ASSUME turn <= PlanSize PROVE Own({"ready"}) # {}
      OBVIOUS
    <3>1. Current \in Stories /\ Current[1] = campaign /\ Current[2] = turn
      BY <1>n, <2>0, CurrentIsStory
    <3> QED
      BY <2>1, <3>1 DEF Own
  <2>4. \/ turn > PlanSize /\ result'.reason = "backlog_empty"
        \/ turn <= PlanSize /\ worked = limit /\ result'.reason = "max_stories_worked"
        \/ turn <= PlanSize /\ expired /\ result'.reason = "wall_time_exceeded"
    <3>0. result'.reason = CASE turn > PlanSize -> "backlog_empty"
                             [] turn <= PlanSize /\ worked >= limit -> "max_stories_worked"
                             [] OTHER -> "wall_time_exceeded"
      BY <1>1 DEF Finish
    <3>1. CASE turn > PlanSize
      <4>1. ~(turn <= PlanSize)
        BY <1>n, <3>1
      <4> QED
        BY <3>0, <3>1, <4>1
    <3>2. CASE ~(turn > PlanSize) /\ worked >= limit
      <4>1. turn <= PlanSize /\ worked = limit
        BY <1>n, <3>2
      <4> QED
        BY <3>0, <3>2, <4>1
    <3>3. CASE ~(turn > PlanSize) /\ ~(worked >= limit)
      <4>1. turn <= PlanSize
        BY <1>n, <3>3
      <4>2. expired
        BY <1>1, <3>3 DEF Finish
      <4> QED
        BY <3>0, <3>3, <4>1, <4>2
    <3> QED
      BY <3>1, <3>2, <3>3
  <2>5. ReasonTrue'
    <3>1. \A where : Own(where)' = Own(where)
      BY <2>0 DEF Own
    <3> QED
      BY <2>0, <2>2, <2>3, <2>4, <3>1 DEF ReasonTrue
  <2>6. \A s \in Stories : InTurn(s)'
    BY <2>0 DEF InTurn, Working
  <2> QED
    BY <1>a, <2>0, <2>5, <2>6 DEF TurnInv, Working
<1>2. CASE Killed
  <2>1. result'.reason = "none" /\ place' = "idle" /\ UNCHANGED <<campaign, column>>
    BY <1>2 DEF Killed, NoResult
  <2>2. \A s \in Stories : InTurn(s)'
    BY <2>1 DEF InTurn, Working
  <2> QED
    BY <1>a, <2>1, <2>2, NoReason DEF TurnInv, Working
<1>3. CASE UNCHANGED waterVars
  BY <1>3 DEF waterVars, TurnInv, InTurn, ReasonTrue, Own
<1> QED
  BY <1>1, <1>2, <1>3

LEMMA TurnStep ==
  ASSUME WaterTypes, TurnInv, [WaterfallNext]_waterVars
  PROVE  TurnInv'
BY TurnBegins, TurnGoesOn, TurnEnds DEF WaterfallNext

-----------------------------------------------------------------------------
(* The counts *)

LEMMA OwnMoves ==
  ASSUME WaterTypes, Current \in Stories, NEW c, column' = [column EXCEPT ![Current] = c],
         campaign' = campaign, NEW W, column[Current] \notin W
  PROVE  /\ c \notin W => Own(W)' = Own(W)
         /\ c \in W => Own(W)' = Own(W) \cup {Current}
                       /\ Cardinality(Own(W)') = Cardinality(Own(W)) + 1
<1>1. \A s \in Stories : column'[s] = IF s = Current THEN c ELSE column[s]
  BY DEF WaterTypes
<1>2. Current[1] = campaign /\ Current \notin Own(W)
  BY DEF Current, Own
<1>3. c \notin W => Own(W)' = Own(W)
  BY <1>1 DEF Own
<1>4. c \in W => Own(W)' = Own(W) \cup {Current}
  BY <1>1, <1>2 DEF Own
<1>5. IsFiniteSet(Own(W))
  <2>1. Own(W) \in SUBSET Stories
    BY DEF Own
  <2> QED
    BY <2>1, StoriesAreFinite
<1> QED
  BY <1>2, <1>3, <1>4, <1>5, FS_AddElement

LEMMA CountStep ==
  ASSUME WaterTypes, TurnInv, TurnInv', CountInv, [WaterfallNext]_waterVars
  PROVE  CountInv'
<1> USE WaterfallAssumption
<1>n. turn \in Nat /\ PlanSize \in Nat /\ worked \in Nat /\ result.landed \in Nat
  BY DEF WaterTypes, Result
<1>1. ASSUME place' # "idle" PROVE Settled'
  BY <1>1 DEF TurnInv, Settled
<1>2. ASSUME result'.reason \in {"none", "ingest_failed"}, place' \notin {"loop"} \cup Working
      PROVE  CountInv'
  BY <1>2 DEF CountInv, Settled
<1>3. CASE BeginCampaign
  BY <1>2, <1>3 DEF BeginCampaign, NoResult, Working
<1>4. CASE Ingest
  <2>1. result'.reason \in {"none", "ingest_failed"}
    BY <1>4 DEF Ingest, NoResult, TurnInv
  <2>2. place' \in {"ingest", "promote", "idle"}
    BY <1>4 DEF Ingest
  <2> QED
    BY <1>2, <2>1, <2>2 DEF Working
<1>5. CASE Promote
  <2>0. result'.reason = "none" /\ place' \in {"promote", "loop"}
    BY <1>5 DEF Promote, TurnInv
  <2>1. CASE place' = "promote"
    BY <1>2, <2>0, <2>1 DEF Working
  <2>2. CASE place' = "loop"
    <3>1. /\ turn > PlanSize /\ UNCHANGED <<column, campaign, result, worked>>
          /\ worked = 0 /\ result.landed = 0
      BY <1>5, <2>2 DEF Promote, Keeps, TurnInv
    <3>2. \A s \in Stories : s[1] = campaign => column[s] = "ready"
      <4>1. \A s \in Stories : s[2] < turn
        BY <1>n, <3>1, StoriesAreNumbered
      <4> QED
        BY <1>5, <4>1 DEF Promote, TurnInv, InTurn
    <3>3. Own({"done"})' = {} /\ Own({"done", "blocked"})' = {}
      BY <3>1, <3>2 DEF Own
    <3>4. Cardinality(Own({"done"})') = 0 /\ Cardinality(Own({"done", "blocked"})') = 0
      BY <3>3, FS_EmptySet
    <3> QED
      BY <1>1, <2>2, <3>1, <3>4 DEF CountInv
  <2> QED
    BY <2>0, <2>1, <2>2
<1>6. ASSUME Expire \/ Baseline \/ Architect \/ Check PROVE CountInv'
  <2>1. /\ place \in {"loop"} \cup Working /\ place' \in {"loop"} \cup Working
        /\ UNCHANGED <<column, campaign, worked, result>>
    BY <1>6 DEF Expire, Baseline, Architect, Check, Working
  <2>2. Own({"done"})' = Own({"done"}) /\ Own({"done", "blocked"})' = Own({"done", "blocked"})
    BY <2>1 DEF Own
  <2> QED
    BY <1>1, <2>1, <2>2 DEF CountInv, Working
<1>c. place \in Working \/ (place = "loop" /\ turn <= PlanSize) =>
        Current \in Stories /\ column[Current] \notin {"done", "blocked"}
  <2> SUFFICES ASSUME place \in Working \/ (place = "loop" /\ turn <= PlanSize)
               PROVE  Current \in Stories /\ column[Current] \notin {"done", "blocked"}
    OBVIOUS
  <2>1. campaign \in 1 .. MaxCampaigns /\ turn \in 1 .. PlanSize
    BY <1>n DEF TurnInv, Working
  <2>2. Current \in Stories /\ Current[1] = campaign /\ Current[2] = turn
    BY <2>1, CurrentIsStory
  <2> QED
    BY <2>2 DEF TurnInv, InTurn, Working
<1>7. ASSUME NEW c \in {"in_progress", "review"}, place \in {"loop"} \cup Working,
             place = "loop" => turn <= PlanSize, place' \in {"loop"} \cup Working,
             column' = [column EXCEPT ![Current] = c], UNCHANGED <<campaign, worked, result>>
      PROVE  CountInv'
  <2>1. Own({"done"})' = Own({"done"}) /\ Own({"done", "blocked"})' = Own({"done", "blocked"})
    BY <1>7, <1>c, OwnMoves
  <2> QED
    BY <1>1, <1>7, <2>1 DEF CountInv, Working
<1>8. CASE Pull
  BY <1>7, <1>8 DEF Pull, Keeps, Working
<1>9. CASE Blocks
  <2>0. place = "settle" /\ place' = "loop" /\ worked' = worked + 1
        /\ column' = [column EXCEPT ![Current] = "blocked"] /\ UNCHANGED <<campaign, result>>
    BY <1>9 DEF Blocks, NextStory
  <2>1. Current \in Stories /\ column[Current] \notin {"done", "blocked"}
    BY <1>c, <2>0 DEF Working
  <2>2. Own({"done"})' = Own({"done"})
    <3>1. "blocked" \notin {"done"} /\ column[Current] \notin {"done"}
      BY <2>1
    <3> QED
      BY <2>0, <2>1, <3>1, OwnMoves
  <2>3. Cardinality(Own({"done", "blocked"})') = Cardinality(Own({"done", "blocked"})) + 1
    BY <2>0, <2>1, OwnMoves
  <2> QED
    BY <1>1, <2>0, <2>2, <2>3 DEF CountInv, Working
<1>10. CASE Lands
  <2>0. place = "settle" /\ campaign' = campaign
    BY <1>10 DEF Lands
  <2>1. CASE UNCHANGED <<column, worked, place, result>>
    <3>1. Own({"done"})' = Own({"done"}) /\ Own({"done", "blocked"})' = Own({"done", "blocked"})
      BY <2>0, <2>1 DEF Own
    <3> QED
      BY <1>1, <2>0, <2>1, <3>1 DEF CountInv, Working
  <2>2. CASE column' = [column EXCEPT ![Current] = "review"] /\ UNCHANGED <<worked, place, result>>
    BY <1>7, <2>0, <2>2 DEF Working
  <2>3. CASE /\ column' = [column EXCEPT ![Current] = "done"] /\ NextStory
             /\ result' = [result EXCEPT !.landed = @ + 1]
    <3>1. Current \in Stories /\ column[Current] \notin {"done", "blocked"}
      BY <1>c, <2>0 DEF Working
    <3>2. Cardinality(Own({"done"})') = Cardinality(Own({"done"})) + 1
      BY <2>0, <2>3, <3>1, OwnMoves
    <3>3. Cardinality(Own({"done", "blocked"})') = Cardinality(Own({"done", "blocked"})) + 1
      BY <2>0, <2>3, <3>1, OwnMoves
    <3>4. place' = "loop" /\ worked' = worked + 1 /\ result'.landed = result.landed + 1
      BY <2>3 DEF NextStory, WaterTypes, Result
    <3> QED
      BY <1>1, <2>0, <3>2, <3>3, <3>4 DEF CountInv, Working
  <2> QED
    BY <1>10, <2>1, <2>2, <2>3 DEF Lands
<1>11. CASE Finish
  <2>0. place = "loop" /\ place' = "idle" /\ UNCHANGED <<column, campaign, worked>>
    BY <1>11 DEF Finish, Keeps
  <2>1. result'.landed = result.landed /\ result'.done = Cardinality(All({"done"}))
    BY <1>11 DEF Finish
  <2>2. Own({"done"})' = Own({"done"}) /\ Own({"done", "blocked"})' = Own({"done", "blocked"})
    BY <2>0 DEF Own
  <2>3. Cardinality(Own({"done"})) <= Cardinality(All({"done"}))
    <3>1. All({"done"}) \in SUBSET Stories /\ Own({"done"}) \in SUBSET All({"done"})
      BY DEF All, Own
    <3> QED
      BY <3>1, StoriesAreFinite, FS_Subset
  <2> QED
    BY <2>0, <2>1, <2>2, <2>3 DEF CountInv, Settled, Working
<1>12. CASE Killed
  BY <1>2, <1>12 DEF Killed, NoResult, Working
<1>13. CASE UNCHANGED waterVars
  <2>1. Own({"done"})' = Own({"done"}) /\ Own({"done", "blocked"})' = Own({"done", "blocked"})
    BY <1>13 DEF waterVars, Own
  <2> QED
    BY <1>13, <2>1 DEF waterVars, CountInv, Settled
<1> QED
  BY <1>3, <1>4, <1>5, <1>6, <1>8, <1>9, <1>10, <1>11, <1>12, <1>13 DEF WaterfallNext
-----------------------------------------------------------------------------
(* The ingestion of comments *)

Passing == [at : {"none", "fetch", "draft", "put"}, seen : SUBSET Comments, left : SUBSET Kinds,
            fetched : SUBSET Comments, new : SUBSET Comments, drafted : SUBSET Comments,
            waived : SUBSET Comments]

FeedbackTypes ==
  /\ posted \in [Comments -> {"none", "noise", "ask"}]
  /\ record = Torn \/ record \in SUBSET Comments
  /\ pass \in Passing
  /\ passes \in 0 .. MaxPasses
  /\ drafts \in [Comments -> Nat]
  /\ letGo \in SUBSET Comments /\ cuts \in Nat

(* Until it opens the file a pass has what the file said; what it has fetched *)
(* it has known, drafted or let go, or will come to.                         *)
PassInv ==
  /\ pass.at = "none" => pass = NoPass
  /\ pass.at \in {"fetch", "draft"} => pass.seen = IF record = Torn THEN {} ELSE record
  /\ pass.at = "fetch" => pass.drafted = {}
  /\ pass.at = "put" => record = Torn /\ pass.new = {}
  /\ pass.new \cap (pass.seen \cup pass.drafted) = {}
  /\ pass.fetched \subseteq pass.seen \cup pass.new \cup pass.drafted \cup pass.waived
  /\ pass.new \cup pass.drafted \subseteq pass.fetched
  /\ \A c \in pass.drafted : drafts[c] > 0
  /\ \A c \in pass.seen : drafts[c] > 0 \/ c \in letGo
  /\ SeenIsHandled

(* A comment that the file or the pass knows may have had one draft that no   *)
(* cut has cost.                                                             *)
Known(c) == c \in pass.seen \cup pass.drafted \/ (record # Torn /\ c \in record)

OnceInv == \A c \in Comments : drafts[c] <= IF Known(c) THEN 1 + cuts ELSE cuts

FeedbackInv == FeedbackTypes /\ PassInv /\ OnceInv

LEMMA FeedbackBegins == FeedbackInit => FeedbackInv
<1> SUFFICES ASSUME FeedbackInit PROVE FeedbackInv
  OBVIOUS
<1>1. FeedbackTypes
  BY PrFeedbackAssumption DEF FeedbackInit, FeedbackTypes, NoPass, Passing
<1>2. PassInv
  BY DEF FeedbackInit, PassInv, NoPass, SeenIsHandled
<1>3. OnceInv
  BY DEF FeedbackInit, OnceInv
<1> QED
  BY <1>1, <1>2, <1>3 DEF FeedbackInv

LEMMA FeedbackStep ==
  ASSUME FeedbackInv, [FeedbackNext]_feedbackVars
  PROVE  FeedbackInv'
<1> USE PrFeedbackAssumption
<1>t. FeedbackTypes /\ PassInv /\ OnceInv
  BY DEF FeedbackInv
<1>n. NoPass \in Passing /\ NoPass.seen = {} /\ NoPass.drafted = {} /\ NoPass.new = {}
      /\ NoPass.fetched = {} /\ NoPass.at = "none"
  BY DEF NoPass, Passing
<1>1. ASSUME NEW c \in Comments, Comment(c) PROVE FeedbackInv'
  <2>1. posted' \in [Comments -> {"none", "noise", "ask"}]
    BY <1>t, <1>1 DEF Comment, FeedbackTypes
  <2>2. UNCHANGED <<record, pass, passes, drafts, letGo, cuts>>
    BY <1>1 DEF Comment
  <2> QED
    BY <1>t, <2>1, <2>2 DEF FeedbackInv, FeedbackTypes, PassInv, SeenIsHandled, OnceInv, Known
<1>2. CASE BeginPass
  <2> DEFINE known == IF record = Torn THEN {} ELSE record
  <2>1. /\ pass'.at = "fetch" /\ pass'.seen = known /\ pass'.fetched = {} /\ pass'.new = {}
        /\ pass'.drafted = {} /\ pass' \in Passing
    BY <1>t, <1>2 DEF BeginPass, NoPass, Passing, FeedbackTypes
  <2>2. pass = NoPass /\ UNCHANGED <<posted, record, drafts, letGo, cuts>>
    BY <1>t, <1>2 DEF BeginPass, PassInv
  <2>3. passes' \in 0 .. MaxPasses
    BY <1>t, <1>2 DEF BeginPass, FeedbackTypes
  <2>4. FeedbackTypes'
    BY <1>t, <2>1, <2>2, <2>3 DEF FeedbackTypes
  <2>5. PassInv'
    BY <1>t, <2>1, <2>2 DEF PassInv, SeenIsHandled
  <2>6. OnceInv'
    BY <1>t, <1>n, <2>1, <2>2 DEF OnceInv, Known, FeedbackTypes
  <2> QED
    BY <2>4, <2>5, <2>6 DEF FeedbackInv
<1>3. ASSUME NEW kind \in Kinds, Fetch(kind) PROVE FeedbackInv'
  <2>0. pass.at = "fetch" /\ UNCHANGED <<posted, record, passes, drafts, letGo, cuts>>
    BY <1>3 DEF Fetch
  <2>1. PICK got \in {{}, {c \in Comments : KindOf[c] = kind /\ posted[c] # "none"}} :
          LET fresh == got \ pass.seen IN
          pass' = [pass EXCEPT !.left = @ \ {kind},
                               !.at = IF pass.left = {kind} THEN "draft" ELSE "fetch",
                               !.fetched = @ \cup got,
                               !.new = @ \cup {c \in fresh : posted[c] = "ask"},
                               !.waived = @ \cup {c \in fresh : posted[c] = "noise"}]
    BY <1>3 DEF Fetch
  <2> DEFINE ask == {c \in got \ pass.seen : posted[c] = "ask"}
             noise == {c \in got \ pass.seen : posted[c] = "noise"}
  <2>2. got \subseteq Comments /\ \A c \in got : posted[c] \in {"noise", "ask"}
    BY <1>t DEF FeedbackTypes
  <2>3. ask \subseteq Comments /\ noise \subseteq Comments /\ ask \cap pass.seen = {}
        /\ got \subseteq pass.seen \cup ask \cup noise /\ ask \subseteq got
    BY <2>2
  <2>4. /\ pass'.at \in {"fetch", "draft"} /\ pass'.seen = pass.seen
        /\ pass'.fetched = pass.fetched \cup got /\ pass'.new = pass.new \cup ask
        /\ pass'.drafted = pass.drafted /\ pass'.waived = pass.waived \cup noise
        /\ pass'.left \in SUBSET Kinds /\ pass' \in Passing
    BY <1>t, <2>1, <2>2, <2>3 DEF FeedbackTypes, Passing
  <2> HIDE DEF ask, noise
  <2>5. FeedbackTypes'
    BY <1>t, <2>0, <2>4 DEF FeedbackTypes
  <2>6. PassInv'
    BY <1>t, <2>0, <2>3, <2>4 DEF PassInv, SeenIsHandled
  <2>7. OnceInv'
    BY <1>t, <2>0, <2>4 DEF OnceInv, Known
  <2> QED
    BY <2>5, <2>6, <2>7 DEF FeedbackInv
<1>4. ASSUME NEW c \in Comments, Draft(c) PROVE FeedbackInv'
  <2>0. pass.at = "draft" /\ c \in pass.new /\ UNCHANGED <<posted, record, passes, letGo, cuts>>
    BY <1>4 DEF Draft
  <2>1. c \notin pass.seen /\ c \notin pass.drafted /\ pass.seen = (IF record = Torn THEN {} ELSE record)
    BY <1>t, <2>0 DEF PassInv
  <2>2. CASE /\ drafts' = [drafts EXCEPT ![c] = @ + 1]
             /\ pass' = [pass EXCEPT !.new = @ \ {c}, !.drafted = @ \cup {c}]
    <3>1. /\ pass'.at = "draft" /\ pass'.seen = pass.seen /\ pass'.fetched = pass.fetched
          /\ pass'.new = pass.new \ {c} /\ pass'.drafted = pass.drafted \cup {c}
          /\ pass'.waived = pass.waived /\ pass' \in Passing
      BY <1>t, <2>0, <2>2 DEF FeedbackTypes, Passing
    <3>2. /\ drafts' \in [Comments -> Nat] /\ drafts'[c] = drafts[c] + 1 /\ drafts[c] \in Nat
          /\ \A d \in Comments : d # c => drafts'[d] = drafts[d]
      BY <1>t, <2>2 DEF FeedbackTypes
    <3>3. \A d \in Comments : drafts[d] > 0 => drafts'[d] > 0
      BY <3>2
    <3>4. FeedbackTypes'
      BY <1>t, <2>0, <3>1, <3>2 DEF FeedbackTypes
    <3>5. PassInv'
      <4>1. pass.seen \subseteq Comments /\ pass.drafted \subseteq Comments
            /\ (record # Torn => record \subseteq Comments)
        BY <1>t DEF FeedbackTypes, Passing
      <4>2. \A d \in pass'.drafted : drafts'[d] > 0
        BY <1>t, <3>1, <3>2, <3>3, <4>1 DEF PassInv
      <4>3. \A d \in pass'.seen : drafts'[d] > 0 \/ d \in letGo'
        BY <1>t, <2>0, <3>1, <3>3, <4>1 DEF PassInv
      <4>4. SeenIsHandled'
        BY <1>t, <2>0, <3>3, <4>1 DEF PassInv, SeenIsHandled
      <4> QED
        BY <1>t, <2>0, <2>1, <3>1, <4>2, <4>3, <4>4 DEF PassInv
    <3>6. OnceInv'
      <4> SUFFICES ASSUME NEW d \in Comments
                   PROVE  drafts'[d] <= IF Known(d)' THEN 1 + cuts' ELSE cuts'
        BY DEF OnceInv
      <4>1. cuts' = cuts /\ cuts \in Nat /\ drafts[d] <= (IF Known(d) THEN 1 + cuts ELSE cuts)
        BY <1>t, <2>0 DEF OnceInv, FeedbackTypes
      <4>2. d = c => ~Known(d) /\ Known(d)'
        BY <2>1, <3>1 DEF Known
      <4>3. d # c => (Known(d)' <=> Known(d))
        BY <2>0, <3>1 DEF Known
      <4> QED
        BY <3>2, <4>1, <4>2, <4>3
    <3> QED
      BY <3>4, <3>5, <3>6 DEF FeedbackInv
  <2>3. CASE pass' = [pass EXCEPT !.new = @ \ {c}, !.waived = @ \cup {c}] /\ UNCHANGED drafts
    <3>1. /\ pass'.at = "draft" /\ pass'.seen = pass.seen /\ pass'.fetched = pass.fetched
          /\ pass'.new = pass.new \ {c} /\ pass'.drafted = pass.drafted
          /\ pass'.waived = pass.waived \cup {c} /\ pass' \in Passing
      BY <1>t, <2>0, <2>3 DEF FeedbackTypes, Passing
    <3>2. FeedbackTypes'
      BY <1>t, <2>0, <2>3, <3>1 DEF FeedbackTypes
    <3>3. PassInv'
      BY <1>t, <2>0, <2>3, <3>1 DEF PassInv, SeenIsHandled
    <3>4. OnceInv'
      BY <1>t, <2>0, <2>3, <3>1 DEF OnceInv, Known
    <3> QED
      BY <3>2, <3>3, <3>4 DEF FeedbackInv
  <2> QED
    BY <1>4, <2>2, <2>3 DEF Draft
<1>5. CASE OpenSeen
  <2>1. /\ pass.at = "draft" /\ pass.new = {} /\ record' = Torn
        /\ UNCHANGED <<posted, passes, drafts, letGo, cuts>>
    BY <1>5 DEF OpenSeen
  <2>2. /\ pass'.at = "put" /\ pass'.seen = pass.seen /\ pass'.fetched = pass.fetched
        /\ pass'.new = {} /\ pass'.drafted = pass.drafted
        /\ pass'.waived = pass.waived /\ pass' \in Passing
    BY <1>t, <1>5, <2>1 DEF OpenSeen, FeedbackTypes, Passing
  <2>3. FeedbackTypes'
    BY <1>t, <2>1, <2>2 DEF FeedbackTypes
  <2>4. PassInv'
    BY <1>t, <2>1, <2>2 DEF PassInv, SeenIsHandled
  <2>5. \A c : Known(c)' <=> Known(c)
    BY <1>t, <2>1, <2>2 DEF Known, PassInv
  <2>6. OnceInv'
    BY <1>t, <2>1, <2>5 DEF OnceInv
  <2> QED
    BY <2>3, <2>4, <2>6 DEF FeedbackInv
<1>6. CASE WriteSeen
  <2>1. /\ pass.at = "put" /\ record' = pass.seen \cup pass.fetched /\ pass' = NoPass
        /\ letGo' = letGo \cup pass.waived /\ UNCHANGED <<posted, passes, drafts, cuts>>
    BY <1>6 DEF WriteSeen
  <2>2. /\ pass.seen \subseteq Comments /\ pass.fetched \subseteq Comments
        /\ pass.waived \subseteq Comments /\ record' # Torn
    BY <1>t, <2>1 DEF FeedbackTypes, Passing
  <2>3. FeedbackTypes'
    BY <1>t, <1>n, <2>1, <2>2 DEF FeedbackTypes
  <2>4. PassInv'
    BY <1>t, <1>n, <2>1, <2>2 DEF PassInv, SeenIsHandled
  <2>5. \A c : Known(c) => Known(c)'
    BY <1>t, <2>1, <2>2 DEF Known, PassInv
  <2>6. OnceInv'
    <3> SUFFICES ASSUME NEW d \in Comments
                 PROVE  drafts'[d] <= IF Known(d)' THEN 1 + cuts' ELSE cuts'
      BY DEF OnceInv
    <3>1. drafts[d] <= (IF Known(d) THEN 1 + cuts ELSE cuts) /\ cuts \in Nat /\ drafts[d] \in Nat
      BY <1>t DEF OnceInv, FeedbackTypes
    <3> QED
      BY <2>1, <2>5, <3>1
  <2> QED
    BY <2>3, <2>4, <2>6 DEF FeedbackInv
<1>7. CASE PassEnds
  <2>1. /\ pass.at # "none" /\ pass' = NoPass
        /\ cuts' = (IF pass.drafted = {} /\ pass.at # "put" THEN cuts ELSE cuts + 1)
        /\ UNCHANGED <<posted, record, passes, drafts, letGo>>
    BY <1>7 DEF PassEnds
  <2>2. FeedbackTypes'
    BY <1>t, <1>n, <2>1 DEF FeedbackTypes
  <2>3. PassInv'
    BY <1>t, <1>n, <2>1 DEF PassInv, SeenIsHandled
  <2>4. pass.drafted = {} /\ pass.at # "put" => \A c : Known(c) => Known(c)'
    BY <1>t, <2>1 DEF Known, PassInv, FeedbackTypes, Passing
  <2>5. OnceInv'
    <3> SUFFICES ASSUME NEW d \in Comments
                 PROVE  drafts'[d] <= IF Known(d)' THEN 1 + cuts' ELSE cuts'
      BY DEF OnceInv
    <3>1. drafts[d] <= (IF Known(d) THEN 1 + cuts ELSE cuts) /\ cuts \in Nat /\ drafts[d] \in Nat
      BY <1>t DEF OnceInv, FeedbackTypes
    <3> QED
      BY <2>1, <2>4, <3>1
  <2> QED
    BY <2>2, <2>3, <2>5 DEF FeedbackInv
<1>8. CASE UNCHANGED feedbackVars
  BY <1>t, <1>8 DEF feedbackVars, FeedbackInv, FeedbackTypes, PassInv, SeenIsHandled, OnceInv, Known
<1> QED
  BY <1>1, <1>2, <1>3, <1>4, <1>5, <1>6, <1>7, <1>8 DEF FeedbackNext
-----------------------------------------------------------------------------
(* The files of the board *)

Within == {"read", "write", "index", "put"}
Landed == {"index", "put"}
Ops == {"draft", "touch", "assign", "unassign"} \cup States
StoryFile == [column : States, assignee : Actors \cup {Nobody}]
Calling == [at : {"idle", "next"} \cup Within, op : Ops, id : Ids \cup {Nobody},
            actor : Actors \cup {Nobody}, left : SUBSET Ids, copy : StoryFile,
            listing : [Ids -> States], alone : BOOLEAN, old : BOOLEAN]

FileTypes ==
  /\ file \in [Ids -> StoryFile] /\ index \in [Ids -> States]
  /\ call \in [Threads -> Calling]
  /\ lock \in Threads \cup {Nobody}
  /\ holder \in [Actors -> Ids \cup {Nobody}]
  /\ calls \in 0 .. MaxCalls
  /\ sound \in SUBSET Ids /\ spoiled \in SUBSET Ids

(* Only the thread that has the lock claims, and only claims assign. *)
Shape(t) ==
  /\ call[t].at \in Within => call[t].id \in Ids
  /\ call[t].at = "next" => Claiming(t)
  /\ call[t].at = "idle" => ~Claiming(t)
  /\ Claiming(t) => lock = t /\ (call[t].at \in Within => call[t].op \in {"assign", "in_progress"})
  /\ ~Claiming(t) /\ call[t].at \in Within => call[t].op # "assign"

(* What is about to be written.  Nobody has a story that a claim is about to  *)
(* move, unless it is spoiled.                                               *)
Copies(t) ==
  call[t].at = "write" =>
    /\ call[t].copy.column # "absent"
    /\ Claiming(t) /\ call[t].op = "in_progress" =>
         /\ call[t].copy.column = "in_progress"
         /\ \A a \in Actors : holder[a] = call[t].id => call[t].id \in spoiled
    /\ Claiming(t) /\ call[t].op = "assign" =>
         \A a \in Actors : holder[a] = call[t].id =>
           call[t].id \in spoiled \/ call[t].copy.column = "in_progress"
    /\ ~Claiming(t) /\ call[t].op = "touch" /\ ~call[t].old => call[t].copy = file[call[t].id]

(* What a call is about to put into the index, and what is there meanwhile. *)
Landing(t) ==
  /\ call[t].at \in Landed =>
       /\ file[call[t].id].column # "absent" /\ call[t].id \notin sound
       /\ call[t].alone => call[t].copy = file[call[t].id]
  /\ call[t].at = "put" =>
       \A i \in Ids : /\ file[i].column = "absent" => call[t].listing[i] = "absent"
                      /\ i \in sound => call[t].listing[i] = index[i]

Solo(t) == call[t].alone => \A u \in Threads \ {t} : call[u].at = "idle"

HeldInv ==
  \A a \in Actors : \A s \in Ids : holder[a] = s => s \in spoiled \/ file[s].column = "in_progress"

FilesInv ==
  /\ FileTypes
  /\ \A t \in Threads : Shape(t) /\ Copies(t) /\ Landing(t) /\ Solo(t)
  /\ HeldInv /\ OneClaimant /\ IndexFollowsFiles

LEMMA IdleCall ==
  /\ NoCall \in Calling /\ NoCall.at = "idle" /\ NoCall.actor = Nobody /\ NoCall.alone = FALSE
  /\ Absent \in StoryFile
BY DEF NoCall, Calling, Absent, StoryFile, Ops, States

LEMMA FilesBegin == BoardFilesInit => FilesInv
<1> SUFFICES ASSUME BoardFilesInit PROVE FilesInv
  OBVIOUS
<1>1. \A f \in {Absent, [Absent EXCEPT !.column = "ready"]} : f \in StoryFile /\ f.column \in States
  BY DEF Absent, StoryFile, States
<1>2. file \in [Ids -> StoryFile] /\ index \in [Ids -> States]
      /\ \A i \in Ids : index[i] = file[i].column
  <2>1. file \in [Ids -> {Absent, [Absent EXCEPT !.column = "ready"]}]
    BY DEF BoardFilesInit
  <2>2. \A i \in Ids : file[i] \in StoryFile /\ file[i].column \in States
    BY <1>1, <2>1
  <2> QED
    BY <2>1, <2>2 DEF BoardFilesInit
<1>3. \A t \in Threads : call[t] = NoCall
  BY DEF BoardFilesInit
<1>4. FileTypes
  BY <1>2, IdleCall, BoardFilesAssumption DEF BoardFilesInit, FileTypes
<1>5. \A t \in Threads : Shape(t) /\ Copies(t) /\ Landing(t) /\ Solo(t)
  BY <1>3, IdleCall DEF Shape, Copies, Landing, Solo, Within, Landed, Claiming
<1>6. \A a \in Actors : holder[a] = Nobody
  BY DEF BoardFilesInit
<1>7. HeldInv /\ OneClaimant
  BY <1>6, BoardFilesAssumption DEF HeldInv, OneClaimant
<1>8. IndexFollowsFiles
  BY <1>2 DEF IndexFollowsFiles
<1> QED
  BY <1>4, <1>5, <1>7, <1>8 DEF FilesInv

(* What the others keep when one thread steps. *)
Spared(t) == \A u \in Threads : u # t => call'[u] = call[u]

LEMMA BeginKeeps ==
  ASSUME FilesInv, NEW t \in Threads, NEW new \in Calling, Begins(t, new),
         UNCHANGED <<file, index, holder, sound, spoiled>>, lock' \in {lock, t},
         lock' # lock => lock = Nobody,
         new.at \in {"read", "next"}, new.at = "read" => new.id \in Ids /\ new.actor = Nobody,
         new.at = "read" => new.op # "assign",
         new.at = "next" => new.actor # Nobody /\ lock' = t
  PROVE  FilesInv'
<1>t. FileTypes /\ \A u \in Threads : Shape(u) /\ Copies(u) /\ Landing(u) /\ Solo(u)
  BY DEF FilesInv
<1>1. /\ call[t].at = "idle" /\ calls < MaxCalls /\ calls' = calls + 1
      /\ call' = [u \in Threads |->
           IF u = t THEN [new EXCEPT !.alone = \A v \in Threads \ {t} : call[v].at = "idle"]
           ELSE [call[u] EXCEPT !.alone = FALSE]]
  BY DEF Begins
<1>2. /\ call'[t] \in Calling /\ call'[t].at = new.at /\ call'[t].id = new.id
      /\ call'[t].actor = new.actor /\ call'[t].op = new.op
      /\ call'[t].alone => \A v \in Threads \ {t} : call[v].at = "idle"
  BY <1>1 DEF Calling
<1>3. ASSUME NEW u \in Threads, u # t
      PROVE  /\ call'[u] \in Calling /\ call'[u].alone = FALSE
             /\ call'[u].at = call[u].at /\ call'[u].op = call[u].op /\ call'[u].id = call[u].id
             /\ call'[u].actor = call[u].actor /\ call'[u].copy = call[u].copy
             /\ call'[u].listing = call[u].listing /\ call'[u].old = call[u].old
  <2>1. call[u] \in Calling
    BY <1>t DEF FileTypes
  <2> QED
    BY <1>1, <1>3, <2>1 DEF Calling
<1>4. FileTypes'
  <2>1. call' \in [Threads -> Calling]
    BY <1>1, <1>2, <1>3
  <2>2. calls' \in 0 .. MaxCalls
    BY <1>t, <1>1, BoardFilesAssumption DEF FileTypes
  <2> QED
    BY <1>t, <2>1, <2>2 DEF FileTypes
<1>5. \A u \in Threads : Shape(u)'
  <2>1. Shape(t)'
    BY <1>2, BoardFilesAssumption DEF Shape, Claiming, Within
  <2>2. ASSUME NEW u \in Threads, u # t PROVE Shape(u)'
    <3>1. Shape(u)
      BY <1>t
    <3>2. Claiming(u) => lock' = lock
      BY <3>1, BoardFilesAssumption DEF Shape
    <3>3. /\ call'[u].at = call[u].at /\ call'[u].op = call[u].op
          /\ call'[u].id = call[u].id /\ call'[u].actor = call[u].actor
      BY <1>3, <2>2
    <3> QED
      BY <3>1, <3>2, <3>3 DEF Shape, Claiming
  <2> QED
    BY <2>1, <2>2
<1>6. \A u \in Threads : Copies(u)' /\ Landing(u)'
  <2>1. Copies(t)' /\ Landing(t)'
    BY <1>2 DEF Copies, Landing, Landed
  <2>2. ASSUME NEW u \in Threads, u # t PROVE Copies(u)' /\ Landing(u)'
    <3>1. Copies(u)'
      BY <1>t, <1>3, <2>2 DEF Copies, Claiming
    <3>2. Landing(u)'
      <4>1. Landing(u)
        BY <1>t
      <4>2. /\ call'[u].at = call[u].at /\ call'[u].id = call[u].id /\ call'[u].alone = FALSE
            /\ call'[u].listing = call[u].listing
            /\ file' = file /\ index' = index /\ sound' = sound
        BY <1>3, <2>2
      <4> QED
        BY <4>1, <4>2 DEF Landing
    <3> QED
      BY <3>1, <3>2
  <2> QED
    BY <2>1, <2>2
<1>7. \A u \in Threads : Solo(u)'
  BY <1>2, <1>3 DEF Solo
<1>8. HeldInv' /\ OneClaimant' /\ IndexFollowsFiles'
  BY DEF FilesInv, HeldInv, OneClaimant, IndexFollowsFiles
<1> QED
  BY <1>4, <1>5, <1>6, <1>7, <1>8 DEF FilesInv

(* A step that changes nothing but the thread's own call, and perhaps frees   *)
(* the lock as a claim ends.                                                 *)
LEMMA OwnStepKeeps ==
  ASSUME FilesInv, NEW t \in Threads, NEW new \in Calling,
         call' = [call EXCEPT ![t] = new],
         UNCHANGED <<file, index, holder, calls, sound, spoiled>>,
         call[t].at # "idle", new.at = "idle" \/ new.alone = call[t].alone,
         new = NoCall \/ new.at # "idle",
         new.actor = call[t].actor \/ new = NoCall,
         lock' = lock \/ (Claiming(t) /\ new = NoCall /\ lock' = Nobody),
         new # NoCall => Shape(t)' /\ Copies(t)' /\ Landing(t)'
  PROVE  FilesInv'
<1>t. FileTypes /\ \A u \in Threads : Shape(u) /\ Copies(u) /\ Landing(u) /\ Solo(u)
  BY DEF FilesInv
<1>1. call'[t] = new /\ \A u \in Threads : u # t => call'[u] = call[u]
  BY <1>t DEF FileTypes
<1>2. FileTypes'
  BY <1>t, BoardFilesAssumption DEF FileTypes
<1>3. new = NoCall => Shape(t)' /\ Copies(t)' /\ Landing(t)' /\ Solo(t)'
  BY <1>1, IdleCall DEF Shape, Copies, Landing, Landed, Within, Claiming, Solo
<1>4. ASSUME NEW u \in Threads, u # t PROVE Shape(u)' /\ Copies(u)' /\ Landing(u)'
  <2>1. Claiming(u) => lock' = lock
    BY <1>t, <1>4 DEF Shape
  <2>2. Shape(u)'
    BY <1>t, <1>1, <1>4, <2>1 DEF Shape, Claiming
  <2>3. Copies(u)' /\ Landing(u)'
    BY <1>t, <1>1, <1>4 DEF Copies, Landing, Claiming
  <2> QED
    BY <2>2, <2>3
<1>5. \A u \in Threads : Solo(u)'
  <2>1. ASSUME NEW u \in Threads, u # t PROVE Solo(u)'
    <3>1. ~call[u].alone
      BY <1>t, <2>1 DEF Solo
    <3> QED
      BY <1>1, <2>1, <3>1 DEF Solo
  <2>2. Solo(t)'
    <3>1. CASE new = NoCall
      BY <1>3, <3>1
    <3>2. CASE new.alone = call[t].alone
      BY <1>t, <1>1, <3>2 DEF Solo
    <3> QED
      BY <3>1, <3>2
  <2> QED
    BY <2>1, <2>2
<1>6. HeldInv' /\ OneClaimant' /\ IndexFollowsFiles'
  BY DEF FilesInv, HeldInv, OneClaimant, IndexFollowsFiles
<1> QED
  BY <1>1, <1>2, <1>3, <1>4, <1>5, <1>6 DEF FilesInv

LEMMA ReadKeeps ==
  ASSUME FilesInv, NEW t \in Threads, Read(t)
  PROVE  FilesInv'
<1> DEFINE c == call[t]
           f == file[c.id]
           copied == [c EXCEPT !.at = "write", !.copy = Changed(c.op, c.actor, f), !.old = FALSE]
           next == [c EXCEPT !.at = "next"]
<1>t. FileTypes /\ Shape(t) /\ Landing(t) /\ HeldInv
  BY DEF FilesInv
<1>1. /\ c \in Calling /\ c.at = "read" /\ c.id \in Ids /\ f \in StoryFile /\ t \in Threads
  BY <1>t DEF Read, FileTypes, Shape, Within
<1>2. /\ UNCHANGED <<file, index, lock, holder, calls, sound, spoiled>>
      /\ call' = [call EXCEPT ![t] = IF Allowed(c.op, c.actor, f) THEN copied
                                     ELSE IF Claiming(t) THEN next ELSE NoCall]
  BY DEF Read
<1>a. /\ c.op \in Ops /\ c.actor \in Actors \cup {Nobody}
  BY <1>1 DEF Calling
<1>3. CASE Allowed(c.op, c.actor, f)
  <2>1. Changed(c.op, c.actor, f) \in StoryFile
    BY <1>1, <1>a DEF Changed, StoryFile, Ops
  <2>2. Changed(c.op, c.actor, f).column # "absent"
    <3>1. CASE c.op = "draft"
      BY <1>1, <3>1 DEF Changed, States, StoryFile
    <3>2. CASE c.op \in States /\ c.op # "draft"
      <4>1. \A d \in States : "absent" \notin Transitions[d]
        BY DEF States, Transitions
      <4>2. c.op # "absent"
        BY <1>1, <1>3, <3>2, <4>1 DEF Allowed, StoryFile
      <4> QED
        BY <1>1, <3>2, <4>2 DEF Changed, StoryFile
    <3>3. CASE c.op \notin States
      BY <1>1, <1>3, <3>3 DEF Changed, Allowed, StoryFile, States
    <3> QED
      BY <3>1, <3>2, <3>3
  <2>3. /\ copied \in Calling /\ copied.at = "write" /\ copied.id = c.id /\ copied.op = c.op
        /\ copied.actor = c.actor /\ copied.alone = c.alone /\ copied.old = FALSE
        /\ copied.copy = Changed(c.op, c.actor, f)
    BY <1>1, <2>1 DEF Calling, Within
  <2>4. call' = [call EXCEPT ![t] = copied] /\ call'[t] = copied
    BY <1>t, <1>2, <1>3 DEF FileTypes
  <2>5. Shape(t)'
    BY <1>t, <1>1, <1>2, <2>3, <2>4 DEF Shape, Claiming, Within
  <2>6. c.op = "in_progress" => copied.copy.column = "in_progress" /\ f.column # "in_progress"
    <3>1. "in_progress" \in States /\ "in_progress" \notin Transitions["in_progress"]
      BY DEF States, Transitions
    <3> QED
      BY <1>1, <1>3, <2>3, <3>1 DEF Changed, Allowed, StoryFile
  <2>7. c.op = "assign" => copied.copy.column = f.column
    BY <1>1, <2>3 DEF Changed, StoryFile, States
  <2>8. c.op = "touch" => copied.copy = f
    BY <1>1, <2>3 DEF Changed, States
  <2>9. \A a \in Actors : holder[a] = c.id => c.id \in spoiled \/ f.column = "in_progress"
    BY <1>t, <1>1 DEF HeldInv
  <2> HIDE DEF copied
  <2>10. Copies(t)'
    <3>1. call'[t] = copied /\ copied.id = call[t].id /\ copied.copy.column # "absent"
          /\ copied.op = call[t].op /\ UNCHANGED <<file, holder, spoiled>>
      BY <1>2, <2>2, <2>3, <2>4
    <3> QED
      BY <2>6, <2>7, <2>8, <2>9, <3>1 DEF Copies, Claiming
  <2>11. Landing(t)'
    BY <2>3, <2>4 DEF Landing, Landed
  <2> HIDE DEF c
  <2> QED
    BY <1>1, <1>2, <2>3, <2>4, <2>5, <2>10, <2>11, OwnStepKeeps DEF c
<1>4. CASE ~Allowed(c.op, c.actor, f) /\ Claiming(t)
  <2>1. /\ next \in Calling /\ next.at = "next" /\ next.actor = c.actor /\ next.alone = c.alone
    BY <1>1 DEF Calling
  <2>2. call' = [call EXCEPT ![t] = next] /\ call'[t] = next
    BY <1>t, <1>2, <1>4 DEF FileTypes
  <2>3. Shape(t)' /\ Copies(t)' /\ Landing(t)'
    BY <1>t, <1>2, <1>4, <2>1, <2>2 DEF Shape, Copies, Landing, Landed, Claiming, Within
  <2> HIDE DEF next, c
  <2> QED
    BY <1>1, <1>2, <2>1, <2>2, <2>3, OwnStepKeeps DEF c
<1>5. CASE ~Allowed(c.op, c.actor, f) /\ ~Claiming(t)
  <2>1. call' = [call EXCEPT ![t] = NoCall]
    BY <1>2, <1>5
  <2> QED
    BY <1>1, <1>2, <2>1, IdleCall, OwnStepKeeps
<1> QED
  BY <1>3, <1>4, <1>5

LEMMA NextCandidateKeeps ==
  ASSUME FilesInv, NEW t \in Threads, NextCandidate(t)
  PROVE  FilesInv'
<1> DEFINE c == call[t]
<1>t. FileTypes /\ Shape(t)
  BY DEF FilesInv
<1>1. /\ c \in Calling /\ c.at = "next" /\ Claiming(t) /\ lock = t /\ c.left \subseteq Ids
      /\ UNCHANGED <<file, index, holder, calls, sound, spoiled>>
  BY <1>t DEF NextCandidate, FileTypes, Shape, Calling
<1>2. ASSUME NEW i \in c.left, lock' = lock,
             call' = [call EXCEPT ![t].at = "read", ![t].op = "assign", ![t].id = i,
                                  ![t].left = @ \ {i}]
      PROVE  FilesInv'
  <2> DEFINE new == [c EXCEPT !.at = "read", !.op = "assign", !.id = i, !.left = @ \ {i}]
  <2>1. /\ new \in Calling /\ new.at = "read" /\ new.op = "assign" /\ new.id = i
        /\ new.actor = c.actor /\ new.alone = c.alone /\ i \in Ids
    BY <1>1, <1>2 DEF Calling, Within, Ops
  <2>2. call' = [call EXCEPT ![t] = new] /\ call'[t] = new
    BY <1>t, <1>2 DEF FileTypes
  <2> HIDE DEF new
  <2>3. Shape(t)' /\ Copies(t)' /\ Landing(t)'
    BY <1>1, <1>2, <2>1, <2>2 DEF Shape, Copies, Landing, Landed, Claiming, Within
  <2> QED
    BY <1>1, <1>2, <2>1, <2>2, <2>3, OwnStepKeeps
<1>3. CASE call' = [call EXCEPT ![t] = NoCall] /\ lock' = Nobody
  BY <1>1, <1>3, IdleCall, OwnStepKeeps
<1> QED
  BY <1>2, <1>3 DEF NextCandidate

LEMMA ReadIndexKeeps ==
  ASSUME FilesInv, NEW t \in Threads, ReadIndex(t)
  PROVE  FilesInv'
<1> DEFINE c == call[t]
           new == [c EXCEPT !.at = "put", !.listing = index]
<1>t. FileTypes /\ Shape(t) /\ Landing(t) /\ IndexFollowsFiles
  BY DEF FilesInv
<1>1. /\ c \in Calling /\ c.at = "index"
      /\ UNCHANGED <<file, index, lock, holder, calls, sound, spoiled>>
  BY <1>t DEF ReadIndex, FileTypes
<1>2. /\ new \in Calling /\ new.at = "put" /\ new.op = c.op /\ new.id = c.id /\ new.copy = c.copy
      /\ new.actor = c.actor /\ new.alone = c.alone /\ new.listing = index
  BY <1>t, <1>1 DEF Calling, Within, FileTypes
<1>3. call' = [call EXCEPT ![t] = new] /\ call'[t] = new
  BY <1>t DEF FileTypes, ReadIndex
<1> HIDE DEF new
<1>4. Shape(t)' /\ Copies(t)'
  BY <1>t, <1>1, <1>2, <1>3 DEF Shape, Copies, Claiming, Within
<1>5. Landing(t)'
  BY <1>t, <1>1, <1>2, <1>3 DEF Landing, Landed, IndexFollowsFiles
<1> QED
  BY <1>1, <1>2, <1>3, <1>4, <1>5, OwnStepKeeps

LEMMA WriteIndexKeeps ==
  ASSUME FilesInv, NEW t \in Threads, WriteIndex(t)
  PROVE  FilesInv'
<1> DEFINE c == call[t]
           goesOn == Claiming(t) /\ c.op = "assign"
           new == IF goesOn THEN [c EXCEPT !.at = "read", !.op = "in_progress"] ELSE NoCall
<1>t. FileTypes /\ \A u \in Threads : Shape(u) /\ Copies(u) /\ Landing(u) /\ Solo(u)
  BY DEF FilesInv
<1>1. /\ c \in Calling /\ c.at = "put" /\ c.id \in Ids /\ c.copy.column \in States
      /\ c.listing \in [Ids -> States]
  BY <1>t DEF WriteIndex, FileTypes, Shape, Within, Calling, StoryFile
<1>2. /\ index' = [c.listing EXCEPT ![c.id] = c.copy.column]
      /\ sound' = (IF c.alone THEN sound \cup {c.id} ELSE sound)
      /\ call' = [call EXCEPT ![t] = new]
      /\ lock' = (IF Claiming(t) /\ c.op = "in_progress" THEN Nobody ELSE lock)
      /\ UNCHANGED <<file, holder, calls, spoiled>>
  BY DEF WriteIndex, Ends
<1>3. call'[t] = new /\ \A u \in Threads : u # t => call'[u] = call[u]
  BY <1>t, <1>2 DEF FileTypes
<1>4. goesOn => /\ new \in Calling /\ new.at = "read" /\ new.op = "in_progress" /\ new.id = c.id
                /\ new.actor = c.actor /\ new.alone = c.alone
  BY <1>1 DEF Calling, Within, Ops, States
<1>5. ~goesOn => new = NoCall
  OBVIOUS
<1> HIDE DEF new
<1>6. /\ index'[c.id] = c.copy.column
      /\ \A i \in Ids : i # c.id => index'[i] = c.listing[i]
      /\ index' \in [Ids -> States]
  BY <1>1, <1>2
<1>7. FileTypes'
  <2>1. call' \in [Threads -> Calling]
    BY <1>t, <1>2, <1>4, <1>5, IdleCall DEF FileTypes
  <2> QED
    BY <1>t, <1>1, <1>2, <1>6, <2>1, BoardFilesAssumption DEF FileTypes
<1>8. ASSUME NEW u \in Threads PROVE Shape(u)'
  <2>1. CASE u = t /\ goesOn
    BY <1>t, <1>1, <1>2, <1>3, <1>4, <2>1 DEF Shape, Claiming, Within
  <2>2. CASE u = t /\ ~goesOn
    BY <1>3, <1>5, <2>2, IdleCall DEF Shape, Claiming, Within
  <2>3. CASE u # t
    <3>1. Shape(u) /\ Shape(t) /\ call'[u] = call[u]
      BY <1>t, <1>3, <2>3
    <3>2. Claiming(u) => lock' = lock
      BY <1>2, <2>3, <3>1 DEF Shape
    <3> QED
      BY <3>1, <3>2 DEF Shape, Claiming
  <2> QED
    BY <2>1, <2>2, <2>3
<1>9. ASSUME NEW u \in Threads PROVE Copies(u)' /\ Solo(u)'
  <2>1. CASE u = t
    <3>1. Copies(t)'
      BY <1>3, <1>4, <1>5, IdleCall DEF Copies
    <3>2. Solo(t)'
      <4>1. CASE goesOn
        BY <1>t, <1>3, <1>4, <4>1 DEF Solo
      <4>2. CASE ~goesOn
        BY <1>3, <1>5, <4>2, IdleCall DEF Solo
      <4> QED
        BY <4>1, <4>2
    <3> QED
      BY <2>1, <3>1, <3>2
  <2>2. CASE u # t
    <3>1. Copies(u) /\ Solo(u) /\ call'[u] = call[u]
      BY <1>t, <1>3, <2>2
    <3>2. Copies(u)'
      BY <1>2, <3>1 DEF Copies, Claiming
    <3>3. ~call[u].alone
      BY <1>1, <2>2, <3>1 DEF Solo
    <3> QED
      BY <3>1, <3>2, <3>3 DEF Solo
  <2> QED
    BY <2>1, <2>2
<1>10. /\ file[c.id].column # "absent" /\ c.id \notin sound
       /\ c.alone => c.copy = file[c.id]
       /\ \A i \in Ids : /\ file[i].column = "absent" => c.listing[i] = "absent"
                         /\ i \in sound => c.listing[i] = index[i]
  BY <1>t, <1>1 DEF Landing, Landed
<1>11. ASSUME NEW u \in Threads PROVE Landing(u)'
  <2>1. CASE u = t
    BY <1>3, <1>4, <1>5, <2>1, IdleCall DEF Landing, Landed
  <2>2. CASE u # t /\ call[u].at \in Landed
    <3>1. Landing(u) /\ call'[u] = call[u] /\ ~c.alone
      BY <1>t, <1>3, <2>2 DEF Solo, Landed
    <3>2. sound' = sound /\ file' = file
      BY <1>2, <3>1
    <3>3. \A i \in Ids : i \in sound => index'[i] = index[i]
      BY <1>6, <1>10
    <3> QED
      BY <2>2, <3>1, <3>2, <3>3 DEF Landing
  <2>3. CASE u # t /\ call[u].at \notin Landed
    BY <1>3, <2>3 DEF Landing, Landed
  <2> QED
    BY <2>1, <2>2, <2>3
<1>12. HeldInv' /\ OneClaimant'
  BY <1>2 DEF FilesInv, HeldInv, OneClaimant
<1>13. IndexFollowsFiles'
  <2> SUFFICES ASSUME NEW i \in Ids
               PROVE  /\ file'[i].column = "absent" => index'[i] = "absent"
                      /\ i \in sound' => index'[i] = file'[i].column
    BY DEF IndexFollowsFiles
  <2>1. file' = file /\ (i \in sound => index[i] = file[i].column)
    BY <1>2 DEF FilesInv, IndexFollowsFiles
  <2>2. CASE i = c.id
    BY <1>2, <1>6, <1>10, <2>1, <2>2
  <2>3. CASE i # c.id
    BY <1>2, <1>6, <1>10, <2>1, <2>3
  <2> QED
    BY <2>2, <2>3
<1> QED
  BY <1>7, <1>8, <1>9, <1>11, <1>12, <1>13 DEF FilesInv

LEMMA WriteFileKeeps ==
  ASSUME FilesInv, NEW t \in Threads, WriteFile(t)
  PROVE  FilesInv'
<1> DEFINE c == call[t]
           new == [c EXCEPT !.at = "index"]
<1>t. FileTypes /\ \A u \in Threads : Shape(u) /\ Copies(u) /\ Landing(u) /\ Solo(u)
  BY DEF FilesInv
<1>1. /\ c \in Calling /\ c.at = "write" /\ c.id \in Ids /\ c.copy \in StoryFile
      /\ c.actor \in Actors \cup {Nobody}
  BY <1>t DEF WriteFile, FileTypes, Shape, Within, Calling
<1>2. /\ file' = [file EXCEPT ![c.id] = c.copy]
      /\ sound' = sound \ {c.id}
      /\ spoiled' = (IF c.old /\ ~Claiming(t) THEN spoiled \cup {c.id} ELSE spoiled)
      /\ UNCHANGED <<index, lock, calls>>
  BY DEF WriteFile
<1>3. /\ file'[c.id] = c.copy /\ \A i \in Ids : i # c.id => file'[i] = file[i]
      /\ file' \in [Ids -> StoryFile]
  BY <1>t, <1>1, <1>2 DEF FileTypes
<1>4. /\ call'[t] \in Calling /\ call'[t].at = "index" /\ call'[t].op = c.op
      /\ call'[t].id = c.id /\ call'[t].copy = c.copy /\ call'[t].actor = c.actor
      /\ call'[t].alone = c.alone
  BY <1>1 DEF WriteFile, Calling, Within
<1>5. ASSUME NEW u \in Threads, u # t
      PROVE  /\ call'[u] \in Calling
             /\ call'[u].at = call[u].at /\ call'[u].op = call[u].op /\ call'[u].id = call[u].id
             /\ call'[u].copy = call[u].copy /\ call'[u].actor = call[u].actor
             /\ call'[u].alone = call[u].alone /\ call'[u].listing = call[u].listing
             /\ call[u].at = "write" /\ call[u].id = c.id => call'[u].old
             /\ ~call'[u].old => ~call[u].old
  <2>1. call[u] \in Calling
    BY <1>t DEF FileTypes
  <2>2. call'[u] = IF call[u].at = "write" /\ call[u].id = c.id
                   THEN [call[u] EXCEPT !.old = TRUE] ELSE call[u]
    BY <1>5 DEF WriteFile
  <2> QED
    BY <2>1, <2>2 DEF Calling
<1>6. call' = [u \in Threads |-> call'[u]]
  BY DEF WriteFile
<1>7. \A a \in Actors :
        holder'[a] = (CASE Claiming(t) /\ c.op = "in_progress" /\ a = c.actor -> c.id
                       [] ~Claiming(t) /\ c.op # "touch" /\ holder[a] = c.id -> Nobody
                       [] OTHER -> holder[a])
  BY DEF WriteFile
<1>8. /\ holder' \in [Actors -> Ids \cup {Nobody}]
      /\ \A a \in Actors : holder'[a] \in {holder[a], Nobody}
                          \/ (Claiming(t) /\ c.op = "in_progress" /\ a = c.actor /\ holder'[a] = c.id)
      /\ \A a \in Actors : ~Claiming(t) /\ c.op # "touch" => holder'[a] # c.id
  <2>1. holder' = [a \in Actors |-> holder'[a]]
    BY DEF WriteFile
  <2>2. \A a \in Actors : holder[a] \in Ids \cup {Nobody}
    BY <1>t DEF FileTypes
  <2> QED
    BY <1>1, <1>7, <2>1, <2>2, BoardFilesAssumption
<1>9. FileTypes'
  <2>1. call' \in [Threads -> Calling]
    BY <1>4, <1>5, <1>6
  <2> QED
    BY <1>t, <1>1, <1>2, <1>3, <1>8, <2>1 DEF FileTypes
<1>10. ASSUME NEW u \in Threads PROVE Shape(u)' /\ Solo(u)'
  <2>1. Shape(u)'
    <3>1. CASE u = t
      <4>1. Shape(t)
        BY <1>t
      <4> QED
        BY <1>1, <1>2, <1>4, <3>1, <4>1 DEF Shape, Claiming, Within
    <3>2. CASE u # t
      <4>1. Shape(u)
        BY <1>t
      <4> QED
        BY <1>2, <1>5, <3>2, <4>1 DEF Shape, Claiming
    <3> QED
      BY <3>1, <3>2
  <2>2. Solo(u)'
    <3>1. CASE u = t
      BY <1>t, <1>4, <1>5, <3>1 DEF Solo
    <3>2. CASE u # t
      <4>1. ~call[u].alone
        BY <1>t, <1>1, <3>2 DEF Solo
      <4> QED
        BY <1>5, <3>2, <4>1 DEF Solo
    <3> QED
      BY <3>1, <3>2
  <2> QED
    BY <2>1, <2>2
<1>11. ASSUME NEW u \in Threads PROVE Landing(u)'
  <2>0. c.copy.column # "absent"
    BY <1>t, <1>1 DEF Copies
  <2>1. CASE u = t
    BY <1>2, <1>3, <1>4, <2>0, <2>1 DEF Landing, Landed
  <2>2. CASE u # t /\ call[u].at \in Landed
    <3>1. Landing(u) /\ ~call[u].alone
      BY <1>t, <1>1, <2>2 DEF Solo
    <3>2. call[u].id \in Ids
      BY <1>t, <2>2 DEF Shape, Landed, Within
    <3>3. /\ call'[u].at = call[u].at /\ call'[u].id = call[u].id /\ ~call'[u].alone
          /\ call'[u].listing = call[u].listing /\ index' = index
      BY <1>2, <1>5, <2>2, <3>1
    <3>4. \A i \in Ids : file'[i].column = "absent" => file[i].column = "absent"
      BY <1>3, <2>0
    <3>5. \A i \in Ids : i \in sound' => i \in sound
      BY <1>2
    <3> QED
      BY <2>2, <3>1, <3>2, <3>3, <3>4, <3>5 DEF Landing
  <2>3. CASE u # t /\ call[u].at \notin Landed
    BY <1>5, <2>3 DEF Landing, Landed
  <2> QED
    BY <2>1, <2>2, <2>3
<1>12. ASSUME NEW u \in Threads PROVE Copies(u)'
  <2>1. CASE u = t
    BY <1>4, <2>1 DEF Copies
  <2>2. CASE u # t /\ call[u].at = "write"
    <3>0. Copies(u) /\ call[u].id \in Ids
      BY <1>t, <2>2 DEF Shape, Within
    <3>1. /\ call'[u].at = "write" /\ call'[u].op = call[u].op /\ call'[u].id = call[u].id
          /\ call'[u].copy = call[u].copy /\ call'[u].actor = call[u].actor
      BY <1>5, <2>2
    <3>2. Claiming(u) => ~Claiming(t)
      BY <1>t, <2>2 DEF Shape
    <3>3. Claiming(u) =>
            \A a \in Actors : holder'[a] = call[u].id => holder[a] = call[u].id
      BY <1>8, <3>0, <3>2, BoardFilesAssumption
    <3>4. call[u].id \in spoiled => call[u].id \in spoiled'
      BY <1>2
    <3>5. ~call'[u].old => ~call[u].old /\ file'[call[u].id] = file[call[u].id]
      BY <1>3, <1>5, <2>2, <3>0
    <3> QED
      BY <2>2, <3>0, <3>1, <3>3, <3>4, <3>5 DEF Copies, Claiming
  <2>3. CASE u # t /\ call[u].at # "write"
    BY <1>5, <2>3 DEF Copies
  <2> QED
    BY <2>1, <2>2, <2>3
<1>13. \A i \in Ids : i \in spoiled => i \in spoiled'
  BY <1>2
<1>14. HeldInv'
  <2> SUFFICES ASSUME NEW a \in Actors, NEW s \in Ids, holder'[a] = s
               PROVE  s \in spoiled' \/ file'[s].column = "in_progress"
    BY DEF HeldInv
  <2>1. holder[a] = s => s \in spoiled \/ file[s].column = "in_progress"
    BY DEF FilesInv, HeldInv
  <2>2. CASE s # c.id
    <3>1. holder[a] = s
      BY <1>8, <2>2, BoardFilesAssumption
    <3> QED
      BY <1>3, <1>13, <2>1, <2>2, <3>1
  <2>3. CASE s = c.id /\ Claiming(t)
    <3>1. c.op \in {"assign", "in_progress"} /\ Copies(t)
      BY <1>t, <1>1, <2>3 DEF Shape, Within
    <3>2. CASE c.op = "in_progress"
      BY <1>1, <1>3, <2>3, <3>1, <3>2 DEF Copies
    <3>3. CASE c.op = "assign"
      <4>1. holder[a] = s
        BY <1>8, <2>3, <3>3, BoardFilesAssumption
      <4> QED
        BY <1>1, <1>3, <1>13, <2>3, <3>1, <3>3, <4>1 DEF Copies
    <3> QED
      BY <3>1, <3>2, <3>3
  <2>4. CASE s = c.id /\ ~Claiming(t)
    <3>1. c.op = "touch" /\ holder[a] = s
      BY <1>8, <2>4, BoardFilesAssumption
    <3>2. CASE c.old
      BY <1>2, <2>4, <3>2
    <3>3. CASE ~c.old
      <4>1. c.copy = file[c.id]
        BY <1>t, <1>1, <2>4, <3>1, <3>3 DEF Copies
      <4> QED
        BY <1>3, <1>13, <2>1, <2>4, <3>1, <4>1
    <3> QED
      BY <3>2, <3>3
  <2> QED
    BY <2>2, <2>3, <2>4
<1>15. OneClaimant'
  <2> SUFFICES ASSUME NEW a \in Actors, NEW b \in Actors, a # b,
                      holder'[a] = holder'[b], holder'[a] # Nobody
               PROVE  holder'[a] \in spoiled'
    BY DEF OneClaimant
  <2>0. holder'[a] \in Ids
    BY <1>8, BoardFilesAssumption
  <2>1. CASE holder[a] = holder'[a] /\ holder[b] = holder'[b]
    <3>1. holder[a] \in spoiled
      BY <2>1 DEF FilesInv, OneClaimant
    <3> QED
      BY <1>13, <2>0, <2>1, <3>1
  <2>2. ASSUME NEW x \in Actors, NEW y \in Actors, x # y, holder'[x] = holder'[y],
               holder'[x] # Nobody, holder'[x] # holder[x]
        PROVE  holder'[x] \in spoiled'
    <3>1. Claiming(t) /\ c.op = "in_progress" /\ x = c.actor /\ holder'[x] = c.id
      BY <1>8, <2>2
    <3>2. holder[y] = c.id
      BY <1>8, <2>2, <3>1
    <3>3. c.id \in spoiled
      BY <1>t, <1>1, <3>1, <3>2 DEF Copies
    <3> QED
      BY <1>1, <1>13, <3>1, <3>3
  <2> QED
    BY <2>1, <2>2
<1>16. IndexFollowsFiles'
  <2> SUFFICES ASSUME NEW i \in Ids
               PROVE  /\ file'[i].column = "absent" => index'[i] = "absent"
                      /\ i \in sound' => index'[i] = file'[i].column
    BY DEF IndexFollowsFiles
  <2>1. /\ file[i].column = "absent" => index[i] = "absent"
        /\ i \in sound => index[i] = file[i].column
    BY DEF FilesInv, IndexFollowsFiles
  <2>2. c.copy.column # "absent"
    BY <1>t, <1>1 DEF Copies
  <2> QED
    BY <1>2, <1>3, <2>1, <2>2
<1> QED
  BY <1>9, <1>10, <1>11, <1>12, <1>14, <1>15, <1>16 DEF FilesInv

LEMMA FilesStep ==
  ASSUME FilesInv, [BoardFilesNext]_fileVars
  PROVE  FilesInv'
<1>t. FileTypes
  BY DEF FilesInv
<1>1. ASSUME NEW t \in Threads, NEW op \in {"draft", "touch", "unassign"} \cup Aims,
             NEW i \in Ids, Call(t, op, i)
      PROVE  FilesInv'
  <2> DEFINE new == [NoCall EXCEPT !.at = "read", !.op = op, !.id = i]
  <2>1. op \in Ops /\ op # "assign"
    BY BoardFilesAssumption DEF Ops, States
  <2>2. /\ new \in Calling /\ new.at = "read" /\ new.op = op /\ new.id = i
        /\ new.actor = Nobody
    BY <2>1, IdleCall DEF NoCall, Calling, Within
  <2>3. Begins(t, new) /\ UNCHANGED <<file, index, lock, holder, sound, spoiled>>
    BY <1>1 DEF Call
  <2> HIDE DEF new
  <2> QED
    BY <2>1, <2>2, <2>3, BeginKeeps
<1>2. ASSUME NEW t \in Threads, NEW a \in Actors, Claim(t, a) PROVE FilesInv'
  <2> DEFINE new == [NoCall EXCEPT !.at = "next", !.actor = a,
                                   !.left = {i \in Ids : index[i] = "ready"}]
  <2>1. /\ new \in Calling /\ new.at = "next" /\ new.actor = a /\ a # Nobody
    BY IdleCall, BoardFilesAssumption DEF NoCall, Calling
  <2>2. /\ Begins(t, new) /\ UNCHANGED <<file, index, holder, sound, spoiled>>
        /\ lock = Nobody /\ lock' = t
    BY <1>2 DEF Claim
  <2> HIDE DEF new
  <2> QED
    BY <2>1, <2>2, BeginKeeps
<1>3. ASSUME Stop PROVE FilesInv'
  <2>1. /\ \A t \in Threads : call'[t] = NoCall
        /\ call' \in [Threads -> Calling] /\ lock' = Nobody
        /\ \A a \in Actors : holder'[a] = Nobody
        /\ holder' \in [Actors -> Ids \cup {Nobody}]
        /\ UNCHANGED <<file, index, calls, sound, spoiled>>
    BY <1>3, IdleCall DEF Stop
  <2>2. FileTypes'
    BY <1>t, <2>1 DEF FileTypes
  <2>3. \A t \in Threads : Shape(t)' /\ Copies(t)' /\ Landing(t)' /\ Solo(t)'
    BY <2>1, IdleCall DEF Shape, Copies, Landing, Solo, Within, Landed, Claiming
  <2>4. HeldInv' /\ OneClaimant'
    BY <2>1, BoardFilesAssumption DEF HeldInv, OneClaimant
  <2>5. IndexFollowsFiles'
    BY <2>1 DEF FilesInv, IndexFollowsFiles
  <2> QED
    BY <2>2, <2>3, <2>4, <2>5 DEF FilesInv
<1>4. CASE UNCHANGED fileVars
  <2>1. FileTypes'
    BY <1>t, <1>4 DEF fileVars, FileTypes
  <2>2. \A t \in Threads : Shape(t)' /\ Copies(t)' /\ Landing(t)' /\ Solo(t)'
    BY <1>4 DEF fileVars, FilesInv, Shape, Copies, Landing, Solo, Claiming
  <2>3. HeldInv' /\ OneClaimant' /\ IndexFollowsFiles'
    BY <1>4 DEF fileVars, FilesInv, HeldInv, OneClaimant, IndexFollowsFiles
  <2> QED
    BY <2>1, <2>2, <2>3 DEF FilesInv
<1> QED
  BY <1>1, <1>2, <1>3, <1>4, NextCandidateKeeps, ReadKeeps, WriteFileKeeps, ReadIndexKeeps,
     WriteIndexKeeps DEF BoardFilesNext, Calls
-----------------------------------------------------------------------------
(* The theorems *)

SatellitesInv ==
  /\ program \in {"waterfall", "feedback", "board"}
  /\ WaterTypes /\ TurnInv /\ CountInv
  /\ FeedbackInv /\ FilesInv

(* Whatever agents with a shell do to the branch, whatever gh answers, and     *)
(* wherever a campaign, a pass or a call is cut off, the invariant holds.     *)
THEOREM SatellitesInvariance == Spec => []SatellitesInv
<1>1. Init => SatellitesInv
  BY WaterInit, FeedbackBegins, FilesBegin DEF Init, SatellitesInv
<1>2. SatellitesInv /\ [Next]_vars => SatellitesInv'
  <2> SUFFICES ASSUME SatellitesInv, [Next]_vars PROVE SatellitesInv'
    OBVIOUS
  <2>0. WaterTypes /\ TurnInv /\ CountInv /\ FeedbackInv /\ FilesInv
    BY DEF SatellitesInv
  <2>1. program' \in {"waterfall", "feedback", "board"}
    BY DEF Next, vars, SatellitesInv
  <2>2. [WaterfallNext]_waterVars /\ [FeedbackNext]_feedbackVars /\ [BoardFilesNext]_fileVars
    BY DEF Next, vars
  <2>3. FeedbackInv' /\ FilesInv'
    BY <2>0, <2>2, FeedbackStep, FilesStep
  <2>4. WaterTypes'
    <3>1. CASE WaterfallNext
      BY <2>0, <3>1, TypeStep
    <3>2. CASE UNCHANGED waterVars
      BY <2>0, <3>2 DEF waterVars, WaterTypes
    <3> QED
      BY <2>2, <3>1, <3>2
  <2>5. TurnInv'
    BY <2>0, <2>2, TurnStep
  <2>6. CountInv'
    BY <2>0, <2>2, <2>5, CountStep
  <2> QED
    BY <2>1, <2>3, <2>4, <2>5, <2>6 DEF SatellitesInv
<1> QED
  BY <1>1, <1>2, PTL DEF Spec

(* The variables of all three keep their types. *)
THEOREM TypeCorrect == Spec => []TypeOK
<1>1. SatellitesInv => TypeOK
  <2> SUFFICES ASSUME SatellitesInv PROVE TypeOK
    OBVIOUS
  <2>1. WaterfallTypeOK
    <3>1. worked \in 0 .. limit
      BY WaterfallAssumption DEF SatellitesInv, WaterTypes
    <3>2. result.landed \in Nat
      BY DEF SatellitesInv, WaterTypes, Result
    <3> QED
      BY <3>1, <3>2 DEF SatellitesInv, WaterTypes, WaterfallTypeOK, Working, Heads
  <2>2. FeedbackTypeOK
    BY DEF SatellitesInv, FeedbackInv, FeedbackTypes, Passing, FeedbackTypeOK
  <2>3. BoardFilesTypeOK
    BY DEF SatellitesInv, FilesInv, FileTypes, StoryFile, Calling, Within, BoardFilesTypeOK
  <2> QED
    BY <2>1, <2>2, <2>3 DEF SatellitesInv, TypeOK
<1> QED
  BY <1>1, SatellitesInvariance, PTL

(* What a waterfall campaign returns is true, whatever its agents leave checked *)
(* out, whenever git fails, and after any number of killed campaigns.         *)
THEOREM ResultsAreTrue == Spec => []ResultIsTrue
<1>1. SatellitesInv => ResultIsTrue
  <2> SUFFICES ASSUME SatellitesInv, result.reason \notin {"none", "ingest_failed"}
               PROVE  /\ Cardinality(Own({"done", "blocked"})) = worked
                      /\ Cardinality(Own({"done"})) = result.landed
                      /\ result.landed <= result.done
                      /\ result.reason = "backlog_empty" <=> Own({"draft", "refinement", "ready"}) = {}
                      /\ result.reason = "max_stories_worked" => worked = limit
                      /\ result.reason = "wall_time_exceeded" => expired
    BY DEF ResultIsTrue
  <2>1. ReasonTrue /\ Settled /\ result.reason \in Reasons
    BY DEF SatellitesInv, TurnInv, CountInv, WaterTypes, Result
  <2>2. Own({"ready"}) \subseteq Own({"draft", "refinement", "ready"})
    BY DEF Own
  <2>3. result.reason = "backlog_empty" <=> Own({"draft", "refinement", "ready"}) = {}
    BY <2>1, <2>2 DEF ReasonTrue, Reasons
  <2> QED
    BY <2>1, <2>3 DEF ReasonTrue, Settled
<1> QED
  BY <1>1, SatellitesInvariance, PTL

(* With any number of threads and agents, and wherever the process stops, two  *)
(* agents have one story only if another call wrote it back from an old copy. *)
THEOREM ClaimsAreApart == Spec => []OneClaimant
<1>1. SatellitesInv => OneClaimant
  BY DEF SatellitesInv, FilesInv
<1> QED
  BY <1>1, SatellitesInvariance, PTL

(* Overlapping calls lose each other's entries in the index, never the entry  *)
(* of a story whose last call ran alone.                                     *)
THEOREM IndexIsCurrent == Spec => []IndexFollowsFiles
<1>1. SatellitesInv => IndexFollowsFiles
  BY DEF SatellitesInv, FilesInv
<1> QED
  BY <1>1, SatellitesInvariance, PTL

(* A comment becomes at most one story more than passes were cut off. *)
THEOREM CommentsAreTakenOnce == Spec => []FeedbackOnce
<1>1. SatellitesInv => FeedbackOnce
  <2> SUFFICES ASSUME SatellitesInv, NEW c \in Comments PROVE drafts[c] <= 1 + cuts
    BY DEF FeedbackOnce
  <2>1. drafts[c] <= (IF Known(c) THEN 1 + cuts ELSE cuts) /\ cuts \in Nat /\ drafts[c] \in Nat
    BY DEF SatellitesInv, FeedbackInv, OnceInv, FeedbackTypes
  <2> QED
    BY <2>1
<1> QED
  BY <1>1, SatellitesInvariance, PTL

(* No comment is recorded as seen that was neither drafted nor let go. *)
THEOREM RecordedIsHandled == Spec => []SeenIsHandled
<1>1. SatellitesInv => SeenIsHandled
  BY DEF SatellitesInv, FeedbackInv, PassInv
<1> QED
  BY <1>1, SatellitesInvariance, PTL
=============================================================================
