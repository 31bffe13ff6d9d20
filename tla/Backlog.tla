--------------------------------- MODULE Backlog ---------------------------------
(*****************************************************************************)
(* How a spec file or the product owner's answer becomes stories on the      *)
(* board (agile/spec_parser.py, agile/goal_decomposer.py): one story file    *)
(* after the other, and then, in a second pass, their dependencies.          *)
(*                                                                           *)
(* A plan is a sequence of drafts [title, deps, names], with the positions,  *)
(* counted from 0, and the issue ids of the drafts each one depends on.  An  *)
(* issue id is made of the position of the draft in its plan, its title, and *)
(* what was appended to it because the id was taken.                         *)
(*****************************************************************************)
EXTENDS Integers, Sequences, FiniteSets, FiniteSetsExt

CONSTANTS
  Titles,       \* normalised titles
  MaxDrafts,    \* bound: drafts in a plan
  MaxStories,   \* bound: stories on the board at a time
  MaxPlans      \* bound: decompositions in a behaviour

VARIABLES
  column,       \* issue id -> its column, or "absent"
  deps,         \* issue id -> depends_on
  drafted,      \* the plans decomposed so far
  origin,       \* issue id -> the plan it comes from
  linked,       \* the issue ids whose dependencies were written
  created       \* the ids of the decomposition that runs

backlogVars == <<column, deps, drafted, origin, linked, created>>

Ids == [pos : 0 .. MaxDrafts - 1, title : Titles, suffix : 0 .. MaxPlans - 1]

(* A story's way over the board. *)
Flow == INSTANCE StoryFlow WITH Stories <- Ids

OnBoard == {s \in Ids : column[s] # "absent"}
In(where) == {s \in Ids : column[s] \in where}

BacklogInit ==
  /\ column = [s \in Ids |-> "absent"]
  /\ deps = [s \in Ids |-> {}]
  /\ drafted = <<>>
  /\ origin = [s \in Ids |-> 0]
  /\ linked = {}
  /\ created = <<>>

-----------------------------------------------------------------------------
(* Plans *)

(* spec_stories_to_draft_dicts: a spec counts its stories from 1. *)
FromSpec(spec) ==
  [i \in DOMAIN spec |->
     [title |-> spec[i].title, names |-> {},
      deps |-> {d - 1 : d \in {e \in spec[i].deps : e \in 1 .. Len(spec) /\ e # i}}]]

Plan == drafted[Len(drafted)]

BeginPlan(plan) ==
  /\ drafted' = Append(drafted, plan)
  /\ created' = <<>>
  /\ UNCHANGED <<column, deps, origin, linked>>

(* The id of the next draft: the first one no story file has. *)
FreshId(draft) ==
  LET taken == {s \in OnBoard : s.pos = Len(created) /\ s.title = draft.title}
  IN [pos |-> Len(created), title |-> draft.title,
      suffix |-> Min({n \in 0 .. MaxPlans - 1 : \A s \in taken : s.suffix # n})]

MoreToDraft == Len(created) < Len(Plan)
RoomOnBoard == Cardinality(OnBoard) < MaxStories

(* Mutant of DraftNext: an id that is taken is drafted again. *)
DraftNextAnyway ==
  LET s == [pos |-> Len(created), title |-> Plan[Len(created) + 1].title, suffix |-> 0]
  IN /\ MoreToDraft /\ RoomOnBoard
     /\ column' = [column EXCEPT ![s] = "draft"]
     /\ origin' = [origin EXCEPT ![s] = Len(drafted)]
     /\ created' = Append(created, s)
     /\ UNCHANGED <<deps, drafted, linked>>

DraftNext ==
  LET s == FreshId(Plan[Len(created) + 1])
  IN /\ MoreToDraft /\ RoomOnBoard
     /\ column' = [column EXCEPT ![s] = "draft"]
     /\ origin' = [origin EXCEPT ![s] = Len(drafted)]
     /\ created' = Append(created, s)
     /\ UNCHANGED <<deps, drafted, linked>>

(* Mutant of Resolved: the dependency takes the id the position would have in *)
(* an empty board.                                                           *)
ResolvedAfresh(i) ==
  {[pos |-> d, title |-> Plan[d + 1].title, suffix |-> 0] :
     d \in {e \in Plan[i].deps : e \in 0 .. Len(created) - 1 /\ e # i - 1}}

(* The second pass: positions become the ids just created; a position outside *)
(* the plan, and the story's own, are dropped.  An id stands for itself, the  *)
(* story's own too, if it is one of those just created.                      *)
Resolved(i) ==
  {created[d + 1] : d \in {e \in Plan[i].deps : e \in 0 .. Len(created) - 1 /\ e # i - 1}}
    \cup (Plan[i].names \cap {created[k] : k \in DOMAIN created})

LinkNext(i) ==
  /\ created[i] \notin linked
  /\ deps' = [deps EXCEPT ![created[i]] = Resolved(i)]
  /\ linked' = linked \cup {created[i]}
  /\ UNCHANGED <<column, drafted, origin, created>>

(* The decomposition returns, or whatever is raised in it is a warning. *)
EndPlan ==
  /\ created' = <<>>
  /\ UNCHANGED <<column, deps, drafted, origin, linked>>

-----------------------------------------------------------------------------
(* What the team makes of the stories is StoryFlow's, which ScrumTeam         *)
(* implements with its agents, queues and failures; here it matters which     *)
(* stories may be where when a process stops or another command looks.        *)

OthersStay == UNCHANGED <<drafted, origin, linked, created>>

Forward(s) ==
  /\ \/ Flow!Refine(s) \/ Flow!Vote(s) \/ Flow!Claim(s) \/ Flow!Commit(s) \/ Flow!Merge(s)
     \/ Flow!Accept(s) \/ Flow!Block(s)
  /\ OthersStay

Back(s) ==
  /\ Flow!Retry(s) \/ Flow!Resume(s)
  /\ OthersStay

(* The board goes with the team's folder. *)
RemoveBoard ==
  /\ column' = [s \in Ids |-> "absent"]
  /\ deps' = [s \in Ids |-> {}]
  /\ origin' = [s \in Ids |-> 0]
  /\ linked' = {}
  /\ drafted' = <<>> /\ created' = <<>>

BacklogTypeOK ==
  /\ column \in [Ids -> Flow!Columns]
  /\ deps \in [Ids -> SUBSET Ids]
  /\ drafted \in Seq(Seq([title : Titles, deps : SUBSET Int, names : SUBSET Ids]))
  /\ origin \in [Ids -> Nat]
  /\ linked \subseteq Ids
  /\ created \in Seq(Ids)
=============================================================================
