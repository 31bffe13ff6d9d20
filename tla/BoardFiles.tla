------------------------------- MODULE BoardFiles -------------------------------
(*****************************************************************************)
(* BoardStore (agile/board_store.py) below the granularity of a call, at which *)
(* module Board takes it.  A story is a file, and its column is also in one   *)
(* index file for all stories; a call reads the story, writes it back, reads  *)
(* the index and writes that back, and only claims take a lock.  Calls come   *)
(* from the event loop and from the threads in which ceremonies run.          *)
(*                                                                           *)
(* Each write replaces its file as a whole.  What no claim looks at -- votes,  *)
(* points, comments, priority, attempts -- is left out, so that a call that   *)
(* changes only such things writes back what it has read.                    *)
(*****************************************************************************)
EXTENDS BoardColumns, Integers, FiniteSets

CONSTANTS
  Ids,        \* issue ids
  Threads,    \* the event loop, and the threads of the pool
  Actors,     \* the agents that claim
  Nobody,     \* no assignee, no story, no thread
  Aims,       \* the columns that calls other than claims move a story to
  MaxCalls    \* bound: calls, and claims, in a behaviour

ASSUME BoardFilesAssumption ==
  /\ Nobody \notin Ids \cup Threads \cup Actors
  /\ Aims \subseteq States \ {"absent", "draft"} /\ MaxCalls \in Nat

VARIABLES
  file,      \* id -> its story file: [column, assignee]
  index,     \* id -> its column in index.json
  call,      \* thread -> the call it is in
  lock,      \* the thread that has _claim_lock
  holder,    \* actor -> the story it has claimed, until that is moved or unassigned
  calls,     \* how many calls and claims there were
  sound,     \* the stories whose last call ran alone and to its end
  spoiled    \* the stories a call other than a claim wrote back from an old copy

fileVars == <<file, index, call, lock, holder, calls, sound, spoiled>>

Absent == [column |-> "absent", assignee |-> Nobody]

(* op is "draft", "touch" (any call that leaves column and assignee alone),    *)
(* "assign", "unassign", or the column that transition is called with; at is   *)
(* the step to come.  A claim has its candidates left, and an actor.          *)
NoCall ==
  [at |-> "idle", op |-> "touch", id |-> Nobody, actor |-> Nobody, left |-> {},
   copy |-> Absent, listing |-> [i \in Ids |-> "absent"], alone |-> FALSE, old |-> FALSE]

Claiming(t) == call[t].actor # Nobody

BoardFilesInit ==
  /\ file \in [Ids -> {Absent, [Absent EXCEPT !.column = "ready"]}]
  /\ index = [i \in Ids |-> file[i].column]
  /\ call = [t \in Threads |-> NoCall]
  /\ lock = Nobody
  /\ holder = [a \in Actors |-> Nobody]
  /\ calls = 0 /\ sound = Ids /\ spoiled = {}

-----------------------------------------------------------------------------
(* Whoever begins is not alone when another has begun and not ended, and the  *)
(* other is not alone any more.                                              *)
Begins(t, new) ==
  /\ call[t].at = "idle" /\ calls < MaxCalls
  /\ calls' = calls + 1
  /\ call' = [u \in Threads |->
       IF u = t THEN [new EXCEPT !.alone = \A v \in Threads \ {t} : call[v].at = "idle"]
       ELSE [call[u] EXCEPT !.alone = FALSE]]

Call(t, op, i) ==
  /\ Begins(t, [NoCall EXCEPT !.at = "read", !.op = op, !.id = i])
  /\ UNCHANGED <<file, index, lock, holder, sound, spoiled>>

(* Mutant of Claim: nothing keeps two claims apart. *)
ClaimUnlocked(t, a) ==
  /\ holder[a] = Nobody
  /\ Begins(t, [NoCall EXCEPT !.at = "next", !.actor = a,
                              !.left = {i \in Ids : index[i] = "ready"}])
  /\ UNCHANGED <<file, index, lock, holder, sound, spoiled>>

(* try_claim_next_for: the candidates are the stories that the index has in   *)
(* ready; the locks and the dependencies are module Board's.                 *)
Claim(t, a) ==
  /\ lock = Nobody /\ holder[a] = Nobody
  /\ lock' = t
  /\ Begins(t, [NoCall EXCEPT !.at = "next", !.actor = a,
                              !.left = {i \in Ids : index[i] = "ready"}])
  /\ UNCHANGED <<file, index, holder, sound, spoiled>>

(* A claim assigns the next candidate, or ends without a story. *)
NextCandidate(t) ==
  /\ call[t].at = "next"
  /\ \/ \E i \in call[t].left :
          /\ call' = [call EXCEPT ![t].at = "read", ![t].op = "assign", ![t].id = i,
                                  ![t].left = @ \ {i}]
          /\ UNCHANGED lock
     \/ /\ call[t].left = {}
        /\ call' = [call EXCEPT ![t] = NoCall]
        /\ lock' = Nobody
  /\ UNCHANGED <<file, index, holder, calls, sound, spoiled>>

-----------------------------------------------------------------------------
(* The steps of a call *)

(* What a call makes of a story, and when it raises instead. *)
Allowed(op, actor, f) ==
  IF op = "draft" THEN f.column = "absent"
  ELSE /\ f.column # "absent"
       /\ op = "assign" => f.assignee \in {Nobody, actor}
       /\ op \in States => op \in Transitions[f.column]

(* Only a claim assigns, and only calls that have no actor unassign. *)
Changed(op, actor, f) ==
  IF op \in States THEN [f EXCEPT !.column = op]
  ELSE IF op = "touch" THEN f
  ELSE [f EXCEPT !.assignee = actor]

Read(t) ==
  LET c == call[t] IN
  /\ c.at = "read"
  /\ call' = [call EXCEPT ![t] =
       IF Allowed(c.op, c.actor, file[c.id])
       THEN [c EXCEPT !.at = "write", !.copy = Changed(c.op, c.actor, file[c.id]),
                      !.old = FALSE]
       ELSE IF Claiming(t) THEN [c EXCEPT !.at = "next"] ELSE NoCall]
  /\ UNCHANGED <<file, index, lock, holder, calls, sound, spoiled>>

(* The agent of a claim has its story from the write that moves it, until      *)
(* another call moves or unassigns it.                                        *)
WriteFile(t) ==
  LET c == call[t] IN
  /\ c.at = "write"
  /\ file' = [file EXCEPT ![c.id] = c.copy]
  /\ call' = [u \in Threads |->
       IF u = t THEN [c EXCEPT !.at = "index"]
       ELSE IF call[u].at = "write" /\ call[u].id = c.id THEN [call[u] EXCEPT !.old = TRUE]
       ELSE call[u]]
  /\ holder' = [a \in Actors |->
       CASE Claiming(t) /\ c.op = "in_progress" /\ a = c.actor        -> c.id
         [] ~Claiming(t) /\ c.op # "touch" /\ holder[a] = c.id        -> Nobody
         [] OTHER                                                     -> holder[a]]
  /\ sound' = sound \ {c.id}
  /\ spoiled' = IF c.old /\ ~Claiming(t) THEN spoiled \cup {c.id} ELSE spoiled
  /\ UNCHANGED <<index, lock, calls>>

ReadIndex(t) ==
  /\ call[t].at = "index"
  /\ call' = [call EXCEPT ![t].at = "put", ![t].listing = index]
  /\ UNCHANGED <<file, index, lock, holder, calls, sound, spoiled>>

(* After assign a claim moves the story; after that it is over. *)
Ends(t) ==
  LET c == call[t] IN
  /\ call' = [call EXCEPT ![t] = IF Claiming(t) /\ c.op = "assign"
                                 THEN [c EXCEPT !.at = "read", !.op = "in_progress"]
                                 ELSE NoCall]
  /\ lock' = IF Claiming(t) /\ c.op = "in_progress" THEN Nobody ELSE lock

(* Mutant of WriteIndex: only the entries that are there are brought up to date. *)
WriteIndexKnown(t) ==
  LET c == call[t] IN
  /\ c.at = "put"
  /\ index' = [c.listing EXCEPT ![c.id] = IF @ = "absent" THEN @ ELSE c.copy.column]
  /\ sound' = IF c.alone THEN sound \cup {c.id} ELSE sound
  /\ Ends(t)
  /\ UNCHANGED <<file, holder, calls, spoiled>>

WriteIndex(t) ==
  LET c == call[t] IN
  /\ c.at = "put"
  /\ index' = [c.listing EXCEPT ![c.id] = c.copy.column]
  /\ sound' = IF c.alone THEN sound \cup {c.id} ELSE sound
  /\ Ends(t)
  /\ UNCHANGED <<file, holder, calls, spoiled>>

(* The process ends, wherever its threads are; the files stay. *)
Stop ==
  /\ call' = [t \in Threads |-> NoCall]
  /\ lock' = Nobody
  /\ holder' = [a \in Actors |-> Nobody]
  /\ UNCHANGED <<file, index, calls, sound, spoiled>>

(* Any call at any time; elevation's touch of a ready story writes back the    *)
(* copy of a listing it made before (elevate.py:84-93).                       *)
Calls(t) ==
  \/ \E i \in Ids, op \in {"draft", "touch", "unassign"} \cup Aims : Call(t, op, i)
  \/ \E a \in Actors : Claim(t, a)

BoardFilesNext ==
  \/ \E t \in Threads :
       Calls(t) \/ NextCandidate(t) \/ Read(t) \/ WriteFile(t) \/ ReadIndex(t) \/ WriteIndex(t)
  \/ Stop

-----------------------------------------------------------------------------
(* Properties *)

(* The variables have their types. *)
BoardFilesTypeOK ==
  /\ file \in [Ids -> [column : States, assignee : Actors \cup {Nobody}]]
  /\ index \in [Ids -> States]
  /\ \A t \in Threads : call[t].at \in {"idle", "next", "read", "write", "index", "put"}
  /\ lock \in Threads \cup {Nobody}
  /\ holder \in [Actors -> Ids \cup {Nobody}]
  /\ calls \in 0 .. MaxCalls /\ sound \subseteq Ids /\ spoiled \subseteq Ids

(* No two agents have claimed one story, although its file and the index that  *)
(* offers it change under the claim, unless a call other than a claim wrote   *)
(* the story back from a copy it had read before another's write: the lock    *)
(* keeps claims apart, and nothing else (board_store.py:384-410, elevate.py:86). *)
OneClaimant ==
  \A a, b \in Actors :
    a # b /\ holder[a] = holder[b] /\ holder[a] # Nobody => holder[a] \in spoiled

(* The index never names a story without a file.  Once a call on a story has   *)
(* run alone, the index has the column of its file, until the next call on it: *)
(* calls on other stories that overlap write the whole index over one another *)
(* and lose their own entries at most (board_store.py:206-217, 257-261).       *)
IndexFollowsFiles ==
  \A i \in Ids :
    /\ file[i].column = "absent" => index[i] = "absent"
    /\ i \in sound => index[i] = file[i].column
=============================================================================
