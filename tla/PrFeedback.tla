------------------------------- MODULE PrFeedback -------------------------------
(*****************************************************************************)
(* Reviewers' comments on the team's pull request become stories             *)
(* (agile/pr_feedback.py).  The product owner runs a pass whenever a schedule *)
(* says so, on a thread of the pool, and waits for it; pr_feedback_seen.json  *)
(* keeps the ids that a pass has dealt with.  The file is written in place,   *)
(* at the end of a pass, and one that cannot be read counts as empty.         *)
(*                                                                           *)
(* Outside is GitHub: reviewers post and edit, and gh may fail.               *)
(*****************************************************************************)
EXTENDS Integers, FiniteSets

CONSTANTS
  Comments,   \* the ids of what reviewers may post
  Kinds,      \* "comments" and "reviews", which gh is asked for one by one
  KindOf,     \* id -> its kind
  Torn,       \* a file that was cut off while it was written
  MaxPasses   \* bound: passes in a behaviour

ASSUME PrFeedbackAssumption ==
  /\ KindOf \in [Comments -> Kinds] /\ IsFiniteSet(Comments)
  /\ (\A S \in SUBSET Comments : Torn # S) /\ MaxPasses \in Nat

VARIABLES
  posted,   \* id -> "none", or what its body is: "noise" or "ask"
  record,   \* the file: a set of ids, or Torn
  pass,     \* the pass: [at, seen, left, fetched, new, drafted, waived]
  passes,   \* how many there were
  drafts,   \* id -> the stories drafted from it
  letGo,    \* ids of the record that were noise, or whose draft raised
  cuts      \* passes that ended after a draft, or after a write began, unrecorded

feedbackVars == <<posted, record, pass, passes, drafts, letGo, cuts>>

NoPass == [at |-> "none", seen |-> {}, left |-> {}, fetched |-> {}, new |-> {},
           drafted |-> {}, waived |-> {}]

FeedbackInit ==
  /\ posted = [c \in Comments |-> "none"]
  /\ record = {} /\ letGo = {}
  /\ pass = NoPass /\ passes = 0 /\ cuts = 0
  /\ drafts = [c \in Comments |-> 0]

-----------------------------------------------------------------------------
(* A reviewer posts a comment, or rewrites one; it keeps its id. *)
Comment(c) ==
  /\ \E body \in {"noise", "ask"} : posted' = [posted EXCEPT ![c] = body]
  /\ UNCHANGED <<record, pass, passes, drafts, letGo, cuts>>

(* _run_pr_feedback, with a pull request open and gh installed; _read_seen. *)
BeginPass ==
  /\ pass.at = "none" /\ passes < MaxPasses
  /\ passes' = passes + 1
  /\ pass' = [NoPass EXCEPT !.at = "fetch", !.left = Kinds,
                            !.seen = IF record = Torn THEN {} ELSE record]
  /\ UNCHANGED <<posted, record, drafts, letGo, cuts>>

(* _fetch_comments goes on without a kind for which gh fails. *)
Fetch(kind) ==
  /\ pass.at = "fetch" /\ kind \in pass.left
  /\ \E got \in {{}, {c \in Comments : KindOf[c] = kind /\ posted[c] # "none"}} :
       LET fresh == got \ pass.seen IN
       pass' = [pass EXCEPT !.left = @ \ {kind},
                            !.at = IF pass.left = {kind} THEN "draft" ELSE "fetch",
                            !.fetched = @ \cup got,
                            !.new = @ \cup {c \in fresh : posted[c] = "ask"},
                            !.waived = @ \cup {c \in fresh : posted[c] = "noise"}]
  /\ UNCHANGED <<posted, record, passes, drafts, letGo, cuts>>

(* Mutant of Draft: a draft that raises ends the loop. *)
DraftOrLeave(c) ==
  /\ pass.at = "draft" /\ c \in pass.new
  /\ \/ /\ drafts' = [drafts EXCEPT ![c] = @ + 1]
        /\ pass' = [pass EXCEPT !.new = @ \ {c}, !.drafted = @ \cup {c}]
     \/ /\ pass' = [pass EXCEPT !.new = {}, !.waived = @ \cup {c}]
        /\ UNCHANGED drafts
  /\ UNCHANGED <<posted, record, passes, letGo, cuts>>

(* A story for each, or an error that is reported and forgotten. *)
Draft(c) ==
  /\ pass.at = "draft" /\ c \in pass.new
  /\ \/ /\ drafts' = [drafts EXCEPT ![c] = @ + 1]
        /\ pass' = [pass EXCEPT !.new = @ \ {c}, !.drafted = @ \cup {c}]
     \/ /\ pass' = [pass EXCEPT !.new = @ \ {c}, !.waived = @ \cup {c}]
        /\ UNCHANGED drafts
  /\ UNCHANGED <<posted, record, passes, letGo, cuts>>

OpenSeen ==
  /\ pass.at = "draft" /\ pass.new = {}
  /\ record' = Torn
  /\ pass' = [pass EXCEPT !.at = "put"]
  /\ UNCHANGED <<posted, passes, drafts, letGo, cuts>>

(* Mutant of WriteSeen: what gh did not return this time is forgotten. *)
WriteFetched ==
  /\ pass.at = "put"
  /\ record' = pass.fetched
  /\ letGo' = letGo \cup pass.waived
  /\ pass' = NoPass
  /\ UNCHANGED <<posted, passes, drafts, cuts>>

WriteSeen ==
  /\ pass.at = "put"
  /\ record' = pass.seen \cup pass.fetched
  /\ letGo' = letGo \cup pass.waived
  /\ pass' = NoPass
  /\ UNCHANGED <<posted, passes, drafts, cuts>>

(* The process ends, or the write of the file raises. *)
PassEnds ==
  /\ pass.at # "none"
  /\ cuts' = IF pass.drafted = {} /\ pass.at # "put" THEN cuts ELSE cuts + 1
  /\ pass' = NoPass
  /\ UNCHANGED <<posted, record, passes, drafts, letGo>>

FeedbackNext ==
  \/ \E c \in Comments : Comment(c) \/ Draft(c)
  \/ \E kind \in Kinds : Fetch(kind)
  \/ BeginPass \/ OpenSeen \/ WriteSeen \/ PassEnds

-----------------------------------------------------------------------------
(* Properties *)

(* The variables have their types. *)
FeedbackTypeOK ==
  /\ posted \in [Comments -> {"none", "noise", "ask"}]
  /\ record = Torn \/ record \subseteq Comments
  /\ pass.at \in {"none", "fetch", "draft", "put"}
  /\ passes \in 0 .. MaxPasses
  /\ drafts \in [Comments -> Nat]
  /\ letGo \subseteq Comments /\ cuts \in Nat

(* A comment becomes one story, although gh may leave it out of an answer and  *)
(* reviewers rewrite it, and one more for each pass that had drafted stories, *)
(* or had begun to write the file, and did not write it to its end: the file  *)
(* is the only memory (pr_feedback.py:42-54, 182-185, 211).                   *)
FeedbackOnce == \A c \in Comments : drafts[c] <= 1 + cuts

(* An id gets into the record only after a story was drafted from it, or the   *)
(* comment was read as noise, or its draft raised: a pass that is cut off     *)
(* leaves what it did not come to for the next (pr_feedback.py:187-211).      *)
SeenIsHandled ==
  record # Torn => \A c \in record : drafts[c] > 0 \/ c \in letGo
=============================================================================
