---------------------------- MODULE Publication ----------------------------
(***************************************************************************)
(* What the site's readers and the build rows of the runs are promised,    *)
(* whatever the debouncing, cancelling and copying in between: the site    *)
(* only moves forward, and a run whose build is reported done is on it.    *)
(***************************************************************************)
EXTENDS Naturals

CONSTANT NumRuns      \* runs that save articles, in the order they do

Runs == 1..NumRuns
Statuses == {"none", "queued", "running", "done", "failed", "superseded"}

VARIABLES
  saved,      \* how many runs have their articles in the database
  published,  \* how many runs every file of the site accounts for
  status      \* status[r]: the last word on the build of run r

vars == <<saved, published, status>>

Init ==
  /\ saved = 0
  /\ published = 0
  /\ status = [r \in Runs |-> "none"]

Save ==
  /\ saved < NumRuns
  /\ saved' = saved + 1
  /\ UNCHANGED <<published, status>>

Becomes(r, old, new) ==
  /\ status[r] \in old
  /\ status' = [status EXCEPT ![r] = new]

Queue(r) ==
  /\ r <= saved
  /\ Becomes(r, {"none"}, "queued")
  /\ UNCHANGED <<saved, published>>

Start(r) == Becomes(r, {"queued"}, "running") /\ UNCHANGED <<saved, published>>

Fail(r) == Becomes(r, {"running"}, "failed") /\ UNCHANGED <<saved, published>>

(* A build that has just ended may still be superseded: its last report is *)
(* not awaited yet.                                                        *)
Supersede(r) ==
  /\ Becomes(r, {"queued", "running", "done", "failed", "superseded"}, "superseded")
  /\ UNCHANGED <<saved, published>>

Advance == published' \in published..saved

Publish == Advance /\ UNCHANGED <<saved, status>>

Finish(r) ==
  /\ Becomes(r, {"running"}, "done")
  /\ Advance /\ r <= published'
  /\ UNCHANGED saved

Next ==
  \/ Save \/ Publish
  \/ \E r \in Runs : Queue(r) \/ Start(r) \/ Fail(r) \/ Supersede(r) \/ Finish(r)

Spec == Init /\ [][Next]_vars

(* A run whose build row says done is on every page of the site.           *)
DoneMeansPublished == \A r \in Runs : status[r] = "done" => r <= published
=============================================================================
