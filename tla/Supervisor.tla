------------------------------ MODULE Supervisor ------------------------------
(***************************************************************************)
(* The supervisor of the detection job (supervisor.py), the session        *)
(* cluster's jobs and their retained checkpoints.  A job is the number of  *)
(* the submission that made it.                                            *)
(***************************************************************************)
EXTENDS ServicesConfig, FiniteSetsExt

VARIABLES
  jobs,        \* the jobs that are active
  underway,    \* submissions whose client was given up and that may still be run
  checkpoints, \* complete checkpoints, each [job, stamp]
  stamp,       \* the time of the latest
  phase,       \* where the supervisor is
  from,        \* the checkpoint to restore from, or Fresh
  dirs,        \* jobs whose checkpoints are to be pruned
  submissions, \* how many there were
  belated,     \* whether one was run that had been given up
  started,     \* what the last job was restored from and the latest checkpoint then
  slips        \* how many failures there were

cluster    == <<jobs, underway, checkpoints, stamp>>
supervisor == <<phase, from, dirs>>
record     == <<submissions, belated, started>>
vars       == <<cluster, supervisor, record, slips>>

Fresh == [job |-> 0, stamp |-> 0]

Init ==
  /\ jobs = {} /\ underway = {} /\ checkpoints = {} /\ stamp = 0
  /\ phase = "look" /\ from = Fresh /\ dirs = {}
  /\ submissions = 0 /\ belated = FALSE /\ started = [from |-> 0, latest |-> 0]
  /\ slips = 0

Slip == slips < MaxSlips /\ slips' = slips + 1

-----------------------------------------------------------------------------
\* The cluster.  Of a job's checkpoints the latest counts.
Checkpoint ==
  /\ stamp < MaxCheckpoints /\ stamp' = stamp + 1
  /\ \E j \in jobs : checkpoints' = {c \in checkpoints : c.job # j} \cup {[job |-> j, stamp |-> stamp']}
  /\ UNCHANGED <<jobs, underway, supervisor, record, slips>>

\* A job fails for good, or the JobManager is lost with all its jobs.
JobsEnd ==
  /\ jobs # {} /\ Slip
  /\ \E js \in {jobs} \cup {{j} : j \in jobs} : jobs' = jobs \ js
  /\ UNCHANGED <<underway, checkpoints, stamp, supervisor, record>>

\* A submission that was given up is run all the same, or is not.
Belated ==
  /\ \E s \in underway, run \in BOOLEAN :
       /\ underway' = underway \ {s} /\ belated' = (belated \/ run)
       /\ jobs' = IF run THEN jobs \cup {s} ELSE jobs
  /\ UNCHANGED <<checkpoints, stamp, supervisor, submissions, started, slips>>

-----------------------------------------------------------------------------
(***************************************************************************)
(* main                                                                    *)
(***************************************************************************)

\* rest_jobs, until no job is active.
Look ==
  /\ phase = "look" /\ jobs = {} /\ phase' = "list"
  /\ UNCHANGED <<cluster, from, dirs, record, slips>>

Latest(cs) == Max({0} \cup {c.stamp : c \in cs})
Of(j)      == {c \in checkpoints : c.job = j}
Dirs       == {c.job : c \in checkpoints}

\* Mutation: the newest go first.
PrunedNewest == {j \in Dirs : Quantify(Dirs, LAMBDA k : Latest(Of(k)) < Latest(Of(j))) >= Keep}

\* The jobs beyond the Keep that have the latest checkpoints.
Pruned == {j \in Dirs : Quantify(Dirs, LAMBDA k : Latest(Of(k)) > Latest(Of(j))) >= Keep}

\* latest_checkpoint
List ==
  /\ phase = "list" /\ phase' = "submit"
  /\ from' \in IF checkpoints = {} THEN {Fresh} ELSE {c \in checkpoints : c.stamp = Latest(checkpoints)}
  /\ dirs' = Pruned
  /\ UNCHANGED <<cluster, record, slips>>

ListFails ==
  /\ phase = "list" /\ Slip /\ phase' = "look"
  /\ UNCHANGED <<cluster, from, dirs, record>>

\* submit
Submit ==
  /\ phase = "submit" /\ phase' = "prune"
  /\ submissions' = submissions + 1 /\ jobs' = jobs \cup {submissions'}
  /\ started' = [from |-> from.stamp, latest |-> Latest(checkpoints)]
  /\ UNCHANGED <<underway, checkpoints, stamp, from, dirs, belated, slips>>

SubmitFails ==
  /\ phase = "submit" /\ Slip /\ phase' = "look"
  /\ UNCHANGED <<cluster, from, dirs, record>>

\* The client does not answer within ten minutes, or ends together with the supervisor.
GiveUp ==
  /\ phase = "submit" /\ Slip /\ phase' = "look"
  /\ submissions' = submissions + 1 /\ underway' = underway \cup {submissions'}
  /\ UNCHANGED <<jobs, checkpoints, stamp, from, dirs, belated, started>>

\* prune
Prune ==
  /\ phase = "prune" /\ phase' = "look" /\ from' = Fresh /\ dirs' = {}
  /\ checkpoints' = {c \in checkpoints : c.job \notin dirs}
  /\ UNCHANGED <<jobs, underway, stamp, record, slips>>

PruneFails ==
  /\ phase = "prune" /\ Slip /\ phase' = "look" /\ from' = Fresh /\ dirs' = {}
  /\ \E js \in SUBSET dirs : checkpoints' = {c \in checkpoints : c.job \notin js}
  /\ UNCHANGED <<jobs, underway, stamp, record>>

Supervise == Look \/ List \/ Submit \/ Prune

Next ==
  \/ Supervise \/ Checkpoint \/ JobsEnd \/ Belated
  \/ ListFails \/ SubmitFails \/ GiveUp \/ PruneFails

Spec == Init /\ [][Next]_vars

\* The supervisor's loop goes on.
FairSpec == Spec /\ WF_vars(Supervise)

-----------------------------------------------------------------------------
\* What is about to be restored from is not pruned.  While no submission was run
\* that had been given up, there is one job at most, it was restored from the latest checkpoint there was, and
\* the latest checkpoint ever taken is there to restore from, whatever was pruned and
\* whatever failed (supervisor.py:3-6).
StateIsHandedOn ==
  /\ phase = "submit" /\ from # Fresh => from.job \in Dirs
  /\ ~belated => /\ \A j, k \in jobs : j = k
                 /\ started.from = started.latest
                 /\ Latest(checkpoints) = stamp

\* A job is there again (supervisor.py:3-5).
JobIsBack == (jobs = {}) ~> (jobs # {})

=============================================================================
