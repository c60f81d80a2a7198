-------------------------- MODULE SmashProperties --------------------------
(***************************************************************************)
(* What the job control of smash promises: invariants, action properties   *)
(* and liveness properties over the state machine of module Smash.         *)
(***************************************************************************)
EXTENDS Smash

Places == MainPlaces \cup HandlerPlaces

\* Every variable has its type.
TypeOK ==
  /\ jobs \in Seq(JobRec)
  /\ maxId \in Nat
  /\ timed \in Seq(TimedRec)
  /\ fg \in Pids \cup {NoPid}
  /\ proc \in [Pids -> ProcStates]
  /\ alarm \in Nat /\ alrm \in BOOLEAN
  /\ pc \in [Threads -> Places]
  /\ idx \in [Threads -> Nat]
  /\ after \in [Threads -> Places]
  /\ cmd \in CmdRec
  /\ raced \subseteq Fragile

AtPrompt    == MainAt("prompt")
MainBlocked == AtPrompt \/ (MainAt("wait") /\ ~WaitReady)

\* The job ids (addJob, initializeMaximalJobId) strictly increase along the
\* list and never pass maximalJobId, whatever handler ran in between: a job id
\* is never given to two jobs, and the last entry has the largest id, on which
\* getLastJob relies.  The one exception is an alarm inside addJob, between the
\* new id (Commands.cpp:904) and the increment (908): the handler lowers the
\* maximum under the id, and from then on nothing is claimed.
IdsIncrease(s, m) ==
  /\ \A k, l \in DOMAIN s : k < l => s[k].id < s[l].id
  /\ \A k \in DOMAIN s : s[k].id <= m
JobIdsIncrease == "newjob" \notin raced => IdsIncrease(jobs, maxId)

\* No process is listed twice, though a job that is brought to the foreground
\* stays listed and ctrl-Z adds it again (addJob looks it up by pid).
PidsDistinct(s) == \A k, l \in DOMAIN s : s[k].pid = s[l].pid => k = l
JobPidsDistinct == PidsDistinct(jobs)

\* While an entry is in the table its id keeps naming the same process: what
\* the user read from jobs is what fg, bg and kill act on; with the exception
\* of JobIdsIncrease.
JobIdStable ==
  [][\A k \in DOMAIN jobs, l \in DOMAIN jobs' :
       "newjob" \notin raced' /\ jobs[k].id = jobs'[l].id => jobs[k].pid = jobs'[l].pid]_vars

\* At the prompt every child that is alive is in the table: ctrl-Z, fg and the
\* timeouts never leave a child nobody can name.  The exceptions are an alarm
\* between a waitpid of removeFinishedJobs that has reaped a child and the
\* erase (Commands.cpp:957-961), after which a live neighbour may be erased in
\* its place, and that of JobIdsIncrease, after which fg may remove another job
\* of the same id.
NoLostChild == AtPrompt /\ raced = {} => \A p \in Pids : Alive(p) => IsListed(p)

\* While the shell is blocked on a foreground command, the pid that ctrl-Z and
\* ctrl-C signal is that command's: the user can always get the prompt back.
WaitInterruptible == (MainAt("wait") /\ ~WaitReady) => fg = cmd.pid

\* A foreground pid left behind by the early return on ECHILD is always that of
\* a child already reaped, so that a key pressed later reaches no process.
StaleForegroundHarmless ==
  (fg # NoPid /\ pc[Handler] = "idle" /\ pc[Main] \notin {"wait", "clear"}) => proc[fg] = "reaped"

\* At the prompt the status shown by jobs is that of the process.
StatusTruthful ==
  AtPrompt => \A k \in DOMAIN jobs :
    /\ jobs[k].status = "STOPPED" => proc[jobs[k].pid] # "running"
    /\ jobs[k].status = "RUNNING" => proc[jobs[k].pid] \notin {"stopped", "parked"}

\* The loop of removeFinishedJobs never runs past the end of the list.
NoCrash == pc[Main] # "crashed"

\* A timeout that is still tracked while the shell is blocked has an alarm to
\* enforce it.
AlarmArmed == (MainBlocked /\ timed # <<>>) => alarm > 0 \/ alrm

\* A tracked timeout whose child is alive ends with the child dead.
Tracked(p) == \E k \in DOMAIN timed : timed[k].pid = p
TimeoutsEnforced ==
  \A p \in Pids : (Tracked(p) /\ Alive(p)) ~> (~Alive(p) \/ ~ShellAlive)
=============================================================================
