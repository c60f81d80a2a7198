------------------------------- MODULE Smash -------------------------------
(***************************************************************************)
(* The job control of smash, the small shell of "Operating Systems (C++,   *)
(* C)": the table of jobs, the foreground command, the timeouts with their *)
(* single alarm, and the three signal handlers, which run on the shell's   *)
(* only thread between any two of its system calls.                        *)
(*                                                                         *)
(* The shell is one thread with two control points: pc[Main] is the place  *)
(* reached by the read-execute loop, pc[Handler] the place reached by the  *)
(* handler running on top of it ("idle" when none is).  A step is the code *)
(* from one system call to the next.  The kernel is external: it keeps the *)
(* state of every child, the clock and the pending alarm.                  *)
(***************************************************************************)
EXTENDS Naturals, FiniteSets, SequencesExt

CONSTANTS
  Pids,       \* the process ids the kernel hands out; a pid is never reused
  NoPid,      \* pid 0: there is no foreground command
  Commands,   \* the command words the user types
  Signals,    \* the signals given to the kill command
  MaxJobArg,  \* bound: the largest job id the user types
  Timers,     \* the durations given to the timeout command
  NoTimer,    \* the command was not given to timeout
  Keys,       \* whether the user presses ctrl-Z and ctrl-C
  Exits,      \* whether a child may end by itself
  StrayStops  \* whether a child may be stopped by someone else than the shell

AllCommands == {"ext", "ext&", "jobs", "fg", "bg", "kill", "chprompt", "quit", "quit kill"}
AllSignals  == {"SIGSTOP", "SIGCONT", "SIGTSTP", "SIGKILL"}

ASSUME ConstantAssumption ==
  /\ NoPid \notin Pids
  /\ Commands \subseteq AllCommands
  /\ Signals \subseteq AllSignals
  /\ MaxJobArg \in Nat
  /\ Timers \subseteq Nat
  /\ IsFiniteSet(Timers)
  /\ NoTimer \notin Timers
  /\ Keys \in BOOLEAN
  /\ Exits \in BOOLEAN
  /\ StrayStops \in BOOLEAN

VARIABLES
  jobs,    \* JobsList::job_list: a sequence of [id, pid, status]
  maxId,   \* JobsList::maximalJobId
  timed,   \* JobsList::timed_jobs: a sequence of [pid, timer, age]
  fg,      \* SmallShell::cmdForegroundPid
  proc,    \* kernel: the state of every child
  alarm,   \* kernel: seconds until SIGALRM, 0 when no alarm is set
  alrm,    \* kernel: SIGALRM is pending
  pc, idx, after,  \* per control point: place, loop index, place after the loop
  cmd,     \* the locals of the command being executed
  raced    \* history: the fragile places at which SIGALRM has interrupted the main loop

shellVars  == <<jobs, maxId, timed, fg>>
kernelVars == <<proc, alarm, alrm>>
ctlVars    == <<pc, idx, after, cmd>>
vars       == <<jobs, maxId, timed, fg, proc, alarm, alrm, pc, idx, after, cmd, raced>>

Main    == "main"
Handler == "handler"
Threads == {Main, Handler}

MainPlaces == {"prompt", "arm", "fork", "track", "addjob", "newjob", "setfg", "wait", "clear",
               "jobs", "fg", "bg", "kill", "quit kill", "reap", "erase", "exited", "crashed"}
HandlerPlaces == {"idle", "zpoll", "zstop", "addjob", "cpoll", "ckill",
                  "scan", "timeoutkill", "rearm", "reap"}

\* Where the main loop holds what the alarm handler changes: the iterator of a
\* child just reaped and not yet erased; the id of an entry not yet in the list.
\* raced only records; no step looks at it.
Fragile == {"erase", "newjob"}

-----------------------------------------------------------------------------
(* The kernel's view of a child.  A stop is reported once to a waitpid      *)
(* with WUNTRACED ("stopped"), after which the child is "parked".           *)
ProcStates == {"free", "running", "stopped", "parked", "zombie", "reaped"}
Alive(p)   == proc[p] \in {"running", "stopped", "parked"}

\* kill(2) on a child that has not been reaped: the child's next state.
Signalled(s, sig) ==
  CASE s \in {"zombie", "reaped"}                            -> s
    [] sig \in {"SIGSTOP", "SIGTSTP"} /\ s = "running"       -> "stopped"
    [] sig = "SIGCONT" /\ s \in {"stopped", "parked"}        -> "running"
    [] sig = "SIGKILL" /\ s \notin {"zombie", "reaped"}      -> "zombie"
    [] OTHER                                                 -> s

\* The age after which a timeout's order relative to the others is settled:
\* an age is counted up to AgeCap only, which no comparison below can tell.
AgeCap == IF Timers = {} THEN 1 ELSE Max(Timers) + 1
Older(a) == IF a < AgeCap THEN a + 1 ELSE a

JobRec   == [id : Nat \ {0}, pid : Pids, status : {"STOPPED", "RUNNING"}]
TimedRec == [pid : Pids, timer : Timers, age : Nat]
CmdRec   == [op : AllCommands, arg : Nat, sig : AllSignals,
             timer : Timers \cup {NoTimer}, pid : Pids \cup {NoPid}, stopped : BOOLEAN]

\* An entry removed by pid or by id: vector::erase of the first that matches.
FirstWithPid(s, p) == {k \in DOMAIN s : s[k].pid = p /\ \A l \in DOMAIN s : s[l].pid = p => k <= l}
FirstWithId(s, j)  == {k \in DOMAIN s : s[k].id = j /\ \A l \in DOMAIN s : s[l].id = j => k <= l}
WithoutFirst(s, f) == IF f = {} THEN s ELSE RemoveAt(s, CHOOSE k \in f : TRUE)

WithoutPid(s, p) == WithoutFirst(s, FirstWithPid(s, p))
WithoutId(s, j)  == WithoutFirst(s, FirstWithId(s, j))

\* initializeMaximalJobId: the largest id in the table, 0 when it is empty.
LargestId(s) == Max({0} \cup {s[k].id : k \in DOMAIN s})

-----------------------------------------------------------------------------
(* Control.                                                                 *)
Goto(t, place) == pc' = [pc EXCEPT ![t] = place]

\* Call removeFinishedJobs and go on at place.
CallReap(t, place) ==
  /\ pc'    = [pc EXCEPT ![t] = "reap"]
  /\ idx'   = [idx EXCEPT ![t] = 1]
  /\ after' = [after EXCEPT ![t] = place]

LeaveReap(t) ==
  /\ Goto(t, after[t])
  /\ idx'   = [idx EXCEPT ![t] = 1]
  /\ after' = [after EXCEPT ![t] = "idle"]

NoCommand == [op |-> "chprompt", arg |-> 0, sig |-> "SIGCONT", timer |-> NoTimer,
              pid |-> NoPid, stopped |-> FALSE]

\* The command returns to the read-execute loop and its locals are gone.
Return == Goto(Main, "prompt") /\ cmd' = NoCommand

MainAt(place)    == pc[Main] = place /\ pc[Handler] = "idle"
HandlerAt(place) == pc[Handler] = place
ShellAlive       == pc[Main] \notin {"exited", "crashed"}

-----------------------------------------------------------------------------
(* The job table.                                                           *)

\* removeTimedJobByPid and vector::erase of the entry at i.  The handlers may
\* have erased entries under the main loop's iterator: at and past end() it
\* designates a moved-from shared_ptr, whose null pointer is dereferenced.
Erase(i) ==
  /\ timed' = WithoutPid(timed, jobs[i].pid)
  /\ jobs'  = RemoveAt(jobs, i)

\* removeFinishedJobs, one waitpid(WNOHANG) per step.  In the main loop a
\* handler may run when waitpid returns: what it answered is acted upon in the
\* next step.  (A child still alive or ECHILD is not: the iterator moves on, or
\* the function returns, whatever a handler did.)
Reap(t) ==
  /\ pc[t] = "reap"
  /\ t = Main => pc[Handler] = "idle"
  /\ \/ /\ idx[t] > Len(jobs) + 1
        /\ Goto(t, "crashed")
        /\ UNCHANGED <<jobs, maxId, timed, proc, idx, after>>
     \/ /\ idx[t] = Len(jobs) + 1
        /\ maxId' = LargestId(jobs)
        /\ LeaveReap(t)
        /\ UNCHANGED <<jobs, timed, proc>>
     \/ /\ idx[t] \in DOMAIN jobs
        /\ LET p == jobs[idx[t]].pid IN
           \/ /\ proc[p] = "zombie"
              /\ proc' = [proc EXCEPT ![p] = "reaped"]
              /\ IF t = Main THEN Goto(Main, "erase") /\ UNCHANGED <<jobs, timed>>
                 ELSE Erase(idx[t]) /\ UNCHANGED pc
              /\ UNCHANGED <<maxId, idx, after>>
           \/ /\ Alive(p)
              /\ idx' = [idx EXCEPT ![t] = @ + 1]
              /\ UNCHANGED <<jobs, maxId, timed, proc, pc, after>>
           \/ /\ proc[p] = "reaped"          \* ECHILD: return at once
              /\ LeaveReap(t)
              /\ UNCHANGED <<jobs, maxId, timed, proc>>
  /\ UNCHANGED <<fg, alarm, alrm, cmd, raced>>

\* The rest of an iteration of the main loop: whatever entry the iterator is at
\* by now is erased.
EraseFinished ==
  /\ MainAt("erase")
  /\ \/ /\ idx[Main] > Len(jobs)
        /\ Goto(Main, "crashed")
        /\ UNCHANGED <<jobs, timed>>
     \/ /\ idx[Main] \in DOMAIN jobs
        /\ Erase(idx[Main])
        /\ Goto(Main, "reap")
  /\ UNCHANGED <<maxId, fg, kernelVars, idx, after, cmd, raced>>

\* The id of a new entry.  Faults: numbered by the list's length, or from 0.
JobIdByLength == Len(jobs) + 1
JobIdFromZero == maxId
NextJobId     == maxId + 1

\* getJobByPid finds an entry.  Fault: the lookup is left out.
NeverListed(p) == FALSE
IsListed(p)    == \E k \in DOMAIN jobs : jobs[k].pid = p

\* JobsList::addJob after its removeFinishedJobs, in its two outcomes.  The id
\* is taken before JobEntry's constructor calls time(), and maximalJobId is
\* incremented after it.  Fault: the entry of a listed process is left as it is.
StatusKept(p, st) == UNCHANGED <<jobs, maxId>>

SetStatus(p, st) ==
  /\ jobs' = [k \in DOMAIN jobs |->
                IF jobs[k].pid = p THEN [jobs[k] EXCEPT !.status = st] ELSE jobs[k]]
  /\ UNCHANGED maxId

Insert(id, p, st) ==
  /\ jobs'  = Append(jobs, [id |-> id, pid |-> p, status |-> st])
  /\ maxId' = maxId + 1

\* Called by a handler, which nothing interrupts.
AddEntry(p, st) == IF IsListed(p) THEN SetStatus(p, st) ELSE Insert(NextJobId, p, st)

\* getJobById, getLastJob and getLastStoppedJob, as the set of positions found.
PositionOf(j)    == FirstWithId(jobs, j)
LastStopped      == {k \in DOMAIN jobs :
  /\ jobs[k].status = "STOPPED"
  /\ \A l \in DOMAIN jobs : jobs[l].status = "STOPPED" =>
       jobs[l].id < jobs[k].id \/ (jobs[l].id = jobs[k].id /\ k <= l)}
LastPosition     == {k \in DOMAIN jobs : k = Len(jobs)}

-----------------------------------------------------------------------------
(* The read-execute loop and the commands.                                  *)

\* Command::execute: to the command's first system call.
Execute(op) ==
  \/ /\ \/ op = "chprompt" /\ Goto(Main, "prompt")
        \/ op \in {"ext", "ext&"} /\ Goto(Main, "fork")
        \/ op = "quit" /\ Goto(Main, "exited")
     /\ UNCHANGED <<idx, after>>
  \/ op \in {"jobs", "fg", "bg", "kill", "quit kill"} /\ CallReap(Main, op)

\* getline, executeCommand, CreateCommand.  CreateCommand answers nullptr for
\* chprompt, which TimeoutCommand::execute dereferences.
ReadCommand(op, arg, sig, timer) ==
  /\ MainAt("prompt")
  /\ op \notin {"fg", "bg", "kill"} => arg = 0
  /\ op \in {"ext", "ext&"} => \E p \in Pids : proc[p] = "free"   \* bound: |Pids| forks
  /\ op = "kill" => arg > 0
  /\ op # "kill" => sig = "SIGCONT"
  /\ cmd' = [op |-> op, arg |-> arg, sig |-> sig, timer |-> timer,
             pid |-> NoPid, stopped |-> FALSE]
  /\ IF timer = NoTimer THEN Execute(op)
     ELSE /\ Goto(Main, IF op = "chprompt" THEN "crashed" ELSE "arm")
          /\ UNCHANGED <<idx, after>>
  /\ UNCHANGED <<shellVars, kernelVars, raced>>

\* getMinTimeoutLeft: the difference is taken the wrong way round, so that the
\* age is added to the timer.
TimeoutLeft(e) == e.timer + e.age
MinTimeoutLeft == Min({TimeoutLeft(timed[k]) : k \in DOMAIN timed})

\* TimeoutCommand::execute: the alarm is set before the command runs; alarm(0)
\* cancels the one that was set.
Arm ==
  /\ MainAt("arm")
  /\ alarm' = IF timed = <<>> \/ MinTimeoutLeft > cmd.timer THEN cmd.timer ELSE alarm
  /\ Execute(cmd.op)
  /\ UNCHANGED <<shellVars, proc, alrm, cmd, raced>>

\* runExternalCommand: the parent after fork, and after the timeout is tracked.
AfterFork ==
  IF cmd.op = "ext&" THEN CallReap(Main, "addjob")
  ELSE Goto(Main, "setfg") /\ UNCHANGED <<idx, after>>

Fork ==
  /\ MainAt("fork")
  /\ \E p \in Pids :
       /\ proc[p] = "free"
       /\ proc' = [proc EXCEPT ![p] = "running"]
       /\ cmd'  = [cmd EXCEPT !.pid = p]
  /\ IF cmd.timer # NoTimer THEN CallReap(Main, "track") ELSE AfterFork
  /\ UNCHANGED <<shellVars, alarm, alrm, raced>>

\* addTimeoutJob: alarmCreatedAt is the second in which the command was read.
Track ==
  /\ MainAt("track")
  /\ timed' = Append(timed, [pid |-> cmd.pid, timer |-> cmd.timer, age |-> 0])
  /\ AfterFork
  /\ UNCHANGED <<jobs, maxId, fg, kernelVars, cmd, raced>>

\* addJob of the main loop: up to time(), with the new id in a local, and from
\* there.
AddBackgroundJob ==
  /\ MainAt("addjob")
  /\ \/ IsListed(cmd.pid) /\ SetStatus(cmd.pid, "RUNNING") /\ Return
     \/ /\ ~IsListed(cmd.pid)
        /\ cmd' = [cmd EXCEPT !.arg = NextJobId]
        /\ Goto(Main, "newjob")
        /\ UNCHANGED <<jobs, maxId>>
  /\ UNCHANGED <<timed, fg, kernelVars, idx, after, raced>>

InsertBackgroundJob ==
  /\ MainAt("newjob")
  /\ Insert(cmd.arg, cmd.pid, "RUNNING")
  /\ Return
  /\ UNCHANGED <<timed, fg, kernelVars, idx, after, raced>>

SetForeground ==
  /\ MainAt("setfg")
  /\ fg' = cmd.pid
  /\ Goto(Main, "wait")
  /\ UNCHANGED <<jobs, maxId, timed, kernelVars, idx, after, cmd, raced>>

\* The blocking waitpid(pid, WUNTRACED) of a foreground command.  On ECHILD
\* the function returns before it clears the foreground and its tables.
WaitReady == proc[cmd.pid] \in {"zombie", "stopped", "reaped"}

Wait ==
  /\ MainAt("wait")
  /\ WaitReady
  /\ LET p == cmd.pid IN
     \/ /\ proc[p] = "reaped"
        /\ Return
        /\ UNCHANGED proc
     \/ /\ proc[p] \in {"zombie", "stopped"}
        /\ proc' = [proc EXCEPT ![p] = IF @ = "zombie" THEN "reaped" ELSE "parked"]
        /\ cmd'  = [cmd EXCEPT !.stopped = proc[p] = "stopped"]
        /\ Goto(Main, "clear")
  /\ UNCHANGED <<shellVars, alarm, alrm, idx, after, raced>>

\* Faults: fg drops a job that was only stopped; the foreground pid is not
\* cleared.
RemovesStopped == cmd.op = "fg"
RemovesJob     == cmd.op = "fg" /\ ~cmd.stopped

ForegroundKept      == fg
ForegroundAfterWait == NoPid

\* setCmdForeground(0, ""), then removeTimedJobByPid (a timed external command)
\* or removeJobById (fg, unless the job was stopped).
ClearForeground ==
  /\ MainAt("clear")
  /\ fg' = ForegroundAfterWait
  /\ timed' = IF cmd.op = "ext" /\ cmd.timer # NoTimer THEN WithoutPid(timed, cmd.pid) ELSE timed
  /\ jobs'  = IF RemovesJob THEN WithoutId(jobs, cmd.arg) ELSE jobs
  /\ Return
  /\ UNCHANGED <<maxId, kernelVars, idx, after, raced>>

\* resumeJob: kill(SIGCONT) and RUNNING; on ESRCH the status is left alone.
\* Fault: the status changes and no signal is sent.
ResumeStatusOnly(k) == jobs' = [jobs EXCEPT ![k].status = "RUNNING"] /\ UNCHANGED proc

Resume(k) ==
  LET p == jobs[k].pid IN
  IF proc[p] = "reaped" THEN UNCHANGED <<jobs, proc>>
  ELSE /\ proc' = [proc EXCEPT ![p] = Signalled(@, "SIGCONT")]
       /\ jobs' = [jobs EXCEPT ![k].status = "RUNNING"]

\* ForegroundCommand::execute between removeFinishedJobs and setCmdForeground.
Foreground ==
  /\ MainAt("fg")
  /\ LET found == IF cmd.arg = 0 THEN LastPosition ELSE PositionOf(cmd.arg) IN
     \/ /\ found = {}
        /\ Return
        /\ UNCHANGED <<jobs, proc>>
     \/ \E k \in found :
        /\ IF jobs[k].status = "STOPPED" THEN Resume(k) ELSE UNCHANGED <<jobs, proc>>
        /\ cmd' = [cmd EXCEPT !.arg = jobs[k].id, !.pid = jobs[k].pid]
        /\ Goto(Main, "setfg")
  /\ UNCHANGED <<maxId, timed, fg, alarm, alrm, idx, after, raced>>

\* JobsCommand::execute after removeFinishedJobs: printJobsList.
Jobs ==
  /\ MainAt("jobs")
  /\ Return
  /\ UNCHANGED <<shellVars, kernelVars, idx, after, raced>>

\* BackgroundCommand::execute after removeFinishedJobs.
Background ==
  /\ MainAt("bg")
  /\ LET found == IF cmd.arg = 0 THEN LastStopped ELSE PositionOf(cmd.arg) IN
     \/ /\ \A k \in found : jobs[k].status = "RUNNING"
        /\ UNCHANGED <<jobs, proc>>
     \/ \E k \in found : jobs[k].status = "STOPPED" /\ Resume(k)
  /\ Return
  /\ UNCHANGED <<maxId, timed, fg, alarm, alrm, idx, after, raced>>

\* KillCommand::execute after removeFinishedJobs: of the signals only SIGSTOP
\* and SIGCONT change the status the table shows.  Fault: SIGSTOP does not.
StatusAfterNoStop(st, sig) == IF sig = "SIGCONT" THEN "RUNNING" ELSE st

StatusAfter(st, sig) ==
  CASE sig = "SIGSTOP" -> "STOPPED" [] sig = "SIGCONT" -> "RUNNING" [] OTHER -> st

Kill ==
  /\ MainAt("kill")
  /\ \/ /\ \A k \in PositionOf(cmd.arg) : proc[jobs[k].pid] = "reaped"
        /\ UNCHANGED <<jobs, proc>>
     \/ \E k \in PositionOf(cmd.arg) :
        /\ proc[jobs[k].pid] # "reaped"
        /\ proc' = [proc EXCEPT ![jobs[k].pid] = Signalled(@, cmd.sig)]
        /\ jobs' = [jobs EXCEPT ![k].status = StatusAfter(@, cmd.sig)]
  /\ Return
  /\ UNCHANGED <<maxId, timed, fg, alarm, alrm, idx, after, raced>>

\* QuitCommand::execute for "quit kill" and killAllJobs, which sends signal 15
\* and returns at the first entry it cannot signal.  A running child may die of
\* SIGTERM or handle it; for a stopped one it stays pending.
QuitKill ==
  /\ MainAt("quit kill")
  /\ LET ghosts == {k \in DOMAIN jobs : proc[jobs[k].pid] = "reaped"}
         sent   == {jobs[k].pid : k \in {l \in DOMAIN jobs : \A g \in ghosts : l < g}}
     IN /\ \E dies \in SUBSET {p \in sent : proc[p] = "running"} :
             proc' = [p \in Pids |-> IF p \in dies THEN "zombie" ELSE proc[p]]
        /\ jobs' = IF ghosts = {} THEN <<>> ELSE jobs
  /\ Goto(Main, "exited")
  /\ UNCHANGED <<maxId, timed, fg, alarm, alrm, idx, after, cmd, raced>>

-----------------------------------------------------------------------------
(* The signal handlers.                                                     *)

\* ctrl-Z and ctrl-C reach the shell alone: every child has its own group.
\* With no foreground pid the handlers only print.
Key(place) ==
  /\ Keys
  /\ ShellAlive
  /\ HandlerAt("idle")
  /\ fg # NoPid
  /\ Goto(Handler, place)
  /\ UNCHANGED <<shellVars, kernelVars, idx, after, cmd, raced>>

\* waitpid(cmdPid, WNOHANG) of both handlers: go on only when it answers 0.
\* Fault: go on when it fails, too.
PollNoError(place, next) ==
  /\ HandlerAt(place)
  /\ proc' = [proc EXCEPT ![fg] = IF @ = "zombie" THEN "reaped" ELSE @]
  /\ Goto(Handler, IF proc[fg] # "zombie" THEN next ELSE "idle")
  /\ UNCHANGED <<shellVars, alarm, alrm, idx, after, cmd, raced>>

Poll(place, next) ==
  /\ HandlerAt(place)
  /\ proc' = [proc EXCEPT ![fg] = IF @ = "zombie" THEN "reaped" ELSE @]
  /\ Goto(Handler, IF Alive(fg) THEN next ELSE "idle")
  /\ UNCHANGED <<shellVars, alarm, alrm, idx, after, cmd, raced>>

CtrlZStop ==
  /\ HandlerAt("zstop")
  /\ proc' = [proc EXCEPT ![fg] = Signalled(@, "SIGSTOP")]
  /\ CallReap(Handler, "addjob")
  /\ UNCHANGED <<shellVars, alarm, alrm, cmd, raced>>

CtrlZAddJob ==
  /\ HandlerAt("addjob")
  /\ AddEntry(fg, "STOPPED")
  /\ fg' = NoPid
  /\ Goto(Handler, "idle")
  /\ UNCHANGED <<timed, kernelVars, idx, after, cmd, raced>>

CtrlCKill ==
  /\ HandlerAt("ckill")
  /\ proc' = [proc EXCEPT ![fg] = Signalled(@, "SIGKILL")]
  /\ fg' = NoPid
  /\ Goto(Handler, "idle")
  /\ UNCHANGED <<jobs, maxId, timed, alarm, alrm, idx, after, cmd, raced>>

\* alarmHandler.
DeliverAlarm ==
  /\ alrm
  /\ ShellAlive
  /\ HandlerAt("idle")
  /\ alrm' = FALSE
  /\ raced' = raced \cup ({pc[Main]} \cap Fragile)
  /\ CallReap(Handler, "scan")
  /\ UNCHANGED <<shellVars, proc, alarm, cmd>>

\* The loop of alarmHandler, one waitpid(WNOHANG) per expired entry: an entry
\* whose child has been reaped makes the handler return (ECHILD), with no alarm
\* set again.
Scan ==
  /\ HandlerAt("scan")
  /\ LET i == idx[Handler] IN
     IF i > Len(timed)
     THEN Goto(Handler, "rearm") /\ idx' = [idx EXCEPT ![Handler] = 1] /\ UNCHANGED proc
     ELSE LET e == timed[i] IN
       IF e.age < e.timer
       THEN idx' = [idx EXCEPT ![Handler] = i + 1] /\ UNCHANGED <<proc, pc>>
       ELSE \/ /\ proc[e.pid] = "zombie"
               /\ proc' = [proc EXCEPT ![e.pid] = "reaped"]
               /\ idx'  = [idx EXCEPT ![Handler] = i + 1]
               /\ UNCHANGED pc
            \/ /\ Alive(e.pid)
               /\ Goto(Handler, "timeoutkill")
               /\ UNCHANGED <<proc, idx>>
            \/ /\ proc[e.pid] = "reaped"
               /\ Goto(Handler, "idle")
               /\ idx' = [idx EXCEPT ![Handler] = 1]
               /\ UNCHANGED proc
  /\ UNCHANGED <<shellVars, alarm, alrm, after, cmd, raced>>

\* The first expired child found alive is killed and the loop is left.
\* Fault: the wrong signal.
TimeoutSignalStop == "SIGSTOP"
TimeoutSignal     == "SIGKILL"

TimeoutKill ==
  /\ HandlerAt("timeoutkill")
  /\ LET p == timed[idx[Handler]].pid IN
     /\ proc'  = [proc EXCEPT ![p] = Signalled(@, TimeoutSignal)]
     /\ jobs'  = WithoutPid(jobs, p)
     /\ timed' = WithoutPid(timed, p)
  /\ Goto(Handler, "rearm")
  /\ idx' = [idx EXCEPT ![Handler] = 1]
  /\ UNCHANGED <<maxId, fg, alarm, alrm, after, cmd, raced>>

\* setClosestAlarm: the entry with the shortest timer, the first of them in the
\* list, whatever the time it has left.
IsClosest(k) == \A l \in DOMAIN timed :
  timed[k].timer < timed[l].timer \/ (timed[k].timer = timed[l].timer /\ k <= l)

\* Fault: a time already passed is not rounded up to one second.
SecondsLeftUnclamped(e) == IF e.age < e.timer THEN e.timer - e.age ELSE 0
SecondsLeft(e)          == IF e.age < e.timer THEN e.timer - e.age ELSE 1

Rearm ==
  /\ HandlerAt("rearm")
  /\ IF timed = <<>> THEN UNCHANGED alarm
     ELSE \E k \in DOMAIN timed : IsClosest(k) /\ alarm' = SecondsLeft(timed[k])
  /\ Goto(Handler, "idle")
  /\ UNCHANGED <<shellVars, proc, alrm, idx, after, cmd, raced>>

-----------------------------------------------------------------------------
(* The children and the clock.                                              *)
Exit(p) ==
  /\ Exits
  /\ ShellAlive
  /\ proc[p] = "running"
  /\ proc' = [proc EXCEPT ![p] = "zombie"]
  /\ UNCHANGED <<shellVars, alarm, alrm, ctlVars, raced>>

StrayStop(p) ==
  /\ StrayStops
  /\ ShellAlive
  /\ proc[p] = "running"
  /\ proc' = [proc EXCEPT ![p] = "stopped"]
  /\ UNCHANGED <<shellVars, alarm, alrm, ctlVars, raced>>

\* A second passes only while the shell is blocked in getline or in waitpid.
Tick ==
  /\ HandlerAt("idle")
  /\ pc[Main] = "prompt" \/ (pc[Main] = "wait" /\ ~WaitReady)
  /\ ~alrm
  /\ alarm > 0 \/ \E k \in DOMAIN timed : timed[k].age < AgeCap
  /\ alarm' = IF alarm > 0 THEN alarm - 1 ELSE 0
  /\ alrm'  = (alarm = 1)
  /\ timed' = [k \in DOMAIN timed |-> [timed[k] EXCEPT !.age = Older(@)]]
  /\ UNCHANGED <<jobs, maxId, fg, proc, ctlVars, raced>>

-----------------------------------------------------------------------------
Init ==
  /\ jobs = <<>> /\ maxId = 0 /\ timed = <<>> /\ fg = NoPid
  /\ proc = [p \in Pids |-> "free"]
  /\ alarm = 0 /\ alrm = FALSE
  /\ pc = [t \in Threads |-> IF t = Main THEN "prompt" ELSE "idle"]
  /\ idx = [t \in Threads |-> 1]
  /\ after = [t \in Threads |-> "idle"]
  /\ cmd = NoCommand
  /\ raced = {}

ReadAny == \E op \in Commands, arg \in 0..MaxJobArg, sig \in Signals \cup {"SIGCONT"},
              timer \in Timers \cup {NoTimer} : ReadCommand(op, arg, sig, timer)

MainStep ==
  \/ Arm \/ Fork \/ Track \/ AddBackgroundJob \/ InsertBackgroundJob
  \/ SetForeground \/ Wait \/ ClearForeground
  \/ Jobs \/ Foreground \/ Background \/ Kill \/ QuitKill \/ Reap(Main) \/ EraseFinished

HandlerStep ==
  \/ Poll("zpoll", "zstop") \/ CtrlZStop \/ CtrlZAddJob
  \/ Poll("cpoll", "ckill") \/ CtrlCKill
  \/ Scan \/ TimeoutKill \/ Rearm \/ Reap(Handler)

Environment ==
  \/ Key("zpoll") \/ Key("cpoll") \/ DeliverAlarm \/ Tick
  \/ \E p \in Pids : Exit(p) \/ StrayStop(p)

Next == ReadAny \/ MainStep \/ HandlerStep \/ Environment

Spec == Init /\ [][Next]_vars

\* The thread runs whenever it is not blocked, the kernel delivers a pending
\* signal, and time passes.  Nothing makes a child exit or the user type.
Fairness == WF_vars(MainStep) /\ WF_vars(HandlerStep) /\ WF_vars(DeliverAlarm) /\ SF_vars(Tick)

FairSpec == Spec /\ Fairness
=============================================================================
