---------------------------- MODULE SmashProofs ----------------------------
(***************************************************************************)
(* Proofs about the job control of smash, for any number of processes,     *)
(* job ids, timeouts and keys.  The table is changed by the main thread    *)
(* and by the handlers that interrupt it.  In this order: the types; what  *)
(* a step does to the table; whose process the foreground pid is and where *)
(* an alarm finds the main loop; the order and the names of the jobs; the  *)
(* loop that does not run past the end of the list; the children that stay *)
(* listed; the status that is shown.                                       *)
(***************************************************************************)
EXTENDS SmashProperties, SequenceTheorems, WellFoundedInduction, TLAPS

-----------------------------------------------------------------------------
(* Sequences.                                                                *)

LEMMA RemoveAtProperties ==
  ASSUME NEW S, NEW s \in Seq(S), NEW i \in DOMAIN s
  PROVE  /\ RemoveAt(s, i) \in Seq(S)
         /\ Len(RemoveAt(s, i)) = Len(s) - 1
         /\ \A k \in 1..(Len(s) - 1) : RemoveAt(s, i)[k] = s[IF k < i THEN k ELSE k + 1]
<1> DEFINE front == SubSeq(s, 1, i - 1)
           back  == SubSeq(s, i + 1, Len(s))
<1>1. Len(s) \in Nat /\ i \in 1..Len(s) /\ \A k \in 1..Len(s) : s[k] \in S
  BY LenProperties, ElementOfSeq
<1>2. /\ front \in Seq(S) /\ Len(front) = i - 1
      /\ \A k \in 1..(i - 1) : front[k] = s[k]
  BY <1>1, SubSeqProperties
<1>3. /\ back \in Seq(S) /\ Len(back) = Len(s) - i
      /\ \A k \in 1..(Len(s) - i) : back[k] = s[i + k]
  BY <1>1, SubSeqProperties
<1>4. RemoveAt(s, i) = front \o back
  BY DEF RemoveAt
<1> HIDE DEF front, back
<1>5. /\ front \o back \in Seq(S)
      /\ Len(front \o back) = Len(s) - 1
      /\ \A k \in 1..(Len(s) - 1) :
           (front \o back)[k] = IF k <= i - 1 THEN front[k] ELSE back[k - (i - 1)]
  BY <1>1, <1>2, <1>3, ConcatProperties
<1>6. ASSUME NEW k \in 1..(Len(s) - 1)
      PROVE  (front \o back)[k] = s[IF k < i THEN k ELSE k + 1]
  <2>1. CASE k < i
    BY <2>1, <1>1, <1>2, <1>5
  <2>2. CASE ~(k < i)
    <3>1. (front \o back)[k] = back[k - (i - 1)] /\ k - (i - 1) \in 1..(Len(s) - i)
      BY <2>2, <1>1, <1>5
    <3>2. i + (k - (i - 1)) = k + 1
      BY <1>1
    <3> QED
      BY <3>1, <3>2, <2>2, <1>3
  <2> QED
    BY <2>1, <2>2
<1> QED
  BY <1>4, <1>5, <1>6

\* A non-empty set of numbers has a least one.
LEMMA LeastOf ==
  ASSUME NEW S, S \subseteq Nat, S # {}
  PROVE  \E x \in S : \A y \in S : x <= y
<1> DEFINE R == OpToRel(<, Nat)
<1>1. \E x \in S : \A y \in S : ~(<<y, x>> \in R)
  BY WFMin, NatLessThanWellFounded
<1>2. PICK x \in S : \A y \in S : ~(y < x)
  BY <1>1 DEF OpToRel
<1>3. \A y \in S : x <= y
  BY <1>2
<1> QED
  BY <1>3

\* A table of jobs and its maximum, without any order.
TableType(s, m) == s \in Seq(JobRec) /\ m \in Nat

LEMMA EntriesTyped ==
  ASSUME NEW s \in Seq(JobRec)
  PROVE  /\ Len(s) \in Nat /\ DOMAIN s = 1..Len(s)
         /\ \A k \in DOMAIN s : s[k] \in JobRec /\ s[k].id \in Nat /\ s[k].pid \in Pids
<1>1. Len(s) \in Nat /\ DOMAIN s = 1..Len(s)
  BY LenProperties
<1>2. \A k \in 1..Len(s) : s[k] \in JobRec
  BY ElementOfSeq
<1> QED
  BY <1>1, <1>2 DEF JobRec

\* The first position with a given pid or id: there is one if there is any.
LEMMA FirstFound ==
  ASSUME NEW S, NEW s \in Seq(S), NEW x
  PROVE  /\ (\E k \in DOMAIN s : s[k].pid = x) => FirstWithPid(s, x) # {}
         /\ (\E k \in DOMAIN s : s[k].id = x) => FirstWithId(s, x) # {}
<1>1. DOMAIN s \subseteq Nat
  BY LenProperties
<1>2. ASSUME \E k \in DOMAIN s : s[k].pid = x PROVE FirstWithPid(s, x) # {}
  <2> DEFINE P == {k \in DOMAIN s : s[k].pid = x}
  <2>1. P \subseteq Nat /\ P # {}
    BY <1>1, <1>2
  <2>2. PICK k \in P : \A l \in P : k <= l
    BY <2>1, LeastOf
  <2>3. k \in FirstWithPid(s, x)
    BY <2>2 DEF FirstWithPid
  <2> QED
    BY <2>3
<1>3. ASSUME \E k \in DOMAIN s : s[k].id = x PROVE FirstWithId(s, x) # {}
  <2> DEFINE P == {k \in DOMAIN s : s[k].id = x}
  <2>1. P \subseteq Nat /\ P # {}
    BY <1>1, <1>3
  <2>2. PICK k \in P : \A l \in P : k <= l
    BY <2>1, LeastOf
  <2>3. k \in FirstWithId(s, x)
    BY <2>2 DEF FirstWithId
  <2> QED
    BY <2>3
<1> QED
  BY <1>2, <1>3

LEMMA WithoutRemoves ==
  ASSUME NEW S, NEW s \in Seq(S), NEW x
  PROVE  /\ \/ (\A k \in DOMAIN s : s[k].pid # x) /\ WithoutPid(s, x) = s
            \/ \E k \in DOMAIN s : s[k].pid = x /\ WithoutPid(s, x) = RemoveAt(s, k)
         /\ \/ (\A k \in DOMAIN s : s[k].id # x) /\ WithoutId(s, x) = s
            \/ \E k \in DOMAIN s : s[k].id = x /\ WithoutId(s, x) = RemoveAt(s, k)
<1>1. \/ (\A k \in DOMAIN s : s[k].pid # x) /\ WithoutPid(s, x) = s
      \/ \E k \in DOMAIN s : s[k].pid = x /\ WithoutPid(s, x) = RemoveAt(s, k)
  <2>1. CASE FirstWithPid(s, x) = {}
    BY <2>1, FirstFound DEF WithoutPid, WithoutFirst
  <2>2. CASE FirstWithPid(s, x) # {}
    <3> DEFINE k == CHOOSE n \in FirstWithPid(s, x) : TRUE
    <3>1. k \in FirstWithPid(s, x)
      BY <2>2
    <3>2. WithoutPid(s, x) = RemoveAt(s, k)
      BY <2>2 DEF WithoutPid, WithoutFirst
    <3> HIDE DEF k
    <3> QED
      BY <3>1, <3>2 DEF FirstWithPid
  <2> QED
    BY <2>1, <2>2
<1>2. \/ (\A k \in DOMAIN s : s[k].id # x) /\ WithoutId(s, x) = s
      \/ \E k \in DOMAIN s : s[k].id = x /\ WithoutId(s, x) = RemoveAt(s, k)
  <2>1. CASE FirstWithId(s, x) = {}
    BY <2>1, FirstFound DEF WithoutId, WithoutFirst
  <2>2. CASE FirstWithId(s, x) # {}
    <3> DEFINE k == CHOOSE n \in FirstWithId(s, x) : TRUE
    <3>1. k \in FirstWithId(s, x)
      BY <2>2
    <3>2. WithoutId(s, x) = RemoveAt(s, k)
      BY <2>2 DEF WithoutId, WithoutFirst
    <3> HIDE DEF k
    <3> QED
      BY <3>1, <3>2 DEF FirstWithId
  <2> QED
    BY <2>1, <2>2
<1> QED
  BY <1>1, <1>2

LEMMA WithoutTimed ==
  ASSUME NEW s \in Seq(TimedRec), NEW x
  PROVE  WithoutPid(s, x) \in Seq(TimedRec)
BY WithoutRemoves, RemoveAtProperties

\* initializeMaximalJobId is a number, and bounds every id of the table.
LEMMA LargestIdBounds ==
  ASSUME NEW s \in Seq(JobRec)
  PROVE  LargestId(s) \in Nat /\ \A k \in DOMAIN s : s[k].id <= LargestId(s)
<1> DEFINE ids(n) == {0} \cup {s[k].id : k \in 1..n}
           HasMax(n) == \E x \in ids(n) : \A y \in ids(n) : x >= y
<1>1. Len(s) \in Nat /\ DOMAIN s = 1..Len(s) /\ \A k \in 1..Len(s) : s[k].id \in Nat
  BY EntriesTyped
<1>2. HasMax(0)
  <2>1. ids(0) = {0}
    BY SMT
  <2> QED
    BY <2>1
<1>3. ASSUME NEW n \in Nat, n + 1 <= Len(s), HasMax(n) PROVE HasMax(n + 1)
  <2>1. PICK x \in ids(n) : \A y \in ids(n) : x >= y
    BY <1>3
  <2>2. n + 1 \in 1..Len(s) /\ 1..(n + 1) = (1..n) \cup {n + 1} /\ 1..n \subseteq 1..Len(s)
    BY <1>1, <1>3
  <2>3. ids(n + 1) = ids(n) \cup {s[n + 1].id}
    BY <2>2
  <2>4. s[n + 1].id \in Nat /\ ids(n) \subseteq Nat
    BY <1>1, <2>2
  <2>5. PICK y \in ids(n + 1) : y >= x /\ y >= s[n + 1].id
    <3>1. CASE x >= s[n + 1].id
      BY <2>3, <2>4, <3>1
    <3>2. CASE ~(x >= s[n + 1].id)
      <4>1. s[n + 1].id >= x /\ s[n + 1].id >= s[n + 1].id
        BY <2>4, <3>2
      <4> QED
        BY <2>3, <4>1
    <3> QED
      BY <3>1, <3>2
  <2>6. ASSUME NEW z \in ids(n + 1) PROVE y >= z
    <3>1. y \in Nat /\ x \in Nat /\ z \in Nat
      BY <2>3, <2>4, <2>5
    <3>2. x >= z \/ z = s[n + 1].id
      BY <2>1, <2>3
    <3> QED
      BY <2>5, <3>1, <3>2
  <2> QED
    BY <2>5, <2>6
<1>4. HasMax(Len(s))
  <2> HIDE DEF HasMax
  <2> SUFFICES ASSUME ~HasMax(Len(s)) PROVE FALSE
    OBVIOUS
  <2> DEFINE Lacking == {n \in 0..Len(s) : ~HasMax(n)}
  <2>1. Lacking \subseteq Nat /\ Lacking # {}
    BY <1>1
  <2>2. PICK n \in Lacking : \A m \in Lacking : n <= m
    BY <2>1, LeastOf
  <2>3. n # 0 /\ n \in 0..Len(s) /\ ~HasMax(n)
    BY <1>2, <2>2
  <2>4. n - 1 \in Nat /\ n - 1 \in 0..Len(s) /\ ~(n <= n - 1) /\ n - 1 + 1 = n /\ n <= Len(s)
    BY <1>1, <2>3
  <2>5. HasMax(n - 1)
    BY <2>2, <2>4
  <2>6. HasMax(n - 1 + 1)
    BY <1>3, <2>4, <2>5
  <2> QED
    BY <2>3, <2>4, <2>6
<1>5. LargestId(s) \in ids(Len(s)) /\ \A y \in ids(Len(s)) : LargestId(s) >= y
  BY <1>1, <1>4 DEF LargestId, Max
<1> QED
  BY <1>1, <1>5
-----------------------------------------------------------------------------
(* The table's type is kept by each of its operations.                       *)
LEMMA RemoveAtTable ==
  ASSUME NEW s, NEW m, TableType(s, m), NEW i \in DOMAIN s
  PROVE  TableType(RemoveAt(s, i), m)
BY RemoveAtProperties DEF TableType

LEMMA WithoutTable ==
  ASSUME NEW s, NEW m, TableType(s, m), NEW x
  PROVE  TableType(WithoutPid(s, x), m) /\ TableType(WithoutId(s, x), m)
<1>1. s \in Seq(JobRec)
  BY DEF TableType
<1>2. \A k \in DOMAIN s : TableType(RemoveAt(s, k), m)
  BY RemoveAtTable
<1>3. /\ WithoutPid(s, x) = s \/ \E k \in DOMAIN s : WithoutPid(s, x) = RemoveAt(s, k)
      /\ WithoutId(s, x) = s \/ \E k \in DOMAIN s : WithoutId(s, x) = RemoveAt(s, k)
  BY <1>1, WithoutRemoves
<1> QED
  BY <1>2, <1>3

LEMMA StatusTable ==
  ASSUME NEW s, NEW m, TableType(s, m), NEW k \in DOMAIN s, NEW st \in {"STOPPED", "RUNNING"}
  PROVE  TableType([s EXCEPT ![k].status = st], m)
<1>1. s \in Seq(JobRec) /\ k \in 1..Len(s) /\ s[k] \in JobRec
  BY EntriesTyped DEF TableType
<1>2. [s[k] EXCEPT !.status = st] \in JobRec
  BY <1>1 DEF JobRec
<1>3. [s EXCEPT ![k] = [s[k] EXCEPT !.status = st]] \in Seq(JobRec)
  BY <1>1, <1>2, ExceptSeq
<1> QED
  BY <1>3 DEF TableType

LEMMA SetStatusTable ==
  ASSUME TableType(jobs, maxId), NEW p, NEW st \in {"STOPPED", "RUNNING"}, SetStatus(p, st)
  PROVE  TableType(jobs', maxId')
<1>1. Len(jobs) \in Nat /\ DOMAIN jobs = 1..Len(jobs) /\ \A k \in DOMAIN jobs : jobs[k] \in JobRec
  BY EntriesTyped DEF TableType
<1>2. \A e \in JobRec : [e EXCEPT !.status = st] \in JobRec
  BY DEF JobRec
<1>3. jobs' \in Seq(JobRec)
  BY <1>1, <1>2, IsASeq DEF SetStatus
<1> QED
  BY <1>3 DEF SetStatus, TableType

LEMMA InsertTable ==
  ASSUME TableType(jobs, maxId), NEW i \in Nat \ {0}, NEW p \in Pids,
         NEW st \in {"STOPPED", "RUNNING"}, Insert(i, p, st)
  PROVE  TableType(jobs', maxId')
<1>1. [id |-> i, pid |-> p, status |-> st] \in JobRec
  BY DEF JobRec
<1> QED
  BY <1>1, AppendProperties DEF Insert, TableType

LEMMA AddEntryTable ==
  ASSUME TableType(jobs, maxId), NEW p \in Pids, NEW st \in {"STOPPED", "RUNNING"}, AddEntry(p, st)
  PROVE  TableType(jobs', maxId')
<1>1. maxId + 1 \in Nat \ {0}
  BY DEF TableType
<1> QED
  BY <1>1, SetStatusTable, InsertTable DEF AddEntry, NextJobId

-----------------------------------------------------------------------------
(* The types: every variable has its type, and a thread on its way to a      *)
(* place where a local is used has set it before.  The type alone is not     *)
(* inductive: cmd.pid, cmd.timer, cmd.arg and fg may be empty in general,    *)
(* and what is stored in the tables may not.                                 *)

\* Where a thread is bound for: inside removeFinishedJobs, its return place.
Dest(t) == IF pc[t] \in {"reap", "erase"} THEN after[t] ELSE pc[t]

ShellTypes == timed \in Seq(TimedRec) /\ fg \in Pids \cup {NoPid}
KernelTypes == proc \in [Pids -> ProcStates] /\ alarm \in Nat /\ alrm \in BOOLEAN
ControlTypes ==
  /\ pc \in [Threads -> Places]
  /\ idx \in [Threads -> Nat]
  /\ after \in [Threads -> Places]
  /\ cmd \in CmdRec

MainLocals ==
  /\ Dest(Main) \in {"track", "addjob", "newjob", "setfg", "wait", "clear"} => cmd.pid \in Pids
  /\ Dest(Main) = "newjob" => cmd.arg # 0
  /\ Dest(Main) \in {"arm", "track"} => cmd.timer \in Timers
HandlerLocals ==
  Dest(Handler) \in {"zpoll", "zstop", "addjob", "cpoll", "ckill"} => fg \in Pids

TypeInv ==
  /\ TableType(jobs, maxId)
  /\ ShellTypes
  /\ KernelTypes
  /\ ControlTypes
  /\ MainLocals
  /\ HandlerLocals

LEMMA InitTypes == Init => TypeInv
<1> SUFFICES ASSUME Init PROVE TypeInv
  OBVIOUS
<1>1. NoCommand \in CmdRec
  BY DEF NoCommand, CmdRec, AllCommands, AllSignals
<1>2. TableType(jobs, maxId) /\ ShellTypes
  BY EmptySeq DEF Init, TableType, ShellTypes
<1>3. KernelTypes /\ ControlTypes
  BY <1>1 DEF Init, KernelTypes, ControlTypes, ProcStates, Places, MainPlaces, HandlerPlaces,
              Threads, Main, Handler
<1>4. MainLocals /\ HandlerLocals
  BY DEF Init, MainLocals, HandlerLocals, Dest, Threads, Main, Handler
<1> QED
  BY <1>2, <1>3, <1>4 DEF TypeInv

\* What a step of a thread does to the control state: it moves to place, now or
\* after removeFinishedJobs, and the other thread stays where it is.
ThreadControl ==
  pc \in [Threads -> Places] /\ idx \in [Threads -> Nat] /\ after \in [Threads -> Places]
Moves(t, place) ==
  /\ ThreadControl'
  /\ Dest(t)' = place
  /\ \A u \in Threads : u # t => Dest(u)' = Dest(u)

LEMMA ThreadNames == Threads = {Main, Handler} /\ Main # Handler
BY DEF Threads, Main, Handler

LEMMA GotoMoves ==
  ASSUME ThreadControl, NEW t \in Threads, NEW place \in Places, place \notin {"reap", "erase"},
         Goto(t, place), UNCHANGED after, idx' \in [Threads -> Nat]
  PROVE  Moves(t, place)
BY DEF Goto, Moves, ThreadControl, Dest

LEMMA CallReapMoves ==
  ASSUME ThreadControl, NEW t \in Threads, NEW place \in Places, place \notin {"reap", "erase"},
         CallReap(t, place)
  PROVE  Moves(t, place)
<1>1. "reap" \in Places
  BY DEF Places, MainPlaces
<1> QED
  BY <1>1 DEF CallReap, Moves, ThreadControl, Dest

\* Where Command::execute takes the shell.
Started == {"prompt", "fork", "exited", "jobs", "fg", "bg", "kill", "quit kill"}

LEMMA ExecuteMoves ==
  ASSUME ThreadControl, NEW op \in AllCommands, Execute(op)
  PROVE  \E place \in Started : Moves(Main, place)
<1>1. Main \in Threads /\ Started \subseteq Places /\ {"reap", "erase"} \cap Started = {}
  BY DEF Threads, Started, Places, MainPlaces
<1>2. CASE op \in {"chprompt", "ext", "ext&", "quit"}
  <2>1. \E place \in {"prompt", "fork", "exited"} : Goto(Main, place) /\ UNCHANGED <<idx, after>>
    BY <1>2 DEF Execute
  <2> QED
    BY <1>1, <2>1, GotoMoves DEF Started, ThreadControl
<1>3. CASE op \notin {"chprompt", "ext", "ext&", "quit"}
  <2>1. CallReap(Main, op) /\ op \in Started
    BY <1>3 DEF Execute, AllCommands, Started
  <2> QED
    BY <1>1, <2>1, CallReapMoves
<1> QED
  BY <1>2, <1>3

LEMMA NoCommandType == NoCommand \in CmdRec
BY DEF NoCommand, CmdRec, AllCommands, AllSignals

LEMMA ReturnMoves ==
  ASSUME ThreadControl, Return, UNCHANGED <<idx, after>>
  PROVE  Moves(Main, "prompt") /\ cmd' \in CmdRec
<1>1. Main \in Threads /\ "prompt" \in Places
  BY DEF Threads, Places, MainPlaces
<1> QED
  BY <1>1, GotoMoves, NoCommandType DEF Return, ThreadControl

\* The table and the locals are safe across a step of the main thread that
\* leaves fg alone, and across one of the handler that leaves cmd alone.
LEMMA MainMoveLocals ==
  ASSUME TypeInv, NEW place \in Places, Moves(Main, place), cmd' \in CmdRec, fg' = fg,
         place \in {"track", "addjob", "newjob", "setfg", "wait", "clear"} => cmd'.pid \in Pids,
         place = "newjob" => cmd'.arg # 0,
         place \in {"arm", "track"} => cmd'.timer \in Timers
  PROVE  ControlTypes' /\ MainLocals' /\ HandlerLocals'
<1>1. Dest(Main)' = place /\ Dest(Handler)' = Dest(Handler)
  BY ThreadNames DEF Moves
<1> QED
  BY <1>1 DEF Moves, TypeInv, ControlTypes, ThreadControl, MainLocals, HandlerLocals

LEMMA HandlerMoveLocals ==
  ASSUME TypeInv, NEW place \in Places, Moves(Handler, place), cmd' = cmd,
         place \in {"zpoll", "zstop", "addjob", "cpoll", "ckill"} => fg' \in Pids
  PROVE  ControlTypes' /\ MainLocals' /\ HandlerLocals'
<1>1. Dest(Handler)' = place /\ Dest(Main)' = Dest(Main)
  BY ThreadNames DEF Moves
<1> QED
  BY <1>1 DEF Moves, TypeInv, ControlTypes, ThreadControl, MainLocals, HandlerLocals

\* One lemma per action: each keeps the invariant.

LEMMA SignalledType ==
  ASSUME NEW s \in ProcStates, NEW sig
  PROVE  Signalled(s, sig) \in ProcStates
BY DEF Signalled, ProcStates

LEMMA JobsStep == ASSUME TypeInv, Jobs PROVE TypeInv'
<1>1. TableType(jobs, maxId)'
  BY DEF Jobs, shellVars, TypeInv, TableType
<1>2. ShellTypes'
  BY DEF Jobs, shellVars, TypeInv, ShellTypes
<1>3. KernelTypes'
  BY DEF Jobs, kernelVars, TypeInv, KernelTypes
<1>4. ControlTypes' /\ MainLocals' /\ HandlerLocals'
  <2>1. Moves(Main, "prompt") /\ cmd' \in CmdRec
    BY ReturnMoves DEF Jobs, TypeInv, ControlTypes, ThreadControl
  <2>2. fg' = fg /\ "prompt" \in Places
    BY DEF Jobs, shellVars, Places, MainPlaces
  <2> QED
    BY <2>1, <2>2, MainMoveLocals
<1> QED
  BY <1>1, <1>2, <1>3, <1>4 DEF TypeInv

LEMMA KillStep == ASSUME TypeInv, Kill PROVE TypeInv'
<1>1. TableType(jobs, maxId)'
  <2>1. CASE UNCHANGED jobs
    BY <2>1 DEF Kill, TypeInv
  <2>2. CASE \E k \in PositionOf(cmd.arg) : jobs' = [jobs EXCEPT ![k].status = StatusAfter(@, cmd.sig)]
    <3>1. PICK k \in DOMAIN jobs : jobs' = [jobs EXCEPT ![k].status = StatusAfter(jobs[k].status, cmd.sig)]
      BY <2>2 DEF PositionOf, FirstWithId
    <3>2. StatusAfter(jobs[k].status, cmd.sig) \in {"STOPPED", "RUNNING"}
      <4>1. jobs[k] \in JobRec
        BY ElementOfSeq, LenProperties DEF TypeInv, TableType
      <4> QED
        BY <4>1 DEF JobRec, StatusAfter
    <3> QED
      BY <3>1, <3>2, StatusTable DEF Kill, TypeInv
  <2> QED
    BY <2>1, <2>2 DEF Kill
<1>2. ShellTypes'
  BY DEF Kill, shellVars, TypeInv, ShellTypes
<1>3. KernelTypes'
  BY SignalledType DEF Kill, TypeInv, KernelTypes
<1>4. ControlTypes' /\ MainLocals' /\ HandlerLocals'
  <2>1. Moves(Main, "prompt") /\ cmd' \in CmdRec
    BY ReturnMoves DEF Kill, TypeInv, ControlTypes, ThreadControl
  <2>2. fg' = fg /\ "prompt" \in Places
    BY DEF Kill, shellVars, Places, MainPlaces
  <2> QED
    BY <2>1, <2>2, MainMoveLocals
<1> QED
  BY <1>1, <1>2, <1>3, <1>4 DEF TypeInv

LEMMA ResumeTable ==
  ASSUME TableType(jobs, maxId), KernelTypes, NEW k \in DOMAIN jobs, Resume(k), UNCHANGED maxId
  PROVE  TableType(jobs', maxId') /\ proc' \in [Pids -> ProcStates]
<1>1. proc' \in [Pids -> ProcStates]
  BY SignalledType DEF Resume, KernelTypes
<1>2. jobs' = jobs \/ jobs' = [jobs EXCEPT ![k].status = "RUNNING"]
  BY DEF Resume
<1>3. TableType(jobs', maxId')
  <2>1. TableType([jobs EXCEPT ![k].status = "RUNNING"], maxId)
    BY StatusTable
  <2> QED
    BY <1>2, <2>1
<1> QED
  BY <1>1, <1>3

LEMMA BackgroundStep == ASSUME TypeInv, Background PROVE TypeInv'
<1>0. TableType(jobs', maxId') /\ proc' \in [Pids -> ProcStates]
  <2>1. CASE UNCHANGED <<jobs, proc>>
    BY <2>1 DEF Background, TypeInv, KernelTypes
  <2>2. CASE \E k \in DOMAIN jobs : Resume(k)
    BY <2>2, ResumeTable DEF Background, TypeInv
  <2> QED
    BY <2>1, <2>2 DEF Background, LastStopped, LastPosition, PositionOf, FirstWithId
<1>1. TableType(jobs, maxId)'
  BY <1>0
<1>2. ShellTypes'
  BY DEF Background, shellVars, TypeInv, ShellTypes
<1>3. KernelTypes'
  BY <1>0 DEF Background, TypeInv, KernelTypes
<1>4. ControlTypes' /\ MainLocals' /\ HandlerLocals'
  <2>1. Moves(Main, "prompt") /\ cmd' \in CmdRec
    BY ReturnMoves DEF Background, TypeInv, ControlTypes, ThreadControl
  <2>2. fg' = fg /\ "prompt" \in Places
    BY DEF Background, shellVars, Places, MainPlaces
  <2> QED
    BY <2>1, <2>2, MainMoveLocals
<1> QED
  BY <1>1, <1>2, <1>3, <1>4 DEF TypeInv

LEMMA ForegroundStep == ASSUME TypeInv, Foreground PROVE TypeInv'
<1>0. TableType(jobs', maxId') /\ proc' \in [Pids -> ProcStates]
  <2>1. CASE UNCHANGED <<jobs, proc>>
    BY <2>1 DEF Foreground, TypeInv, KernelTypes
  <2>2. CASE \E k \in DOMAIN jobs : Resume(k)
    BY <2>2, ResumeTable DEF Foreground, TypeInv
  <2> QED
    BY <2>1, <2>2 DEF Foreground, LastStopped, LastPosition, PositionOf, FirstWithId
<1>1. TableType(jobs, maxId)'
  BY <1>0
<1>2. ShellTypes'
  BY DEF Foreground, shellVars, TypeInv, ShellTypes
<1>3. KernelTypes'
  BY <1>0 DEF Foreground, TypeInv, KernelTypes
<1>4. ControlTypes' /\ MainLocals' /\ HandlerLocals'
  <2>1. CASE Return
    <3>1. Moves(Main, "prompt") /\ cmd' \in CmdRec
      BY <2>1, ReturnMoves DEF Foreground, TypeInv, ControlTypes, ThreadControl
    <3>2. fg' = fg /\ "prompt" \in Places
      BY DEF Foreground, Places, MainPlaces
    <3> QED
      BY <3>1, <3>2, MainMoveLocals
  <2>2. CASE \E k \in DOMAIN jobs : /\ cmd' = [cmd EXCEPT !.arg = jobs[k].id, !.pid = jobs[k].pid]
                                  /\ Goto(Main, "setfg")
    <3>1. PICK k \in DOMAIN jobs : /\ cmd' = [cmd EXCEPT !.arg = jobs[k].id, !.pid = jobs[k].pid]
                                  /\ Goto(Main, "setfg")
      BY <2>2
    <3>2. jobs[k] \in JobRec
      BY ElementOfSeq, LenProperties DEF TypeInv, TableType
    <3>3. cmd' \in CmdRec /\ cmd'.pid \in Pids
      BY <3>1, <3>2 DEF TypeInv, ControlTypes, CmdRec, JobRec
    <3>4. Main \in Threads /\ "setfg" \in Places
      BY DEF Threads, Places, MainPlaces
    <3>5. Moves(Main, "setfg")
      BY <3>1, <3>4, GotoMoves DEF Foreground, TypeInv, ControlTypes, ThreadControl
    <3> QED
      BY <3>3, <3>4, <3>5, MainMoveLocals DEF Foreground
  <2> QED
    BY <2>1, <2>2 DEF Foreground, LastPosition, PositionOf, FirstWithId
<1> QED
  BY <1>1, <1>2, <1>3, <1>4 DEF TypeInv

LEMMA AfterForkMoves ==
  ASSUME ThreadControl, AfterFork
  PROVE  Moves(Main, "addjob") \/ Moves(Main, "setfg")
<1>1. Main \in Threads /\ {"addjob", "setfg"} \subseteq Places
  BY DEF Threads, Places, MainPlaces
<1> QED
  BY <1>1, CallReapMoves, GotoMoves DEF AfterFork, ThreadControl

LEMMA ReadCommandStep == ASSUME TypeInv, NEW op \in Commands, NEW arg \in Nat, NEW sig \in AllSignals,
         NEW timer \in Timers \cup {NoTimer}, ReadCommand(op, arg, sig, timer) PROVE TypeInv'
<1>1. TableType(jobs, maxId)'
  BY DEF ReadCommand, shellVars, TypeInv, TableType
<1>2. ShellTypes'
  BY DEF ReadCommand, shellVars, TypeInv, ShellTypes
<1>3. KernelTypes'
  BY DEF ReadCommand, kernelVars, TypeInv, KernelTypes
<1>4. ControlTypes' /\ MainLocals' /\ HandlerLocals'
  <2>1. cmd' \in CmdRec /\ cmd'.timer = timer
    BY ConstantAssumption DEF ReadCommand, CmdRec
  <2>2. op \in AllCommands /\ fg' = fg
    BY ConstantAssumption DEF ReadCommand, shellVars
  <2>3. CASE timer = NoTimer
    <3>1. \E place \in Started : Moves(Main, place)
      BY <2>2, <2>3, ExecuteMoves DEF ReadCommand, TypeInv, ControlTypes, ThreadControl
    <3>2. \A place \in Started : place \in Places \ {"track", "addjob", "newjob", "setfg", "wait", "clear", "arm"}
      BY DEF Started, Places, MainPlaces
    <3> QED
      BY <2>1, <2>2, <3>1, <3>2, MainMoveLocals
  <2>4. CASE timer # NoTimer
    <3>1. Main \in Threads /\ {"crashed", "arm"} \subseteq Places
      BY DEF Threads, Places, MainPlaces
    <3>2. PICK place \in {"crashed", "arm"} : Goto(Main, place) /\ UNCHANGED <<idx, after>>
      BY <2>4 DEF ReadCommand
    <3>3. Moves(Main, place)
      BY <3>1, <3>2, GotoMoves DEF TypeInv, ControlTypes, ThreadControl
    <3> QED
      BY <2>1, <2>2, <2>4, <3>1, <3>3, MainMoveLocals
  <2> QED
    BY <2>3, <2>4
<1> QED
  BY <1>1, <1>2, <1>3, <1>4 DEF TypeInv

LEMMA ArmStep == ASSUME TypeInv, Arm PROVE TypeInv'
<1>1. TableType(jobs, maxId)'
  BY DEF Arm, shellVars, TypeInv, TableType
<1>2. ShellTypes'
  BY DEF Arm, shellVars, TypeInv, ShellTypes
<1>3. KernelTypes'
  BY ConstantAssumption DEF Arm, TypeInv, KernelTypes, MainLocals, Dest, MainAt
<1>4. ControlTypes' /\ MainLocals' /\ HandlerLocals'
  <2>1. PICK place \in Started : Moves(Main, place)
    BY ExecuteMoves DEF Arm, TypeInv, ControlTypes, ThreadControl, CmdRec
  <2>2. \A q \in Started : q \in Places \ {"track", "addjob", "newjob", "setfg", "wait", "clear", "arm"}
    BY DEF Started, Places, MainPlaces
  <2>3. cmd' = cmd /\ fg' = fg
    BY DEF Arm, shellVars
  <2> QED
    BY <2>1, <2>2, <2>3, MainMoveLocals DEF TypeInv, ControlTypes
<1> QED
  BY <1>1, <1>2, <1>3, <1>4 DEF TypeInv

LEMMA ForkStep == ASSUME TypeInv, Fork PROVE TypeInv'
<1>1. TableType(jobs, maxId)'
  BY DEF Fork, shellVars, TypeInv, TableType
<1>2. ShellTypes'
  BY DEF Fork, shellVars, TypeInv, ShellTypes
<1>3. KernelTypes'
  BY DEF Fork, TypeInv, KernelTypes, ProcStates
<1>4. ControlTypes' /\ MainLocals' /\ HandlerLocals'
  <2>1. cmd' \in CmdRec /\ cmd'.pid \in Pids /\ cmd'.timer = cmd.timer /\ fg' = fg
    BY DEF Fork, TypeInv, ControlTypes, CmdRec, shellVars
  <2>2. ThreadControl /\ Main \in Threads /\ {"track", "addjob", "setfg"} \subseteq Places
    BY DEF TypeInv, ControlTypes, ThreadControl, Threads, Places, MainPlaces
  <2>3. CASE cmd.timer # NoTimer
    <3>1. Moves(Main, "track")
      BY <2>2, <2>3, CallReapMoves DEF Fork
    <3>2. cmd'.timer \in Timers
      BY <2>1, <2>3 DEF CmdRec
    <3> QED
      BY <2>1, <2>2, <3>1, <3>2, MainMoveLocals
  <2>4. CASE cmd.timer = NoTimer
    <3>1. Moves(Main, "addjob") \/ Moves(Main, "setfg")
      BY <2>2, <2>4, AfterForkMoves DEF Fork
    <3> QED
      BY <2>1, <2>2, <3>1, MainMoveLocals
  <2> QED
    BY <2>3, <2>4
<1> QED
  BY <1>1, <1>2, <1>3, <1>4 DEF TypeInv

LEMMA TrackStep == ASSUME TypeInv, Track PROVE TypeInv'
<1>1. TableType(jobs, maxId)'
  BY DEF Track, shellVars, TypeInv, TableType
<1>2. ShellTypes'
  <2>1. [pid |-> cmd.pid, timer |-> cmd.timer, age |-> 0] \in TimedRec
    BY DEF Track, TypeInv, MainLocals, MainAt, Dest, TimedRec
  <2> QED
    BY <2>1, AppendProperties DEF Track, TypeInv, ShellTypes
<1>3. KernelTypes'
  BY DEF Track, kernelVars, TypeInv, KernelTypes
<1>4. ControlTypes' /\ MainLocals' /\ HandlerLocals'
  <2>1. ThreadControl /\ {"addjob", "setfg"} \subseteq Places /\ cmd' = cmd /\ fg' = fg
    BY DEF Track, TypeInv, ControlTypes, ThreadControl, Places, MainPlaces
  <2>2. cmd.pid \in Pids /\ cmd \in CmdRec
    BY DEF Track, TypeInv, ControlTypes, MainLocals, MainAt, Dest
  <2>3. Moves(Main, "addjob") \/ Moves(Main, "setfg")
    BY <2>1, AfterForkMoves DEF Track
  <2> QED
    BY <2>1, <2>2, <2>3, MainMoveLocals
<1> QED
  BY <1>1, <1>2, <1>3, <1>4 DEF TypeInv

LEMMA AddBackgroundJobStep == ASSUME TypeInv, AddBackgroundJob PROVE TypeInv'
<1>0. cmd.pid \in Pids /\ cmd \in CmdRec /\ maxId \in Nat
  BY DEF AddBackgroundJob, TypeInv, TableType, ControlTypes, MainLocals, MainAt, Dest
<1>1. TableType(jobs, maxId)'
  <2>1. CASE UNCHANGED <<jobs, maxId>>
    BY <2>1 DEF TypeInv
  <2>2. CASE SetStatus(cmd.pid, "RUNNING")
    BY <2>2, SetStatusTable DEF TypeInv
  <2> QED
    BY <2>1, <2>2 DEF AddBackgroundJob
<1>2. ShellTypes'
  BY DEF AddBackgroundJob, TypeInv, ShellTypes
<1>3. KernelTypes'
  BY DEF AddBackgroundJob, kernelVars, TypeInv, KernelTypes
<1>4. ControlTypes' /\ MainLocals' /\ HandlerLocals'
  <2>1. fg' = fg /\ {"prompt", "newjob"} \subseteq Places /\ Main \in Threads
    BY DEF AddBackgroundJob, Places, MainPlaces, Threads
  <2>2. CASE Return
    <3>1. Moves(Main, "prompt") /\ cmd' \in CmdRec
      BY <2>2, ReturnMoves DEF AddBackgroundJob, TypeInv, ControlTypes, ThreadControl
    <3> QED
      BY <2>1, <3>1, MainMoveLocals
  <2>3. CASE cmd' = [cmd EXCEPT !.arg = NextJobId] /\ Goto(Main, "newjob")
    <3>1. Moves(Main, "newjob")
      BY <2>1, <2>3, GotoMoves DEF AddBackgroundJob, TypeInv, ControlTypes, ThreadControl
    <3>2. cmd' \in CmdRec /\ cmd'.pid = cmd.pid /\ cmd'.arg # 0
      BY <1>0, <2>3 DEF CmdRec, NextJobId
    <3> QED
      BY <1>0, <2>1, <3>1, <3>2, MainMoveLocals
  <2> QED
    BY <2>2, <2>3 DEF AddBackgroundJob
<1> QED
  BY <1>1, <1>2, <1>3, <1>4 DEF TypeInv

LEMMA InsertBackgroundJobStep == ASSUME TypeInv, InsertBackgroundJob PROVE TypeInv'
<1>1. TableType(jobs, maxId)'
  <2>1. cmd.pid \in Pids /\ cmd.arg \in Nat \ {0}
    BY DEF InsertBackgroundJob, TypeInv, ControlTypes, CmdRec, MainLocals, MainAt, Dest
  <2> QED
    BY <2>1, InsertTable DEF InsertBackgroundJob, TypeInv
<1>2. ShellTypes'
  BY DEF InsertBackgroundJob, TypeInv, ShellTypes
<1>3. KernelTypes'
  BY DEF InsertBackgroundJob, kernelVars, TypeInv, KernelTypes
<1>4. ControlTypes' /\ MainLocals' /\ HandlerLocals'
  <2>1. Moves(Main, "prompt") /\ cmd' \in CmdRec
    BY ReturnMoves DEF InsertBackgroundJob, TypeInv, ControlTypes, ThreadControl
  <2>2. fg' = fg /\ "prompt" \in Places
    BY DEF InsertBackgroundJob, Places, MainPlaces
  <2> QED
    BY <2>1, <2>2, MainMoveLocals
<1> QED
  BY <1>1, <1>2, <1>3, <1>4 DEF TypeInv

LEMMA SetForegroundStep == ASSUME TypeInv, SetForeground PROVE TypeInv'
<1>1. TableType(jobs, maxId)'
  BY DEF SetForeground, shellVars, TypeInv, TableType
<1>2. ShellTypes'
  BY DEF SetForeground, TypeInv, ShellTypes, MainLocals, MainAt, Dest
<1>3. KernelTypes'
  BY DEF SetForeground, kernelVars, TypeInv, KernelTypes
<1>4. ControlTypes' /\ MainLocals' /\ HandlerLocals'
  <2>1. cmd.pid \in Pids /\ cmd' = cmd
    BY DEF SetForeground, TypeInv, MainLocals, MainAt, Dest
  <2>2. Main \in Threads /\ Handler \in Threads /\ "wait" \in Places /\ Main # Handler
    BY DEF Threads, Places, MainPlaces, Main, Handler
  <2>3. Moves(Main, "wait")
    BY <2>2, GotoMoves DEF SetForeground, TypeInv, ControlTypes, ThreadControl
  <2>4. Dest(Main)' = "wait" /\ Dest(Handler)' = "idle"
    BY <2>2, <2>3 DEF Moves, SetForeground, MainAt, Dest
  <2> QED
    BY <2>1, <2>3, <2>4 DEF Moves, TypeInv, ControlTypes, ThreadControl, MainLocals, HandlerLocals
<1> QED
  BY <1>1, <1>2, <1>3, <1>4 DEF TypeInv

LEMMA WaitStep == ASSUME TypeInv, Wait PROVE TypeInv'
<1>1. TableType(jobs, maxId)'
  BY DEF Wait, shellVars, TypeInv, TableType
<1>2. ShellTypes'
  BY DEF Wait, shellVars, TypeInv, ShellTypes
<1>3. KernelTypes'
  BY DEF Wait, TypeInv, KernelTypes, ProcStates
<1>4. ControlTypes' /\ MainLocals' /\ HandlerLocals'
  <2>1. Main \in Threads /\ {"clear", "prompt"} \subseteq Places /\ fg' = fg
    BY DEF Wait, Threads, Places, MainPlaces, shellVars
  <2>2. CASE Return
    <3>1. Moves(Main, "prompt") /\ cmd' \in CmdRec
      BY <2>2, ReturnMoves DEF Wait, TypeInv, ControlTypes, ThreadControl
    <3> QED
      BY <2>1, <3>1, MainMoveLocals
  <2>3. CASE cmd' = [cmd EXCEPT !.stopped = proc[cmd.pid] = "stopped"] /\ Goto(Main, "clear")
    <3>1. Moves(Main, "clear")
      BY <2>1, <2>3, GotoMoves DEF Wait, TypeInv, ControlTypes, ThreadControl
    <3>2. cmd' \in CmdRec /\ cmd'.pid = cmd.pid
      BY <2>3 DEF TypeInv, ControlTypes, CmdRec
    <3>3. cmd.pid \in Pids
      BY DEF Wait, TypeInv, MainLocals, MainAt, Dest
    <3> QED
      BY <2>1, <3>1, <3>2, <3>3, MainMoveLocals
  <2> QED
    BY <2>2, <2>3 DEF Wait
<1> QED
  BY <1>1, <1>2, <1>3, <1>4 DEF TypeInv

LEMMA ClearForegroundStep == ASSUME TypeInv, ClearForeground PROVE TypeInv'
<1>1. TableType(jobs, maxId)'
  BY WithoutTable DEF ClearForeground, TypeInv
<1>2. ShellTypes'
  BY WithoutTimed DEF ClearForeground, ForegroundAfterWait, TypeInv, ShellTypes
<1>3. KernelTypes'
  BY DEF ClearForeground, kernelVars, TypeInv, KernelTypes
<1>4. ControlTypes' /\ MainLocals' /\ HandlerLocals'
  <2>1. Moves(Main, "prompt") /\ cmd' \in CmdRec
    BY ReturnMoves DEF ClearForeground, TypeInv, ControlTypes, ThreadControl
  <2>2. Dest(Main)' = "prompt" /\ Dest(Handler)' = "idle"
    BY <2>1, ThreadNames DEF Moves, ClearForeground, MainAt, Dest
  <2> QED
    BY <2>1, <2>2 DEF Moves, TypeInv, ControlTypes, ThreadControl, MainLocals, HandlerLocals
<1> QED
  BY <1>1, <1>2, <1>3, <1>4 DEF TypeInv

LEMMA QuitKillStep == ASSUME TypeInv, QuitKill PROVE TypeInv'
<1>1. TableType(jobs, maxId)'
  <2>1. TableType(<<>>, maxId)
    BY EmptySeq DEF TypeInv, TableType
  <2>2. jobs' \in {<<>>, jobs} /\ maxId' = maxId
    BY DEF QuitKill
  <2>3. CASE jobs' = <<>>
    BY <2>1, <2>2, <2>3
  <2>4. CASE jobs' = jobs
    BY <2>2, <2>4 DEF TypeInv
  <2> QED
    BY <2>2, <2>3, <2>4
<1>2. ShellTypes'
  BY DEF QuitKill, shellVars, TypeInv, ShellTypes
<1>3. KernelTypes'
  BY DEF QuitKill, TypeInv, KernelTypes, ProcStates
<1>4. ControlTypes' /\ MainLocals' /\ HandlerLocals'
  <2>1. Main \in Threads /\ "exited" \in Places /\ fg' = fg /\ cmd' = cmd
    BY DEF QuitKill, Threads, Places, MainPlaces
  <2>2. Moves(Main, "exited")
    BY <2>1, GotoMoves DEF QuitKill, TypeInv, ControlTypes, ThreadControl
  <2> QED
    BY <2>1, <2>2, MainMoveLocals DEF TypeInv, ControlTypes
<1> QED
  BY <1>1, <1>2, <1>3, <1>4 DEF TypeInv

LEMMA ReapStep == ASSUME TypeInv, NEW t \in Threads, Reap(t) PROVE TypeInv'
<1>1. TableType(jobs, maxId)'
  <2>1. \/ UNCHANGED <<jobs, maxId>>
        \/ jobs' = jobs /\ maxId' = LargestId(jobs)
        \/ \E k \in DOMAIN jobs : jobs' = RemoveAt(jobs, k) /\ maxId' = maxId
    BY DEF Reap, Erase
  <2>2. TableType(jobs, maxId)
    BY DEF TypeInv
  <2>3. CASE UNCHANGED <<jobs, maxId>>
    BY <2>2, <2>3
  <2>4. CASE jobs' = jobs /\ maxId' = LargestId(jobs)
    BY <2>2, <2>4, LargestIdBounds DEF TableType
  <2>5. CASE \E k \in DOMAIN jobs : jobs' = RemoveAt(jobs, k) /\ maxId' = maxId
    BY <2>2, <2>5, RemoveAtTable
  <2> QED
    BY <2>1, <2>3, <2>4, <2>5
<1>2. ShellTypes'
  BY WithoutTimed DEF Reap, Erase, TypeInv, ShellTypes
<1>3. KernelTypes'
  BY DEF Reap, TypeInv, KernelTypes, ProcStates
<1>4. ControlTypes' /\ MainLocals' /\ HandlerLocals'
  <2>1. Handler \in Threads /\ Main \in Threads /\ {"crashed", "idle", "reap", "erase"} \subseteq Places
        /\ cmd' = cmd /\ fg' = fg /\ Handler # Main
    BY DEF Reap, Threads, Places, MainPlaces, HandlerPlaces, Main, Handler
  <2>2. ThreadControl /\ pc[t] = "reap"
    BY DEF Reap, TypeInv, ControlTypes, ThreadControl
  <2>3. CASE Goto(t, "crashed") /\ UNCHANGED <<idx, after>>
    <3>1. Moves(t, "crashed")
      BY <2>1, <2>2, <2>3, GotoMoves DEF ThreadControl
    <3> QED
      BY <2>1, <3>1, ThreadNames, MainMoveLocals, HandlerMoveLocals DEF TypeInv, ControlTypes
  <2>4. CASE LeaveReap(t)
    <3>1. ThreadControl' /\ \A u \in Threads : u # t => Dest(u)' = Dest(u)
      BY <2>1, <2>2, <2>4 DEF LeaveReap, Goto, ThreadControl, Dest
    <3>2. Dest(t)' \in {Dest(t), "idle"}
      BY <2>2, <2>4 DEF LeaveReap, Goto, ThreadControl, Dest
    <3> QED
      BY <2>1, <3>1, <3>2, ThreadNames DEF TypeInv, ControlTypes, ThreadControl, MainLocals, HandlerLocals
  <2>5. CASE ThreadControl' /\ UNCHANGED <<pc, after>>
    BY <2>1, <2>5 DEF TypeInv, ControlTypes, ThreadControl, MainLocals, HandlerLocals, Dest
  <2>6. CASE t = Main /\ Goto(Main, "erase") /\ UNCHANGED <<idx, after>>
    <3>1. ThreadControl' /\ \A u \in Threads : Dest(u)' = Dest(u)
      BY <2>1, <2>2, <2>6 DEF Goto, ThreadControl, Dest
    <3> QED
      BY <2>1, <3>1 DEF TypeInv, ControlTypes, ThreadControl, MainLocals, HandlerLocals
  <2>7. \/ Goto(t, "crashed") /\ UNCHANGED <<idx, after>>
        \/ LeaveReap(t)
        \/ ThreadControl' /\ UNCHANGED <<pc, after>>
        \/ t = Main /\ Goto(Main, "erase") /\ UNCHANGED <<idx, after>>
    BY <2>2 DEF Reap, ThreadControl
  <2> QED
    BY <2>3, <2>4, <2>5, <2>6, <2>7
<1> QED
  BY <1>1, <1>2, <1>3, <1>4 DEF TypeInv

LEMMA EraseFinishedStep == ASSUME TypeInv, EraseFinished PROVE TypeInv'
<1>1. TableType(jobs, maxId)'
  BY RemoveAtTable DEF EraseFinished, Erase, TypeInv
<1>2. ShellTypes'
  BY WithoutTimed DEF EraseFinished, Erase, TypeInv, ShellTypes
<1>3. KernelTypes'
  BY DEF EraseFinished, kernelVars, TypeInv, KernelTypes
<1>4. ControlTypes' /\ MainLocals' /\ HandlerLocals'
  <2>1. Main \in Threads /\ {"crashed", "reap"} \subseteq Places /\ cmd' = cmd /\ fg' = fg
    BY DEF EraseFinished, Threads, Places, MainPlaces
  <2>2. CASE Goto(Main, "crashed")
    <3>1. Moves(Main, "crashed")
      BY <2>1, <2>2, GotoMoves DEF EraseFinished, TypeInv, ControlTypes, ThreadControl
    <3> QED
      BY <2>1, <3>1, MainMoveLocals DEF TypeInv, ControlTypes
  <2>3. CASE Goto(Main, "reap")
    <3>1. ThreadControl' /\ \A u \in Threads : Dest(u)' = Dest(u)
      BY <2>1, <2>3 DEF EraseFinished, MainAt, Goto, TypeInv, ControlTypes, ThreadControl, Dest
    <3> QED
      BY <2>1, <3>1, ThreadNames DEF TypeInv, ControlTypes, ThreadControl, MainLocals, HandlerLocals
  <2> QED
    BY <2>2, <2>3 DEF EraseFinished
<1> QED
  BY <1>1, <1>2, <1>3, <1>4 DEF TypeInv

LEMMA KeyStep == ASSUME TypeInv, NEW place \in {"zpoll", "cpoll"}, Key(place) PROVE TypeInv'
<1>1. TableType(jobs, maxId)'
  BY DEF Key, shellVars, TypeInv, TableType
<1>2. ShellTypes'
  BY DEF Key, shellVars, TypeInv, ShellTypes
<1>3. KernelTypes'
  BY DEF Key, kernelVars, TypeInv, KernelTypes
<1>4. ControlTypes' /\ MainLocals' /\ HandlerLocals'
  <2>1. Handler \in Threads /\ place \in Places /\ place # "reap" /\ cmd' = cmd
    BY DEF Key, Threads, Places, HandlerPlaces
  <2>2. Moves(Handler, place) /\ fg' \in Pids
    BY <2>1, GotoMoves DEF Key, TypeInv, ControlTypes, ThreadControl, ShellTypes, shellVars
  <2> QED
    BY <2>1, <2>2, HandlerMoveLocals
<1> QED
  BY <1>1, <1>2, <1>3, <1>4 DEF TypeInv

LEMMA PollStep ==
  ASSUME TypeInv, NEW place \in {"zpoll", "cpoll"}, NEW next \in {"zstop", "ckill"}, Poll(place, next)
  PROVE  TypeInv'
<1>1. TableType(jobs, maxId)'
  BY DEF Poll, shellVars, TypeInv, TableType
<1>2. ShellTypes'
  BY DEF Poll, shellVars, TypeInv, ShellTypes
<1>3. KernelTypes'
  BY SignalledType DEF Poll, TypeInv, KernelTypes, ProcStates
<1>4. ControlTypes' /\ MainLocals' /\ HandlerLocals'
  <2>1. PICK q \in {next, "idle"} : Goto(Handler, q)
    BY DEF Poll
  <2>2. Handler \in Threads /\ q \in Places /\ q # "reap" /\ cmd' = cmd
    BY <2>1 DEF Poll, Threads, Places, HandlerPlaces
  <2>3. Moves(Handler, q)
    BY <2>1, <2>2, GotoMoves DEF Poll, TypeInv, ControlTypes, ThreadControl
  <2>4. fg' \in Pids
    BY DEF Poll, TypeInv, HandlerLocals, HandlerAt, Dest, shellVars
  <2> QED
    BY <2>2, <2>3, <2>4, HandlerMoveLocals
<1> QED
  BY <1>1, <1>2, <1>3, <1>4 DEF TypeInv

LEMMA CtrlZStopStep == ASSUME TypeInv, CtrlZStop PROVE TypeInv'
<1>1. TableType(jobs, maxId)'
  BY DEF CtrlZStop, shellVars, TypeInv, TableType
<1>2. ShellTypes'
  BY DEF CtrlZStop, shellVars, TypeInv, ShellTypes
<1>3. KernelTypes'
  BY SignalledType DEF CtrlZStop, TypeInv, KernelTypes, ProcStates
<1>4. ControlTypes' /\ MainLocals' /\ HandlerLocals'
  <2>1. Handler \in Threads /\ "addjob" \in Places /\ cmd' = cmd
    BY DEF CtrlZStop, Threads, Places, HandlerPlaces, ctlVars
  <2>2. Moves(Handler, "addjob")
    BY <2>1, GotoMoves, CallReapMoves DEF CtrlZStop, TypeInv, ControlTypes, ThreadControl
  <2> QED
    BY <2>1, <2>2, HandlerMoveLocals DEF CtrlZStop, TypeInv, ShellTypes, HandlerLocals, HandlerAt, Dest, shellVars
<1> QED
  BY <1>1, <1>2, <1>3, <1>4 DEF TypeInv

LEMMA CtrlZAddJobStep == ASSUME TypeInv, CtrlZAddJob PROVE TypeInv'
<1>1. TableType(jobs, maxId)'
  <2>1. fg \in Pids
    BY DEF CtrlZAddJob, TypeInv, HandlerLocals, HandlerAt, Dest
  <2> QED
    BY <2>1, AddEntryTable DEF CtrlZAddJob, TypeInv
<1>2. ShellTypes'
  BY DEF CtrlZAddJob, shellVars, TypeInv, ShellTypes
<1>3. KernelTypes'
  BY DEF CtrlZAddJob, kernelVars, TypeInv, KernelTypes
<1>4. ControlTypes' /\ MainLocals' /\ HandlerLocals'
  <2>1. Handler \in Threads /\ "idle" \in Places /\ cmd' = cmd
    BY DEF CtrlZAddJob, Threads, Places, HandlerPlaces, ctlVars
  <2>2. Moves(Handler, "idle")
    BY <2>1, GotoMoves, CallReapMoves DEF CtrlZAddJob, TypeInv, ControlTypes, ThreadControl
  <2> QED
    BY <2>1, <2>2, HandlerMoveLocals DEF CtrlZAddJob
<1> QED
  BY <1>1, <1>2, <1>3, <1>4 DEF TypeInv

LEMMA CtrlCKillStep == ASSUME TypeInv, CtrlCKill PROVE TypeInv'
<1>1. TableType(jobs, maxId)'
  BY DEF CtrlCKill, shellVars, TypeInv, TableType
<1>2. ShellTypes'
  BY DEF CtrlCKill, shellVars, TypeInv, ShellTypes
<1>3. KernelTypes'
  BY SignalledType DEF CtrlCKill, TypeInv, KernelTypes, ProcStates
<1>4. ControlTypes' /\ MainLocals' /\ HandlerLocals'
  <2>1. Handler \in Threads /\ "idle" \in Places /\ cmd' = cmd
    BY DEF CtrlCKill, Threads, Places, HandlerPlaces, ctlVars
  <2>2. Moves(Handler, "idle")
    BY <2>1, GotoMoves, CallReapMoves DEF CtrlCKill, TypeInv, ControlTypes, ThreadControl
  <2> QED
    BY <2>1, <2>2, HandlerMoveLocals DEF CtrlCKill
<1> QED
  BY <1>1, <1>2, <1>3, <1>4 DEF TypeInv

LEMMA DeliverAlarmStep == ASSUME TypeInv, DeliverAlarm PROVE TypeInv'
<1>1. TableType(jobs, maxId)'
  BY DEF DeliverAlarm, shellVars, TypeInv, TableType
<1>2. ShellTypes'
  BY DEF DeliverAlarm, shellVars, TypeInv, ShellTypes
<1>3. KernelTypes'
  BY DEF DeliverAlarm, kernelVars, TypeInv, KernelTypes
<1>4. ControlTypes' /\ MainLocals' /\ HandlerLocals'
  <2>1. Handler \in Threads /\ "scan" \in Places /\ cmd' = cmd
    BY DEF DeliverAlarm, Threads, Places, HandlerPlaces, ctlVars
  <2>2. Moves(Handler, "scan")
    BY <2>1, GotoMoves, CallReapMoves DEF DeliverAlarm, TypeInv, ControlTypes, ThreadControl
  <2> QED
    BY <2>1, <2>2, HandlerMoveLocals DEF DeliverAlarm
<1> QED
  BY <1>1, <1>2, <1>3, <1>4 DEF TypeInv

LEMMA ScanStep == ASSUME TypeInv, Scan PROVE TypeInv'
<1>1. TableType(jobs, maxId)'
  BY DEF Scan, shellVars, TypeInv, TableType
<1>2. ShellTypes'
  BY DEF Scan, shellVars, TypeInv, ShellTypes
<1>3. KernelTypes'
  BY SignalledType DEF Scan, TypeInv, KernelTypes, ProcStates
<1>4. ControlTypes' /\ MainLocals' /\ HandlerLocals'
  <2>1. /\ Handler \in Threads /\ {"rearm", "timeoutkill", "idle"} \subseteq Places
        /\ cmd' = cmd /\ fg' = fg /\ ThreadControl
    BY DEF Scan, Threads, Places, HandlerPlaces, shellVars, TypeInv, ControlTypes, ThreadControl
  <2>2. idx' \in [Threads -> Nat] /\ after' = after
    BY <2>1 DEF Scan, ThreadControl
  <2>3. CASE pc' = pc
    BY <2>1, <2>2, <2>3 DEF TypeInv, ControlTypes, ThreadControl, MainLocals, HandlerLocals, Dest
  <2>4. CASE \E place \in {"rearm", "timeoutkill", "idle"} : Goto(Handler, place)
    <3>1. PICK place \in {"rearm", "timeoutkill", "idle"} : Moves(Handler, place)
      BY <2>1, <2>2, <2>4, GotoMoves
    <3> QED
      BY <2>1, <3>1, HandlerMoveLocals
  <2> QED
    BY <2>3, <2>4 DEF Scan
<1> QED
  BY <1>1, <1>2, <1>3, <1>4 DEF TypeInv

LEMMA TimeoutKillStep == ASSUME TypeInv, TimeoutKill PROVE TypeInv'
<1>1. TableType(jobs, maxId)'
  BY WithoutTable DEF TimeoutKill, TypeInv
<1>2. ShellTypes'
  BY WithoutTimed DEF TimeoutKill, TypeInv, ShellTypes
<1>3. KernelTypes'
  BY SignalledType DEF TimeoutKill, TypeInv, KernelTypes, ProcStates
<1>4. ControlTypes' /\ MainLocals' /\ HandlerLocals'
  <2>1. Handler \in Threads /\ "rearm" \in Places /\ cmd' = cmd
    BY DEF TimeoutKill, Threads, Places, HandlerPlaces
  <2>2. Moves(Handler, "rearm")
    BY <2>1, GotoMoves DEF TimeoutKill, TypeInv, ControlTypes, ThreadControl
  <2> QED
    BY <2>1, <2>2, HandlerMoveLocals
<1> QED
  BY <1>1, <1>2, <1>3, <1>4 DEF TypeInv

LEMMA RearmStep == ASSUME TypeInv, Rearm PROVE TypeInv'
<1>1. TableType(jobs, maxId)'
  BY DEF Rearm, shellVars, TypeInv, TableType
<1>2. ShellTypes'
  BY DEF Rearm, shellVars, TypeInv, ShellTypes
<1>3. KernelTypes'
  <2>1. \A k \in DOMAIN timed : SecondsLeft(timed[k]) \in Nat
    <3>1. \A k \in DOMAIN timed : timed[k] \in TimedRec
      BY ElementOfSeq, LenProperties DEF TypeInv, ShellTypes
    <3>2. \A e \in TimedRec : e.age \in Nat /\ e.timer \in Nat
      BY ConstantAssumption DEF TimedRec
    <3>3. \A e \in TimedRec : SecondsLeft(e) \in Nat
      BY <3>2 DEF SecondsLeft
    <3> QED
      BY <3>1, <3>3
  <2> QED
    BY <2>1 DEF Rearm, TypeInv, KernelTypes
<1>4. ControlTypes' /\ MainLocals' /\ HandlerLocals'
  <2>1. Handler \in Threads /\ "idle" \in Places /\ cmd' = cmd
    BY DEF Rearm, Threads, Places, HandlerPlaces, ctlVars
  <2>2. Moves(Handler, "idle")
    BY <2>1, GotoMoves, CallReapMoves DEF Rearm, TypeInv, ControlTypes, ThreadControl
  <2> QED
    BY <2>1, <2>2, HandlerMoveLocals DEF Rearm
<1> QED
  BY <1>1, <1>2, <1>3, <1>4 DEF TypeInv

LEMMA ExitStep == ASSUME TypeInv, NEW p \in Pids, Exit(p) PROVE TypeInv'
<1>1. TableType(jobs, maxId)'
  BY DEF Exit, shellVars, TypeInv, TableType
<1>2. ShellTypes'
  BY DEF Exit, shellVars, TypeInv, ShellTypes
<1>3. KernelTypes'
  BY SignalledType DEF Exit, TypeInv, KernelTypes, ProcStates
<1>4. ControlTypes' /\ MainLocals' /\ HandlerLocals'
  BY DEF Exit, TypeInv, ctlVars, shellVars, ControlTypes, MainLocals, HandlerLocals, Dest
<1> QED
  BY <1>1, <1>2, <1>3, <1>4 DEF TypeInv

LEMMA StrayStopStep == ASSUME TypeInv, NEW p \in Pids, StrayStop(p) PROVE TypeInv'
<1>1. TableType(jobs, maxId)'
  BY DEF StrayStop, shellVars, TypeInv, TableType
<1>2. ShellTypes'
  BY DEF StrayStop, shellVars, TypeInv, ShellTypes
<1>3. KernelTypes'
  BY SignalledType DEF StrayStop, TypeInv, KernelTypes, ProcStates
<1>4. ControlTypes' /\ MainLocals' /\ HandlerLocals'
  BY DEF StrayStop, TypeInv, ctlVars, shellVars, ControlTypes, MainLocals, HandlerLocals, Dest
<1> QED
  BY <1>1, <1>2, <1>3, <1>4 DEF TypeInv

LEMMA TickStep == ASSUME TypeInv, Tick PROVE TypeInv'
<1>1. TableType(jobs, maxId)'
  BY DEF Tick, shellVars, TypeInv, TableType
<1>2. ShellTypes'
  <2>1. timed \in Seq(TimedRec) /\ Len(timed) \in Nat /\ DOMAIN timed = 1..Len(timed)
    BY LenProperties DEF TypeInv, ShellTypes
  <2>2. \A k \in DOMAIN timed : [timed[k] EXCEPT !.age = Older(@)] \in TimedRec
    <3>1. \A e \in TimedRec : [e EXCEPT !.age = Older(@)] \in TimedRec
      BY DEF TimedRec, Older
    <3> QED
      BY <2>1, <3>1, ElementOfSeq
  <2>3. timed' \in Seq(TimedRec)
    BY <2>1, <2>2, IsASeq DEF Tick
  <2> QED
    BY <2>3 DEF Tick, TypeInv, ShellTypes
<1>3. KernelTypes'
  BY DEF Tick, kernelVars, TypeInv, KernelTypes
<1>4. ControlTypes' /\ MainLocals' /\ HandlerLocals'
  BY DEF Tick, TypeInv, ctlVars, shellVars, ControlTypes, MainLocals, HandlerLocals, Dest
<1> QED
  BY <1>1, <1>2, <1>3, <1>4 DEF TypeInv

LEMMA StutterStep == ASSUME TypeInv, UNCHANGED vars PROVE TypeInv'
BY DEF vars, TypeInv, TableType, ShellTypes, KernelTypes, ControlTypes,
       MainLocals, HandlerLocals, Dest

LEMMA NextTypes == ASSUME TypeInv, [Next]_vars PROVE TypeInv'
<1>1. CASE ReadAny
  <2>1. Signals \cup {"SIGCONT"} \subseteq AllSignals /\ 0..MaxJobArg \subseteq Nat
    BY ConstantAssumption DEF AllSignals
  <2> QED
    BY <1>1, <2>1, ReadCommandStep DEF ReadAny
<1>2. CASE MainStep
  <2>1. CASE Arm \/ Fork \/ Track \/ AddBackgroundJob \/ InsertBackgroundJob
    BY <2>1, ArmStep, ForkStep, TrackStep, AddBackgroundJobStep, InsertBackgroundJobStep
  <2>2. CASE SetForeground \/ Wait \/ ClearForeground
    BY <2>2, SetForegroundStep, WaitStep, ClearForegroundStep
  <2>3. CASE Jobs \/ Foreground \/ Background \/ Kill \/ QuitKill
    BY <2>3, JobsStep, ForegroundStep, BackgroundStep, KillStep, QuitKillStep
  <2>4. CASE Reap(Main) \/ EraseFinished
    BY <2>4, ReapStep, EraseFinishedStep, ThreadNames
  <2> QED
    BY <1>2, <2>1, <2>2, <2>3, <2>4 DEF MainStep
<1>3. CASE HandlerStep
  <2>1. CASE Poll("zpoll", "zstop") \/ Poll("cpoll", "ckill")
    BY <2>1, PollStep
  <2>2. CASE CtrlZStop \/ CtrlZAddJob \/ CtrlCKill
    BY <2>2, CtrlZStopStep, CtrlZAddJobStep, CtrlCKillStep
  <2>3. CASE Scan \/ TimeoutKill \/ Rearm
    BY <2>3, ScanStep, TimeoutKillStep, RearmStep
  <2>4. CASE Reap(Handler)
    BY <2>4, ReapStep, ThreadNames
  <2> QED
    BY <1>3, <2>1, <2>2, <2>3, <2>4 DEF HandlerStep
<1>4. CASE Environment
  <2>1. CASE Key("zpoll") \/ Key("cpoll")
    BY <2>1, KeyStep
  <2>2. CASE DeliverAlarm \/ Tick
    BY <2>2, DeliverAlarmStep, TickStep
  <2>3. CASE \E p \in Pids : Exit(p) \/ StrayStop(p)
    BY <2>3, ExitStep, StrayStopStep
  <2> QED
    BY <1>4, <2>1, <2>2, <2>3 DEF Environment
<1>5. CASE UNCHANGED vars
  BY <1>5, StutterStep
<1> QED
  BY <1>1, <1>2, <1>3, <1>4, <1>5 DEF Next

\* What an alarm leaves behind it: the history grows by the place it has
\* interrupted, and by no other step.
LEMMA HistoryStep ==
  ASSUME [Next]_vars
  PROVE  \/ raced' = raced /\ ~DeliverAlarm
         \/ raced' = raced \cup ({pc[Main]} \cap Fragile) /\ DeliverAlarm
<1>1. CASE DeliverAlarm
  BY <1>1 DEF DeliverAlarm
<1>2. CASE ReadAny \/ UNCHANGED vars
  BY <1>1, <1>2 DEF ReadAny, ReadCommand, vars
<1>3. CASE MainStep
  BY <1>1, <1>3 DEF MainStep, Arm, Fork, Track, AddBackgroundJob, InsertBackgroundJob, SetForeground, Wait,
     ClearForeground, Jobs, Foreground, Background, Kill, QuitKill, Reap, EraseFinished
<1>4. CASE HandlerStep
  BY <1>1, <1>4 DEF HandlerStep, Poll, CtrlZStop, CtrlZAddJob, CtrlCKill, Scan, TimeoutKill, Rearm, Reap
<1>5. CASE Environment /\ ~DeliverAlarm
  BY <1>5 DEF Environment, Key, Tick, Exit, StrayStop
<1> QED
  BY <1>1, <1>2, <1>3, <1>4, <1>5 DEF Next

-----------------------------------------------------------------------------
(* What a step does to the table: it is thinned out, its order, ids and pids *)
(* kept and only statuses changed; or its maximum is computed anew; or an    *)
(* entry is appended.                                                        *)
Thins(s, t) == \E f \in [DOMAIN t -> DOMAIN s] :
  /\ \A k, l \in DOMAIN t : k < l => f[k] < f[l]
  /\ \A k \in DOMAIN t : t[k].id = s[f[k]].id /\ t[k].pid = s[f[k]].pid

LEMMA SameThins ==
  ASSUME NEW s, NEW t, DOMAIN t = DOMAIN s,
         \A k \in DOMAIN s : t[k].id = s[k].id /\ t[k].pid = s[k].pid
  PROVE  Thins(s, t)
<1>1. [k \in DOMAIN t |-> k] \in [DOMAIN t -> DOMAIN s]
  OBVIOUS
<1> QED
  BY <1>1 DEF Thins

LEMMA RemoveThins ==
  ASSUME NEW s \in Seq(JobRec), NEW i \in DOMAIN s
  PROVE  Thins(s, RemoveAt(s, i))
<1> DEFINE t == RemoveAt(s, i)
           f == [k \in DOMAIN t |-> IF k < i THEN k ELSE k + 1]
<1>1. Len(s) \in Nat /\ DOMAIN s = 1..Len(s) /\ i \in 1..Len(s)
  BY LenProperties
<1>2. DOMAIN t = 1..(Len(s) - 1) /\ \A k \in DOMAIN t : t[k] = s[IF k < i THEN k ELSE k + 1]
  BY <1>1, RemoveAtProperties, LenProperties
<1> HIDE DEF t
<1>3. f \in [DOMAIN t -> DOMAIN s]
  BY <1>1, <1>2
<1>4. \A k, l \in DOMAIN t : k < l => f[k] < f[l]
  BY <1>1, <1>2
<1>5. \A k \in DOMAIN t : t[k].id = s[f[k]].id /\ t[k].pid = s[f[k]].pid
  BY <1>2
<1> HIDE DEF f
<1> QED
  BY <1>3, <1>4, <1>5 DEF Thins, t

LEMMA WithoutThins ==
  ASSUME NEW s \in Seq(JobRec), NEW x
  PROVE  Thins(s, WithoutPid(s, x)) /\ Thins(s, WithoutId(s, x))
BY WithoutRemoves, RemoveThins, SameThins

LEMMA StatusThins ==
  ASSUME NEW s \in Seq(JobRec), NEW k \in DOMAIN s, NEW st
  PROVE  Thins(s, [s EXCEPT ![k].status = st])
<1> DEFINE e == [s[k] EXCEPT !.status = st]
           t == [s EXCEPT ![k] = e]
<1>1. e.id = s[k].id /\ e.pid = s[k].pid
  BY EntriesTyped DEF JobRec
<1> HIDE DEF e
<1>2. DOMAIN t = DOMAIN s /\ \A j \in DOMAIN s : t[j] = IF j = k THEN e ELSE s[j]
  OBVIOUS
<1> HIDE DEF t
<1>3. Thins(s, t)
  BY <1>1, <1>2, SameThins
<1> QED
  BY <1>3 DEF t, e

LEMMA SetStatusThins ==
  ASSUME jobs \in Seq(JobRec), NEW p, NEW st, SetStatus(p, st)
  PROVE  Thins(jobs, jobs')
<1>1. \A k \in DOMAIN jobs : jobs[k] \in JobRec
  BY EntriesTyped
<1>2. \A e \in JobRec : [e EXCEPT !.status = st].id = e.id /\ [e EXCEPT !.status = st].pid = e.pid
  BY DEF JobRec
<1>3. DOMAIN jobs' = DOMAIN jobs /\ \A k \in DOMAIN jobs : jobs'[k].id = jobs[k].id /\ jobs'[k].pid = jobs[k].pid
  BY <1>1, <1>2 DEF SetStatus
<1> QED
  BY <1>3, SameThins

LEMMA StepTable ==
  ASSUME TypeInv, [Next]_vars
  PROVE  \/ Thins(jobs, jobs') /\ maxId' = maxId
         \/ (Reap(Main) \/ Reap(Handler)) /\ jobs' = jobs /\ maxId' = LargestId(jobs)
         \/ CtrlZAddJob /\ ~IsListed(fg) /\ Insert(maxId + 1, fg, "STOPPED")
         \/ InsertBackgroundJob
<1> DEFINE Kept == Thins(jobs, jobs') /\ maxId' = maxId
<1>1. jobs \in Seq(JobRec)
  BY DEF TypeInv, TableType
<1>2. UNCHANGED <<jobs, maxId>> => Kept
  BY SameThins
<1>3. CASE ReadAny \/ Environment \/ UNCHANGED vars
  BY <1>2, <1>3 DEF ReadAny, ReadCommand, Environment, Key, DeliverAlarm, Tick, Exit, StrayStop, shellVars, vars
<1>4. ASSUME NEW t \in Threads, Reap(t)
      PROVE  Kept \/ (jobs' = jobs /\ maxId' = LargestId(jobs))
  <2>1. \/ UNCHANGED <<jobs, maxId>>
        \/ jobs' = jobs /\ maxId' = LargestId(jobs)
        \/ \E k \in DOMAIN jobs : jobs' = RemoveAt(jobs, k) /\ maxId' = maxId
    BY <1>4 DEF Reap, Erase
  <2> QED
    BY <1>1, <1>2, <2>1, RemoveThins
<1>5. ASSUME NEW k \in DOMAIN jobs, Resume(k), maxId' = maxId PROVE Kept
  <2>1. jobs' = jobs \/ jobs' = [jobs EXCEPT ![k].status = "RUNNING"]
    BY <1>5 DEF Resume
  <2>2. Thins(jobs, [jobs EXCEPT ![k].status = "RUNNING"])
    BY <1>1, StatusThins
  <2> QED
    BY <1>2, <1>5, <2>1, <2>2
<1>6. CASE MainStep
  <2>1. CASE Arm \/ Fork \/ Track \/ SetForeground \/ Wait \/ Jobs
    BY <1>2, <2>1 DEF Arm, Fork, Track, SetForeground, Wait, Jobs, shellVars
  <2>2. CASE AddBackgroundJob
    <3>1. UNCHANGED <<jobs, maxId>> \/ SetStatus(cmd.pid, "RUNNING")
      BY <2>2 DEF AddBackgroundJob
    <3>2. ASSUME SetStatus(cmd.pid, "RUNNING") PROVE Kept
      <4>1. Thins(jobs, jobs')
        BY <1>1, <3>2, SetStatusThins
      <4> QED
        BY <3>2, <4>1 DEF SetStatus
    <3> QED
      BY <1>2, <3>1, <3>2
  <2>3. CASE ClearForeground
    <3>1. (jobs' = jobs \/ jobs' = WithoutId(jobs, cmd.arg)) /\ maxId' = maxId
      BY <2>3 DEF ClearForeground
    <3> QED
      BY <1>1, <1>2, <3>1, WithoutThins
  <2>4. CASE Foreground \/ Background
    <3>1. UNCHANGED jobs \/ \E k \in DOMAIN jobs : Resume(k)
      BY <2>4 DEF Foreground, Background, LastPosition, LastStopped, PositionOf, FirstWithId
    <3>2. maxId' = maxId
      BY <2>4 DEF Foreground, Background
    <3> QED
      BY <1>2, <1>5, <3>1, <3>2
  <2>5. CASE Kill
    <3>1. UNCHANGED jobs \/ \E k \in DOMAIN jobs :
            jobs' = [jobs EXCEPT ![k].status = StatusAfter(jobs[k].status, cmd.sig)]
      BY <2>5 DEF Kill, PositionOf, FirstWithId
    <3>2. maxId' = maxId
      BY <2>5 DEF Kill
    <3>3. \A k \in DOMAIN jobs : Thins(jobs, [jobs EXCEPT ![k].status = StatusAfter(jobs[k].status, cmd.sig)])
      BY <1>1, StatusThins
    <3> QED
      BY <1>2, <3>1, <3>2, <3>3
  <2>6. CASE QuitKill
    <3>1. (jobs' = jobs \/ jobs' = <<>>) /\ maxId' = maxId
      BY <2>6 DEF QuitKill
    <3>2. Thins(jobs, <<>>)
      <4>1. DOMAIN <<>> = {}
        OBVIOUS
      <4>2. [k \in {} |-> k] \in [{} -> DOMAIN jobs]
        OBVIOUS
      <4> QED
        BY <4>1, <4>2 DEF Thins
    <3> QED
      BY <1>2, <3>1, <3>2
  <2>7. CASE Reap(Main)
    BY <1>4, <2>7, ThreadNames
  <2>8. CASE EraseFinished
    <3>1. UNCHANGED jobs \/ \E k \in DOMAIN jobs : jobs' = RemoveAt(jobs, k)
      BY <2>8 DEF EraseFinished, Erase
    <3>2. maxId' = maxId
      BY <2>8 DEF EraseFinished
    <3> QED
      BY <1>1, <1>2, <3>1, <3>2, RemoveThins
  <2> QED
    BY <1>6, <2>1, <2>2, <2>3, <2>4, <2>5, <2>6, <2>7, <2>8 DEF MainStep
<1>7. CASE HandlerStep
  <2>1. CASE Poll("zpoll", "zstop") \/ Poll("cpoll", "ckill") \/ CtrlZStop \/ CtrlCKill \/ Scan \/ Rearm
    BY <1>2, <2>1 DEF Poll, CtrlZStop, CtrlCKill, Scan, Rearm, shellVars
  <2>2. CASE CtrlZAddJob
    <3>1. SetStatus(fg, "STOPPED") \/ (~IsListed(fg) /\ Insert(maxId + 1, fg, "STOPPED"))
      BY <2>2 DEF CtrlZAddJob, AddEntry, NextJobId
    <3>2. ASSUME SetStatus(fg, "STOPPED") PROVE Kept
      <4>1. Thins(jobs, jobs')
        BY <1>1, <3>2, SetStatusThins
      <4> QED
        BY <3>2, <4>1 DEF SetStatus
    <3> QED
      BY <2>2, <3>1, <3>2
  <2>3. CASE TimeoutKill
    <3>1. (\E p : jobs' = WithoutPid(jobs, p)) /\ maxId' = maxId
      BY <2>3 DEF TimeoutKill
    <3> QED
      BY <1>1, <3>1, WithoutThins
  <2>4. CASE Reap(Handler)
    BY <1>4, <2>4, ThreadNames
  <2> QED
    BY <1>7, <2>1, <2>2, <2>3, <2>4 DEF HandlerStep
<1> QED
  BY <1>3, <1>6, <1>7 DEF Next

\* Every entry of t comes from one of s, with its id and its pid.
Keeps(s, t) == \A l \in DOMAIN t : \E k \in DOMAIN s : t[l].id = s[k].id /\ t[l].pid = s[k].pid
Names(s, t) == \A k \in DOMAIN s, l \in DOMAIN t : s[k].id = t[l].id => s[k].pid = t[l].pid

LEMMA ThinsKeeps ==
  ASSUME NEW s \in Seq(JobRec), NEW t \in Seq(JobRec), Thins(s, t)
  PROVE  /\ Keeps(s, t)
         /\ PidsDistinct(s) => PidsDistinct(t)
         /\ \A m \in Nat : IdsIncrease(s, m) => IdsIncrease(t, m) /\ Names(s, t)
<1>1. PICK f \in [DOMAIN t -> DOMAIN s] :
        /\ \A k, l \in DOMAIN t : k < l => f[k] < f[l]
        /\ \A k \in DOMAIN t : t[k].id = s[f[k]].id /\ t[k].pid = s[f[k]].pid
  BY DEF Thins
<1>2. /\ DOMAIN s \subseteq Nat /\ DOMAIN t \subseteq Nat
      /\ \A k \in DOMAIN s : s[k].id \in Nat
  BY EntriesTyped
<1>3. \A k \in DOMAIN t : f[k] \in DOMAIN s
  BY <1>1
<1>4. Keeps(s, t)
  BY <1>1, <1>3 DEF Keeps
<1>5. ASSUME PidsDistinct(s) PROVE PidsDistinct(t)
  <2>1. SUFFICES ASSUME NEW k \in DOMAIN t, NEW l \in DOMAIN t, t[k].pid = t[l].pid PROVE k = l
    BY DEF PidsDistinct
  <2>2. f[k] = f[l]
    BY <1>1, <1>3, <1>5, <2>1 DEF PidsDistinct
  <2>3. ~(k < l) /\ ~(l < k)
    BY <1>1, <1>2, <1>3, <2>2
  <2> QED
    BY <1>2, <2>3
<1>6. ASSUME NEW m \in Nat, IdsIncrease(s, m) PROVE IdsIncrease(t, m) /\ Names(s, t)
  <2>1. IdsIncrease(t, m)
    <3>1. \A k, l \in DOMAIN t : k < l => s[f[k]].id < s[f[l]].id
      BY <1>1, <1>3, <1>6 DEF IdsIncrease
    <3>2. \A k \in DOMAIN t : s[f[k]].id <= m
      BY <1>3, <1>6 DEF IdsIncrease
    <3> QED
      BY <1>1, <3>1, <3>2 DEF IdsIncrease
  <2>2. ASSUME NEW k \in DOMAIN s, NEW l \in DOMAIN s, s[k].id = s[l].id PROVE k = l
    <3>1. k \in Nat /\ l \in Nat /\ s[k].id \in Nat
      BY <1>2
    <3>2. (k < l => s[k].id < s[l].id) /\ (l < k => s[l].id < s[k].id)
      BY <1>6 DEF IdsIncrease
    <3> QED
      BY <2>2, <3>1, <3>2
  <2>3. Names(s, t)
    BY <1>1, <1>3, <2>2 DEF Names
  <2> QED
    BY <2>1, <2>3
<1> QED
  BY <1>4, <1>5, <1>6

LEMMA InsertKeeps ==
  ASSUME TypeInv, NEW i \in Nat \ {0}, NEW p \in Pids, NEW st \in {"STOPPED", "RUNNING"},
         Insert(i, p, st)
  PROVE  /\ \A l \in DOMAIN jobs' :
              (l \in DOMAIN jobs /\ jobs'[l] = jobs[l]) \/ (jobs'[l].pid = p /\ jobs'[l].id = i)
         /\ PidsDistinct(jobs) /\ ~IsListed(p) => PidsDistinct(jobs')
         /\ IdsIncrease(jobs, maxId) /\ i = maxId + 1 =>
              IdsIncrease(jobs', maxId') /\ Names(jobs, jobs')
<1> DEFINE e == [id |-> i, pid |-> p, status |-> st]
<1>1. /\ jobs \in Seq(JobRec) /\ maxId \in Nat /\ Len(jobs) \in Nat /\ DOMAIN jobs = 1..Len(jobs)
      /\ \A k \in DOMAIN jobs : jobs[k].id \in Nat
  BY EntriesTyped DEF TypeInv, TableType
<1>2. jobs' = Append(jobs, e) /\ maxId' = maxId + 1 /\ e \in JobRec /\ e.id = i /\ e.pid = p
  BY DEF Insert, JobRec
<1> HIDE DEF e
<1>3. /\ DOMAIN jobs' = 1..(Len(jobs) + 1)
      /\ \A k \in DOMAIN jobs : jobs'[k] = jobs[k]
      /\ jobs'[Len(jobs) + 1] = e
  BY <1>1, <1>2, AppendProperties, LenProperties
<1>4. \A l \in DOMAIN jobs' : l \in DOMAIN jobs \/ l = Len(jobs) + 1
  BY <1>1, <1>3
<1>5. PidsDistinct(jobs) /\ ~IsListed(p) => PidsDistinct(jobs')
  BY <1>2, <1>3, <1>4 DEF PidsDistinct, IsListed
<1>6. ASSUME IdsIncrease(jobs, maxId), i = maxId + 1
      PROVE  IdsIncrease(jobs', maxId') /\ Names(jobs, jobs')
  <2>1. \A k \in DOMAIN jobs : jobs[k].id <= maxId /\ jobs[k].id < i
    BY <1>1, <1>6 DEF IdsIncrease
  <2>2. IdsIncrease(jobs', maxId')
    BY <1>1, <1>2, <1>3, <1>6, <2>1 DEF IdsIncrease
  <2>3. \A k, l \in DOMAIN jobs : jobs[k].id = jobs[l].id => k = l
    BY <1>1, <1>6 DEF IdsIncrease
  <2>4. \A k \in DOMAIN jobs : jobs[k].id # i
    BY <1>1, <2>1
  <2>5. Names(jobs, jobs')
    BY <1>2, <1>3, <1>4, <2>3, <2>4 DEF Names
  <2> QED
    BY <2>2, <2>5
<1> QED
  BY <1>2, <1>3, <1>4, <1>5, <1>6


-----------------------------------------------------------------------------
(* Where the loop of removeFinishedJobs returns, how far a handler's one gets *)
(* (nobody else changes the table under it), and whom a pid in a local names. *)
MainDest    == Dest(Main)
HandlerDest == Dest(Handler)

MainReturns    == {"track", "addjob", "jobs", "fg", "bg", "kill", "quit kill"}
HandlerReturns == {"addjob", "scan"}

LoopsKnown ==
  /\ pc[Main] \in {"reap", "erase"} => after[Main] \in MainReturns
  /\ pc[Handler] = "reap" => after[Handler] \in HandlerReturns /\ idx[Handler] <= Len(jobs) + 1
  /\ idx[Handler] > 0

\* The entries of a table, without their order.
Entries(s) == {s[k] : k \in DOMAIN s}

\* A process with a name was forked.
Forked ==
  /\ \A e \in Entries(jobs) : proc[e.pid] # "free"
  /\ MainDest \in {"track", "addjob", "newjob", "setfg", "wait", "clear"} => proc[cmd.pid] # "free"
  /\ fg # NoPid => proc[fg] # "free"

ForegroundKnown ==
  /\ fg # NoPid => (MainDest \in {"wait", "clear"} /\ fg = cmd.pid) \/ proc[fg] = "reaped"
  /\ HandlerDest \in {"zstop", "addjob", "ckill"} => MainDest \in {"wait", "clear"} /\ fg = cmd.pid

Known == LoopsKnown /\ Forked /\ ForegroundKnown

\* One step of the main thread, which runs only when no handler does, and one
\* of the handler.
MainGoes(place, places) ==
  /\ MainDest = place /\ MainDest' \in places
  /\ HandlerDest = "idle" /\ HandlerDest' = "idle"
HandlerGoes(place, places) ==
  /\ HandlerDest = place /\ HandlerDest' \in places
  /\ MainDest' = MainDest

LEMMA MainCommands ==
  ASSUME TypeInv
  PROVE  /\ Arm => MainGoes("arm", Started)
         /\ Fork => MainGoes("fork", {"track", "addjob", "setfg"})
         /\ Track => MainGoes("track", {"addjob", "setfg"})
         /\ AddBackgroundJob => MainGoes("addjob", {"prompt", "newjob"})
         /\ InsertBackgroundJob => MainGoes("newjob", {"prompt"})
         /\ SetForeground => MainGoes("setfg", {"wait"})
         /\ Wait => MainGoes("wait", {"clear", "prompt"})
         /\ ClearForeground => MainGoes("clear", {"prompt"})
         /\ Jobs => MainGoes("jobs", {"prompt"})
         /\ Foreground => MainGoes("fg", {"setfg", "prompt"})
         /\ Background => MainGoes("bg", {"prompt"})
         /\ Kill => MainGoes("kill", {"prompt"})
         /\ QuitKill => MainGoes("quit kill", {"exited"})
<1> USE ThreadNames DEF MainGoes, MainDest, HandlerDest, Dest, MainAt, TypeInv, ControlTypes,
        Goto, CallReap, Return
<1>1. Arm => MainGoes("arm", Started)
  <2>1. \A op : Execute(op) => \E place \in Started : Dest(Main)' = place /\ Dest(Handler)' = Dest(Handler)
    BY DEF Execute, Started
  <2> QED
    BY <2>1 DEF Arm
<1>2. Fork => MainGoes("fork", {"track", "addjob", "setfg"})
  BY DEF Fork, AfterFork
<1>3. Track => MainGoes("track", {"addjob", "setfg"})
  BY DEF Track, AfterFork
<1>4. AddBackgroundJob => MainGoes("addjob", {"prompt", "newjob"})
  BY DEF AddBackgroundJob
<1>13. InsertBackgroundJob => MainGoes("newjob", {"prompt"})
  BY DEF InsertBackgroundJob
<1>5. SetForeground => MainGoes("setfg", {"wait"})
  BY DEF SetForeground
<1>6. Wait => MainGoes("wait", {"clear", "prompt"})
  BY DEF Wait
<1>7. ClearForeground => MainGoes("clear", {"prompt"})
  BY DEF ClearForeground
<1>8. Jobs => MainGoes("jobs", {"prompt"})
  BY DEF Jobs
<1>9. Foreground => MainGoes("fg", {"setfg", "prompt"})
  BY DEF Foreground
<1>10. Background => MainGoes("bg", {"prompt"})
  BY DEF Background
<1>11. Kill => MainGoes("kill", {"prompt"})
  BY DEF Kill
<1>12. QuitKill => MainGoes("quit kill", {"exited"})
  BY DEF QuitKill
<1> QED
  BY <1>1, <1>2, <1>3, <1>4, <1>5, <1>6, <1>7, <1>8, <1>9, <1>10, <1>11, <1>12, <1>13

LEMMA ReadGoes ==
  ASSUME TypeInv, NEW op, NEW arg, NEW sig, NEW timer, ReadCommand(op, arg, sig, timer)
  PROVE  MainGoes("prompt", IF timer = NoTimer THEN Started ELSE {"arm", "crashed"})
<1> USE ThreadNames DEF MainGoes, MainDest, HandlerDest, Dest, MainAt, TypeInv, ControlTypes, Goto, CallReap
<1>1. \A o : Execute(o) => \E place \in Started : Dest(Main)' = place /\ Dest(Handler)' = Dest(Handler)
  BY DEF Execute, Started
<1> QED
  BY <1>1 DEF ReadCommand

LEMMA HandlerMoves ==
  ASSUME TypeInv
  PROVE  /\ Poll("zpoll", "zstop") => HandlerGoes("zpoll", IF Alive(fg) THEN {"zstop"} ELSE {"idle"})
         /\ Poll("cpoll", "ckill") => HandlerGoes("cpoll", IF Alive(fg) THEN {"ckill"} ELSE {"idle"})
         /\ CtrlZStop => HandlerGoes("zstop", {"addjob"})
         /\ CtrlZAddJob => HandlerGoes("addjob", {"idle"})
         /\ CtrlCKill => HandlerGoes("ckill", {"idle"})
         /\ Scan => HandlerGoes("scan", {"scan", "timeoutkill", "rearm", "idle"})
         /\ TimeoutKill => HandlerGoes("timeoutkill", {"rearm"})
         /\ Rearm => HandlerGoes("rearm", {"idle"})
         /\ DeliverAlarm => HandlerGoes("idle", {"scan"})
         /\ \A place \in {"zpoll", "cpoll"} : Key(place) => HandlerGoes("idle", {place})
<1> USE ThreadNames DEF HandlerGoes, MainDest, HandlerDest, Dest, HandlerAt, TypeInv, ControlTypes,
        Goto, CallReap
<1>1. Poll("zpoll", "zstop") => HandlerGoes("zpoll", IF Alive(fg) THEN {"zstop"} ELSE {"idle"})
  BY DEF Poll
<1>2. Poll("cpoll", "ckill") => HandlerGoes("cpoll", IF Alive(fg) THEN {"ckill"} ELSE {"idle"})
  BY DEF Poll
<1>3. CtrlZStop => HandlerGoes("zstop", {"addjob"})
  BY DEF CtrlZStop
<1>4. CtrlZAddJob => HandlerGoes("addjob", {"idle"})
  BY DEF CtrlZAddJob
<1>5. CtrlCKill => HandlerGoes("ckill", {"idle"})
  BY DEF CtrlCKill
<1>6. Scan => HandlerGoes("scan", {"scan", "timeoutkill", "rearm", "idle"})
  BY DEF Scan
<1>7. TimeoutKill => HandlerGoes("timeoutkill", {"rearm"})
  BY DEF TimeoutKill
<1>8. Rearm => HandlerGoes("rearm", {"idle"})
  BY DEF Rearm
<1>9. DeliverAlarm => HandlerGoes("idle", {"scan"})
  BY DEF DeliverAlarm
<1>10. \A place \in {"zpoll", "cpoll"} : Key(place) => HandlerGoes("idle", {place})
  BY DEF Key
<1> QED
  BY <1>1, <1>2, <1>3, <1>4, <1>5, <1>6, <1>7, <1>8, <1>9, <1>10

\* A step of removeFinishedJobs stays bound for the same place, unless the
\* shell crashes: the main thread past the end of the list.
LEMMA ReapGoes ==
  ASSUME TypeInv, LoopsKnown
  PROVE  /\ Reap(Main) \/ EraseFinished =>
              /\ MainDest \in MainReturns /\ HandlerDest = "idle" /\ HandlerDest' = "idle"
              /\ MainDest' = MainDest \/ (MainDest' = "crashed" /\ UNCHANGED <<proc, jobs>>)
         /\ Reap(Handler) => /\ HandlerDest \in HandlerReturns
                             /\ HandlerDest' = HandlerDest /\ MainDest' = MainDest
<1>1. Len(jobs) \in Nat /\ idx[Handler] \in Nat
  BY LenProperties, ThreadNames DEF TypeInv, TableType, ControlTypes
<1>2. pc[Handler] = "reap" => ~(idx[Handler] > Len(jobs) + 1)
  BY <1>1 DEF LoopsKnown
<1>3. Reap(Handler) => /\ pc[Handler] = "reap"
                       /\ LeaveReap(Handler) \/ UNCHANGED <<pc, after>>
  BY <1>2, ThreadNames DEF Reap
<1>4. Reap(Handler) => /\ HandlerDest \in HandlerReturns
                       /\ HandlerDest' = HandlerDest /\ MainDest' = MainDest
  BY <1>3, ThreadNames DEF MainDest, HandlerDest, Dest, TypeInv, ControlTypes, Goto, LeaveReap,
       HandlerReturns, LoopsKnown
<1>5. Reap(Main) => /\ MainDest \in MainReturns /\ HandlerDest = "idle" /\ HandlerDest' = "idle"
                    /\ MainDest' = MainDest \/ (MainDest' = "crashed" /\ UNCHANGED <<proc, jobs>>)
  <2>1. Reap(Main) =>
          /\ pc[Main] = "reap" /\ pc[Handler] = "idle"
          /\ \/ Goto(Main, "crashed") /\ UNCHANGED <<proc, jobs>>
             \/ LeaveReap(Main)
             \/ (pc' = pc \/ Goto(Main, "erase")) /\ after' = after
    BY ThreadNames DEF Reap
  <2> QED
    BY <2>1, ThreadNames DEF MainDest, HandlerDest, Dest, TypeInv, ControlTypes, Goto, LeaveReap,
         MainReturns, LoopsKnown
<1>6. EraseFinished => /\ MainDest \in MainReturns /\ HandlerDest = "idle" /\ HandlerDest' = "idle"
                       /\ MainDest' = MainDest \/ (MainDest' = "crashed" /\ UNCHANGED <<proc, jobs>>)
  BY ThreadNames DEF EraseFinished, MainAt, MainDest, HandlerDest, Dest, TypeInv, ControlTypes, Goto,
       MainReturns, LoopsKnown, kernelVars
<1> QED
  BY <1>4, <1>5, <1>6

\* A step of removeFinishedJobs reaps at most one child, a dead one.
LEMMA ReapReaps ==
  ASSUME NEW t \in Threads, Reap(t)
  PROVE  proc' = proc \/ \E p \in {jobs[k].pid : k \in DOMAIN jobs} :
                          proc[p] = "zombie" /\ proc' = [proc EXCEPT ![p] = "reaped"]
BY DEF Reap

\* A signal that fg, bg or kill sends goes to a listed process.
LEMMA CommandSignals ==
  ASSUME Foreground \/ Background \/ Kill
  PROVE  proc' = proc \/ \E k \in DOMAIN jobs, sig \in AllSignals \cup {cmd.sig} :
                          proc' = [proc EXCEPT ![jobs[k].pid] = Signalled(@, sig)]
<1>1. \A k \in DOMAIN jobs : Resume(k) =>
        proc' = proc \/ proc' = [proc EXCEPT ![jobs[k].pid] = Signalled(@, "SIGCONT")]
  BY DEF Resume
<1>2. CASE Foreground
  <2>1. proc' = proc \/ \E k \in DOMAIN jobs : Resume(k)
    BY <1>2 DEF Foreground, LastPosition, PositionOf, FirstWithId
  <2> QED
    BY <1>1, <2>1 DEF AllSignals
<1>3. CASE Background
  <2>1. proc' = proc \/ \E k \in DOMAIN jobs : Resume(k)
    BY <1>3 DEF Background, LastStopped, PositionOf, FirstWithId
  <2> QED
    BY <1>1, <2>1 DEF AllSignals
<1>4. CASE Kill
  BY <1>4 DEF Kill, PositionOf, FirstWithId
<1> QED
  BY <1>2, <1>3, <1>4

\* No step brings a process back from the grave, and none unforks it.
LEMMA ProcessesOnce ==
  ASSUME TypeInv, [Next]_vars, NEW p \in Pids
  PROVE  /\ proc[p] = "reaped" => proc'[p] = "reaped"
         /\ proc[p] # "free" => proc'[p] # "free"
<1> USE DEF TypeInv, KernelTypes
<1>1. \A s \in ProcStates : \A sig :
        (s = "reaped" => Signalled(s, sig) = "reaped") /\ (s # "free" => Signalled(s, sig) # "free")
  BY DEF Signalled, ProcStates
<1>2. CASE ReadAny \/ UNCHANGED vars
  BY <1>2 DEF ReadAny, ReadCommand, kernelVars, vars
<1>3. CASE MainStep
  <2>1. CASE Arm \/ Track \/ AddBackgroundJob \/ InsertBackgroundJob \/ EraseFinished \/ SetForeground \/ ClearForeground \/ Jobs
    BY <2>1 DEF Arm, Track, AddBackgroundJob, InsertBackgroundJob, EraseFinished, SetForeground, ClearForeground, Jobs, kernelVars
  <2>2. CASE Fork \/ Wait \/ QuitKill
    BY <2>2 DEF Fork, Wait, QuitKill
  <2>3. CASE Foreground \/ Background \/ Kill
    <3>1. PICK k, sig : proc' = proc \/ proc' = [proc EXCEPT ![jobs[k].pid] = Signalled(@, sig)]
      BY <2>3, CommandSignals
    <3> QED
      BY <1>1, <3>1
  <2>6. CASE Reap(Main)
    BY <2>6, ReapReaps, ThreadNames
  <2> QED
    BY <1>3, <2>1, <2>2, <2>3, <2>6 DEF MainStep
<1>4. CASE HandlerStep
  <2>1. CASE Rearm
    BY <2>1 DEF Rearm
  <2>2. CASE Poll("zpoll", "zstop") \/ Poll("cpoll", "ckill")
    BY <2>2 DEF Poll
  <2>3. CASE CtrlZStop \/ CtrlCKill \/ TimeoutKill
    BY <2>3, <1>1 DEF CtrlZStop, CtrlCKill, TimeoutKill
  <2>4. CASE CtrlZAddJob
    BY <2>4 DEF CtrlZAddJob, kernelVars
  <2>5. CASE Scan
    BY <2>5 DEF Scan
  <2>6. CASE Reap(Handler)
    BY <2>6, ReapReaps, ThreadNames
  <2> QED
    BY <1>4, <2>1, <2>2, <2>3, <2>4, <2>5, <2>6 DEF HandlerStep
<1>5. CASE Environment
  BY <1>5 DEF Environment, Key, DeliverAlarm, Tick, Exit, StrayStop, kernelVars
<1> QED
  BY <1>2, <1>3, <1>4, <1>5 DEF Next

LEMMA LoopsStep == ASSUME TypeInv, LoopsKnown, [Next]_vars PROVE LoopsKnown'
<1>0. Len(jobs) \in Nat /\ Len(jobs') \in Nat
  BY NextTypes, LenProperties DEF TypeInv, TableType
<1> DEFINE MainCalls == \/ \E place : place \notin {"reap", "erase"} /\ Goto(Main, place) /\ UNCHANGED <<idx, after>>
                        \/ \E place \in MainReturns : CallReap(Main, place)
<1>1. ASSUME MainCalls, pc[Handler] = "idle" PROVE LoopsKnown'
  BY <1>1, ThreadNames DEF LoopsKnown, TypeInv, ControlTypes, Goto, CallReap
<1>2. \A op : Execute(op) => MainCalls
  BY DEF Execute, MainReturns
<1>3. AfterFork => MainCalls
  BY DEF AfterFork, MainReturns
<1>4. CASE ReadAny
  <2>1. MainCalls /\ pc[Handler] = "idle"
    BY <1>2, <1>4 DEF ReadAny, ReadCommand, MainAt
  <2> QED
    BY <1>1, <2>1
<1>5. CASE Arm \/ Fork \/ Track
  <2>1. MainCalls /\ pc[Handler] = "idle"
    BY <1>2, <1>3, <1>5 DEF Arm, Fork, Track, MainAt, MainReturns
  <2> QED
    BY <1>1, <2>1
<1>6. CASE AddBackgroundJob \/ InsertBackgroundJob \/ SetForeground \/ Wait \/ ClearForeground \/ Jobs \/ Foreground
           \/ Background \/ Kill \/ QuitKill
  <2>1. MainCalls /\ pc[Handler] = "idle"
    BY <1>6 DEF AddBackgroundJob, InsertBackgroundJob, SetForeground, Wait, ClearForeground, Jobs, Foreground,
                Background, Kill, QuitKill, MainAt, Return
  <2> QED
    BY <1>1, <2>1
<1>7. CASE Reap(Main)
  <2>1. pc[Handler] = "idle" /\ pc[Main] = "reap"
    BY <1>7 DEF Reap
  <2>2. \/ Goto(Main, "crashed") /\ UNCHANGED <<idx, after>>
        \/ LeaveReap(Main)
        \/ /\ pc' = pc \/ Goto(Main, "erase")
           /\ after' = after
           /\ idx' = idx \/ \E n : idx' = [idx EXCEPT ![Main] = n]
    BY <1>7, ThreadNames DEF Reap
  <2>3. pc'[Handler] = "idle" /\ idx'[Handler] = idx[Handler]
    BY <2>1, <2>2, ThreadNames DEF Goto, LeaveReap, TypeInv, ControlTypes
  <2>4. pc'[Main] \in {"reap", "erase"} => after'[Main] \in MainReturns
    BY <2>1, <2>2, ThreadNames DEF Goto, LeaveReap, LoopsKnown, TypeInv, ControlTypes, MainReturns
  <2> QED
    BY <2>3, <2>4 DEF LoopsKnown
<1>9. CASE EraseFinished
  <2>1. /\ pc[Main] = "erase" /\ pc[Handler] = "idle"
        /\ pc' = [pc EXCEPT ![Main] = "crashed"] \/ pc' = [pc EXCEPT ![Main] = "reap"]
        /\ idx' = idx /\ after' = after
    BY <1>9 DEF EraseFinished, MainAt, Goto
  <2> QED
    BY <2>1, ThreadNames DEF LoopsKnown, TypeInv, ControlTypes
<1>8. CASE Reap(Handler)
  <2>1. \/ LeaveReap(Handler)
        \/ UNCHANGED <<pc, after>> /\ idx[Handler] \in DOMAIN jobs /\
           \/ idx' = idx /\ jobs' = RemoveAt(jobs, idx[Handler])
           \/ idx' = [idx EXCEPT ![Handler] = @ + 1] /\ jobs' = jobs
    <3>1. pc[Handler] = "reap" /\ idx[Handler] \in Nat
      BY <1>8, ThreadNames DEF Reap, TypeInv, ControlTypes
    <3>2. ~(idx[Handler] > Len(jobs) + 1)
      BY <1>0, <3>1 DEF LoopsKnown
    <3> QED
      BY <1>8, <3>2, ThreadNames DEF Reap, Erase
  <2>2. CASE LeaveReap(Handler)
    BY <2>2, <1>8, ThreadNames DEF Reap, Goto, LeaveReap, LoopsKnown, TypeInv, ControlTypes, HandlerReturns
  <2>3. CASE UNCHANGED <<pc, after, idx>> /\ idx[Handler] \in DOMAIN jobs /\ jobs' = RemoveAt(jobs, idx[Handler])
    <3>1. idx[Handler] \in 1..Len(jobs) /\ Len(jobs') = Len(jobs) - 1
      BY <2>3, LenProperties, RemoveAtProperties DEF TypeInv, TableType
    <3>2. idx[Handler] <= Len(jobs') + 1
      BY <1>0, <3>1
    <3> QED
      BY <2>3, <3>2 DEF LoopsKnown
  <2>4. CASE /\ UNCHANGED <<pc, after, jobs>> /\ idx[Handler] \in DOMAIN jobs
             /\ idx' = [idx EXCEPT ![Handler] = @ + 1]
    <3>1. idx[Handler] \in 1..Len(jobs) /\ idx'[Handler] = idx[Handler] + 1
      BY <2>4, LenProperties, ThreadNames DEF TypeInv, TableType, ControlTypes
    <3>2. idx'[Handler] <= Len(jobs) + 1 /\ idx'[Handler] > 0
      BY <1>0, <3>1
    <3> QED
      BY <2>4, <3>2 DEF LoopsKnown
  <2> QED
    BY <2>1, <2>2, <2>3, <2>4
<1>10. ASSUME \E place : place # "reap" /\ Goto(Handler, place), UNCHANGED after, idx'[Handler] > 0
       PROVE  LoopsKnown'
  BY <1>10, ThreadNames DEF LoopsKnown, TypeInv, ControlTypes, Goto
<1>11. ASSUME \E place \in HandlerReturns : CallReap(Handler, place) PROVE LoopsKnown'
  <2>1. 1 <= Len(jobs') + 1 /\ 1 > 0
    BY <1>0
  <2> QED
    BY <1>11, <2>1, ThreadNames DEF LoopsKnown, TypeInv, ControlTypes, CallReap
<1>12. CASE HandlerStep /\ ~Reap(Handler)
  <2>1. CASE CtrlZStop
    BY <2>1, <1>11 DEF CtrlZStop, HandlerReturns
  <2>2. CASE Poll("zpoll", "zstop") \/ Poll("cpoll", "ckill") \/ CtrlZAddJob \/ CtrlCKill \/ Rearm
    BY <2>2, <1>10 DEF Poll, CtrlZAddJob, CtrlCKill, Rearm, LoopsKnown
  <2>3. CASE TimeoutKill
    BY <2>3, <1>10, ThreadNames DEF TimeoutKill, TypeInv, ControlTypes
  <2>4. CASE Scan
    <3>1. \/ pc' = pc
          \/ \E place \in {"rearm", "timeoutkill", "idle"} : Goto(Handler, place)
      BY <2>4 DEF Scan
    <3>2. /\ idx'[Handler] > 0 /\ idx'[Handler] \in Nat
      BY <2>4, ThreadNames DEF Scan, LoopsKnown, TypeInv, ControlTypes
    <3>3. after' = after /\ pc[Handler] = "scan" /\ idx'[Main] = idx[Main]
      BY <2>4, ThreadNames DEF Scan, HandlerAt, TypeInv, ControlTypes
    <3> QED
      BY <1>10, <3>1, <3>2, <3>3 DEF LoopsKnown
  <2> QED
    BY <1>12, <2>1, <2>2, <2>3, <2>4 DEF HandlerStep
<1>13. CASE Environment
  <2>1. CASE DeliverAlarm
    BY <2>1, <1>11 DEF DeliverAlarm, HandlerReturns
  <2>2. CASE Key("zpoll") \/ Key("cpoll")
    BY <2>2, <1>10 DEF Key, LoopsKnown
  <2>3. CASE Tick \/ \E p \in Pids : Exit(p) \/ StrayStop(p)
    BY <2>3 DEF Tick, Exit, StrayStop, ctlVars, shellVars, LoopsKnown
  <2> QED
    BY <1>13, <2>1, <2>2, <2>3 DEF Environment
<1>14. CASE UNCHANGED vars
  BY <1>14 DEF vars, LoopsKnown
<1> QED
  BY <1>4, <1>5, <1>6, <1>7, <1>8, <1>9, <1>12, <1>13, <1>14 DEF Next, MainStep


\* Where the entries, the foreground pid and the command's pid come from.
LEMMA EntryOrigin ==
  ASSUME TypeInv, [Next]_vars, NEW d \in Entries(jobs')
  PROVE  \/ \E e \in Entries(jobs) : e.pid = d.pid
         \/ InsertBackgroundJob /\ MainDest = "newjob" /\ d.pid = cmd.pid
         \/ CtrlZAddJob /\ HandlerDest = "addjob" /\ d.pid = fg
<1>0. jobs \in Seq(JobRec) /\ jobs' \in Seq(JobRec) /\ maxId \in Nat
  BY NextTypes DEF TypeInv, TableType
<1>1. PICK l \in DOMAIN jobs' : d = jobs'[l]
  BY DEF Entries
<1>2. CASE Thins(jobs, jobs')
  BY <1>0, <1>1, <1>2, ThinsKeeps DEF Keeps, Entries
<1>3. CASE jobs' = jobs
  BY <1>3
<1>4. CASE CtrlZAddJob /\ Insert(maxId + 1, fg, "STOPPED")
  <2>1. fg \in Pids /\ HandlerDest = "addjob" /\ maxId + 1 \in Nat \ {0}
    BY <1>0, <1>4, HandlerMoves DEF HandlerGoes, TypeInv, HandlerLocals, HandlerDest
  <2>2. (l \in DOMAIN jobs /\ jobs'[l] = jobs[l]) \/ jobs'[l].pid = fg
    BY <1>1, <1>4, <2>1, InsertKeeps
  <2> QED
    BY <1>1, <1>4, <2>1, <2>2 DEF Entries
<1>5. CASE InsertBackgroundJob
  <2>1. cmd.pid \in Pids /\ MainDest = "newjob" /\ cmd.arg \in Nat \ {0}
    BY <1>5, MainCommands DEF MainGoes, TypeInv, MainLocals, MainDest, ControlTypes, CmdRec
  <2>2. Insert(cmd.arg, cmd.pid, "RUNNING")
    BY <1>5 DEF InsertBackgroundJob
  <2>3. (l \in DOMAIN jobs /\ jobs'[l] = jobs[l]) \/ jobs'[l].pid = cmd.pid
    BY <1>1, <2>1, <2>2, InsertKeeps
  <2> QED
    BY <1>1, <1>5, <2>1, <2>3 DEF Entries
<1> QED
  BY <1>2, <1>3, <1>4, <1>5, StepTable

\* A step of the handler or of the environment leaves the command alone.
LEMMA AsideStep ==
  ASSUME TypeInv, LoopsKnown, HandlerStep \/ Environment \/ UNCHANGED vars
  PROVE  cmd' = cmd /\ MainDest' = MainDest
<1>1. CASE HandlerStep
  <2>1. CASE Reap(Handler)
    BY <2>1, ReapGoes DEF Reap
  <2>2. CASE ~Reap(Handler)
    BY <1>1, <2>2, HandlerMoves DEF HandlerStep, HandlerGoes, Poll, CtrlZStop, CtrlZAddJob,
       CtrlCKill, Scan, TimeoutKill, Rearm
  <2> QED
    BY <2>1, <2>2
<1>2. CASE Environment
  <2>1. CASE DeliverAlarm \/ Key("zpoll") \/ Key("cpoll")
    BY <2>1, HandlerMoves DEF HandlerGoes, DeliverAlarm, Key
  <2>2. CASE Tick \/ \E p \in Pids : Exit(p) \/ StrayStop(p)
    BY <2>2 DEF Tick, Exit, StrayStop, ctlVars, MainDest, Dest
  <2> QED
    BY <1>2, <2>1, <2>2 DEF Environment
<1>3. CASE UNCHANGED vars
  BY <1>3 DEF vars, MainDest, Dest
<1> QED
  BY <1>1, <1>2, <1>3
\* Nor does it move the main thread, and it is in the alarm's handler only if
\* it was there before or the alarm has just arrived.
AlarmPlaces == {"scan", "timeoutkill", "rearm"}

LEMMA AsideMoves ==
  ASSUME TypeInv, LoopsKnown, HandlerStep \/ Environment \/ UNCHANGED vars
  PROVE  /\ pc'[Main] = pc[Main]
         /\ HandlerDest' \in AlarmPlaces => HandlerDest \in AlarmPlaces \/ DeliverAlarm
<1>1. CASE HandlerStep
  <2>1. CASE Reap(Handler)
    <3>1. HandlerDest' = HandlerDest
      BY <2>1, ReapGoes
    <3>2. pc' = pc \/ \E place : pc' = [pc EXCEPT ![Handler] = place]
      BY <2>1, ThreadNames DEF Reap, Goto, LeaveReap
    <3> QED
      BY <3>1, <3>2, ThreadNames DEF TypeInv, ControlTypes
  <2>2. CASE ~Reap(Handler)
    <3>1. HandlerDest' \in AlarmPlaces => HandlerDest \in AlarmPlaces
      BY <1>1, <2>2, HandlerMoves DEF HandlerStep, HandlerGoes, AlarmPlaces
    <3>2. pc' = pc \/ \E place : pc' = [pc EXCEPT ![Handler] = place]
      BY <1>1, <2>2 DEF HandlerStep, Poll, CtrlZStop, CtrlZAddJob, CtrlCKill, Scan, TimeoutKill, Rearm,
         Goto, CallReap
    <3> QED
      BY <3>1, <3>2, ThreadNames DEF TypeInv, ControlTypes
  <2> QED
    BY <2>1, <2>2
<1>2. CASE Environment
  <2>1. CASE DeliverAlarm
    BY <2>1, ThreadNames DEF DeliverAlarm, CallReap, TypeInv, ControlTypes
  <2>2. CASE Key("zpoll") \/ Key("cpoll")
    <3>1. HandlerDest' \notin AlarmPlaces
      BY <2>2, HandlerMoves DEF HandlerGoes, AlarmPlaces
    <3> QED
      BY <2>2, <3>1, ThreadNames DEF Key, Goto, TypeInv, ControlTypes
  <2>3. CASE Tick \/ \E p \in Pids : Exit(p) \/ StrayStop(p)
    BY <2>3 DEF Tick, Exit, StrayStop, ctlVars, HandlerDest, Dest
  <2> QED
    BY <1>2, <2>1, <2>2, <2>3 DEF Environment
<1>3. CASE UNCHANGED vars
  BY <1>3 DEF vars, HandlerDest, Dest
<1> QED
  BY <1>1, <1>2, <1>3


\* The pid of a command with a child: the one it had, a child just forked, or
\* that of the job fg brings to the foreground.
HasChild == MainDest \in {"track", "addjob", "newjob", "setfg", "wait", "clear"}

LEMMA CommandOrigin ==
  ASSUME TypeInv, LoopsKnown, [Next]_vars, HasChild'
  PROVE  \/ HasChild /\ cmd'.pid = cmd.pid
         \/ MainDest = "fork" /\ proc'[cmd'.pid] = "running"
         \/ MainDest = "fg" /\ \E e \in Entries(jobs) : cmd'.pid = e.pid
<1>1. CASE HandlerStep \/ Environment \/ UNCHANGED vars
  BY <1>1, AsideStep DEF HasChild
<1>2. CASE ReadAny
  BY <1>2, ReadGoes DEF ReadAny, MainGoes, HasChild, Started
<1>3. CASE MainStep
  <2>1. cmd \in CmdRec
    BY DEF TypeInv, ControlTypes
  <2>2. CASE Arm \/ InsertBackgroundJob \/ ClearForeground \/ Jobs \/ Background \/ Kill \/ QuitKill
    BY <2>2, MainCommands DEF MainGoes, HasChild, Started
  <2>3. CASE Fork
    <3>1. MainDest = "fork" /\ \E p \in Pids : proc' = [proc EXCEPT ![p] = "running"] /\ cmd' = [cmd EXCEPT !.pid = p]
      BY <2>3, MainCommands DEF MainGoes, Fork
    <3> QED
      BY <2>1, <3>1 DEF CmdRec, TypeInv, KernelTypes
  <2>8. CASE AddBackgroundJob
    <3>1. MainDest = "addjob" /\ (MainDest' = "prompt" \/ cmd' = [cmd EXCEPT !.arg = NextJobId])
      BY <2>8, MainCommands, ThreadNames DEF MainGoes, AddBackgroundJob, Return, Goto, MainDest, Dest, TypeInv, ControlTypes
    <3> QED
      BY <2>1, <3>1 DEF CmdRec, HasChild
  <2>4. CASE Track \/ SetForeground
    BY <2>4, MainCommands DEF MainGoes, HasChild, Track, SetForeground
  <2>5. CASE Wait
    <3>1. MainDest = "wait" /\ (MainDest' = "prompt" \/ cmd' = [cmd EXCEPT !.stopped = proc[cmd.pid] = "stopped"])
      BY <2>5, MainCommands, ThreadNames DEF MainGoes, Wait, Return, Goto, MainDest, Dest, TypeInv, ControlTypes
    <3> QED
      BY <2>1, <3>1 DEF CmdRec, HasChild
  <2>6. CASE Foreground
    <3>1. MainDest = "fg" /\ MainDest' \in {"setfg", "prompt"}
      BY <2>6, MainCommands DEF MainGoes
    <3>2. MainDest' = "prompt" \/
          \E k \in DOMAIN jobs : cmd' = [cmd EXCEPT !.arg = jobs[k].id, !.pid = jobs[k].pid]
      BY <2>6, ThreadNames DEF Foreground, LastPosition, PositionOf, FirstWithId, Return, Goto, MainDest, Dest,
         TypeInv, ControlTypes
    <3> QED
      BY <2>1, <3>1, <3>2 DEF CmdRec, HasChild, Entries
  <2>7. CASE Reap(Main) \/ EraseFinished
    BY <2>7, ReapGoes DEF Reap, EraseFinished, HasChild
  <2> QED
    BY <1>3, <2>2, <2>3, <2>4, <2>5, <2>6, <2>7, <2>8 DEF MainStep
<1> QED
  BY <1>1, <1>2, <1>3 DEF Next

LEMMA ForegroundOrigin ==
  ASSUME TypeInv, [Next]_vars, fg' # NoPid
  PROVE  fg' = fg \/ (MainDest = "setfg" /\ MainDest' = "wait" /\ fg' = cmd.pid)
<1>1. CASE ReadAny \/ Environment \/ UNCHANGED vars
  BY <1>1 DEF ReadAny, ReadCommand, Environment, Key, DeliverAlarm, Tick, Exit, StrayStop, shellVars, vars
<1>2. CASE MainStep
  <2>1. CASE SetForeground
    BY <2>1, MainCommands DEF SetForeground, MainGoes
  <2>2. CASE ~SetForeground
    BY <1>2, <2>2 DEF MainStep, Arm, Fork, Track, AddBackgroundJob, InsertBackgroundJob, SetStatus, Insert, EraseFinished, Wait, ClearForeground, ForegroundAfterWait,
      Jobs, Foreground, Background, Kill, QuitKill, Reap, shellVars
  <2> QED
    BY <2>1, <2>2
<1>3. CASE HandlerStep
  BY <1>3 DEF HandlerStep, Poll, CtrlZStop, CtrlZAddJob, CtrlCKill, Scan, TimeoutKill, Rearm, Reap, shellVars
<1> QED
  BY <1>1, <1>2, <1>3 DEF Next

LEMMA ForkedStep == ASSUME TypeInv, LoopsKnown, Forked, [Next]_vars PROVE Forked'
<1>1. ASSUME NEW p \in Pids, proc[p] # "free" PROVE proc'[p] # "free"
  BY <1>1, ProcessesOnce
<1>2. \A e \in Entries(jobs) : e.pid \in Pids /\ proc[e.pid] # "free"
  <2>1. \A e \in Entries(jobs) : e.pid \in Pids
    BY EntriesTyped DEF Entries, TypeInv, TableType
  <2> QED
    BY <2>1 DEF Forked
<1>3. HasChild => cmd.pid \in Pids /\ proc[cmd.pid] # "free"
  BY DEF HasChild, Forked, TypeInv, MainLocals, MainDest
<1>4. fg # NoPid => fg \in Pids /\ proc[fg] # "free"
  BY DEF Forked, TypeInv, ShellTypes
<1>5. HandlerDest = "addjob" => fg # NoPid
  BY ConstantAssumption DEF TypeInv, HandlerLocals, HandlerDest
<1>6. ASSUME NEW d \in Entries(jobs') PROVE proc'[d.pid] # "free"
  BY <1>1, <1>2, <1>3, <1>4, <1>5, EntryOrigin DEF HasChild
<1>7. HasChild' => proc'[cmd'.pid] # "free"
  BY <1>1, <1>2, <1>3, CommandOrigin
<1>8. fg' # NoPid => proc'[fg'] # "free"
  BY <1>1, <1>3, <1>4, ForegroundOrigin DEF HasChild
<1> QED
  BY <1>6, <1>7, <1>8 DEF Forked, HasChild

LEMMA ForegroundKnownStep == ASSUME TypeInv, LoopsKnown, ForegroundKnown, [Next]_vars PROVE ForegroundKnown'
<1>1. fg # NoPid /\ proc[fg] = "reaped" => proc'[fg] = "reaped"
  BY ProcessesOnce DEF TypeInv, ShellTypes
<1>2. CASE HandlerStep \/ Environment \/ UNCHANGED vars
  <2>1. cmd' = cmd /\ MainDest' = MainDest
    BY <1>2, AsideStep
  <2>2. fg' # NoPid => fg' = fg
    BY <1>2, ForegroundOrigin, <2>1
  <2>3. fg' # NoPid => (MainDest' \in {"wait", "clear"} /\ fg' = cmd'.pid) \/ proc'[fg'] = "reaped"
    BY <1>1, <2>1, <2>2 DEF ForegroundKnown
  <2>4. HandlerDest' \in {"zstop", "addjob", "ckill"} =>
          fg' = fg /\ (HandlerDest \in {"zstop", "addjob", "ckill"} \/ Alive(fg))
    <3>1. CASE HandlerStep
      <4>1. CASE Reap(Handler)
        BY <4>1, ReapGoes DEF Reap
      <4>2. CASE ~Reap(Handler)
        BY <3>1, <4>2, HandlerMoves DEF HandlerStep, HandlerGoes, Poll, CtrlZStop, CtrlZAddJob,
           CtrlCKill, Scan, TimeoutKill, Rearm, shellVars
      <4> QED
        BY <4>1, <4>2
    <3>2. CASE Environment
      <4>1. CASE DeliverAlarm \/ Key("zpoll") \/ Key("cpoll")
        BY <4>1, HandlerMoves DEF HandlerGoes, DeliverAlarm, Key
      <4>2. CASE Tick \/ \E p \in Pids : Exit(p) \/ StrayStop(p)
        BY <4>2 DEF Tick, Exit, StrayStop, ctlVars, shellVars, HandlerDest, Dest
      <4> QED
        BY <3>2, <4>1, <4>2 DEF Environment
    <3>3. CASE UNCHANGED vars
      BY <3>3 DEF vars, HandlerDest, Dest
    <3> QED
      BY <1>2, <3>1, <3>2, <3>3
  <2>5. HandlerDest' \in {"zstop", "addjob", "ckill"} => MainDest \in {"wait", "clear"} /\ fg = cmd.pid
    <3>1. Alive(fg) /\ fg # NoPid => MainDest \in {"wait", "clear"} /\ fg = cmd.pid
      BY DEF Alive, ForegroundKnown
    <3>2. HandlerDest' \in {"zstop", "addjob", "ckill"} => fg # NoPid
      BY <2>4, NextTypes, ConstantAssumption DEF TypeInv, HandlerLocals, HandlerDest
    <3> QED
      BY <2>4, <3>1, <3>2 DEF ForegroundKnown
  <2> QED
    BY <2>1, <2>3, <2>4, <2>5 DEF ForegroundKnown
<1>3. CASE ReadAny \/ MainStep
  <2>1. HandlerDest' = "idle"
    BY <1>3, ReadGoes, MainCommands, ReapGoes DEF ReadAny, MainStep, MainGoes
  <2>2. fg' # NoPid => (MainDest' \in {"wait", "clear"} /\ fg' = cmd'.pid) \/ proc'[fg'] = "reaped"
    <3>1. CASE ReadAny
      BY <3>1, <1>1, ReadGoes DEF ReadAny, ReadCommand, MainGoes, ForegroundKnown, shellVars
    <3>2. CASE SetForeground
      BY <3>2, MainCommands DEF SetForeground, MainGoes
    <3>3. CASE ClearForeground
      BY <3>3 DEF ClearForeground, ForegroundAfterWait
    <3>4. CASE Wait
      <4>1. MainDest = "wait" /\ fg' = fg
        BY <3>4, MainCommands DEF MainGoes, Wait, shellVars
      <4>2. proc[cmd.pid] = "reaped" \/ (MainDest' = "clear" /\ cmd'.pid = cmd.pid)
        BY <3>4, ThreadNames DEF Wait, Goto, MainDest, Dest, TypeInv, ControlTypes, CmdRec
      <4> QED
        BY <1>1, <4>1, <4>2 DEF ForegroundKnown
    <3>5. CASE Arm \/ Fork \/ Track \/ AddBackgroundJob \/ InsertBackgroundJob \/ Jobs \/ Foreground \/ Background
               \/ Kill \/ QuitKill
      <4>1. MainDest \notin {"wait", "clear"}
        BY <3>5, MainCommands DEF MainGoes
      <4>2. fg' = fg
        BY <3>5 DEF Arm, Fork, Track, AddBackgroundJob, InsertBackgroundJob, Jobs, Foreground, Background, Kill, QuitKill, shellVars
      <4> QED
        BY <1>1, <4>1, <4>2 DEF ForegroundKnown
    <3>6. CASE Reap(Main) \/ EraseFinished
      <4>1. MainDest \notin {"wait", "clear"} /\ fg' = fg
        BY <3>6, ReapGoes DEF Reap, EraseFinished, MainReturns
      <4> QED
        BY <1>1, <4>1 DEF ForegroundKnown
    <3> QED
      BY <1>3, <3>1, <3>2, <3>3, <3>4, <3>5, <3>6 DEF MainStep
  <2> QED
    BY <2>1, <2>2 DEF ForegroundKnown
<1> QED
  BY <1>2, <1>3 DEF Next


-----------------------------------------------------------------------------
(* The table in order.  An alarm that interrupts the main loop between the    *)
(* id of a new entry and the entry is in the history; one that has not come   *)
(* leaves the handlers of the keys, which act on a foreground command only.   *)
Uninterrupted == \A place \in Fragile :
  pc[Main] = place /\ place \notin raced => HandlerDest \notin AlarmPlaces

LEMMA UninterruptedStep == ASSUME TypeInv, LoopsKnown, Uninterrupted, [Next]_vars PROVE Uninterrupted'
<1> SUFFICES ASSUME NEW place \in Fragile, pc'[Main] = place, place \notin raced'
             PROVE  HandlerDest' \notin AlarmPlaces
  BY DEF Uninterrupted
<1>1. CASE ReadAny \/ MainStep
  <2>1. HandlerDest' = "idle"
    BY <1>1, ReadGoes, MainCommands, ReapGoes DEF ReadAny, MainStep, MainGoes
  <2> QED
    BY <2>1 DEF AlarmPlaces
<1>2. CASE HandlerStep \/ Environment \/ UNCHANGED vars
  <2>1. pc[Main] = place
    BY <1>2, AsideMoves
  <2>2. ~DeliverAlarm /\ place \notin raced
    BY <2>1, HistoryStep
  <2> QED
    BY <1>2, <2>1, <2>2, AsideMoves DEF Uninterrupted
<1> QED
  BY <1>1, <1>2 DEF Next

\* At a fragile place that no alarm has interrupted, the loop of
\* removeFinishedJobs is at rest in every handler.
LEMMA FragileAlone ==
  ASSUME TypeInv, Known, Uninterrupted, NEW place \in Fragile, pc[Main] = place, place \notin raced
  PROVE  pc[Handler] # "reap" /\ HandlerDest \notin AlarmPlaces \cup {"addjob"}
<1>1. MainDest \notin {"wait", "clear"}
  BY ThreadNames DEF Known, LoopsKnown, MainReturns, MainDest, Dest, Fragile
<1>2. HandlerDest \notin AlarmPlaces \cup {"addjob"}
  BY <1>1 DEF Known, ForegroundKnown, Uninterrupted
<1> QED
  BY <1>2 DEF Known, LoopsKnown, HandlerReturns, AlarmPlaces, HandlerDest, Dest

\* No process is listed twice, and the one about to be listed not at all; the
\* ids are in order and the next one is the new entry's.
Unlisted(s, p) == \A k \in DOMAIN s : s[k].pid # p
TableInv ==
  /\ PidsDistinct(jobs)
  /\ pc[Main] = "newjob" => Unlisted(jobs, cmd.pid)
  /\ "newjob" \notin raced => /\ IdsIncrease(jobs, maxId)
                              /\ pc[Main] = "newjob" => cmd.arg = maxId + 1

IInv ==
  /\ TypeInv
  /\ raced \subseteq Fragile
  /\ Known
  /\ Uninterrupted
  /\ TableInv

\* How a step comes to "newjob", and what it does to the command there.
LEMMA NewJobStep ==
  ASSUME IInv, [Next]_vars, pc'[Main] = "newjob"
  PROVE  \/ /\ pc[Main] = "newjob" /\ cmd' = cmd
            /\ HandlerStep \/ Environment \/ UNCHANGED vars
         \/ /\ Unlisted(jobs, cmd.pid) /\ cmd' = [cmd EXCEPT !.arg = maxId + 1]
            /\ UNCHANGED <<jobs, maxId>>
<1> USE DEF IInv, Known
<1>1. CASE HandlerStep \/ Environment \/ UNCHANGED vars
  BY <1>1, AsideMoves, AsideStep
<1>2. CASE ReadAny \/ MainStep
  <2>1. MainDest' = "newjob"
    BY DEF MainDest, Dest
  <2>2. AddBackgroundJob
    BY <1>2, <2>1, ReadGoes, MainCommands, ReapGoes
       DEF ReadAny, MainStep, MainGoes, Started, MainReturns
  <2> QED
    BY <2>2, ThreadNames DEF AddBackgroundJob, Return, Goto, TypeInv, ControlTypes, NextJobId, IsListed, Unlisted
<1> QED
  BY <1>1, <1>2 DEF Next

LEMMA TableStep == ASSUME IInv, [Next]_vars PROVE TableInv'
<1>1. /\ jobs \in Seq(JobRec) /\ jobs' \in Seq(JobRec) /\ maxId \in Nat
      /\ TypeInv /\ TypeInv' /\ Known /\ Uninterrupted /\ cmd \in CmdRec
  BY NextTypes DEF IInv, TypeInv, TableType, ControlTypes
<1>2. "newjob" \notin raced' => "newjob" \notin raced
  BY HistoryStep
<1>3. CASE Thins(jobs, jobs') /\ maxId' = maxId
  <2>1. /\ Keeps(jobs, jobs')
        /\ PidsDistinct(jobs')
        /\ "newjob" \notin raced' => IdsIncrease(jobs', maxId')
    BY <1>1, <1>2, <1>3, ThinsKeeps DEF IInv, TableInv
  <2>2. \A p : Unlisted(jobs, p) => Unlisted(jobs', p)
    BY <2>1 DEF Keeps, Unlisted
  <2>3. ASSUME pc'[Main] = "newjob"
        PROVE  Unlisted(jobs', cmd'.pid) /\ ("newjob" \notin raced' => cmd'.arg = maxId' + 1)
    <3>1. CASE pc[Main] = "newjob" /\ cmd' = cmd
      BY <1>2, <1>3, <2>2, <3>1 DEF IInv, TableInv
    <3>2. CASE Unlisted(jobs, cmd.pid) /\ cmd' = [cmd EXCEPT !.arg = maxId + 1]
      <4>1. cmd'.pid = cmd.pid /\ cmd'.arg = maxId + 1
        BY <1>1, <3>2 DEF CmdRec
      <4> QED
        BY <1>3, <2>2, <3>2, <4>1
    <3> QED
      BY <2>3, <3>1, <3>2, NewJobStep
  <2> QED
    BY <2>1, <2>3 DEF TableInv
<1>4. CASE (Reap(Main) \/ Reap(Handler)) /\ jobs' = jobs /\ maxId' = LargestId(jobs)
  <2>1. PidsDistinct(jobs')
    BY <1>4 DEF IInv, TableInv
  <2>2. "newjob" \notin raced' => IdsIncrease(jobs', maxId')
    BY <1>1, <1>2, <1>4, LargestIdBounds DEF IInv, TableInv, IdsIncrease
  <2>3. ASSUME pc'[Main] = "newjob" PROVE pc[Main] = "newjob" /\ cmd' = cmd /\ "newjob" \in raced
    <3>1. CASE Reap(Main)
      <4>1. MainDest' \in MainReturns \/ MainDest' = "crashed"
        BY <1>1, <3>1, ReapGoes DEF Known
      <4> QED
        BY <2>3, <4>1 DEF MainDest, Dest, MainReturns
    <3>2. CASE Reap(Handler)
      <4>1. pc[Main] = "newjob" /\ cmd' = cmd
        BY <1>1, <2>3, <3>2, AsideMoves, AsideStep DEF HandlerStep, Known
      <4>2. pc[Handler] = "reap"
        BY <3>2 DEF Reap
      <4> QED
        BY <1>1, <4>1, <4>2, FragileAlone DEF Fragile
    <3> QED
      BY <1>4, <3>1, <3>2
  <2>4. ASSUME pc'[Main] = "newjob" PROVE Unlisted(jobs', cmd'.pid) /\ "newjob" \in raced'
    <3>1. "newjob" \in raced'
      BY <2>3, <2>4, HistoryStep
    <3> QED
      BY <1>4, <2>3, <2>4, <3>1 DEF IInv, TableInv
  <2> QED
    BY <2>1, <2>2, <2>4 DEF TableInv
<1>5. CASE CtrlZAddJob /\ ~IsListed(fg) /\ Insert(maxId + 1, fg, "STOPPED")
  <2>1. fg \in Pids /\ HandlerDest = "addjob" /\ maxId + 1 \in Nat \ {0}
    BY <1>1, <1>5, HandlerMoves DEF HandlerGoes, TypeInv, HandlerLocals, HandlerDest
  <2>2. pc'[Main] # "newjob"
    <3>1. MainDest \in {"wait", "clear"} /\ pc'[Main] = pc[Main]
      BY <1>1, <1>5, <2>1, AsideMoves DEF Known, ForegroundKnown, HandlerStep
    <3> QED
      BY <3>1 DEF MainDest, Dest
  <2>3. PidsDistinct(jobs') /\ ("newjob" \notin raced' => IdsIncrease(jobs', maxId'))
    BY <1>1, <1>2, <1>5, <2>1, InsertKeeps DEF IInv, TableInv
  <2> QED
    BY <2>2, <2>3 DEF TableInv
<1>6. CASE InsertBackgroundJob
  <2>1. /\ pc[Main] = "newjob" /\ cmd.pid \in Pids /\ cmd.arg \in Nat \ {0}
        /\ Insert(cmd.arg, cmd.pid, "RUNNING") /\ pc'[Main] = "prompt"
    BY <1>1, <1>6, ThreadNames
       DEF InsertBackgroundJob, MainAt, Return, Goto, TypeInv, MainLocals, Dest, ControlTypes, CmdRec
  <2>2. PidsDistinct(jobs') /\ ("newjob" \notin raced' => IdsIncrease(jobs', maxId'))
    BY <1>1, <1>2, <2>1, InsertKeeps DEF IInv, TableInv, IsListed, Unlisted
  <2> QED
    BY <2>1, <2>2 DEF TableInv
<1> QED
  BY <1>1, <1>3, <1>4, <1>5, <1>6, StepTable

LEMMA InitInv == Init => IInv
<1> SUFFICES ASSUME Init PROVE IInv
  OBVIOUS
<1>1. TypeInv
  BY InitTypes
<1>2. Known
  BY ThreadNames DEF Init, Known, LoopsKnown, Forked, ForegroundKnown, Entries, MainDest, HandlerDest, Dest
<1>3. Uninterrupted
  BY ThreadNames DEF Init, Uninterrupted, Fragile
<1>4. TableInv
  BY ThreadNames DEF Init, TableInv, PidsDistinct, IdsIncrease
<1> QED
  BY <1>1, <1>2, <1>3, <1>4 DEF IInv, Init

LEMMA NextInv == ASSUME IInv, [Next]_vars PROVE IInv'
<1>1. TypeInv' /\ Known' /\ Uninterrupted' /\ TableInv'
  BY NextTypes, LoopsStep, ForkedStep, ForegroundKnownStep, UninterruptedStep, TableStep DEF IInv, Known
<1>2. raced' \subseteq Fragile
  BY HistoryStep DEF IInv
<1> QED
  BY <1>1, <1>2 DEF IInv

\* The inductive invariant holds in every state the program reaches, for any
\* number of processes and timeouts: the types, what each place of either
\* thread knows of its locals, whom the foreground pid names, and the order of
\* the table for as long as no alarm has interrupted addJob.
THEOREM Invariance == Spec => []IInv
<1>1. Init => IInv
  BY InitInv
<1>2. IInv /\ [Next]_vars => IInv'
  BY NextInv
<1> QED
  BY <1>1, <1>2, PTL DEF Spec

\* Every variable has its type (the members of JobsList and SmallShell, the
\* kernel's state, the control points of main and of the handlers).
THEOREM TypeCorrect == Spec => []TypeOK
<1>1. IInv => TypeOK
  BY DEF IInv, TypeInv, TypeOK, TableType, ShellTypes, KernelTypes, ControlTypes
<1> QED
  BY <1>1, Invariance, PTL

\* As long as no alarm comes between the new id and the increment of addJob,
\* the ids increase along the list and none passes maximalJobId, whatever the
\* handlers do at any other place.
THEOREM JobIdsIncreaseCorrect == Spec => []JobIdsIncrease
<1>1. IInv => JobIdsIncrease
  BY DEF IInv, TableInv, JobIdsIncrease
<1> QED
  BY <1>1, Invariance, PTL

\* No process is listed twice, alarms inside addJob included: between the
\* lookup by pid and the new entry no handler lists anything.
THEOREM JobPidsDistinctCorrect == Spec => []JobPidsDistinct
<1>1. IInv => JobPidsDistinct
  BY DEF IInv, TableInv, JobPidsDistinct
<1> QED
  BY <1>1, Invariance, PTL

\* An id of the old table names the same process in the new one.
LEMMA StepNames ==
  ASSUME IInv, [Next]_vars, "newjob" \notin raced'
  PROVE  Names(jobs, jobs')
<1>1. /\ jobs \in Seq(JobRec) /\ jobs' \in Seq(JobRec) /\ maxId \in Nat /\ cmd \in CmdRec
      /\ TypeInv /\ Known
  BY NextTypes DEF IInv, TypeInv, TableType, ControlTypes
<1>2. IdsIncrease(jobs, maxId) /\ (pc[Main] = "newjob" => cmd.arg = maxId + 1)
  BY HistoryStep DEF IInv, TableInv
<1>3. CASE Thins(jobs, jobs')
  BY <1>1, <1>2, <1>3, ThinsKeeps
<1>4. CASE jobs' = jobs
  <2>1. Thins(jobs, jobs')
    BY <1>4, SameThins
  <2> QED
    BY <1>3, <2>1
<1>5. CASE CtrlZAddJob /\ Insert(maxId + 1, fg, "STOPPED")
  <2>1. fg \in Pids /\ maxId + 1 \in Nat \ {0}
    BY <1>1, <1>5, HandlerMoves DEF HandlerGoes, TypeInv, HandlerLocals, HandlerDest
  <2> QED
    BY <1>1, <1>2, <1>5, <2>1, InsertKeeps
<1>6. CASE InsertBackgroundJob
  <2>1. /\ pc[Main] = "newjob" /\ cmd.pid \in Pids /\ cmd.arg \in Nat \ {0}
        /\ Insert(cmd.arg, cmd.pid, "RUNNING")
    BY <1>1, <1>6 DEF InsertBackgroundJob, MainAt, TypeInv, MainLocals, Dest, CmdRec
  <2> QED
    BY <1>1, <1>2, <2>1, InsertKeeps
<1> QED
  BY <1>1, <1>3, <1>4, <1>5, <1>6, StepTable

\* A job id never changes the process it names while it is in the table, as
\* long as no alarm interrupts addJob: what jobs printed is what fg, bg and
\* kill act on.
THEOREM JobIdStableCorrect == Spec => JobIdStable
<1> DEFINE Stable == \A k \in DOMAIN jobs, l \in DOMAIN jobs' :
             "newjob" \notin raced' /\ jobs[k].id = jobs'[l].id => jobs[k].pid = jobs'[l].pid
<1>1. IInv /\ [Next]_vars => [Stable]_vars
  BY StepNames DEF Names
<1> QED
  BY <1>1, Invariance, PTL DEF Spec, JobIdStable

\* Whatever key is pressed, a foreground pid that was left behind names a child
\* that has been reaped: no handler signals a process with it.
THEOREM StaleForegroundHarmlessCorrect == Spec => []StaleForegroundHarmless
<1>1. IInv => StaleForegroundHarmless
  BY DEF IInv, Known, LoopsKnown, ForegroundKnown, StaleForegroundHarmless, MainReturns, MainDest, Dest
<1> QED
  BY <1>1, Invariance, PTL

-----------------------------------------------------------------------------
(* The table as a set of entries, and what the operations do to it.          *)

\* The alphabet of the table, and no process twice.
TableOK(s, m) == TableType(s, m) /\ PidsDistinct(s)

\* p gets the status st; p's entry is dropped; an entry for p is added.
Updated(s, t, p, st) ==
  /\ \A d \in Entries(t) : (d \in Entries(s) /\ d.pid # p) \/ (d.pid = p /\ d.status = st)
  /\ \A e \in Entries(s) : \E d \in Entries(t) : d.pid = e.pid
Dropped(s, t, p) == \A e : e \in Entries(t) <=> e \in Entries(s) /\ e.pid # p
Added(s, t, p, st) ==
  /\ \A d \in Entries(t) : d \in Entries(s) \/ (d.pid = p /\ d.status = st)
  /\ \A e \in Entries(s) : e \in Entries(t)
  /\ \E d \in Entries(t) : d.pid = p

LEMMA EntryType ==
  ASSUME NEW s, NEW m, TableOK(s, m)
  PROVE  \A e \in Entries(s) : e \in JobRec /\ e.id \in Nat /\ e.pid \in Pids
                               /\ e.status \in {"STOPPED", "RUNNING"}
<1>1. \A k \in DOMAIN s : s[k] \in JobRec
  BY EntriesTyped DEF TableOK, TableType
<1> QED
  BY <1>1 DEF Entries, JobRec

LEMMA RemoveEntries ==
  ASSUME NEW S, NEW s \in Seq(S), PidsDistinct(s), NEW i \in DOMAIN s
  PROVE  Dropped(s, RemoveAt(s, i), s[i].pid)
<1> DEFINE r == RemoveAt(s, i)
<1>1. s \in Seq(S) /\ Len(s) \in Nat /\ DOMAIN s = 1..Len(s) /\ i \in 1..Len(s)
  BY LenProperties
<1>2. /\ DOMAIN r = 1..(Len(s) - 1)
      /\ \A k \in 1..(Len(s) - 1) : r[k] = s[IF k < i THEN k ELSE k + 1]
  BY <1>1, RemoveAtProperties, LenProperties
<1> HIDE DEF r
<1>3. ASSUME NEW e \in Entries(r) PROVE e \in Entries(s) /\ e.pid # s[i].pid
  <2>1. PICK k \in 1..(Len(s) - 1) : e = s[IF k < i THEN k ELSE k + 1]
    BY <1>2 DEF Entries
  <2>2. (IF k < i THEN k ELSE k + 1) \in 1..Len(s) /\ (IF k < i THEN k ELSE k + 1) # i
    BY <1>1
  <2> QED
    BY <1>1, <2>1, <2>2 DEF Entries, PidsDistinct
<1>4. ASSUME NEW e \in Entries(s), e.pid # s[i].pid PROVE e \in Entries(r)
  <2>1. PICK k \in 1..Len(s) : e = s[k] /\ k # i
    BY <1>1, <1>4 DEF Entries
  <2>2. CASE k < i
    <3>1. k \in 1..(Len(s) - 1) /\ r[k] = e
      BY <1>1, <1>2, <2>1, <2>2
    <3> QED
      BY <1>2, <3>1 DEF Entries
  <2>3. CASE ~(k < i)
    <3>1. k - 1 \in 1..(Len(s) - 1) /\ ~(k - 1 < i) /\ k - 1 + 1 = k
      BY <1>1, <2>1, <2>3
    <3>2. r[k - 1] = e
      BY <1>2, <2>1, <3>1
    <3> QED
      BY <1>2, <3>1, <3>2 DEF Entries
  <2> QED
    BY <2>2, <2>3
<1> QED
  BY <1>3, <1>4 DEF Dropped, r

LEMMA WithoutEntries ==
  ASSUME NEW s, NEW m, TableOK(s, m), NEW x
  PROVE  /\ Dropped(s, WithoutPid(s, x), x)
         /\ WithoutId(s, x) = s \/ \E e \in Entries(s) : e.id = x /\ Dropped(s, WithoutId(s, x), e.pid)
<1>1. s \in Seq(JobRec) /\ PidsDistinct(s)
  BY DEF TableOK, TableType
<1>2. \A i \in DOMAIN s : Dropped(s, RemoveAt(s, i), s[i].pid) /\ s[i] \in Entries(s)
  BY <1>1, RemoveEntries DEF Entries
<1>3. Dropped(s, WithoutPid(s, x), x)
  <2>1. CASE \A k \in DOMAIN s : s[k].pid # x
    <3>1. WithoutPid(s, x) = s
      BY <1>1, <2>1, WithoutRemoves
    <3> QED
      BY <2>1, <3>1 DEF Dropped, Entries
  <2>2. CASE ~\A k \in DOMAIN s : s[k].pid # x
    <3>1. \E i \in DOMAIN s : s[i].pid = x /\ WithoutPid(s, x) = RemoveAt(s, i)
      BY <1>1, <2>2, WithoutRemoves
    <3> QED
      BY <1>2, <3>1
  <2> QED
    BY <2>1, <2>2
<1>4. WithoutId(s, x) = s \/ \E i \in DOMAIN s : s[i].id = x /\ WithoutId(s, x) = RemoveAt(s, i)
  BY <1>1, WithoutRemoves
<1> QED
  BY <1>2, <1>3, <1>4

LEMMA StatusEntries ==
  ASSUME NEW s, NEW m, TableOK(s, m), NEW k \in DOMAIN s, NEW st
  PROVE  Updated(s, [s EXCEPT ![k].status = st], s[k].pid, st)
<1> DEFINE e == [s[k] EXCEPT !.status = st]
           t == [s EXCEPT ![k] = e]
<1>1. s[k] \in JobRec
  BY EntriesTyped DEF TableOK, TableType
<1>2. e.pid = s[k].pid /\ e.status = st
  BY <1>1 DEF JobRec
<1> HIDE DEF e
<1>3. DOMAIN t = DOMAIN s /\ \A j \in DOMAIN s : t[j] = IF j = k THEN e ELSE s[j]
  OBVIOUS
<1> HIDE DEF t
<1>4. \A j \in DOMAIN s : s[j].pid = s[k].pid => j = k
  BY DEF TableOK, PidsDistinct
<1>5. Updated(s, t, s[k].pid, st)
  <2>1. \A d \in Entries(t) : (d \in Entries(s) /\ d.pid # s[k].pid) \/ (d.pid = s[k].pid /\ d.status = st)
    BY <1>2, <1>3, <1>4 DEF Entries
  <2>2. \A j \in DOMAIN s : t[j] \in Entries(t) /\ t[j].pid = s[j].pid
    BY <1>2, <1>3 DEF Entries
  <2>3. \A d \in Entries(s) : \E f \in Entries(t) : f.pid = d.pid
    BY <2>2 DEF Entries
  <2> QED
    BY <2>1, <2>3 DEF Updated
<1> QED
  BY <1>5 DEF t, e

LEMMA SetStatusEntries ==
  ASSUME TableOK(jobs, maxId), NEW p, NEW st, IsListed(p), SetStatus(p, st)
  PROVE  Updated(jobs, jobs', p, st) /\ \E d \in Entries(jobs') : d.pid = p
<1>1. PICK k \in DOMAIN jobs : jobs[k].pid = p
  BY DEF IsListed
<1>2. \A l \in DOMAIN jobs : jobs[l].pid = p <=> l = k
  BY <1>1 DEF TableOK, PidsDistinct
<1>3. jobs' = [jobs EXCEPT ![k].status = st]
  <2>1. jobs' = [l \in DOMAIN jobs |->
                   IF jobs[l].pid = p THEN [jobs[l] EXCEPT !.status = st] ELSE jobs[l]]
    BY DEF SetStatus
  <2>2. [jobs EXCEPT ![k].status = st] =
          [l \in DOMAIN jobs |-> IF l = k THEN [jobs[l] EXCEPT !.status = st] ELSE jobs[l]]
    OBVIOUS
  <2> QED
    BY <1>2, <2>1, <2>2
<1>4. Updated(jobs, jobs', p, st)
  BY <1>1, <1>3, StatusEntries
<1>5. jobs[k] \in Entries(jobs)
  BY <1>1 DEF Entries
<1> QED
  BY <1>1, <1>4, <1>5 DEF Updated

LEMMA InsertEntries ==
  ASSUME TableOK(jobs, maxId), NEW i \in Nat \ {0}, NEW p \in Pids, NEW st \in {"STOPPED", "RUNNING"},
         Insert(i, p, st)
  PROVE  Added(jobs, jobs', p, st)
<1> DEFINE e == [id |-> i, pid |-> p, status |-> st]
<1>1. jobs \in Seq(JobRec) /\ Len(jobs) \in Nat /\ DOMAIN jobs = 1..Len(jobs)
  BY LenProperties DEF TableOK, TableType
<1>2. jobs' = Append(jobs, e) /\ e \in JobRec /\ e.pid = p /\ e.status = st
  BY DEF Insert, JobRec
<1> HIDE DEF e
<1>3. /\ DOMAIN jobs' = 1..(Len(jobs) + 1)
      /\ \A k \in DOMAIN jobs : jobs'[k] = jobs[k]
      /\ jobs'[Len(jobs) + 1] = e
  BY <1>1, <1>2, AppendProperties, LenProperties
<1>4. \A l \in 1..(Len(jobs) + 1) : l \in DOMAIN jobs \/ l = Len(jobs) + 1
  BY <1>1
<1>5. \A d \in Entries(jobs') : d \in Entries(jobs) \/ d = e
  BY <1>3, <1>4 DEF Entries
<1>6. \A d \in Entries(jobs) : d \in Entries(jobs')
  <2>1. DOMAIN jobs \subseteq DOMAIN jobs'
    BY <1>1, <1>3
  <2> QED
    BY <1>3, <2>1 DEF Entries
<1>7. e \in Entries(jobs')
  <2>1. Len(jobs) + 1 \in DOMAIN jobs'
    BY <1>1, <1>3
  <2> QED
    BY <1>3, <2>1 DEF Entries
<1> QED
  BY <1>2, <1>5, <1>6, <1>7 DEF Added

LEMMA AddEntryEntries ==
  ASSUME TableOK(jobs, maxId), NEW p \in Pids, NEW st \in {"STOPPED", "RUNNING"}, AddEntry(p, st)
  PROVE  Updated(jobs, jobs', p, st) /\ \E d \in Entries(jobs') : d.pid = p
<1>1. CASE IsListed(p)
  BY <1>1, SetStatusEntries DEF AddEntry
<1>2. CASE ~IsListed(p)
  <2>1. maxId + 1 \in Nat \ {0}
    BY DEF TableOK, TableType
  <2>2. Added(jobs, jobs', p, st)
    BY <1>2, <2>1, InsertEntries DEF AddEntry, NextJobId
  <2>3. \A d \in Entries(jobs) : d.pid # p
    BY <1>2 DEF IsListed, Entries
  <2> QED
    BY <2>2, <2>3 DEF Added, Updated
<1> QED
  BY <1>1, <1>2

\* The two steps of addJob in the main loop.
LEMMA AddBackgroundJobEntries ==
  ASSUME TypeInv, TableOK(jobs, maxId), AddBackgroundJob
  PROVE  /\ MainDest = "addjob" /\ proc' = proc
         /\ \/ /\ Updated(jobs, jobs', cmd.pid, "RUNNING") /\ \E d \in Entries(jobs') : d.pid = cmd.pid
               /\ MainDest' = "prompt" /\ cmd' = NoCommand
            \/ /\ jobs' = jobs /\ MainDest' = "newjob" /\ cmd' = [cmd EXCEPT !.arg = NextJobId]
<1>1. MainDest = "addjob" /\ proc' = proc
  BY MainCommands DEF MainGoes, AddBackgroundJob, kernelVars
<1>2. CASE IsListed(cmd.pid) /\ SetStatus(cmd.pid, "RUNNING") /\ Return
  <2>1. MainDest' = "prompt" /\ cmd' = NoCommand
    BY <1>2, ThreadNames DEF Return, Goto, MainDest, Dest, TypeInv, ControlTypes
  <2> QED
    BY <1>1, <1>2, <2>1, SetStatusEntries
<1>3. CASE cmd' = [cmd EXCEPT !.arg = NextJobId] /\ Goto(Main, "newjob") /\ UNCHANGED <<jobs, maxId>>
  BY <1>1, <1>3, ThreadNames DEF Goto, MainDest, Dest, TypeInv, ControlTypes
<1> QED
  BY <1>2, <1>3 DEF AddBackgroundJob

LEMMA InsertBackgroundJobEntries ==
  ASSUME TypeInv, TableOK(jobs, maxId), InsertBackgroundJob
  PROVE  /\ MainDest = "newjob" /\ MainDest' = "prompt" /\ proc' = proc /\ cmd' = NoCommand
         /\ cmd.pid \in Pids /\ Added(jobs, jobs', cmd.pid, "RUNNING")
<1>1. MainDest = "newjob" /\ MainDest' = "prompt" /\ proc' = proc /\ cmd' = NoCommand
  BY MainCommands DEF MainGoes, InsertBackgroundJob, Return, kernelVars
<1>2. cmd.pid \in Pids /\ cmd.arg \in Nat \ {0} /\ Insert(cmd.arg, cmd.pid, "RUNNING")
  BY <1>1 DEF InsertBackgroundJob, TypeInv, MainLocals, MainDest, ControlTypes, CmdRec
<1> QED
  BY <1>1, <1>2, InsertEntries


\* A signal sent to a listed process, with the status its entry gets.
Sent(p, sig, st) ==
  /\ proc[p] # "reaped"
  /\ proc' = [proc EXCEPT ![p] = Signalled(@, sig)]
  /\ Updated(jobs, jobs', p, st)

LEMMA ResumeSends ==
  ASSUME TypeInv, TableOK(jobs, maxId), NEW k \in DOMAIN jobs, Resume(k)
  PROVE  \/ UNCHANGED <<jobs, proc>> /\ proc[jobs[k].pid] = "reaped"
         \/ Sent(jobs[k].pid, "SIGCONT", "RUNNING")
BY StatusEntries DEF Resume, Sent, TypeInv

LEMMA ForegroundSends ==
  ASSUME TypeInv, TableOK(jobs, maxId), Foreground
  PROVE  \/ UNCHANGED <<jobs, proc>> /\ MainDest' = "prompt" /\ cmd' = NoCommand
         \/ \E e \in Entries(jobs) :
              /\ cmd' = [cmd EXCEPT !.arg = e.id, !.pid = e.pid]
              /\ \/ UNCHANGED <<jobs, proc>> /\ (e.status = "RUNNING" \/ proc[e.pid] = "reaped")
                 \/ Sent(e.pid, "SIGCONT", "RUNNING")
              /\ IdsIncrease(jobs, maxId) => \A d \in Entries(jobs') : d.id = e.id => d.pid = e.pid
<1>1. CASE Return /\ UNCHANGED <<jobs, proc>>
  BY <1>1, MainCommands, ThreadNames DEF Return, Goto, TypeInv, ControlTypes, MainDest, Dest
<1>2. CASE \E k \in DOMAIN jobs :
             /\ IF jobs[k].status = "STOPPED" THEN Resume(k) ELSE UNCHANGED <<jobs, proc>>
             /\ cmd' = [cmd EXCEPT !.arg = jobs[k].id, !.pid = jobs[k].pid]
  <2>1. PICK k \in DOMAIN jobs :
             /\ IF jobs[k].status = "STOPPED" THEN Resume(k) ELSE UNCHANGED <<jobs, proc>>
             /\ cmd' = [cmd EXCEPT !.arg = jobs[k].id, !.pid = jobs[k].pid]
    BY <1>2
  <2>2. jobs[k] \in Entries(jobs) /\ jobs[k].status \in {"STOPPED", "RUNNING"}
    BY EntryType DEF Entries, TypeInv
  <2>3. \/ UNCHANGED <<jobs, proc>> /\ (jobs[k].status = "RUNNING" \/ proc[jobs[k].pid] = "reaped")
        \/ Sent(jobs[k].pid, "SIGCONT", "RUNNING")
    BY <2>1, <2>2, ResumeSends
  <2>4. ASSUME IdsIncrease(jobs, maxId) PROVE \A d \in Entries(jobs') : d.id = jobs[k].id => d.pid = jobs[k].pid
    <3>1. jobs \in Seq(JobRec) /\ jobs' \in Seq(JobRec) /\ maxId \in Nat
      BY NextTypes DEF TypeInv, TableType, Next, MainStep
    <3>2. Thins(jobs, jobs')
      <4>1. Thins(jobs, jobs) /\ Thins(jobs, [jobs EXCEPT ![k].status = "RUNNING"])
        BY <3>1, SameThins, StatusThins
      <4> QED
        BY <2>1, <4>1 DEF Resume
    <3>3. Names(jobs, jobs')
      BY <2>4, <3>1, <3>2, ThinsKeeps
    <3> QED
      BY <3>3 DEF Names, Entries
  <2> QED
    BY <2>1, <2>2, <2>3, <2>4
<1> QED
  BY <1>1, <1>2 DEF Foreground, LastPosition, PositionOf, FirstWithId

LEMMA BackgroundSends ==
  ASSUME TypeInv, TableOK(jobs, maxId), Background
  PROVE  UNCHANGED <<jobs, proc>> \/ \E e \in Entries(jobs) : Sent(e.pid, "SIGCONT", "RUNNING")
<1>1. UNCHANGED <<jobs, proc>> \/ \E k \in DOMAIN jobs : Resume(k)
  BY DEF Background, LastStopped, PositionOf, FirstWithId
<1> QED
  BY <1>1, ResumeSends DEF Entries

LEMMA KillSends ==
  ASSUME TypeInv, TableOK(jobs, maxId), Kill
  PROVE  UNCHANGED <<jobs, proc>> \/ \E e \in Entries(jobs) : Sent(e.pid, cmd.sig, StatusAfter(e.status, cmd.sig))
<1>1. UNCHANGED <<jobs, proc>> \/ \E k \in DOMAIN jobs :
        /\ proc[jobs[k].pid] # "reaped"
        /\ proc' = [proc EXCEPT ![jobs[k].pid] = Signalled(@, cmd.sig)]
        /\ jobs' = [jobs EXCEPT ![k].status = StatusAfter(jobs[k].status, cmd.sig)]
  BY DEF Kill, PositionOf, FirstWithId
<1> QED
  BY <1>1, StatusEntries DEF Sent, Entries, TypeInv

\* A child that removeFinishedJobs reaps loses its entry and its timeout: at
\* once in a handler, by a later step in the main loop.
LEMMA ReapDrops ==
  ASSUME TypeInv, TableOK(jobs, maxId), NEW t \in Threads, Reap(t)
  PROVE  \/ UNCHANGED <<jobs, proc, timed>>
         \/ \E p \in Pids : /\ proc[p] = "zombie"
                            /\ proc' = [proc EXCEPT ![p] = "reaped"]
                            /\ \/ UNCHANGED <<jobs, timed>>
                               \/ Dropped(jobs, jobs', p) /\ timed' = WithoutPid(timed, p)
<1>1. \/ UNCHANGED <<jobs, proc, timed>>
      \/ \E i \in DOMAIN jobs : /\ proc[jobs[i].pid] = "zombie"
                                /\ proc' = [proc EXCEPT ![jobs[i].pid] = "reaped"]
                                /\ \/ UNCHANGED <<jobs, timed>>
                                   \/ jobs' = RemoveAt(jobs, i) /\ timed' = WithoutPid(timed, jobs[i].pid)
  BY DEF Reap, Erase
<1>2. \A i \in DOMAIN jobs : jobs[i].pid \in Pids
  BY EntryType DEF Entries
<1> QED
  BY <1>1, <1>2, RemoveEntries DEF TableOK, TableType

LEMMA EraseDrops ==
  ASSUME TypeInv, TableOK(jobs, maxId), EraseFinished
  PROVE  /\ proc' = proc
         /\ \/ UNCHANGED <<jobs, timed>>
            \/ /\ idx[Main] \in DOMAIN jobs
               /\ Dropped(jobs, jobs', jobs[idx[Main]].pid)
               /\ timed' = WithoutPid(timed, jobs[idx[Main]].pid)
BY RemoveEntries DEF EraseFinished, Erase, kernelVars, TableOK, TableType


-----------------------------------------------------------------------------
(* Without timeouts nothing changes the table under the main thread's loop.  *)
InBounds ==
  /\ alarm = 0 /\ alrm = FALSE /\ timed = <<>> /\ cmd.timer = NoTimer
  /\ HandlerDest \notin {"scan", "timeoutkill", "rearm"}
  /\ MainDest # "crashed"
  /\ pc[Main] = "reap" => idx[Main] <= Len(jobs) + 1
  /\ pc[Main] = "erase" => idx[Main] \in DOMAIN jobs

LEMMA OrderedTable ==
  ASSUME IInv
  PROVE  TypeInv /\ Known /\ TableOK(jobs, maxId)
BY DEF IInv, TypeInv, TableInv, TableOK

LEMMA InBoundsStep ==
  ASSUME Timers = {}, TypeInv, Known, TableOK(jobs, maxId), InBounds, [Next]_vars
  PROVE  InBounds'
<1> USE DEF InBounds
<1>0. Len(jobs) \in Nat /\ Len(jobs') \in Nat
  BY NextTypes, LenProperties DEF TypeInv, TableType, TableOK
<1>1. pc[Main] \in {"reap", "erase"} => HandlerDest \notin {"zstop", "addjob", "ckill"}
  BY DEF Known, ForegroundKnown, LoopsKnown, MainDest, Dest, MainReturns
<1>2. DOMAIN timed = {} /\ \A p : WithoutPid(timed, p) = timed
  <2>1. timed \in Seq(JobRec) /\ DOMAIN timed = {}
    BY EmptySeq
  <2> QED
    BY <2>1, WithoutRemoves
<1>3. MainDest \notin {"arm", "track"}
  BY DEF TypeInv, MainLocals, MainDest
<1>4. CASE ReadAny
  <2>1. PICK op \in Commands, arg \in Nat, sig \in AllSignals : ReadCommand(op, arg, sig, NoTimer)
    <3>1. PICK op \in Commands, arg \in 0..MaxJobArg, sig \in Signals \cup {"SIGCONT"},
               timer \in Timers \cup {NoTimer} : ReadCommand(op, arg, sig, timer)
      BY <1>4 DEF ReadAny
    <3>2. arg \in Nat /\ sig \in AllSignals /\ timer = NoTimer
      BY ConstantAssumption DEF AllSignals
    <3> QED
      BY <3>1, <3>2
  <2>2. MainDest' \in Started /\ HandlerDest' = "idle"
    BY <2>1, ReadGoes DEF MainGoes
  <2>3. cmd'.timer = NoTimer /\ UNCHANGED <<alarm, alrm, timed, jobs>>
    BY <2>1 DEF ReadCommand, shellVars, kernelVars
  <2>4. pc'[Main] # "erase" /\ (pc'[Main] = "reap" => idx'[Main] = 1)
    BY <2>1, ThreadNames DEF ReadCommand, Execute, Goto, CallReap, MainAt, TypeInv, ControlTypes
  <2>5. pc'[Main] = "reap" => idx'[Main] <= Len(jobs') + 1
    BY <1>0, <2>4
  <2> QED
    BY <2>2, <2>3, <2>4, <2>5 DEF Started
<1>5. CASE Arm \/ Track
  BY <1>3, <1>5, MainCommands DEF MainGoes
<1>6. CASE Fork
  <2>1. MainDest' \in {"track", "addjob", "setfg"} /\ HandlerDest' = "idle"
    BY <1>6, MainCommands DEF MainGoes
  <2>2. cmd'.timer = NoTimer /\ UNCHANGED <<alarm, alrm, timed, jobs>>
    BY <1>6 DEF Fork, shellVars, TypeInv, ControlTypes, CmdRec
  <2>3. pc'[Main] # "erase" /\ (pc'[Main] = "reap" => idx'[Main] = 1)
    BY <1>6, ThreadNames DEF Fork, AfterFork, Goto, CallReap, MainAt, TypeInv, ControlTypes
  <2> QED
    BY <1>0, <2>1, <2>2, <2>3
<1>7. CASE AddBackgroundJob \/ InsertBackgroundJob \/ SetForeground \/ Wait \/ ClearForeground \/ Jobs \/ Foreground
           \/ Background \/ Kill \/ QuitKill
  <2>1. MainDest' \in {"prompt", "newjob", "wait", "clear", "setfg", "exited"} /\ HandlerDest' = "idle"
    BY <1>7, MainCommands DEF MainGoes
  <2>2. \/ cmd' = NoCommand \/ cmd' = cmd
        \/ \E x : cmd' = [cmd EXCEPT !.stopped = x] \/ cmd' = [cmd EXCEPT !.arg = x]
        \/ \E x, y : cmd' = [cmd EXCEPT !.arg = x, !.pid = y]
    BY <1>7 DEF AddBackgroundJob, InsertBackgroundJob, SetForeground, Wait, ClearForeground, Jobs, Foreground,
                Background, Kill, QuitKill, Return
  <2>3. cmd'.timer = NoTimer
    <3>1. cmd \in CmdRec
      BY DEF TypeInv, ControlTypes
    <3>2. NoCommand.timer = NoTimer
      BY DEF NoCommand
    <3>3. ASSUME NEW x, cmd' = [cmd EXCEPT !.stopped = x] \/ cmd' = [cmd EXCEPT !.arg = x] PROVE cmd'.timer = NoTimer
      BY <3>1, <3>3 DEF CmdRec
    <3>4. ASSUME NEW x, NEW y, cmd' = [cmd EXCEPT !.arg = x, !.pid = y] PROVE cmd'.timer = NoTimer
      BY <3>1, <3>4 DEF CmdRec
    <3> QED
      BY <2>2, <3>2, <3>3, <3>4
  <2>4. UNCHANGED <<alarm, alrm, timed>>
    BY <1>2, <1>7 DEF AddBackgroundJob, InsertBackgroundJob, SetForeground, Wait, ClearForeground, Jobs, Foreground,
                Background, Kill, QuitKill, shellVars, kernelVars
  <2>5. pc'[Main] \notin {"reap", "erase"}
    BY <1>7, ThreadNames DEF AddBackgroundJob, InsertBackgroundJob, SetForeground, Wait, ClearForeground, Jobs, Foreground,
                Background, Kill, QuitKill, Return, Goto, TypeInv, ControlTypes
  <2> QED
    BY <2>1, <2>3, <2>4, <2>5
<1>8. CASE Reap(Main)
  <2>1. pc[Main] = "reap" /\ idx[Main] \in Nat /\ ~(idx[Main] > Len(jobs) + 1)
    <3>1. pc[Main] = "reap" /\ idx[Main] \in Nat
      BY <1>8, ThreadNames DEF Reap, TypeInv, ControlTypes
    <3> QED
      BY <1>0, <3>1
  <2>2. UNCHANGED <<alarm, alrm, cmd>> /\ timed' = timed
    BY <1>2, <1>8 DEF Reap
  <2>3. \/ LeaveReap(Main) /\ jobs' = jobs
        \/ Goto(Main, "erase") /\ idx[Main] \in DOMAIN jobs /\ UNCHANGED <<jobs, idx, after>>
        \/ UNCHANGED <<pc, after, jobs>> /\ idx[Main] \in DOMAIN jobs /\ idx' = [idx EXCEPT ![Main] = @ + 1]
    BY <1>8, <2>1, ThreadNames DEF Reap
  <2>4. HandlerDest' = "idle" /\ MainDest' = MainDest
    <3>1. HandlerDest' = "idle"
      BY <1>8, ReapGoes DEF Known
    <3>2. MainDest' = MainDest
      BY <2>1, <2>3, ThreadNames DEF LeaveReap, Goto, MainDest, Dest, Known, LoopsKnown, MainReturns, TypeInv, ControlTypes
    <3> QED
      BY <3>1, <3>2
  <2>5. /\ pc'[Main] = "reap" => idx'[Main] <= Len(jobs') + 1
        /\ pc'[Main] = "erase" => idx'[Main] \in DOMAIN jobs'
    <3>1. CASE LeaveReap(Main)
      BY <2>1, <3>1, ThreadNames DEF LeaveReap, Goto, Known, LoopsKnown, MainReturns, TypeInv, ControlTypes
    <3>2. CASE Goto(Main, "erase") /\ idx[Main] \in DOMAIN jobs /\ UNCHANGED <<jobs, idx>>
      BY <3>2, ThreadNames DEF Goto, TypeInv, ControlTypes
    <3>3. CASE idx[Main] \in DOMAIN jobs /\ idx' = [idx EXCEPT ![Main] = @ + 1] /\ UNCHANGED <<pc, jobs>>
      <4>1. idx[Main] \in 1..Len(jobs) /\ idx'[Main] = idx[Main] + 1
        BY <3>3, LenProperties, ThreadNames DEF TypeInv, TableType, ControlTypes
      <4> QED
        BY <1>0, <2>1, <3>3, <4>1
    <3> QED
      BY <2>3, <3>1, <3>2, <3>3
  <2> QED
    BY <2>2, <2>4, <2>5
<1>10. CASE EraseFinished
  <2>1. /\ pc[Main] = "erase" /\ idx[Main] \in 1..Len(jobs)
        /\ jobs \in Seq(JobRec)
    BY <1>10, LenProperties DEF EraseFinished, MainAt, TypeInv, TableType
  <2>2. ~(idx[Main] > Len(jobs))
    BY <1>0, <2>1
  <2>3. /\ jobs' = RemoveAt(jobs, idx[Main]) /\ timed' = timed /\ Goto(Main, "reap")
        /\ UNCHANGED <<alarm, alrm, cmd, idx, after>>
    BY <1>2, <1>10, <2>2 DEF EraseFinished, Erase, kernelVars
  <2>4. Len(jobs') = Len(jobs) - 1
    BY <2>1, <2>3, RemoveAtProperties, LenProperties
  <2>5. pc'[Main] = "reap" /\ idx'[Main] <= Len(jobs') + 1
    BY <1>0, <2>1, <2>3, <2>4, ThreadNames DEF Goto, TypeInv, ControlTypes
  <2>6. HandlerDest' = "idle" /\ MainDest' = MainDest
    <3>1. HandlerDest' = "idle"
      BY <1>10, ReapGoes DEF Known
    <3>2. MainDest' = MainDest
      BY <2>1, <2>3, ThreadNames DEF Goto, MainDest, Dest, TypeInv, ControlTypes
    <3> QED
      BY <3>1, <3>2
  <2> QED
    BY <2>3, <2>5, <2>6
<1>9. CASE HandlerStep \/ Environment \/ UNCHANGED vars
  <2>1. cmd' = cmd /\ MainDest' = MainDest
    BY <1>9, AsideStep DEF Known
  <2>2. UNCHANGED <<alarm, alrm, timed>> /\ HandlerDest' \notin {"scan", "timeoutkill", "rearm"}
    <3>1. CASE Reap(Handler)
      BY <1>2, <3>1, ReapGoes DEF Reap, Erase, Known
    <3>2. CASE HandlerStep /\ ~Reap(Handler)
      BY <3>2, HandlerMoves DEF HandlerStep, HandlerGoes, Poll, CtrlZStop, CtrlZAddJob, CtrlCKill,
         Scan, TimeoutKill, Rearm, shellVars, kernelVars
    <3>3. CASE DeliverAlarm \/ Tick
      BY <1>2, <3>3 DEF DeliverAlarm, Tick
    <3>4. CASE Key("zpoll") \/ Key("cpoll")
      BY <3>4, HandlerMoves DEF HandlerGoes, Key, shellVars, kernelVars
    <3>5. CASE UNCHANGED vars \/ \E p \in Pids : Exit(p) \/ StrayStop(p)
      BY <3>5 DEF Exit, StrayStop, shellVars, ctlVars, vars, HandlerDest, Dest
    <3> QED
      BY <1>9, <3>1, <3>2, <3>3, <3>4, <3>5 DEF Environment
  <2>3. pc'[Main] = pc[Main] /\ (pc[Main] \in {"reap", "erase"} => idx'[Main] = idx[Main] /\ jobs' = jobs)
    <3>1. CASE Reap(Handler)
      <4>1. pc'[Main] = pc[Main] /\ idx'[Main] = idx[Main]
        BY <3>1, ThreadNames DEF Reap, LeaveReap, Goto, TypeInv, ControlTypes
      <4>2. pc[Main] \notin {"reap", "erase"}
        BY <1>1, <3>1, ReapGoes DEF HandlerReturns, Known
      <4> QED
        BY <4>1, <4>2
    <3>2. CASE HandlerStep /\ ~Reap(Handler)
      <4>1. pc'[Main] = pc[Main] /\ idx'[Main] = idx[Main]
        BY <3>2, ThreadNames DEF HandlerStep, Poll, CtrlZStop, CtrlZAddJob, CtrlCKill, Scan, TimeoutKill, Rearm,
           CallReap, Goto, TypeInv, ControlTypes
      <4>2. pc[Main] \in {"reap", "erase"} => jobs' = jobs
        BY <1>1, <3>2, HandlerMoves DEF HandlerGoes, HandlerStep, Poll, CtrlZStop, CtrlZAddJob, CtrlCKill, Scan,
           TimeoutKill, Rearm, shellVars
      <4> QED
        BY <4>1, <4>2
    <3>3. CASE Environment \/ UNCHANGED vars
      BY <3>3, ThreadNames DEF Environment, Key, DeliverAlarm, Tick, Exit, StrayStop, shellVars, ctlVars, vars, Goto,
         CallReap, TypeInv, ControlTypes
    <3> QED
      BY <1>9, <3>1, <3>2, <3>3
  <2> QED
    BY <2>1, <2>2, <2>3
<1> QED
  BY <1>4, <1>5, <1>6, <1>7, <1>8, <1>9, <1>10 DEF Next, MainStep

\* A user who gives no timeouts never crashes the shell, whatever else is typed,
\* pressed or exits: the loop of removeFinishedJobs stays inside the list.
THEOREM NoCrashCorrect ==
  ASSUME Timers = {}
  PROVE  Spec => []NoCrash
<1>1. Init => InBounds
  BY EmptySeq, ThreadNames DEF Init, InBounds, NoCommand, HandlerDest, MainDest, Dest
<1>2. InBounds /\ IInv /\ [Next]_vars => InBounds'
  BY InBoundsStep, OrderedTable
<1>3. InBounds /\ IInv => NoCrash
  BY DEF InBounds, NoCrash, IInv, Known, LoopsKnown, MainDest, Dest
<1> QED
  BY <1>1, <1>2, <1>3, Invariance, PTL DEF Spec

-----------------------------------------------------------------------------
(* No child is lost.                                                         *)
Living == {"running", "stopped", "parked"}

\* A child that is alive and has no entry yet: the command being started, or
\* the foreground command, which ctrl-Z lists after it has stopped it.
Coming(p) ==
  /\ p = cmd.pid
  /\ \/ MainDest \in {"track", "addjob", "newjob", "setfg"} /\ proc[p] = "running"
     \/ MainDest = "wait" /\ (proc[p] = "running" \/ HandlerDest = "addjob")

ChildrenListed == raced = {} /\ MainDest \notin {"exited", "crashed"} =>
  \A p \in Pids : Alive(p) => Coming(p) \/ \E e \in Entries(jobs) : e.pid = p

\* The iterator of the main loop is still at the child that was reaped.
ErasedKnown == pc[Main] = "erase" /\ "erase" \notin raced =>
  idx[Main] \in DOMAIN jobs /\ proc[jobs[idx[Main]].pid] = "reaped"

\* The job fg brings to the foreground: the id it was asked for keeps naming its
\* process, and the entry is removed only after that process was reaped.
BroughtToFront ==
  /\ MainDest \in {"fork", "track"} => cmd.op # "fg"
  /\ "newjob" \notin raced /\ cmd.op = "fg" /\ MainDest \in {"setfg", "wait", "clear"} =>
       \A e \in Entries(jobs) : e.id = cmd.arg => e.pid = cmd.pid
  /\ MainDest = "clear" /\ ~cmd.stopped => proc[cmd.pid] = "reaped"

\* Which child can be alive after a step, and which was only just stopped.
LEMMA AliveOrigin ==
  ASSUME ~StrayStops, TypeInv, Known, TableOK(jobs, maxId), [Next]_vars, NEW p \in Pids, proc'[p] \in Living
  PROVE  /\ proc[p] \in Living \/ (MainDest = "fork" /\ MainDest' \in {"track", "addjob", "setfg"}
                                   /\ proc'[p] = "running" /\ p = cmd'.pid)
         /\ proc[p] = "running" => \/ proc'[p] = "running"
                                   \/ CtrlZStop /\ p = fg
                                   \/ \E e \in Entries(jobs) : e.pid = p
<1> USE DEF TypeInv, KernelTypes, Living
<1>1. \A s \in ProcStates : \A sig : Signalled(s, sig) \in Living => s \in Living
  BY DEF Signalled, ProcStates
<1>2. \A s \in ProcStates : Signalled(s, "SIGKILL") \notin Living /\ Signalled(s, TimeoutSignal) \notin Living
  BY DEF Signalled, ProcStates, TimeoutSignal
<1>3. CASE proc' = proc
  BY <1>3
<1>4. CASE \E q \in Pids : proc' = [proc EXCEPT ![q] = "reaped"] \/ proc' = [proc EXCEPT ![q] = "zombie"]
  BY <1>4
<1>5. CASE \E e \in Entries(jobs) : \E sig : proc' = [proc EXCEPT ![e.pid] = Signalled(@, sig)]
  BY <1>1, <1>5
<1>6. CASE ReadAny \/ UNCHANGED vars
  BY <1>3, <1>6 DEF ReadAny, ReadCommand, kernelVars, vars
<1>7. CASE MainStep
  <2>1. CASE Arm \/ Track \/ AddBackgroundJob \/ InsertBackgroundJob \/ SetForeground \/ ClearForeground
           \/ Jobs \/ EraseFinished
    BY <1>3, <2>1 DEF Arm, Track, AddBackgroundJob, InsertBackgroundJob, SetForeground, ClearForeground, Jobs,
                      EraseFinished, kernelVars
  <2>2. CASE Fork
    <3>1. PICK q \in Pids : proc' = [proc EXCEPT ![q] = "running"] /\ cmd' = [cmd EXCEPT !.pid = q]
      BY <2>2 DEF Fork
    <3>2. cmd'.pid = q
      BY <3>1 DEF ControlTypes, CmdRec
    <3>3. MainDest = "fork" /\ MainDest' \in {"track", "addjob", "setfg"}
      BY <2>2, MainCommands DEF MainGoes
    <3> QED
      BY <3>1, <3>2, <3>3
  <2>3. CASE Wait
    <3>1. cmd.pid \in Pids /\ MainDest = "wait"
      BY <2>3, MainCommands DEF MainGoes, MainLocals, MainDest
    <3>2. proc[cmd.pid] = "stopped" => proc' = [proc EXCEPT ![cmd.pid] = "parked"]
      BY <2>3 DEF Wait
    <3>3. proc[cmd.pid] # "stopped" => proc' = proc \/ proc' = [proc EXCEPT ![cmd.pid] = "reaped"]
      BY <2>3 DEF Wait
    <3> QED
      BY <1>3, <1>4, <3>1, <3>2, <3>3
  <2>4. CASE QuitKill
    BY <2>4 DEF QuitKill
  <2>5. CASE Foreground \/ Background \/ Kill
    <3>1. proc' = proc \/ \E e \in Entries(jobs) : \E sig : proc' = [proc EXCEPT ![e.pid] = Signalled(@, sig)]
      BY <2>5, ForegroundSends, BackgroundSends, KillSends DEF Sent
    <3> QED
      BY <1>3, <1>5, <3>1
  <2>6. CASE Reap(Main)
    BY <1>3, <1>4, <2>6, ReapDrops, ThreadNames
  <2> QED
    BY <1>7, <2>1, <2>2, <2>3, <2>4, <2>5, <2>6 DEF MainStep
<1>8. CASE HandlerStep
  <2>1. CASE Rearm \/ CtrlZAddJob
    BY <1>3, <2>1 DEF Rearm, CtrlZAddJob, kernelVars
  <2>2. CASE Poll("zpoll", "zstop") \/ Poll("cpoll", "ckill")
    BY <2>2 DEF Poll
  <2>3. CASE CtrlCKill
    BY <2>3, <1>2 DEF CtrlCKill
  <2>4. CASE CtrlZStop
    BY <2>4, <1>1 DEF CtrlZStop
  <2>5. CASE TimeoutKill
    BY <2>5, <1>2 DEF TimeoutKill
  <2>6. CASE Scan
    <3>1. proc' = proc \/ \E q : proc' = [proc EXCEPT ![q] = "reaped"]
      BY <2>6 DEF Scan
    <3> QED
      BY <1>3, <3>1
  <2>7. CASE Reap(Handler)
    BY <1>3, <1>4, <2>7, ReapDrops, ThreadNames
  <2> QED
    BY <1>8, <2>1, <2>2, <2>3, <2>4, <2>5, <2>6, <2>7 DEF HandlerStep
<1>9. CASE Environment
  <2>1. proc' = proc \/ \E q \in Pids : proc' = [proc EXCEPT ![q] = "zombie"]
    BY <1>9 DEF Environment, Key, DeliverAlarm, Tick, Exit, StrayStop, kernelVars
  <2> QED
    BY <1>3, <1>4, <2>1
<1> QED
  BY <1>6, <1>7, <1>8, <1>9 DEF Next

\* A listed child that stays alive stays listed.
LEMMA ListedKept ==
  ASSUME TypeInv, Known, TableOK(jobs, maxId), ErasedKnown, BroughtToFront, raced = {},
         [Next]_vars, MainDest' # "exited",
         NEW e \in Entries(jobs), proc'[e.pid] \in Living
  PROVE  \E d \in Entries(jobs') : d.pid = e.pid
<1> USE DEF Living
<1>0. e.pid \in Pids /\ proc \in [Pids -> ProcStates]
  BY EntryType DEF TypeInv, KernelTypes
<1>1. CASE UNCHANGED jobs
  BY <1>1
<1>2. CASE \E p : Dropped(jobs, jobs', p) /\ proc'[p] \notin Living
  BY <1>2 DEF Dropped
<1>3. CASE \E p : \E st : Updated(jobs, jobs', p, st)
  BY <1>3 DEF Updated
<1>4. CASE ReadAny \/ Environment \/ UNCHANGED vars
  BY <1>1, <1>4 DEF ReadAny, ReadCommand, Environment, Key, DeliverAlarm, Tick, Exit, StrayStop, shellVars, vars
<1>5. CASE MainStep
  <2>1. CASE Arm \/ Fork \/ Track \/ SetForeground \/ Wait \/ Jobs
    BY <1>1, <2>1 DEF Arm, Fork, Track, SetForeground, Wait, Jobs, shellVars
  <2>2. CASE AddBackgroundJob
    BY <1>1, <1>3, <2>2, AddBackgroundJobEntries
  <2>7. CASE InsertBackgroundJob
    BY <2>7, InsertBackgroundJobEntries DEF Added
  <2>3. CASE ClearForeground
    <3>1. CASE RemovesJob
      <4>1. MainDest = "clear" /\ cmd.op = "fg" /\ ~cmd.stopped /\ jobs' = WithoutId(jobs, cmd.arg) /\ proc' = proc
        BY <2>3, <3>1, MainCommands DEF MainGoes, RemovesJob, ClearForeground, kernelVars
      <4>2. jobs' = jobs \/ \E d \in Entries(jobs) : d.id = cmd.arg /\ Dropped(jobs, jobs', d.pid)
        BY <4>1, WithoutEntries
      <4>3. \A d \in Entries(jobs) : d.id = cmd.arg => proc'[d.pid] = "reaped"
        BY <4>1 DEF BroughtToFront
      <4> QED
        BY <1>1, <1>2, <4>2, <4>3
    <3>2. CASE ~RemovesJob
      BY <1>1, <2>3, <3>2 DEF ClearForeground
    <3> QED
      BY <3>1, <3>2
  <2>4. CASE Foreground \/ Background \/ Kill
    <3>1. UNCHANGED jobs \/ \E p : \E st : Updated(jobs, jobs', p, st)
      BY <2>4, ForegroundSends, BackgroundSends, KillSends DEF Sent
    <3> QED
      BY <1>1, <1>3, <3>1
  <2>5. CASE QuitKill
    BY <2>5, MainCommands DEF MainGoes
  <2>6. CASE Reap(Main)
    <3>1. UNCHANGED jobs \/ \E p \in Pids : Dropped(jobs, jobs', p) /\ proc' = [proc EXCEPT ![p] = "reaped"]
      BY <2>6, ReapDrops, ThreadNames
    <3> QED
      BY <1>0, <1>1, <1>2, <3>1
  <2>8. CASE EraseFinished
    <3>1. pc[Main] = "erase" /\ proc' = proc
      BY <2>8, EraseDrops DEF EraseFinished, MainAt
    <3>2. idx[Main] \in DOMAIN jobs => proc[jobs[idx[Main]].pid] = "reaped"
      BY <3>1 DEF ErasedKnown
    <3> QED
      BY <1>1, <1>2, <2>8, <3>1, <3>2, EraseDrops
  <2> QED
    BY <1>5, <2>1, <2>2, <2>3, <2>4, <2>5, <2>6, <2>7, <2>8 DEF MainStep
<1>6. CASE HandlerStep
  <2>1. CASE Poll("zpoll", "zstop") \/ Poll("cpoll", "ckill") \/ CtrlZStop \/ CtrlCKill \/ Scan \/ Rearm
    BY <1>1, <2>1 DEF Poll, CtrlZStop, CtrlCKill, Scan, Rearm, shellVars
  <2>2. CASE CtrlZAddJob
    <3>1. fg \in Pids /\ AddEntry(fg, "STOPPED")
      BY <2>2, HandlerMoves DEF CtrlZAddJob, HandlerGoes, TypeInv, HandlerLocals, HandlerDest
    <3> QED
      BY <1>3, <3>1, AddEntryEntries
  <2>3. CASE TimeoutKill
    <3>1. PICK p : Dropped(jobs, jobs', p) /\ proc' = [proc EXCEPT ![p] = Signalled(@, TimeoutSignal)]
      BY <2>3, WithoutEntries DEF TimeoutKill, TypeInv
    <3>2. \A s \in ProcStates : Signalled(s, TimeoutSignal) \notin Living
      BY DEF Signalled, ProcStates, TimeoutSignal
    <3>3. e.pid # p
      BY <1>0, <3>1, <3>2
    <3> QED
      BY <3>1, <3>3 DEF Dropped
  <2>4. CASE Reap(Handler)
    <3>1. UNCHANGED jobs \/ \E p \in Pids : Dropped(jobs, jobs', p) /\ proc' = [proc EXCEPT ![p] = "reaped"]
      BY <2>4, ReapDrops, ThreadNames
    <3> QED
      BY <1>0, <1>1, <1>2, <3>1
  <2> QED
    BY <1>6, <2>1, <2>2, <2>3, <2>4 DEF HandlerStep
<1> QED
  BY <1>4, <1>5, <1>6 DEF Next

\* The child that is coming is listed before the main thread forgets it.
LEMMA ComingKept ==
  ASSUME ~StrayStops, TypeInv, Known, TableOK(jobs, maxId), ErasedKnown, BroughtToFront, raced = {},
         [Next]_vars, MainDest' \notin {"exited", "crashed"},
         NEW p \in Pids, Coming(p), proc'[p] \in Living
  PROVE  \/ p = cmd'.pid /\ MainDest' \in {"track", "addjob", "newjob", "setfg"} /\ proc'[p] = "running"
         \/ p = cmd'.pid /\ MainDest' = "wait" /\ (proc'[p] = "running" \/ HandlerDest' = "addjob")
         \/ \E d \in Entries(jobs') : d.pid = p
<1> USE DEF Living
<1>1. /\ p = cmd.pid
      /\ \/ MainDest \in {"track", "addjob", "newjob", "setfg"} /\ proc[p] = "running"
         \/ MainDest = "wait" /\ (proc[p] = "running" \/ HandlerDest = "addjob")
  BY DEF Coming
<1>2. CASE \E e \in Entries(jobs) : e.pid = p
  BY <1>2, ListedKept
<1>3. proc[p] = "running" => \/ proc'[p] = "running"
                             \/ CtrlZStop /\ p = fg
                             \/ \E e \in Entries(jobs) : e.pid = p
  BY AliveOrigin
<1>4. CASE HandlerStep \/ Environment \/ UNCHANGED vars
  <2>1. cmd' = cmd /\ MainDest' = MainDest
    BY <1>4, AsideStep DEF Known
  <2>2. CASE CtrlZStop
    <3>1. MainDest = "wait" /\ HandlerDest' = "addjob"
      BY <1>1, <2>2, HandlerMoves DEF HandlerGoes, Known, ForegroundKnown
    <3> QED
      BY <1>1, <2>1, <3>1
  <2>3. CASE CtrlZAddJob
    <3>1. HandlerDest = "addjob" /\ fg \in Pids /\ AddEntry(fg, "STOPPED")
      BY <2>3, HandlerMoves DEF HandlerGoes, CtrlZAddJob, TypeInv, HandlerLocals, HandlerDest
    <3>2. fg = p
      BY <1>1, <3>1 DEF Known, ForegroundKnown
    <3> QED
      BY <3>1, <3>2, AddEntryEntries
  <2>4. CASE ~CtrlZStop /\ ~CtrlZAddJob
    <3>1. HandlerDest = "addjob" => HandlerDest' = "addjob"
      <4>1. CASE Reap(Handler)
        BY <4>1, ReapGoes DEF Known
      <4>2. CASE HandlerStep /\ ~Reap(Handler)
        BY <2>4, <4>2, HandlerMoves DEF HandlerStep, HandlerGoes
      <4>3. CASE DeliverAlarm \/ Key("zpoll") \/ Key("cpoll")
        BY <4>3, HandlerMoves DEF HandlerGoes
      <4>4. CASE UNCHANGED vars \/ Tick \/ \E q \in Pids : Exit(q) \/ StrayStop(q)
        BY <4>4 DEF Tick, Exit, StrayStop, ctlVars, vars, HandlerDest, Dest
      <4> QED
        BY <1>4, <4>1, <4>2, <4>3, <4>4 DEF Environment
    <3> QED
      BY <1>1, <1>2, <1>3, <2>1, <2>4, <3>1
  <2> QED
    BY <2>2, <2>3, <2>4
<1>5. CASE ReadAny
  BY <1>1, <1>5, ReadGoes DEF ReadAny, MainGoes
<1>6. CASE MainStep
  <2>0. CtrlZStop => FALSE
    BY <1>6, HandlerMoves, MainCommands, ReapGoes DEF Known, HandlerGoes, MainGoes, MainStep
  <2>1. CASE Track \/ SetForeground
    BY <1>1, <1>2, <1>3, <2>0, <2>1, MainCommands DEF MainGoes, Track, SetForeground
  <2>2. CASE AddBackgroundJob
    <3>1. cmd' = [cmd EXCEPT !.arg = NextJobId] => cmd'.pid = cmd.pid
      BY DEF TypeInv, ControlTypes, CmdRec
    <3> QED
      BY <1>1, <2>2, <3>1, AddBackgroundJobEntries
  <2>6. CASE InsertBackgroundJob
    BY <1>1, <2>6, InsertBackgroundJobEntries DEF Added
  <2>3. CASE Wait
    <3>1. MainDest = "wait" /\ HandlerDest = "idle" /\ proc[cmd.pid] # "running"
      BY <2>3, MainCommands DEF MainGoes, Wait, WaitReady
    <3> QED
      BY <1>1, <3>1
  <2>4. CASE Reap(Main) \/ EraseFinished
    <3>1. MainDest' = MainDest /\ MainDest # "wait" /\ cmd' = cmd
      BY <2>4, ReapGoes DEF Known, MainReturns, Reap, EraseFinished
    <3> QED
      BY <1>1, <1>2, <1>3, <2>0, <3>1
  <2>5. CASE Arm \/ Fork \/ ClearForeground \/ Jobs \/ Foreground \/ Background \/ Kill \/ QuitKill
    BY <1>1, <2>5, MainCommands DEF MainGoes
  <2> QED
    BY <1>6, <2>1, <2>2, <2>3, <2>4, <2>5, <2>6 DEF MainStep
<1> QED
  BY <1>4, <1>5, <1>6 DEF Next

LEMMA AbsorbedStep ==
  ASSUME TypeInv, LoopsKnown, [Next]_vars, MainDest \in {"exited", "crashed"}
  PROVE  MainDest' = MainDest /\ cmd' = cmd
<1>1. CASE ReadAny \/ MainStep
  BY <1>1, ReadGoes, MainCommands, ReapGoes DEF ReadAny, MainStep, MainGoes, MainReturns
<1> QED
  BY <1>1, AsideStep DEF Next

LEMMA BroughtToFrontStep ==
  ASSUME IInv, BroughtToFront, [Next]_vars
  PROVE  BroughtToFront'
<1> SUFFICES ASSUME TypeInv, Known, TableOK(jobs, maxId) PROVE BroughtToFront'
  BY OrderedTable
<1> USE DEF BroughtToFront
<1>7. "newjob" \notin raced' => "newjob" \notin raced
  BY HistoryStep
<1>0. MainDest = "clear" /\ proc[cmd.pid] = "reaped" => proc'[cmd.pid] = "reaped"
  BY ProcessesOnce DEF TypeInv, MainLocals, MainDest
<1>1. CASE ReadAny
  <2>1. PICK op \in Commands, arg \in Nat, sig \in AllSignals, timer \in Timers \cup {NoTimer} :
          ReadCommand(op, arg, sig, timer)
    <3>1. \A arg \in 0..MaxJobArg : arg \in Nat
      BY ConstantAssumption
    <3>2. Signals \cup {"SIGCONT"} \subseteq AllSignals
      BY ConstantAssumption DEF AllSignals
    <3> QED
      BY <1>1, <3>1, <3>2 DEF ReadAny
  <2>2. MainDest' \in Started \cup {"arm", "crashed"}
    BY <2>1, ReadGoes DEF MainGoes
  <2>3. MainDest' = "fork" => op \in {"ext", "ext&"} /\ cmd'.op = op
    BY <2>1, ThreadNames DEF ReadCommand, Execute, Goto, CallReap, MainDest, Dest, TypeInv, ControlTypes
  <2> QED
    BY <2>2, <2>3 DEF Started
<1>2. ASSUME cmd' = cmd, MainDest' = MainDest \/ (MainDest = "setfg" /\ MainDest' = "wait"),
             \A d \in Entries(jobs') : d \in Entries(jobs) \/ (d.pid = cmd.pid)
      PROVE  BroughtToFront'
  BY <1>0, <1>2, <1>7
<1>3. CASE HandlerStep \/ Environment \/ UNCHANGED vars
  <2>1. cmd' = cmd /\ MainDest' = MainDest
    BY <1>3, AsideStep DEF Known
  <2>2. \A d \in Entries(jobs') : d \in Entries(jobs) \/ (d.pid = cmd.pid)
    <3>1. CASE CtrlZAddJob
      <4>1. fg = cmd.pid /\ fg \in Pids /\ AddEntry(fg, "STOPPED")
        BY <3>1, HandlerMoves DEF HandlerGoes, CtrlZAddJob, TypeInv, HandlerLocals, HandlerDest, Known, ForegroundKnown
      <4> QED
        BY <4>1, AddEntryEntries DEF Updated
    <3>2. CASE TimeoutKill
      BY <3>2, WithoutEntries DEF TimeoutKill, TypeInv, Dropped
    <3>3. CASE Reap(Handler)
      BY <3>3, ReapDrops, ThreadNames DEF Dropped
    <3>4. CASE UNCHANGED jobs
      BY <3>4
    <3> QED
      BY <1>3, <3>1, <3>2, <3>3, <3>4 DEF HandlerStep, Environment, Poll, CtrlZStop, CtrlCKill, Scan, Rearm,
         Key, DeliverAlarm, Tick, Exit, StrayStop, shellVars, vars
  <2> QED
    BY <1>2, <2>1, <2>2
<1>4. CASE MainStep
  <2>1. CASE Arm
    <3>1. cmd' = cmd /\ MainDest' \in Started /\ (MainDest' = "fork" => cmd.op \in {"ext", "ext&"})
      <4>1. cmd' = cmd /\ MainDest' \in Started
        BY <2>1, MainCommands DEF MainGoes, Arm
      <4>2. MainDest' = "fork" => cmd.op \in {"ext", "ext&"}
        BY <2>1, ThreadNames DEF Arm, Execute, Goto, CallReap, MainDest, Dest, TypeInv, ControlTypes
      <4> QED
        BY <4>1, <4>2
    <3> QED
      BY <3>1 DEF Started
  <2>2. CASE AddBackgroundJob \/ InsertBackgroundJob \/ ClearForeground \/ Jobs \/ Background \/ Kill \/ QuitKill
    BY <2>2, MainCommands DEF MainGoes
  <2>3. CASE Fork \/ Track
    <3>1. MainDest \in {"fork", "track"} /\ MainDest' \in {"track", "addjob", "setfg"}
      BY <2>3, MainCommands DEF MainGoes
    <3>2. cmd'.op = cmd.op
      BY <2>3 DEF Fork, Track, TypeInv, ControlTypes, CmdRec
    <3> QED
      BY <3>1, <3>2
  <2>4. CASE SetForeground
    <3>1. MainDest = "setfg" /\ MainDest' = "wait" /\ cmd' = cmd /\ jobs' = jobs
      BY <2>4, MainCommands DEF MainGoes, SetForeground
    <3> QED
      BY <1>2, <3>1
  <2>5. CASE Wait
    <3>1. MainDest = "wait" /\ MainDest' \in {"clear", "prompt"} /\ jobs' = jobs /\ cmd.pid \in Pids
      BY <2>5, MainCommands DEF MainGoes, Wait, shellVars, TypeInv, MainLocals, MainDest
    <3>2. MainDest' = "clear" =>
            /\ cmd'.op = cmd.op /\ cmd'.arg = cmd.arg /\ cmd'.pid = cmd.pid
            /\ cmd'.stopped \/ proc'[cmd.pid] = "reaped"
      <4>1. MainDest' = "clear" =>
              /\ proc[cmd.pid] \in {"zombie", "stopped"}
              /\ proc' = [proc EXCEPT ![cmd.pid] = IF @ = "zombie" THEN "reaped" ELSE "parked"]
              /\ cmd' = [cmd EXCEPT !.stopped = proc[cmd.pid] = "stopped"]
        BY <2>5, ThreadNames DEF Wait, Return, Goto, MainDest, Dest, TypeInv, ControlTypes
      <4>2. cmd \in CmdRec /\ proc \in [Pids -> ProcStates]
        BY DEF TypeInv, ControlTypes, KernelTypes
      <4>3. MainDest' = "clear" => (proc[cmd.pid] = "stopped" \/ proc'[cmd.pid] = "reaped")
        BY <3>1, <4>1, <4>2
      <4>4. MainDest' = "clear" => cmd'.op = cmd.op /\ cmd'.arg = cmd.arg /\ cmd'.pid = cmd.pid
        BY <4>1, <4>2 DEF CmdRec
      <4>5. MainDest' = "clear" /\ proc[cmd.pid] = "stopped" => cmd'.stopped
        BY <4>1, <4>2 DEF CmdRec
      <4> QED
        BY <4>3, <4>4, <4>5
    <3> QED
      BY <1>7, <3>1, <3>2
  <2>6. CASE Foreground
    <3>1. MainDest' \in {"setfg", "prompt"}
      BY <2>6, MainCommands DEF MainGoes
    <3>2. MainDest' = "setfg" /\ "newjob" \notin raced' => \A d \in Entries(jobs') : d.id = cmd'.arg => d.pid = cmd'.pid
      <4>0. "newjob" \notin raced' => IdsIncrease(jobs, maxId)
        BY <1>7 DEF IInv, TableInv
      <4>1. MainDest' = "setfg" /\ "newjob" \notin raced' => \E e \in Entries(jobs) :
              /\ cmd' = [cmd EXCEPT !.arg = e.id, !.pid = e.pid]
              /\ \A d \in Entries(jobs') : d.id = e.id => d.pid = e.pid
        BY <2>6, <4>0, ForegroundSends
      <4>2. ASSUME NEW e \in Entries(jobs), cmd' = [cmd EXCEPT !.arg = e.id, !.pid = e.pid]
            PROVE  cmd'.arg = e.id /\ cmd'.pid = e.pid
        BY <4>2 DEF TypeInv, ControlTypes, CmdRec
      <4>3. MainDest' = "setfg" /\ "newjob" \notin raced' => \E e \in Entries(jobs) :
              cmd'.arg = e.id /\ cmd'.pid = e.pid /\ \A d \in Entries(jobs') : d.id = e.id => d.pid = e.pid
        BY <4>1, <4>2
      <4> QED
        BY <4>3
    <3> QED
      BY <3>1, <3>2
  <2>7. CASE Reap(Main) \/ EraseFinished
    <3>1. cmd' = cmd /\ (MainDest' = MainDest \/ MainDest' = "crashed")
      BY <2>7, ReapGoes DEF Reap, EraseFinished, Known
    <3>2. \A d \in Entries(jobs') : d \in Entries(jobs)
      BY <2>7, ReapDrops, EraseDrops, ThreadNames DEF Dropped
    <3> QED
      BY <1>0, <1>7, <3>1, <3>2
  <2> QED
    BY <1>4, <2>1, <2>2, <2>3, <2>4, <2>5, <2>6, <2>7 DEF MainStep
<1> QED
  BY <1>1, <1>3, <1>4 DEF Next

LEMMA ChildrenListedStep ==
  ASSUME ~StrayStops, IInv, ErasedKnown, BroughtToFront, ChildrenListed, [Next]_vars
  PROVE  ChildrenListed'
<1> USE OrderedTable
<1> SUFFICES ASSUME raced' = {}, MainDest' \notin {"exited", "crashed"}, NEW p \in Pids, proc'[p] \in Living
             PROVE  \/ p = cmd'.pid /\ MainDest' \in {"track", "addjob", "newjob", "setfg"} /\ proc'[p] = "running"
                    \/ p = cmd'.pid /\ MainDest' = "wait" /\ (proc'[p] = "running" \/ HandlerDest' = "addjob")
                    \/ \E d \in Entries(jobs') : d.pid = p
  BY DEF ChildrenListed, Alive, Coming, Living
<1>1. raced = {} /\ MainDest \notin {"exited", "crashed"}
  BY AbsorbedStep, HistoryStep DEF Known
<1>2. CASE proc[p] \in Living
  <2>1. Coming(p) \/ \E e \in Entries(jobs) : e.pid = p
    BY <1>1, <1>2 DEF ChildrenListed, Alive, Living
  <2> QED
    BY <1>1, <2>1, ComingKept, ListedKept
<1>3. CASE proc[p] \notin Living
  BY <1>3, AliveOrigin
<1> QED
  BY <1>2, <1>3

\* No entry but that of the child just reaped is erased, unless an alarm came in
\* between.
LEMMA ErasedKnownStep ==
  ASSUME TypeInv, Known, Uninterrupted, ErasedKnown, [Next]_vars
  PROVE  ErasedKnown'
<1> SUFFICES ASSUME pc'[Main] = "erase", "erase" \notin raced'
             PROVE  idx'[Main] \in DOMAIN jobs' /\ proc'[jobs'[idx'[Main]].pid] = "reaped"
  BY DEF ErasedKnown
<1>1. "erase" \notin raced
  BY HistoryStep
<1>2. \A k \in DOMAIN jobs : jobs[k].pid \in Pids
  BY EntriesTyped DEF TypeInv, TableType, JobRec
<1>3. CASE ReadAny \/ MainStep
  <2>1. Reap(Main)
    BY <1>3, ThreadNames
       DEF ReadAny, ReadCommand, Execute, MainStep, Arm, Fork, Track, AfterFork, AddBackgroundJob,
           InsertBackgroundJob, SetForeground, Wait, ClearForeground, Jobs, Foreground, Background, Kill,
           QuitKill, EraseFinished, Return, Goto, CallReap, TypeInv, ControlTypes
  <2>2. idx[Main] \in DOMAIN jobs /\ proc' = [proc EXCEPT ![jobs[idx[Main]].pid] = "reaped"]
        /\ UNCHANGED <<jobs, idx>>
    <3>1. pc[Main] = "reap" /\ after[Main] # "erase"
      BY <2>1 DEF Reap, Known, LoopsKnown, MainReturns
    <3> QED
      BY <2>1, <3>1, ThreadNames DEF Reap, LeaveReap, Goto, TypeInv, ControlTypes
  <2> QED
    BY <1>2, <2>2 DEF TypeInv, KernelTypes
<1>4. CASE HandlerStep \/ Environment \/ UNCHANGED vars
  <2>1. pc[Main] = "erase"
    BY <1>4, AsideMoves DEF Known
  <2>2. pc[Handler] # "reap" /\ HandlerDest \notin AlarmPlaces \cup {"addjob"}
    BY <1>1, <2>1, FragileAlone DEF Fragile
  <2>3. ~Reap(Handler) /\ ~CtrlZAddJob /\ ~TimeoutKill
    BY <2>2, HandlerMoves DEF HandlerGoes, Reap, CtrlZAddJob, HandlerAt, HandlerDest, Dest, TimeoutKill, AlarmPlaces
  <2>4. jobs' = jobs /\ idx'[Main] = idx[Main]
    BY <1>4, <2>3, ThreadNames
       DEF HandlerStep, Poll, CtrlZStop, CtrlCKill, Scan, Rearm, Environment, Key, DeliverAlarm, Tick, Exit,
           StrayStop, CallReap, shellVars, ctlVars, vars, TypeInv, ControlTypes
  <2> QED
    BY <1>1, <1>2, <2>1, <2>4, ProcessesOnce DEF ErasedKnown
<1> QED
  BY <1>3, <1>4 DEF Next

\* When nobody but the shell stops its children, every child alive at the prompt
\* has an entry, whatever ctrl-Z, ctrl-C, fg and the timeouts did before: as long
\* as no alarm came between a waitpid of the main loop and its erase, or between
\* the id of a new job and its entry.
THEOREM NoLostChildCorrect ==
  ASSUME ~StrayStops
  PROVE  Spec => []NoLostChild
<1> DEFINE Listing == ErasedKnown /\ BroughtToFront /\ ChildrenListed
<1>1. Init => Listing
  BY ThreadNames DEF Init, ErasedKnown, BroughtToFront, ChildrenListed, Alive, MainDest, Dest
<1>2. Listing /\ IInv /\ [Next]_vars => Listing'
  BY ErasedKnownStep, BroughtToFrontStep, ChildrenListedStep DEF IInv
<1>3. Listing => NoLostChild
  <2>1. AtPrompt => MainDest = "prompt"
    BY DEF AtPrompt, MainAt, MainDest, Dest
  <2> QED
    BY <2>1 DEF ChildrenListed, NoLostChild, Coming, IsListed, Entries
<1> QED
  BY <1>1, <1>2, <1>3, Invariance, PTL DEF Spec

-----------------------------------------------------------------------------
(* The status of an entry is that of its process.                            *)

StoppedKnown ==
  /\ \A e \in Entries(jobs) : e.status = "STOPPED" => proc[e.pid] # "running"
  /\ HandlerDest = "addjob" => proc[fg] # "running"

RunningKnown ==
  /\ \A e \in Entries(jobs) : e.status = "RUNNING" /\ proc[e.pid] \in {"stopped", "parked"} =>
       HandlerDest = "addjob" /\ e.pid = fg
  /\ MainDest \in {"track", "addjob", "newjob", "setfg"} => proc[cmd.pid] \in {"running", "zombie", "reaped"}
  /\ MainDest = "wait" => \/ proc[cmd.pid] \in {"zombie", "reaped", "stopped"}
                          \/ proc[cmd.pid] = "running" /\ fg = cmd.pid
  /\ cmd.sig # "SIGTSTP"

LEMMA StoppedKnownStep ==
  ASSUME TypeInv, Known, TableOK(jobs, maxId), StoppedKnown, [Next]_vars
  PROVE  StoppedKnown'
<1> USE DEF StoppedKnown
<1>0. /\ \A e \in Entries(jobs) : e.pid \in Pids /\ proc[e.pid] # "free"
      /\ proc \in [Pids -> ProcStates]
      /\ HandlerDest = "addjob" => fg \in Pids
  BY EntryType DEF TypeInv, KernelTypes, HandlerLocals, HandlerDest, Known, Forked
<1> DEFINE Stopped == \A d \in Entries(jobs') : d.status = "STOPPED" => proc'[d.pid] # "running"
           Asleep  == HandlerDest' = "addjob" => proc'[fg'] # "running"
<1>1. CASE ReadAny \/ MainStep
  <2>1. Asleep
    BY <1>1, ReadGoes, MainCommands, ReapGoes DEF ReadAny, MainStep, MainGoes, Known
  <2>2. CASE UNCHANGED <<jobs, proc>>
    BY <2>1, <2>2
  <2>3. CASE Fork
    <3>1. jobs' = jobs /\ \E p \in Pids : proc[p] = "free" /\ proc' = [proc EXCEPT ![p] = "running"]
      BY <2>3 DEF Fork, shellVars
    <3>2. Stopped
      BY <1>0, <3>1
    <3> QED
      BY <2>1, <3>2
  <2>4. CASE AddBackgroundJob
    <3>1. Stopped
      BY <2>4, AddBackgroundJobEntries DEF Updated
    <3> QED
      BY <2>1, <3>1
  <2>13. CASE InsertBackgroundJob
    <3>1. Stopped
      BY <2>13, InsertBackgroundJobEntries DEF Added
    <3> QED
      BY <2>1, <3>1
  <2>5. CASE Wait
    <3>1. jobs' = jobs /\ cmd.pid \in Pids
      BY <2>5, MainCommands DEF MainGoes, Wait, TypeInv, MainLocals, MainDest, shellVars
    <3>2. proc' = proc \/ proc' = [proc EXCEPT ![cmd.pid] = IF @ = "zombie" THEN "reaped" ELSE "parked"]
      BY <2>5 DEF Wait
    <3>3. Stopped
      BY <1>0, <3>1, <3>2
    <3> QED
      BY <2>1, <3>3
  <2>6. CASE ClearForeground
    <3>1. proc' = proc /\ (jobs' = jobs \/ \E p : Dropped(jobs, jobs', p))
      BY <2>6, WithoutEntries DEF ClearForeground, kernelVars
    <3>2. Stopped
      BY <3>1 DEF Dropped
    <3> QED
      BY <2>1, <3>2
  <2>7. CASE \E e \in Entries(jobs) : Sent(e.pid, "SIGCONT", "RUNNING")
    <3>1. Stopped
      BY <1>0, <2>7 DEF Sent, Updated
    <3> QED
      BY <2>1, <3>1
  <2>8. CASE Kill
    <3>1. CASE \E e \in Entries(jobs) : Sent(e.pid, cmd.sig, StatusAfter(e.status, cmd.sig))
      <4>1. PICK e \in Entries(jobs) : Sent(e.pid, cmd.sig, StatusAfter(e.status, cmd.sig))
        BY <3>1
      <4>2. /\ e.pid \in Pids /\ proc'[e.pid] = Signalled(proc[e.pid], cmd.sig)
            /\ \A p \in Pids : p # e.pid => proc'[p] = proc[p]
        BY <1>0, <4>1 DEF Sent
      <4>3. StatusAfter(e.status, cmd.sig) = "STOPPED" => proc'[e.pid] # "running"
        <5>1. e.status = "STOPPED" => proc[e.pid] # "running"
          OBVIOUS
        <5>2. \A s \in ProcStates : \A sig :
                /\ sig # "SIGCONT" /\ s # "running" => Signalled(s, sig) # "running"
                /\ Signalled(s, "SIGSTOP") # "running"
          BY DEF Signalled, ProcStates
        <5> QED
          BY <1>0, <4>2, <5>1, <5>2 DEF StatusAfter
      <4>4. Stopped
        BY <1>0, <4>1, <4>2, <4>3 DEF Sent, Updated
      <4> QED
        BY <2>1, <4>4
    <3> QED
      BY <2>2, <2>8, <3>1, KillSends
  <2>9. CASE QuitKill
    <3>1. jobs' \in {<<>>, jobs} /\ \A p \in Pids : proc'[p] = "running" => proc[p] = "running"
      BY <2>9 DEF QuitKill
    <3>2. Stopped
      BY <1>0, <3>1 DEF Entries
    <3> QED
      BY <2>1, <3>2
  <2>10. CASE \/ \E p \in Pids : /\ proc' = [proc EXCEPT ![p] = "reaped"]
                                 /\ jobs' = jobs \/ Dropped(jobs, jobs', p)
              \/ proc' = proc /\ \E p : Dropped(jobs, jobs', p)
    <3>1. Stopped
      BY <1>0, <2>10 DEF Dropped
    <3> QED
      BY <2>1, <3>1
  <2>11. CASE Foreground \/ Background \/ Reap(Main) \/ EraseFinished
    BY <2>2, <2>7, <2>10, <2>11, ForegroundSends, BackgroundSends, ReapDrops, EraseDrops, ThreadNames
  <2>12. CASE ReadAny \/ Arm \/ Track \/ SetForeground \/ Jobs
    BY <2>2, <2>12 DEF ReadAny, ReadCommand, Arm, Track, SetForeground, Jobs, shellVars, kernelVars
  <2> QED
    BY <1>1, <2>3, <2>4, <2>5, <2>6, <2>8, <2>9, <2>11, <2>12, <2>13 DEF MainStep
<1>2. CASE HandlerStep
  <2>1. CASE Poll("zpoll", "zstop") \/ Poll("cpoll", "ckill") \/ CtrlCKill \/ Scan \/ Rearm
    <3>1. jobs' = jobs /\ HandlerDest' # "addjob"
      BY <2>1, HandlerMoves DEF HandlerGoes, Poll, CtrlCKill, Scan, Rearm, shellVars
    <3>2. \A s \in ProcStates : Signalled(s, "SIGKILL") # "running"
      BY DEF Signalled, ProcStates
    <3>3. proc' = proc \/ (\E p : proc' = [proc EXCEPT ![p] = "reaped"])
          \/ (\E p : proc' = [proc EXCEPT ![p] = Signalled(@, "SIGKILL")])
          \/ (proc' = [proc EXCEPT ![fg] = IF @ = "zombie" THEN "reaped" ELSE @])
      BY <2>1 DEF Poll, CtrlCKill, Scan, Rearm
    <3>4. Stopped
      BY <1>0, <3>1, <3>2, <3>3
    <3> QED
      BY <3>1, <3>4
  <2>2. CASE CtrlZStop
    <3>1. jobs' = jobs /\ fg' = fg /\ fg \in Pids /\ proc' = [proc EXCEPT ![fg] = Signalled(@, "SIGSTOP")]
      BY <2>2 DEF CtrlZStop, shellVars, TypeInv, HandlerLocals, HandlerAt, Dest
    <3>2. \A s \in ProcStates : Signalled(s, "SIGSTOP") # "running"
      BY DEF Signalled, ProcStates
    <3>3. Stopped /\ Asleep
      BY <1>0, <3>1, <3>2
    <3> QED
      BY <3>3
  <2>3. CASE CtrlZAddJob
    <3>1. HandlerDest = "addjob" /\ HandlerDest' = "idle" /\ AddEntry(fg, "STOPPED") /\ proc' = proc
      BY <2>3, HandlerMoves DEF HandlerGoes, CtrlZAddJob, kernelVars
    <3>2. Updated(jobs, jobs', fg, "STOPPED")
      BY <1>0, <3>1, AddEntryEntries
    <3>3. Stopped
      BY <3>1, <3>2 DEF Updated
    <3> QED
      BY <3>1, <3>3
  <2>4. CASE TimeoutKill
    <3>1. HandlerDest' = "rearm"
      BY <2>4, HandlerMoves DEF HandlerGoes
    <3>2. PICK p : Dropped(jobs, jobs', p) /\ proc' = [proc EXCEPT ![p] = Signalled(@, TimeoutSignal)]
      BY <2>4, WithoutEntries DEF TimeoutKill
    <3>3. \A s \in ProcStates : Signalled(s, TimeoutSignal) # "running"
      BY DEF Signalled, ProcStates, TimeoutSignal
    <3>4. Stopped
      BY <1>0, <3>2, <3>3 DEF Dropped
    <3> QED
      BY <3>1, <3>4
  <2>5. CASE Reap(Handler)
    <3>1. HandlerDest' = HandlerDest /\ fg' = fg
      BY <2>5, ReapGoes DEF Known, Reap
    <3>2. \/ UNCHANGED <<jobs, proc>>
          \/ \E p \in Pids : /\ proc' = [proc EXCEPT ![p] = "reaped"]
                             /\ jobs' = jobs \/ Dropped(jobs, jobs', p)
      BY <2>5, ReapDrops, ThreadNames
    <3>3. Stopped /\ Asleep
      BY <1>0, <3>1, <3>2 DEF Dropped
    <3> QED
      BY <3>3
  <2> QED
    BY <1>2, <2>1, <2>2, <2>3, <2>4, <2>5 DEF HandlerStep
<1>3. CASE Environment \/ UNCHANGED vars
  <2>1. jobs' = jobs /\ fg' = fg
    BY <1>3 DEF Environment, Key, DeliverAlarm, Tick, Exit, StrayStop, shellVars, vars
  <2>2. proc' = proc \/ \E p : proc' = [proc EXCEPT ![p] = "zombie"] \/ proc' = [proc EXCEPT ![p] = "stopped"]
    BY <1>3 DEF Environment, Key, DeliverAlarm, Tick, Exit, StrayStop, kernelVars, vars
  <2>3. HandlerDest' = "addjob" => HandlerDest = "addjob"
    <3>1. CASE DeliverAlarm \/ Key("zpoll") \/ Key("cpoll")
      BY <3>1, HandlerMoves DEF HandlerGoes
    <3>2. CASE UNCHANGED vars \/ Tick \/ \E p \in Pids : Exit(p) \/ StrayStop(p)
      BY <3>2 DEF Tick, Exit, StrayStop, ctlVars, vars, HandlerDest, Dest
    <3> QED
      BY <1>3, <3>1, <3>2 DEF Environment
  <2>4. Stopped /\ Asleep
    BY <1>0, <2>1, <2>2, <2>3
  <2> QED
    BY <2>4
<1> QED
  BY <1>1, <1>2, <1>3 DEF Next

\* The running processes under the hypothesis that only the shell stops a child,
\* and with a signal after which it notes the stop.
OnlyShellStops == ~StrayStops /\ "SIGTSTP" \notin Signals

LEMMA RunningKnownStep ==
  ASSUME OnlyShellStops, TypeInv, Known, TableOK(jobs, maxId), StoppedKnown, RunningKnown, [Next]_vars
  PROVE  RunningKnown'
<1> USE DEF RunningKnown
<1>0. /\ \A e \in Entries(jobs) : /\ e.pid \in Pids /\ proc[e.pid] # "free"
                                  /\ e.status \in {"STOPPED", "RUNNING"}
      /\ proc \in [Pids -> ProcStates]
      /\ HandlerDest \in {"zstop", "addjob", "ckill"} => fg \in Pids
      /\ MainDest \in {"track", "addjob", "newjob", "setfg", "wait"} => cmd.pid \in Pids
      /\ cmd \in CmdRec
  BY EntryType DEF TypeInv, KernelTypes, HandlerLocals, HandlerDest, MainLocals, MainDest, ControlTypes, Known, Forked
<1> DEFINE Asleep(p) == proc'[p] \in {"stopped", "parked"}
           Entry     == \A d \in Entries(jobs') : d.status = "RUNNING" /\ Asleep(d.pid) =>
                          HandlerDest' = "addjob" /\ d.pid = fg'
           Awake     == MainDest' \in {"track", "addjob", "newjob", "setfg"} => proc'[cmd'.pid] \in {"running", "zombie", "reaped"}
           Waited    == MainDest' = "wait" => \/ proc'[cmd'.pid] \in {"zombie", "reaped", "stopped"}
                                              \/ proc'[cmd'.pid] = "running" /\ fg' = cmd'.pid
           Sign      == cmd'.sig # "SIGTSTP"
<1>1. CASE ReadAny
  <2>1. PICK op \in Commands, arg \in Nat, sig \in Signals \cup {"SIGCONT"}, timer \in Timers \cup {NoTimer} :
          ReadCommand(op, arg, sig, timer)
    BY <1>1 DEF ReadAny
  <2>2. cmd'.sig # "SIGTSTP" /\ UNCHANGED <<jobs, proc>>
    BY <2>1 DEF ReadCommand, shellVars, kernelVars, OnlyShellStops
  <2>3. HandlerDest = "idle" /\ MainDest' \in Started \cup {"arm", "crashed"}
    BY <2>1, ReadGoes DEF MainGoes
  <2> QED
    BY <2>2, <2>3 DEF Started
<1>2. CASE MainStep
  <2>0. HandlerDest = "idle" /\ \A e \in Entries(jobs) : e.status = "RUNNING" => proc[e.pid] \notin {"stopped", "parked"}
    BY <1>2, MainCommands, ReapGoes DEF MainStep, MainGoes, Known
  <2>1. CASE Arm \/ Track \/ Jobs
    <3>1. UNCHANGED <<jobs, proc>> /\ (cmd' = cmd \/ cmd' = NoCommand)
      BY <2>1 DEF Arm, Track, Jobs, Return, shellVars, kernelVars
    <3>2. \/ MainDest' \in Started
          \/ MainDest = "track" /\ MainDest' \in {"addjob", "setfg"} /\ cmd' = cmd
      BY <2>1, MainCommands DEF MainGoes, Started, Track
    <3>3. NoCommand.sig = "SIGCONT"
      BY DEF NoCommand
    <3> QED
      BY <2>0, <3>1, <3>2, <3>3 DEF Started
  <2>2. CASE Fork
    <3>1. PICK p \in Pids : proc[p] = "free" /\ proc' = [proc EXCEPT ![p] = "running"] /\ cmd' = [cmd EXCEPT !.pid = p]
      BY <2>2 DEF Fork
    <3>2. cmd'.pid = p /\ cmd'.sig = cmd.sig /\ jobs' = jobs
      BY <1>0, <2>2, <3>1 DEF CmdRec, Fork, shellVars
    <3>3. MainDest' \in {"track", "addjob", "setfg"}
      BY <2>2, MainCommands DEF MainGoes
    <3>4. Entry
      BY <1>0, <2>0, <3>1, <3>2
    <3> QED
      BY <1>0, <3>1, <3>2, <3>3, <3>4
  <2>3. CASE AddBackgroundJob
    <3>1. MainDest = "addjob" /\ proc[cmd.pid] \notin {"stopped", "parked"}
      BY <2>3, AddBackgroundJobEntries
    <3>2. Entry
      BY <2>0, <2>3, <3>1, AddBackgroundJobEntries DEF Updated
    <3>3. NoCommand.sig = "SIGCONT"
      BY DEF NoCommand
    <3>4. cmd' = [cmd EXCEPT !.arg = NextJobId] => cmd'.pid = cmd.pid /\ cmd'.sig = cmd.sig
      BY <1>0 DEF CmdRec
    <3> QED
      BY <2>3, <3>1, <3>2, <3>3, <3>4, AddBackgroundJobEntries
  <2>13. CASE InsertBackgroundJob
    <3>1. Entry
      BY <2>0, <2>13, InsertBackgroundJobEntries DEF Added
    <3>2. NoCommand.sig = "SIGCONT"
      BY DEF NoCommand
    <3> QED
      BY <2>13, <3>1, <3>2, InsertBackgroundJobEntries
  <2>4. CASE SetForeground
    <3>1. MainDest = "setfg" /\ MainDest' = "wait" /\ UNCHANGED <<jobs, proc, cmd>> /\ fg' = cmd.pid
      BY <2>4, MainCommands DEF MainGoes, SetForeground, kernelVars
    <3> QED
      BY <2>0, <3>1
  <2>5. CASE Wait
    <3>1. MainDest = "wait" /\ MainDest' \in {"clear", "prompt"} /\ jobs' = jobs
      BY <2>5, MainCommands DEF MainGoes, Wait, shellVars
    <3>2. proc' = proc \/ (proc' = [proc EXCEPT ![cmd.pid] = IF @ = "zombie" THEN "reaped" ELSE "parked"]
                           /\ proc[cmd.pid] \in {"zombie", "stopped"})
      BY <2>5 DEF Wait
    <3>3. Entry
      BY <1>0, <2>0, <3>1, <3>2
    <3>4. Sign
      <4>1. cmd' = NoCommand \/ cmd' = [cmd EXCEPT !.stopped = proc[cmd.pid] = "stopped"]
        BY <2>5 DEF Wait, Return
      <4>2. NoCommand.sig = "SIGCONT"
        BY DEF NoCommand
      <4>3. \A x : [cmd EXCEPT !.stopped = x].sig = cmd.sig
        BY <1>0 DEF CmdRec
      <4>4. CASE cmd' = [cmd EXCEPT !.stopped = proc[cmd.pid] = "stopped"]
        BY <1>0, <4>4 DEF CmdRec
      <4> QED
        BY <4>1, <4>2, <4>4
    <3> QED
      BY <3>1, <3>3, <3>4
  <2>6. CASE ClearForeground
    <3>1. proc' = proc /\ (jobs' = jobs \/ \E p : Dropped(jobs, jobs', p)) /\ cmd' = NoCommand
      BY <2>6, WithoutEntries DEF ClearForeground, kernelVars, Return
    <3>2. MainDest' = "prompt"
      BY <2>6, MainCommands DEF MainGoes
    <3>3. Entry
      BY <2>0, <3>1 DEF Dropped
    <3>4. NoCommand.sig = "SIGCONT"
      BY DEF NoCommand
    <3> QED
      BY <3>1, <3>2, <3>3, <3>4
  <2>7. ASSUME NEW e \in Entries(jobs), Sent(e.pid, "SIGCONT", "RUNNING")
        PROVE  Entry /\ proc'[e.pid] \in {"running", "zombie", "reaped"}
    <3>1. \A s \in ProcStates : s # "free" => Signalled(s, "SIGCONT") \in {"running", "zombie", "reaped"}
      BY DEF Signalled, ProcStates
    <3>2. /\ proc'[e.pid] = Signalled(proc[e.pid], "SIGCONT")
          /\ \A p \in Pids : p # e.pid => proc'[p] = proc[p]
      BY <1>0, <2>7 DEF Sent
    <3>3. proc'[e.pid] \in {"running", "zombie", "reaped"}
      BY <1>0, <3>1, <3>2
    <3> QED
      BY <1>0, <2>0, <2>7, <3>2, <3>3 DEF Sent, Updated
  <2>8. CASE Foreground
    <3>1. CASE UNCHANGED <<jobs, proc>> /\ MainDest' = "prompt" /\ cmd' = NoCommand
      <4>1. NoCommand.sig = "SIGCONT"
        BY DEF NoCommand
      <4> QED
        BY <2>0, <3>1, <4>1
    <3>2. ASSUME NEW e \in Entries(jobs), cmd' = [cmd EXCEPT !.arg = e.id, !.pid = e.pid],
                 \/ UNCHANGED <<jobs, proc>> /\ (e.status = "RUNNING" \/ proc[e.pid] = "reaped")
                 \/ Sent(e.pid, "SIGCONT", "RUNNING")
          PROVE  RunningKnown'
      <4>1. cmd'.pid = e.pid /\ cmd'.sig = cmd.sig
        BY <1>0, <3>2 DEF CmdRec
      <4>2. MainDest' \in {"setfg", "prompt"}
        BY <2>8, MainCommands DEF MainGoes
      <4>3. Entry /\ proc'[e.pid] \in {"running", "zombie", "reaped"}
        <5>1. CASE UNCHANGED <<jobs, proc>> /\ (e.status = "RUNNING" \/ proc[e.pid] = "reaped")
          BY <1>0, <2>0, <5>1 DEF ProcStates
        <5> QED
          BY <2>7, <3>2, <5>1
      <4> QED
        BY <4>1, <4>2, <4>3
    <3> QED
      BY <2>8, <3>1, <3>2, ForegroundSends
  <2>9. CASE Background
    <3>1. MainDest' = "prompt" /\ cmd' = NoCommand
      BY <2>9, MainCommands DEF MainGoes, Background, Return
    <3>2. Entry
      BY <2>0, <2>7, <2>9, BackgroundSends
    <3>3. NoCommand.sig = "SIGCONT"
      BY DEF NoCommand
    <3> QED
      BY <3>1, <3>2, <3>3
  <2>10. CASE Kill
    <3>1. MainDest' = "prompt" /\ cmd' = NoCommand
      BY <2>10, MainCommands DEF MainGoes, Kill, Return
    <3>2. Entry
      <4>1. CASE UNCHANGED <<jobs, proc>>
        BY <2>0, <4>1
      <4>2. ASSUME NEW e \in Entries(jobs), Sent(e.pid, cmd.sig, StatusAfter(e.status, cmd.sig)) PROVE Entry
        <5>1. /\ proc'[e.pid] = Signalled(proc[e.pid], cmd.sig)
              /\ \A p \in Pids : p # e.pid => proc'[p] = proc[p]
          BY <1>0, <4>2 DEF Sent
        <5>2. cmd.sig \in {"SIGSTOP", "SIGCONT", "SIGKILL"}
          BY <1>0 DEF CmdRec, AllSignals
        <5>3. \A s \in ProcStates : /\ Signalled(s, "SIGCONT") \notin {"stopped", "parked"}
                                    /\ Signalled(s, "SIGKILL") \notin {"stopped", "parked"}
          BY DEF Signalled, ProcStates
        <5>4. StatusAfter(e.status, cmd.sig) = "RUNNING" => proc'[e.pid] \notin {"stopped", "parked"}
          BY <1>0, <5>1, <5>2, <5>3 DEF StatusAfter
        <5> QED
          BY <1>0, <2>0, <4>2, <5>1, <5>4 DEF Sent, Updated
      <4> QED
        BY <2>10, <4>1, <4>2, KillSends
    <3>3. NoCommand.sig = "SIGCONT"
      BY DEF NoCommand
    <3> QED
      BY <3>1, <3>2, <3>3
  <2>11. CASE QuitKill
    <3>1. MainDest' = "exited" /\ cmd' = cmd
      BY <2>11, MainCommands DEF MainGoes, QuitKill
    <3>2. jobs' \in {<<>>, jobs} /\ \A p \in Pids : proc'[p] = "zombie" \/ proc'[p] = proc[p]
      BY <2>11 DEF QuitKill
    <3>3. Entry
      BY <1>0, <2>0, <3>2 DEF Entries
    <3> QED
      BY <3>1, <3>3
  <2>12. CASE Reap(Main) \/ EraseFinished
    <3>1. cmd' = cmd /\ fg' = fg /\ (MainDest' = MainDest \/ MainDest' = "crashed") /\ MainDest # "wait"
      BY <2>12, ReapGoes DEF Reap, EraseFinished, Known, MainReturns
    <3>2. /\ \/ proc' = proc
             \/ \E p \in Pids : proc' = [proc EXCEPT ![p] = "reaped"]
          /\ \A d \in Entries(jobs') : d \in Entries(jobs)
      BY <2>12, ReapDrops, EraseDrops, ThreadNames DEF Dropped
    <3>3. Entry
      BY <1>0, <2>0, <3>2
    <3>4. Awake
      BY <1>0, <3>1, <3>2
    <3> QED
      BY <3>1, <3>3, <3>4
  <2> QED
    BY <1>2, <2>1, <2>2, <2>3, <2>4, <2>5, <2>6, <2>8, <2>9, <2>10, <2>11, <2>12, <2>13 DEF MainStep
<1>3. CASE HandlerStep \/ Environment \/ UNCHANGED vars
  <2>0. cmd' = cmd /\ MainDest' = MainDest
    BY <1>3, AsideStep DEF Known
  <2>1. ASSUME UNCHANGED <<jobs, proc, fg>>, HandlerDest = "addjob" => HandlerDest' = "addjob" PROVE RunningKnown'
    BY <2>0, <2>1
  <2>2. ASSUME NEW p, NEW s \in {"zombie", "reaped"}, proc' = [proc EXCEPT ![p] = s],
               s = "zombie" \/ proc[p] = "zombie", fg' = fg,
               jobs' = jobs \/ Dropped(jobs, jobs', p), HandlerDest = "addjob" => HandlerDest' = "addjob"
        PROVE  RunningKnown'
    <3>1. Entry
      BY <1>0, <2>2 DEF Dropped
    <3>2. Awake /\ Waited
      BY <1>0, <2>0, <2>2
    <3> QED
      BY <2>0, <3>1, <3>2
  <2>3. ASSUME NEW p \in Pids, proc' = [proc EXCEPT ![p] = Signalled(@, "SIGKILL")], proc[p] # "free",
               fg' = fg \/ (MainDest \in {"wait", "clear"} /\ p = cmd.pid),
               jobs' = jobs \/ Dropped(jobs, jobs', p), HandlerDest # "addjob"
        PROVE  RunningKnown'
    <3>0. proc'[p] \in {"zombie", "reaped"} /\ \A q \in Pids : q # p => proc'[q] = proc[q]
      <4>1. \A s \in ProcStates : Signalled(s, "SIGKILL") \in {"zombie", "reaped"}
        BY DEF Signalled, ProcStates
      <4> QED
        BY <1>0, <2>3, <4>1
    <3>1. Entry
      BY <1>0, <2>3, <3>0 DEF Dropped
    <3>2. Awake /\ Waited
      BY <1>0, <2>0, <2>3, <3>0
    <3> QED
      BY <2>0, <3>1, <3>2
  <2>4. CASE HandlerStep
    <3>1. CASE Poll("zpoll", "zstop") \/ Poll("cpoll", "ckill")
      <4>1. HandlerDest # "addjob" /\ fg' = fg /\ jobs' = jobs /\ fg \in Pids
        BY <3>1, HandlerMoves DEF HandlerGoes, Poll, shellVars, TypeInv, HandlerLocals, HandlerDest
      <4>2. proc' = proc \/ (proc[fg] = "zombie" /\ proc' = [proc EXCEPT ![fg] = "reaped"])
        <5>1. proc' = [proc EXCEPT ![fg] = IF @ = "zombie" THEN "reaped" ELSE @]
          BY <3>1 DEF Poll
        <5> QED
          BY <1>0, <5>1
      <4> QED
        BY <2>1, <2>2, <4>1, <4>2
    <3>2. CASE CtrlZStop
      <4>1. /\ HandlerDest = "zstop" /\ HandlerDest' = "addjob" /\ jobs' = jobs /\ fg' = fg
            /\ proc' = [proc EXCEPT ![fg] = Signalled(@, "SIGSTOP")]
            /\ MainDest \in {"wait", "clear"} /\ fg = cmd.pid
        BY <3>2, HandlerMoves DEF HandlerGoes, CtrlZStop, shellVars, Known, ForegroundKnown
      <4>2. \A s \in ProcStates : Signalled(s, "SIGSTOP") = IF s = "running" THEN "stopped" ELSE s
        BY DEF Signalled, ProcStates
      <4>3. /\ proc'[fg] = IF proc[fg] = "running" THEN "stopped" ELSE proc[fg]
            /\ \A q \in Pids : q # fg => proc'[q] = proc[q]
        BY <1>0, <4>1, <4>2
      <4>4. Entry
        BY <1>0, <4>1, <4>3
      <4>5. Waited
        BY <1>0, <2>0, <4>1, <4>3
      <4> QED
        BY <2>0, <4>1, <4>4, <4>5
    <3>3. CASE CtrlZAddJob
      <4>1. /\ HandlerDest = "addjob" /\ AddEntry(fg, "STOPPED") /\ proc' = proc /\ fg' = NoPid
            /\ MainDest \in {"wait", "clear"} /\ fg = cmd.pid
        BY <3>3, HandlerMoves DEF HandlerGoes, CtrlZAddJob, kernelVars, Known, ForegroundKnown
      <4>2. Updated(jobs, jobs', fg, "STOPPED")
        BY <1>0, <4>1, AddEntryEntries
      <4>3. Entry
        BY <4>1, <4>2 DEF Updated
      <4>4. Waited
        BY <2>0, <4>1 DEF StoppedKnown
      <4> QED
        BY <2>0, <4>1, <4>3, <4>4
    <3>4. CASE CtrlCKill
      <4>1. /\ HandlerDest = "ckill" /\ jobs' = jobs /\ proc' = [proc EXCEPT ![fg] = Signalled(@, "SIGKILL")]
            /\ MainDest \in {"wait", "clear"} /\ fg = cmd.pid
        BY <3>4, HandlerMoves DEF HandlerGoes, CtrlCKill, Known, ForegroundKnown
      <4>2. proc[fg] # "free"
        BY <4>1 DEF Known, Forked
      <4> QED
        BY <1>0, <2>3, <4>1, <4>2
    <3>5. CASE Scan
      <4>1. fg' = fg /\ jobs' = jobs /\ HandlerDest # "addjob"
        BY <3>5, HandlerMoves DEF HandlerGoes, Scan, shellVars
      <4>2. proc' = proc \/ \E p : proc[p] = "zombie" /\ proc' = [proc EXCEPT ![p] = "reaped"]
        BY <3>5 DEF Scan
      <4> QED
        BY <2>1, <2>2, <4>1, <4>2
    <3>6. CASE TimeoutKill
      <4>1. PICK p : Dropped(jobs, jobs', p) /\ proc' = [proc EXCEPT ![p] = Signalled(@, TimeoutSignal)]
        BY <3>6, WithoutEntries DEF TimeoutKill
      <4>2. fg' = fg /\ HandlerDest # "addjob"
        BY <3>6, HandlerMoves DEF HandlerGoes, TimeoutKill
      <4>3. \A s \in ProcStates : Signalled(s, TimeoutSignal) \in {"zombie", "reaped"}
        BY DEF Signalled, ProcStates, TimeoutSignal
      <4>4. \A q \in Pids : q = p => proc'[q] \in {"zombie", "reaped"}
        BY <1>0, <4>1, <4>3
      <4>5. \A q \in Pids : q # p => proc'[q] = proc[q]
        BY <1>0, <4>1
      <4>6. Entry
        BY <1>0, <4>1, <4>2, <4>5 DEF Dropped
      <4>7. Awake /\ Waited
        BY <1>0, <2>0, <4>2, <4>4, <4>5
      <4> QED
        BY <2>0, <4>6, <4>7
    <3>7. CASE Rearm
      BY <2>1, <3>7, HandlerMoves DEF HandlerGoes, Rearm, shellVars
    <3>8. CASE Reap(Handler)
      BY <2>1, <2>2, <3>8, ReapDrops, ReapGoes, ThreadNames DEF Reap, Known
    <3> QED
      BY <2>4, <3>1, <3>2, <3>3, <3>4, <3>5, <3>6, <3>7, <3>8 DEF HandlerStep
  <2>5. CASE Environment
    <3>1. CASE DeliverAlarm \/ Key("zpoll") \/ Key("cpoll")
      BY <2>1, <3>1, HandlerMoves DEF HandlerGoes, DeliverAlarm, Key, shellVars, kernelVars
    <3>2. CASE Tick
      BY <2>1, <3>2 DEF Tick, ctlVars, HandlerDest, Dest
    <3>3. CASE \E p \in Pids : Exit(p) \/ StrayStop(p)
      <4>1. /\ UNCHANGED <<jobs, fg>> /\ HandlerDest' = HandlerDest
            /\ \E p \in Pids : proc[p] = "running" /\ proc' = [proc EXCEPT ![p] = "zombie"]
        BY <3>3 DEF Exit, StrayStop, shellVars, ctlVars, HandlerDest, Dest, OnlyShellStops
      <4> QED
        BY <2>2, <4>1
    <3> QED
      BY <2>5, <3>1, <3>2, <3>3 DEF Environment
  <2>6. CASE UNCHANGED vars
    BY <2>1, <2>6 DEF vars, HandlerDest, Dest
  <2> QED
    BY <1>3, <2>4, <2>5, <2>6
<1> QED
  BY <1>1, <1>2, <1>3 DEF Next

LEMMA StatusInvariant ==
  ASSUME OnlyShellStops
  PROVE  Spec => [](StoppedKnown /\ RunningKnown)
<1>1. Init => StoppedKnown /\ RunningKnown
  <2>1. NoCommand.sig = "SIGCONT"
    BY DEF NoCommand
  <2> QED
    BY <2>1, ThreadNames DEF Init, StoppedKnown, RunningKnown, Entries, MainDest, HandlerDest, Dest
<1>2. (StoppedKnown /\ RunningKnown) /\ IInv /\ [Next]_vars => (StoppedKnown /\ RunningKnown)'
  BY StoppedKnownStep, RunningKnownStep, OrderedTable
<1> QED
  BY <1>1, <1>2, Invariance, PTL DEF Spec

\* When only the shell stops its children, the status jobs prints at the prompt is
\* that of the process.
THEOREM StatusTruthfulCorrect ==
  ASSUME ~StrayStops, "SIGTSTP" \notin Signals
  PROVE  Spec => []StatusTruthful
<1>1. StoppedKnown /\ RunningKnown => StatusTruthful
  <2>1. AtPrompt => HandlerDest = "idle"
    BY DEF AtPrompt, MainAt, HandlerDest, Dest
  <2> QED
    BY <2>1 DEF StoppedKnown, RunningKnown, StatusTruthful, Entries
<1>2. OnlyShellStops
  BY DEF OnlyShellStops
<1> QED
  BY <1>1, <1>2, StatusInvariant, PTL

\* When only the shell stops its children, the shell never blocks on a child that
\* ctrl-Z and ctrl-C do not reach.
THEOREM WaitInterruptibleCorrect ==
  ASSUME ~StrayStops, "SIGTSTP" \notin Signals
  PROVE  Spec => []WaitInterruptible
<1>1. StoppedKnown /\ RunningKnown => WaitInterruptible
  <2>1. MainAt("wait") => MainDest = "wait"
    BY DEF MainAt, MainDest, Dest
  <2> QED
    BY <2>1 DEF RunningKnown, WaitInterruptible, WaitReady
<1>2. OnlyShellStops
  BY DEF OnlyShellStops
<1> QED
  BY <1>1, <1>2, StatusInvariant, PTL

=============================================================================
