# Verification of the Degree projects

TLA+ models, TLC checks and TLAPS proofs for the programs of this repository.
The repository is a collection of independent programs; those with a state that
lives across calls and that several operations change are what is modelled. Paths below are relative to the
repository's `src/` directory.

## 1. Inventory

| Component | State | Operations | What is hard about it |
|---|---|---|---|
| **smash**, a small shell (`Operating Systems (C++, C)`) | job list, largest job id, timeout list, foreground pid; in the kernel: children, the clock, one alarm | `jobs`, `fg`, `bg`, `kill`, `quit`, `timeout`, external commands, the reaping loop, three signal handlers | the handlers run between any two system calls of the main loop and change the same lists; children exit, stop and are reaped at any point; one alarm serves all timeouts |
| smash: pipes and redirection (same files) | file descriptors | `\|`, `\|&`, `>`, `>>` | the two sides of a pipe run one after the other |
| smash: stateless built-ins (same files) | prompt, last directory | `chprompt`, `showpid`, `pwd`, `cd`, `getfileinfo`, `setcore`, `chmod` | input and output only |
| **Companies 2** (`Data Structures (DS, C++, OOP)/Companies Management 2 ...`) | union-find of companies with values and purchase factors, a hash table and a rank tree per company and one global of each, an employer pointer in every employee | `AddEmployee`, `RemoveEmployee`, `AcquireCompany`, `EmployeeSalaryIncrease`, `PromoteEmployee`, `CompanyValue`, group queries | path shrinking in reads, turned-around roots, stale employer pointers, counters kept in step by hand |
| Companies 2: hash table (`hash.h`) | slots, counters of employees without salary | insert, remove, merge, resize | a table merged into itself |
| Companies 2: rank tree (`rankTreeActual.h`) | AVL tree with ranks and grade sums | insert, remove, promote, range and top queries, merging into an almost complete tree | rotations keep ranks and sums; removal relies on the AVL shape, which the merge and the double rotation break |
| **Companies 1** (`.../Companies Management 1 ...`) | one tree of companies, one of employees by id and one by salary, one of non-empty companies, and the same per company | add, remove, promote, hire, acquire, the statistics queries | the same fact stored in up to six trees |
| **Matamikya** (`Matam (C, C++, OOP, Python)/Orders and Inventory management (C)`) | products with stock and profit, orders with amounts | new product, change amount, clear, new order, change order, ship, cancel | a shipment is rolled back when one product lacks stock; products are cleared under open orders |
| Matamikya: amount set of strings (`Amount Set in C/amount_set_str.c`) | linked lists of nodes on the heap, each set with an embedded iterator | create, destroy, copy, clear, register, delete, change and get an amount, size, first, next | the head node never moves, so a front insertion goes through a copy and a deletion takes over the successor; the iterator is an address |
| Matamikya: list, set, generic amount set | binary library | used through `list.h`, `set.h`, `amount_set.h` | only headers are in the repository |
| **City workplaces** (`.../City workplaces management (C++, OOP)`) | citizens with salaries, scores and skills, managers with their groups, workplaces with their managers | add citizens, faculties and workplaces; hire and fire employees and managers; teach; who works with whom | exceptions half way through a call; salaries kept by hand in three places; only a salary above 0 tells that a manager has a post |
| **32-bit multipliers** (`Digital Systems .../Multipliers ...`) | state of the machine, a latch in its next-state logic, the product register | start, one clock cycle, reset | which part product is added in which state, which states the fast one leaves out, a reset at any cycle |
| **RISC-V processor** (`Digital Systems .../Add command to CPU ...`) | control state, pc and stage registers, register file, two memories | one clock edge, reset | registers without an enable hold a value for one cycle only; the added command takes two passes through the ALU; a reset in the middle of an instruction |
| Assembly multiplication, gates (`Digital Systems ...`) | none | | combinational, or a loop over one word |
| Call-tracing debugger, ELF finder, wrong-opcode handler, assembly operations (`Atam ...`) | the traced process; otherwise none | breakpoints at call and return | recursion of the traced function |
| Python functions | none | | pure functions and files |

The components do not call one another. Inside a component:

* smash: `main` calls `executeCommand`, which first reaps (`removeFinishedJobs`)
  and then runs one command; the handlers of `signals.cpp` interrupt it and work
  on the same `JobsList` and `cmdForegroundPid`. Shell and children meet only
  through `kill`, `waitpid` and signals.
* Companies 2: `library2.cpp` finds the root of a company (`getCompanyRoot`,
  which shrinks the path), then updates the table and tree of that root and the
  global ones. `Employee::getEmployer` follows a cached pointer.
* Matamikya: `matamikya.c` keeps a list of products and a set of orders, each
  holding an amount set.
* City: `City` finds citizens and workplaces and calls `Workplace`, which pays
  and calls `Manager`, which keeps the group; every refusal is an exception
  thrown from the depth at which it is noticed.
* Multipliers and processor: a control machine and a datapath that meet at one
  clock edge; what the control sets in a cycle the registers take at its end.

What makes each of them correct:

* smash: a job id names one process as long as it is listed; no process is
  listed twice; no live child is lost; the pid the keys signal is the command
  waited for; listed statuses are true; timeouts are enforced.
* Companies 2: every company and employee is found in the corporation the
  acquisitions put them in; values of companies are exact; trees, tables and
  counters agree with the employees.
* Rank tree: it holds, in order, exactly the employees put in and not removed;
  heights, ranks and sums are exact, and so are the queries.
* Companies 1: the four trees an employee is in agree with each other, with the
  counters and with the employer; the highest earners are the highest. Some
  acquisitions break this for the company they make.
* Matamikya: orders name only products there are; nothing is negative; a call
  that fails changes nothing, a half-done shipment above all.
* Amount sets: every node is in the list of one set, and the sets with their
  iterator answer as the dictionaries the header promises.
* City: a salary is the sum of the contracts and posts that pay it, so that who
  has a post can be read from it; a manager has one post, and dismissal ends all
  contracts; points are those of the courses taken.
* Multipliers: the product is exact and ready after exactly the cycles the
  operands allow, and the machine always comes to rest.
* Processor: from fetch to fetch it does what the instruction set says.

## 2. Plan

1. `Smash`, its properties, its runs, and the proofs of the invariants of the
   job table (done).
2. `Corporations` (abstract) and `Companies` (the union-find), with the
   refinement checked by TLC and proved (done).
3. `Matamikya` with proofs (done).
4. `RankTree`: the AVL tree with ranks and sums, checked against sets (done).
5. `CompaniesInfo`: Companies 1, its trees against one another, with proofs
   (done).
6. `City`, shown to implement `Employment`, with proofs (done).
7. `Multiplier` and `RiscV`, the latter shown to implement `RiscVISA`, with
   proofs (done).
8. `AmountSetStr`, shown to implement `AmountSet`, with proofs (done).
9. Left: the resize of a hash table that is merged into itself, pipes, the
   debugger.
10. Proofs of the safety properties that are stated without recursive operators
   (done, but for `AlarmArmed`). Left: the rank tree, whose operators recur over
   trees.

## 3. Modules

### smash

| Module | Role |
|---|---|
| `Smash` | the state machine: one action per stretch of code from one system call to the next |
| `SmashProperties` | its invariants, action properties and liveness |
| `SmashProofs` | proofs |
| `MCSmash` | instance for TLC |

The shell is a single thread with two control points, `pc["main"]` for the read
loop and `pc["handler"]` for the handler on top of it. While a handler runs the
main point does not move. `jobs`, `maxId`, `timed`, `fg` are the members
`job_list`, `maximalJobId`, `timed_jobs`, `cmdForegroundPid`; `cmd` holds the
locals of the command being executed. `proc`, `alarm` and `alrm` are the kernel
(external): a child is running, stopped (not yet reported to `waitpid`), parked
(reported), a zombie or reaped.

| Code | Actions |
|---|---|
| `main`, `executeCommand`, `CreateCommand` | `ReadCommand`, `Execute` |
| `removeFinishedJobs` (also called from handlers and by `addJob`) | `Reap`, entered by `CallReap`; in the main loop `EraseFinished` does what follows a `waitpid` that has reaped a child |
| `addJob` of the main loop | `AddBackgroundJob` up to `time()` in the constructor of `JobEntry`, with the new id in a local, and `InsertBackgroundJob` from there |
| `runExternalCommand` | `Fork`, `Track`, `SetForeground`, `Wait`, `ClearForeground` |
| `TimeoutCommand::execute`, `getMinTimeoutLeft` | `Arm` |
| `ForegroundCommand`, `BackgroundCommand`, `JobsCommand`, `KillCommand`, `QuitCommand` | `Foreground`, `Background`, `Jobs`, `Kill`, `QuitKill` |
| `ctrlZHandler` | `Key`, `CtrlZStop`, `CtrlZAddJob` |
| `ctrlCHandler` | `Key`, `Poll`, `CtrlCKill` |
| `alarmHandler`, `setClosestAlarm` | `DeliverAlarm`, `Scan`, `TimeoutKill`, `Rearm` |

The two places at which the main loop holds something that the alarm handler
changes are `Fragile`: `"erase"`, with an iterator at the entry of a child that
`waitpid` has reaped (`Commands.cpp:957-961`), and `"newjob"`, with an id above a
maximum that the handler lowers (904-908). `raced` is a history variable: at which
of them an alarm has interrupted the main loop so far.

Abstractions: handlers do not nest, so that an alarm inside the handler of ctrl-Z
is not modelled; the loops of `printJobsList` and `killAllJobs` are one step, no
alarm interrupts them; a list operation between two system calls is
atomic; SIGKILL and stop signals take effect at once; pids are never reused;
a second passes only while the shell is blocked (in `getline` or `waitpid`);
the age of a timeout saturates at the point where no comparison can tell it from
a larger one (`AgeCap`, exact). The child's side of `fork` is not modelled.

### Companies 2

| Module | Role |
|---|---|
| `Corporations` | what is promised about ownership and employment, without any data structure |
| `Companies` | union-find, path shrinking, cached employers, tables, trees and counters |
| `CompaniesProperties` | its invariants and the refinement mapping to `Corporations` |
| `SetLemmas` | lemmas about finite sets, induction over them, and sums, used here and in the proofs of City and Companies 1 |
| `CompaniesProofs` | proofs |
| `MCCompanies` | instance for TLC |

One action per call of `library2.cpp` that changes state, `CompanyValue` and the
group queries among them because they shrink paths. `worth` is a history
variable: what a company is worth by the exercise's definition. Tables and trees
are sets of employees. An assumption allows two employees: with them no hash
table is resized, and every rank tree, a merged one included, is the set of its
entries. With three that is no longer so, see `RankTree`.

### Rank tree of Companies 2

| Module | Role |
|---|---|
| `RankTree` | insertion, removal, promotion, merge and queries of two trees, and the properties |
| `MCRankTree` | instance for TLC |

A tree is a record nested in a record, with the height, rank and sum that the
code stores in the node, stale where the code leaves them stale; `Nil` is
`nullptr`. The operators recurse along the path that the code walks by parent
pointers: `Fix` is one turn of the loop `for (n = parent; n; n = n->parent)`,
repeated where a rotation makes the loop visit the new root of the subtree. Keys
are numbers that stand for (salary, id) pairs, two to each salary. `paid` is a
history variable: who has been put in and not removed. The recursive operators
keep this module out of the provers' reach.

### Companies 1

| Module | Role |
|---|---|
| `CompaniesInfo` | one action per call of `library1.cpp`, and the properties |
| `CompaniesInfoProofs` | proofs |
| `MCCompaniesInfo` | 3 companies (symmetric), 3 employees, 2 salaries, values up to 12, all acquisitions | trees, counters and employers agree and best earners are the best, in every company that is not in disorder; the trees of everybody and the highest earner always; types |
| `MCAmountSetStr` | instance for TLC |

A node is a number, `name`, `amount` and `next` its fields; a set is the address
of its head, as for the caller. Allocation gives free addresses in some order. An
iterator is an address and may be left at a freed node; `defined`, a history
variable, says for which sets the header defines the iterator, and `asGetNext`
is called for those alone, which is what the header allows a caller.

### City

| Module | Role |
|---|---|
| `Employment` | what is promised about posts and contracts |
| `City` | one action per call of `City.cpp`, with every exception, in the order of the tests, and what the call has changed before it |
| `CityProofs` | proofs |
| `MCCity` | instance for TLC |

`managers`, `employees`, `salary`, `score` and `skills` are the members of
those names. `answer` is the exception or result of the last call. What the
caller passes as condition of hiring or of a faculty is a free choice. `courses`
is a history variable: which faculties have taught whom. A manager is paid
something at every workplace (`ConstantAssumption`): one paid 0 could be hired
twice, since only a salary tells of a post.

### Multipliers

| Module | Role |
|---|---|
| `Multiplier` | both state machines, the latch and the datapath, one action per clock cycle, one for reset |
| `DigitalProofs` | proofs, with those of the processor |
| `MCMultiplier` | instance for TLC |

`fast` says which multiplier it is; `Base` stands for the 256 values of a byte,
and `opA` and `opB`, the operands `a` and `b`, are kept as the bytes and words
the datapath selects. The test benches are the surroundings: operands are held
while the machine is busy, start is low during reset. `begun` and `cycles` are
history variables. Where the processor has the same name, the name here starts
with `Mult`: `DigitalProofs` is about both.

### RISC-V processor

| Module | Role |
|---|---|
| `RiscVISA` | the instruction set, one step an instruction |
| `RiscV` | the multicycle processor, one action per clock edge, one for reset |
| `RiscVAlu` | the arithmetic unit for words of any width |
| `DigitalProofs` | proofs, with those of the multipliers |
| `MCRiscV` | instance for TLC |

`current` is the control state, `pcc`, `ir`, `a`, `b`, `aluout`, `mdr` the stage
registers. An instruction is a record of fields, all four immediates among them,
because the processor reads one as another (see section 4). The arithmetic unit
is the constant operator `Alu`; what the control needs of it is `AluAssumption`.

Operators with "Fault" in their comment stand next to the definition they
deviate from and are used by no specification: each is a plausible mistake in
that piece of code, and `PROJECT.json` lists which property notices it.

## 4. Runs

| Run | Bounds | What it shows |
|---|---|---|
| `MCSmashKeys` | 3 children, all commands, keys, exits, stops from outside, no timeouts | no process is listed twice, a stale foreground pid is harmless; the reaping loop stays inside the list; types |
| `MCSmashForeground` | 3 children, foreground and background commands and `fg`, timeouts of 1 s, keys, exits | with an alarm between any two system calls of the main loop: ids increase and keep their process and no live child is lost, unless an alarm has come at a fragile place; the foreground command can always be interrupted; statuses are true at the prompt |
| `MCSmashTimeouts` | 3 children with timeouts of 2 s, fairness | an alarm is always set while a timeout is tracked; every timeout is enforced |
| `MCCompanies` | 4 companies, 2 employees; while both are employed only companies 1 to 3 do business (`MaxCrowded`) | the forest stays a forest; root values are exact; trees hold exactly the paid employees, tables no stranger (`StaffExact`); the global counters are exact (`CountersExact`); refinement of `Corporations` |
| `MCMatamikya` | 2 products, 2 orders, amounts -0.5 and 1, stock up to 1, linear prices | orders name existing products, nothing negative, failed calls change nothing, new ids, ship answers |
| `MCRankTree` | 2 trees, 7 employees, one promoted at a time, merges to 2, 4 or 7 | contents, stored fields and both queries are exact |
| `MCRankTreeLoss` | 1 tree, 8 employees, no merge | violation: insertions and removals lose an employee |
| `MCCompaniesInfo` | 3 companies, 3 employees, 2 salaries, all acquisitions | trees, counters and employers agree and best earners are the best, in every company that is not in disorder; the trees of everybody and the highest earner always; types |
| `MCAmountSetStr` | heap of 4 nodes, 2 sets, 3 names, amounts 0 and 1, at most 3 nodes in use between two calls before a copy | every node given out is in one list, none is lost or freed while linked; refinement of `AmountSet` |
| `MCCity` | 3 citizens (symmetric), 2 workplaces, 3 faculties of which two teach the same skill | salaries are what contracts and posts pay; they tell who has a post; points are earned; refinement of `Employment` |
| `MCMultiplier` | both multipliers, bytes of one bit, all operands, a reset in any cycle, fairness | exact product, exact latency, every run ends |
| `MCRiscV` | words of 3 bits, 2 registers, 2 cells, every program of two instructions out of 34, a reset at any edge, fairness | every state finds what it needs in the stage registers; refinement of `RiscVISA`; every instruction retires |

Why the bounds are enough. smash: three children are needed for the reaping loop
to be on one entry while a handler removes another and a third remains. So it is
with the races of the alarm, of which the handler kills one, the main loop reaps
another and the third is erased in its place: without its exception
`JobIdsIncrease` is violated in `MCSmashForeground` after 22 steps, and
`NoLostChild` after 36. An id that is given twice takes four children:
`JobIdStable` without its exception holds with three and is violated after 37
steps with four. Companies: with four companies a path can have two companies between its ends,
which is where shrinking and purchase factors meet. Rank tree: seven employees
fill a tree of three levels and unbalance it in every way by insertion and by
removal, with a fourth level; from eight on the code goes wrong, and so it does
after merges to 3, 5 and 6, which is why the passing run leaves these out. No
balance is claimed: eight insertions and a removal break it, too. Companies 1:
three employees and two salaries give ties, changes of the highest earner, a
merge that keeps everybody and merges that do not; of three companies one can
acquire the two others, which takes values up to 12, or be left alone by what the
others do. Nothing compares ids of companies, so they are symmetric. Four
employees with two companies and one salary have been checked as well, 220,940
states. Matamikya: two products make
a shipment that fails half way, two orders make ids interesting. Amount sets:
four nodes hold a set of two elements and the copy that a front insertion makes,
or two sets; three names give a place before, between and after. Names are ordered, so no
symmetry is used. States are told apart without `answer` (`VIEW`), which no step
reads; every step is checked all the same. City: three citizens are two
managers who share an employee, or two employees of one manager; the
expressions of the model name no citizen, which makes the symmetry sound.
Multipliers: a byte of one bit gives every combination of zero and non-zero
bytes, which is all the control looks at; the proofs are for any size. Processor:
two instructions can jump and branch to each other and use what the other wrote;
the control depends on the instruction and on one comparison, not on the width.

`MCMatamikya` has products of two of the three amount types; the third,
`ANY_AMOUNT`, differs only in that no amount is refused.

The deadlock check is off for smash alone: the shell exits (`quit`), or has
crashed (see below).

Fairness. `MCSmashTimeouts`: weak fairness of the steps of the main loop,
of the handler and of signal delivery (the kernel runs a runnable thread and
delivers a pending signal), strong fairness of `Tick`, because a second can pass
only while the shell is blocked, which is not continuous: the user comes back
to the prompt again and again and the clock does not wait for ever.
`MCMultiplier` and `MCRiscV`: weak fairness of the clock edge, nothing else: the
clock ticks. Reset is not fair, and may come at any time; a reset also ends a run.

Outside the bounds chosen, or inside them without a property that forbids it, the
code does what a reader should know of:

* a child reaped by a handler's poll or by the foreground wait while it is listed
  stays in the list; `removeFinishedJobs` returns at the first such entry for
  ever after;
* an alarm handler that erases entries while the main loop iterates makes that
  loop run past the end (`"crashed"`); this needs timeouts, and `NoCrash` is
  checked without them;
* an alarm when the main loop's `waitpid` returns with a child reaped, before the
  erase (`Commands.cpp:957-961`): the handler erases an earlier entry, the vector
  shifts, and a live child and its timeout are erased in place of the reaped one;
  an alarm between the id of a new entry and the increment of `maximalJobId`
  (904-908), inside `time()`: the handler's `removeFinishedJobs` lowers the maximum,
  the new id exceeds it and is given again later. The model has both, and the
  three properties they break except the executions in which they have happened
  (`raced`): `JobIdsIncrease` and `JobIdStable` the second, `NoLostChild` both,
  because `fg` removes by id;
* with timeouts of different lengths, with an alarm that arrives between setting
  it and tracking the command, with ctrl-C while an alarm is pending, or with a
  child that exits between the handler's two polls, an expired timeout can be
  left without an alarm; repeating `timeout N` with a built-in postpones the
  alarm, `timeout 0` cancels it;
* a job stopped behind the shell's back and brought to the foreground blocks the
  shell with no foreground pid (excluded by `StrayStops = FALSE` where
  `WaitInterruptible` is checked);
* `kill -20` stops a job without updating its status, so `bg` refuses it as
  already running; `StatusTruthful` is checked with ctrl-Z and proved for every
  signal of `kill` but SIGTSTP;
* `quit kill` announces SIGKILL and sends SIGTERM, so stopped children survive it;
* Companies 2: after an acquisition by the smaller company the table of the root
  lacks employees whose counters it keeps changing; so what `StaffExact` says of
  tables has no converse and the counters of a single company are not claimed to be exact;
* Companies 2: from four companies on, the value of a company that is not a root
  drifts, up or down: shrinking a path (`UDCompanyTree.cpp:55`) takes from the
  companies passed the only record of the factors that companies below them still
  need; `getRoot` and `getValue` moreover move the factors to different fields.
  `RootValueExact` is about roots, the only values an acquisition multiplies;
* rank tree: a merge to 3, 5 or 6 employees gives a tree that is not balanced
  (three become a chain), against `UDCompanyTree.cpp:265` ("create new almost whole
  tree with enough size"), and from which removals lose employees
  (`MergeSizes` leaves these sizes out of `MCRankTree`); the
  double rotation at a balanced son does the same from eight employees on
  (`MCRankTreeLoss`, the finding), and the AVL tree of Companies 1 has the same
  code;
* Companies 1: a merge to a number of employees that is a power of two loses one
  (`DS.cpp:340` builds 2^ceil(log2 n) - 1 nodes), against `DS.cpp:440` ("insert the
  matching array's employees"); an acquirer without employees is left with freed
  nodes and employees who point to a freed company, against `DS.cpp:424` ("make
  the target's the acquirer's employees"), and is not listed as having employees.
  `TreesAgree` and `EarnersTop` say what
  holds all the same: everything of the trees of everybody, everything of the
  companies that are not `disordered`, and of the others that their trees hold
  only employees of theirs or of a freed company;
* Companies 1: `PromoteEmployee` of a sole employee takes the company
  off `companies_with_employees`, so that `TreesAgree` claims no converse there;
  of several best paid employees the one a company keeps depends on the order of
  calls;
* Matamikya: a decrease by exactly the ordered amount keeps the product with
  amount 0 (`matamikya.h` says it is removed); a change by 0 adds it; amounts
  within the tolerance add up to one outside it, and such an order can never be
  shipped;
* Matamikya: the profit of a product taken back is its price for the negated
  amount. With a price function that is not linear (a rebate from some amount on)
  a shipment that fails leaves the profit changed, where `matamikya.h:224-226`
  says that nothing changes; the runs and `FailureChangesNothingCorrect` are
  about linear prices;
* amount sets: `asDelete` and `asCopy` of an empty set read its null name;
  when an allocation fails, `asDelete` leaves a null name in a linked node, a
  front insertion has already cleared the set, and a copy that fails half way is
  destroyed through an uninitialised `next`; deleting the last element leaves the
  set's iterator at the freed node;
* City: to send a manager to a faculty hands the faculty's condition a null
  pointer; to hire an employee as a manager is refused with
  `ManagerDoesNotExist`;
* multipliers: a reset in the middle of a run leaves a middle state in the latch
  `next_state`, and the machine starts by itself from there when the reset is
  over; the product it comes to rest with is then a part of a sum. The properties
  are about runs that a start began (`begun`);
* processor: a jump goes to the sum computed in DECODE, with the bits of a branch
  offset; the sum with the jump's own offset, computed in JAL_EXEC, is never
  used. The added command, on the opcode of ADDI, complements the sum. The edge
  of a reset commits a register write that is under way, because the register
  file alone is not guarded by `rst`. `RiscVISA` says the same of all three.

## 5. Proofs

What is proved holds for every value of the constants that the modules'
`ConstantAssumption` (`BaseAssumption` of the multipliers) allows. A theorem that needs more of the constants says so
in an `ASSUME`; each such hypothesis is explained below, with what the code does
without it.

`SmashProofs`, for any numbers of processes, timeouts and job ids, any commands
and, where no hypothesis says otherwise, with every environment switch on. The
job table's properties are not
inductive by themselves: `addJob` takes an id above a maximum computed before a
handler could run, and fg and kill use positions found earlier. The invariant
`IInv` has five parts: the types of table, shell, kernel and control; what
`raced` may hold; `Known`, that every process the shell knows by name was forked
and where either control point can be; `Uninterrupted`, that at a fragile place
not in `raced` no alarm handler runs, and so nothing but the handlers of the keys;
and `TableInv`. The last says that no process is listed twice, and that the one
about to be listed from `"newjob"` is not listed at all, whatever alarms came; and,
as long as no alarm came at `"newjob"`, that the table is ordered by id and below
`maxId`, and that the id held there is the next. The code keeps no more: an alarm
at `"newjob"` makes `IdsIncrease` false. Each action has a lemma that it preserves
`IInv`; `Invariance` combines them, and the properties of the table follow.
`MainDest` and `HandlerDest` say where a thread goes on once the reaping loop it
may be in has ended: the further invariants are stated at those places.

* `StaleForegroundHarmlessCorrect`, without a hypothesis: by `Known` a foreground
  pid is the command waited for or reaped, and a key's handler works only while
  the main thread waits for that command.
* `NoCrashCorrect` (`Timers = {}`): `InBounds` keeps the position of the loop inside
  the list, because by `Known` the handlers of the keys change the list only
  outside that loop. The alarm's handler does not wait for that: with timeouts
  the loop does run past the end, see section 4.
* `NoLostChildCorrect` (`~StrayStops`): `ChildrenListed` says that every live child
  is listed or is `Coming`, the command being started or waited for, which
  ctrl-Z lists after stopping it. It holds with timeouts too, until an alarm comes
  at a fragile place, as the property has it. `ErasedKnown` says that the iterator
  of `"erase"` is still at the child that was reaped, `BroughtToFront` that the id
  which fg was given names the process it waits for to the end. A command stopped
  from outside while it is waited for ends the wait and is listed by nobody.
* `StatusTruthfulCorrect`, `WaitInterruptibleCorrect` (`~StrayStops`, and no
  SIGTSTP among the signals of `kill`): one invariant for both, of two parts.
  `StoppedKnown` and `RunningKnown` relate each status to
  the kernel's, at every place where the two differ for a moment. `kill -20`
  stops a job without recording it, and whoever stops a child from outside
  does so as well.

`SetLemmas`: induction over finite sets, stated for sets of sets because an
operator cannot be a parameter (`SetInduction`, `SubsetInduction`), and from it
what a sum over a finite set is when an element is added, removed or changed
(`SumAdd`, `SumRemove`). The library's `MapThenSumSet` is a choice among the
functions that add up a set in some order; `IsSum` says which number that is.

`MatamikyaProofs`, for any products, orders and amounts: `IInv` says that orders
name products there are and that stock and ordered amounts are not negative;
`NeverNegative` needs both, because a shipment subtracts an ordered amount from
a stock it was compared with. `RollbackExact` shows that for a linear price what
was taken from the warehouse up to the failing product and given back leaves it
as it was; `FailureChangesNothingCorrect` rests on it. `ShipAnswersCorrect`
supposes that every amount the code accepts is exact for its type
(`ExactAmounts`): a whole or half number, not one within the tolerance of it. Then
so is every ordered amount (`OrdersExact`), a sum of such amounts, and a shipment
never meets one it takes for invalid. Otherwise it does: 0.9994 is accepted as an
integer amount twice, and 1.9988 is not.

`CompaniesProofs`, for any number of companies and any factors, salaries and
grades. The assumption of two employees, which makes the model faithful, and its
bound `MaxCrowded` are not used. `Forested` says that there are a root and a
height for every company, that a parent has its child's root and a larger height
and that a company without parent is its own root. `ClimbEnds` concludes that
`NumCompanies` steps up end at that root: heights on the way are all different,
so that a climb which has not ended has visited more companies than there are.
Shrinking a path, to a root that lies higher, keeps roots and heights
(`ShrunkForested`); linking two roots lifts the acquirer's height
(`LinkedForested`). `RootsWorth` says that at a root value and purchase factor add
up to the worth; shrinking charges only companies below a root, where it is
silent (`ChargeSame`). `StaffExact` is inductive with `Employed`: who works
somewhere points to a company, and nobody else earns anything. A step is either
`Quiet`, which keeps all roots, or `Joined`, which moves one corporation under the
root of another; each is a step of `Corporations` or a stutter. The recursive
function of the climb is shown to exist, and induction over it done, with
`SetInduction`. `CountersExactCorrect` adds `Counted` to the invariant: the two
global counters are the number of unpaid employees and the sum of their grades,
call by call; and, for the types that `CountersExact` includes, the union-find's
sizes are at most those of the corporations (`Sized`; not equal, since after an
acquisition by the smaller company the wrong size grows).

`CompaniesInfoProofs`, for any companies, values and salaries and all calls of
the model, the acquisitions that leave a company in disorder among them. `Good`
says of all trees, counters and pointers, gathered in `State`, what `TreesAgree`
and `EarnersTop` say, and more: `Own`, that the trees of any company hold employees
who point to it or to a freed company; that a company that is not there and not
in disorder has empty trees; that whoever points to a company is employed; and
that who is in the tree of non-empty companies has an employee, if not in
disorder. `Own` is what keeps the disorder where it is: a removal, a hiring or a
merge touches only trees that the employee's pointer leads to. `Good` is a property
of a record, not of the variables, because a promotion and a hiring pass through
an intermediate record: `RemovedGood` and `JoinedGood` compose, and the three
forms of an acquisition are `FreedGood`, `TakenOverGood` and `MergedGood`, the last
two by `AcquiredGood`. A merge of two companies in order to a number of employees
for which enough nodes are built gives a company in order (`FirstAll`,
`StaffsApart`). The best of a company is only a maximal one (`BestOf`), the best of
all the last in the order of the tree (`TopOf`), which is how the two are kept. The
theorems have no hypothesis. The bound of four employees in `ConstantAssumption`
makes sets faithful to the trees; the proofs do not use it.

`CityProofs`, for any numbers of citizens, workplaces and faculties and any
salaries: `IInv` says that only managers have posts and groups, that one with a
group has a post, that nobody has two posts, and that the salary of a manager is
that of the post. The last is what makes the code's test (`salary > 0`) mean what
it is used for; from it every call is a step of `Employment` or a refusal that
changes nothing of it. `SalaryExactCorrect` adds that the salary of an employee is the
sum of the wages of the contracts (`PaidByContracts`): every call that hires or
fires moves both by the same contract, and the dismissal of a manager, which
lowers the salaries of a whole group, takes one contract from each member
because a manager has one post. `PointsEarnedCorrect` rests on `Earned`, which
says the same of scores and courses; a course is never counted twice because
its skill was not known before.

`AmountSetStrProofs`, for any heap, sets, names and amounts; the bounds
`MaxLinked` and `MaxSets` are not used. `IInv` says where every list stands
between two calls. `Good`: the list of a set starts at its head, has each node
once and ends; a set is empty, and then its head is alone and has neither name
nor amount, or all its nodes have names, in ascending order; no two lists share
a node, the nodes given out are those of the lists, and a free node has no
fields. `GoodCursor`: an iterator that the header defines is at the end or at a
named node of its own set. `HeapExact` alone is not inductive: that an element
goes in at the place of its name, and that the head is overwritten only where
it can be, needs the order and the blank head of an empty set. The list of a set
is a recursive function of the heap; `ChainIs` gives the sequence of nodes that
it is, `OneList` says that a call which writes only to nodes of one list, or to
free ones, leaves all other lists as they were, and `OneDictionary` and
`SameCursors` conclude the same of the sets and iterators promised. What remains
is one list a call: `Prefix` and `LessFacts` find the place of a name, `Inserted` and
`Removed` are the sequences after linking and unlinking, the latter also for a
deletion, which copies the successor into the node and frees the successor.
`OneSet` puts a changed list back into the invariant, and each function has a
step lemma that shows it to be a step of `AmountSet` or a stutter. TLC has
checked `IInv` on the instance of `MCAmountSetStr`.

`DigitalProofs` about the multipliers, for any base: while a run that a start
began is under way, `product` is the sum of the part products of the states
passed. `Running` says so state by state, for the states left out too, whose
part products are zero because of the flags that made the machine leave them
out; `Finished` says the same of the machine at rest. The arithmetic (part
products add up to the product, and never overflow the register) is in the
lemmas `Distributes`, `TotalIsProduct`, `TotalFits` and `ZeroParts`.

`DigitalProofs` about the processor, for any word size, memories, registers and
programs and any arithmetic unit that satisfies `AluAssumption`, which TLC
evaluates for `RiscVAlu`: `StagesHold` is inductive together with the types.
Each clock edge is either the last of an instruction, which is one step of
`RiscVISA`, or changes nothing that it knows of.

| Theorem | States |
|---|---|
| `SmashProofs!TypeCorrect`, `JobIdsIncreaseCorrect`, `JobPidsDistinctCorrect`, `JobIdStableCorrect`, `StaleForegroundHarmlessCorrect` | the properties of those names, timeouts included; the two about ids until an alarm comes inside `addJob`, as the properties say |
| `SmashProofs!NoCrashCorrect` | `NoCrash` without timeouts |
| `SmashProofs!NoLostChildCorrect` | `NoLostChild`, until an alarm comes at a fragile place, while nobody else stops children |
| `SmashProofs!StatusTruthfulCorrect`, `WaitInterruptibleCorrect` | `StatusTruthful`, `WaitInterruptible`, while moreover `kill` sends no SIGTSTP |
| `MatamikyaProofs!TypeCorrect`, `OrderedExistCorrect`, `NeverNegativeCorrect`, `OrderAddedCorrect` | the properties of those names |
| `MatamikyaProofs!FailureChangesNothingCorrect` | `FailureChangesNothing` when all prices are linear |
| `MatamikyaProofs!ShipAnswersCorrect` | `ShipAnswers` when accepted amounts are exact |
| `CompaniesProofs!AcyclicCorrect`, `RootValueExactCorrect`, `StaffExactCorrect`, `CountersExactCorrect`, `ImplementsCorporationsCorrect` | `Acyclic`, `RootValueExact`, `StaffExact`, `CountersExact`; the union-find implements `Corporations` |
| `CompaniesInfoProofs!TreesAgreeCorrect`, `EarnersTopCorrect` | `TreesAgree`, `EarnersTop`: of everybody without exception, of every company that is not in disorder |
| `CityProofs!SalaryTellsPostCorrect`, `SalaryExactCorrect`, `PointsEarnedCorrect`, `ImplementsEmploymentCorrect` | `SalaryTellsPost`, `SalaryExact`, `PointsEarned`; `City` implements `Employment` |
| `AmountSetStrProofs!HeapExactCorrect`, `ImplementsAmountSetCorrect` | `HeapExact`; the linked lists implement `AmountSet` |
| `DigitalProofs!ProductExactCorrect`, `LatencyCorrect` | `ProductExact`, `Latency` for any base |
| `DigitalProofs!StagesHoldCorrect`, `ImplementsISACorrect` | `StagesHold`; the processor implements `RiscVISA` |

The theorem `Invariance` of each module of proofs states that its `IInv` is an
invariant; in `DigitalProofs` it is called `MultiplierInvariance` and the
processor has `StagesHoldCorrect` for it, and in `CompaniesInfoProofs` it is the
lemma `Invariant`.

Only model-checked: the rank tree (`Contents`, `FieldsExact`,
`AnswersExact`), whose module declares recursive operators, which take the SMT
solver from the prover, and whose contents are an induction over trees;
`AlarmArmed`, for three timeouts of one length without keys and exits: a child that
`kill` has ended can be reaped, and its timeout still be tracked, when the alarm
comes, whose handler then returns without a new alarm, so that the general
statement would need more hypotheses than the run has; the type invariant of
`CompaniesInfo`; the
arithmetic unit (`Bitwise`), which `DigitalProofs` replaces by `AluAssumption`;
liveness under fairness (`TimeoutsEnforced`, `RunsEnd`, `Retires`), which is
beyond the provers.

## 6. Not modelled

Pipes and redirection of smash (the two sides of a pipe run one after the other,
so that the first blocks once the pipe is full) and its stateless built-ins; the
resize of a hash table, which the bound of two employees excludes; the
call-tracing debugger, whose work is that of the kernel's `ptrace`; the AVL tree
of Companies 1, which is that of the rank tree without ranks and sums. The ELF
readers, the Python functions, the assembly exercises, the multiplication in
assembly and the gates are straight-line code without a state across calls;
`list.h`, `set.h` and `amount_set.h` are implemented by a binary library.
