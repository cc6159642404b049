# PennOS: specification and verification

PennOS is a user-level operating system in C: a scheduler for `ucontext`
threads driven by `SIGALRM`, process queues, a handful of system calls, a shell
with job control, and PennFAT, a filesystem in one host file.  This directory
holds TLA+ models of it, the TLC configurations that check them, four abstract
specifications the models are shown to implement, and TLAPS proofs: of the
filesystem's locks, entries and chains of blocks, also when allocation is
interrupted, of the list of jobs, of the queues and the kernel, of the parser, and
of the file programs: what they leave open, and that their copies are complete.

Paths below are relative to `src/` (so `src/process/shell.c` is the repository's
`src/process/shell.c`).

## 1. Inventory of the system

| Component | State | Operations | Interacts through |
|---|---|---|---|
| Process queues (`process/scheduler.c`, `kernel.c`) | heads and tails of three ready queues, blocked, stopped, zombie; one `next` per `Process` | `enqueue*`, `dequeue*`, rotation, `findProcessByPid` | shared by all kernel code |
| Scheduler and timer (`scheduler.c`) | `listPointer`, `activeProcess`, `activeContext`, `ticks` | `scheduler`, `alarmHandler`, `terminateProcess`, idle | `SIGALRM`, `swapcontext` |
| Kernel functions (`kernel.c`) | process control blocks | `k_process_kill`, `k_process_cleanup`, `k_process_create` | queues |
| System calls (`process/user.c`) | `childPids`, `waitChild`, `changedStatus` | `p_spawn`, `p_waitpid`, `p_kill`, `p_sleep`, `p_nice`, `p_exit` | kernel functions |
| Shell (`process/shell.c`) | job list, `fgpid`, `curr_pid`, `IS_BG`, `retFlag`, `flag_spaces` | prompt loop, polling, `fg`, `bg`, `nice`, `nice_pid`, `man`, `logout`, Ctrl-C, Ctrl-Z | system calls, host signals |
| User programs (`process/user_functions.c`) | none of their own | `sleep`, `busy`, `kill`, `zombify`, `orphanify`; `cat`, `cp`, `mv`, `rm`, `touch`, `chmod` | system calls, `f_` calls |
| PennFAT (`fs/fat.c`) | allocation table, root directory, list of open files | `fs_open` ... `fs_rename` | called by `f_` functions and `pennfat` |
| Descriptors (`fs/user.c`) | `fd_table` of a process | `f_open`, `f_close`, ... | `fs_` functions |
| Standalone `pennfat` (`pennfat.c`) | the mounted filesystem | `mkfs`, `mount`, `umount`, and the file commands with host files | `fs_` functions, the host's files |
| Parser (`process/parser.c`) | none | `parse_command`, two passes over a line | called by the shell |
| Error numbers, logs, stress programs | - | formatting and test drivers | - |

What is hard here:

* The timer may interrupt a process anywhere, also half way through a system
  call: between the two steps of blocking, between a spawn and the wait for it.
* All queues are threaded through one `next` pointer, and the functions that
  remove a process differ in what they do to the rest of the list.
* A wake-up happens only if the waiter is found blocked, so order decides
  whether a session goes on.
* Globals (`fgpid`, `IS_BG`, `retFlag`, `flag_spaces`) are read long after the
  command that set them.
* Job numbers are reused and looked up by position in a list whose insertion
  into a gap is wrong, so it matters which commands a user gives when.
* The open-file list implements locks, deferred deletion and entry reuse at
  once; the disk may be full in the middle of a call, and the timer may fire
  there.
* A copy is a loop of reads and writes with other programs in between, and has a
  dozen error exits; a process that is killed closes nothing.
* The parser reads a line twice and checks it only the first time.

Each component's correctness, as properties:

* queues: separate, terminated lists; a process is in the queue of its status;
  preemption and removal lose no one;
* scheduler: every ready process runs; an ended one never runs again;
* wait/kill: no lost wake-up; no lookup that fails and is used;
* shell: the job list agrees with the kernel and is a table from numbers to jobs;
  the prompt comes back;
* filesystem: exclusive writers, entries not reused behind a handle, disjoint
  chains, no lost block, unique names, a stable view for readers;
* file programs: what is opened is closed once, a copy is complete, every
  program ends;
* parser: the error and the result are those of the line as a whole, and fit the
  buffer.

## 2. Modules

| Module | Models | State and actions |
|---|---|---|
| `ProcQueues` | the queues at pointer level | operators from a kernel state (heads, tails, next, control blocks, fault) to the next |
| `KernelCalls` | `kernel.c`, the non-blocking part of `user.c`, the scheduler's choice | operators over `ProcQueues` |
| `Kernel` | the running system | one action per step a signal can separate; extends both |
| `Lifecycle` | abstract: the life of a process | `Spawn`, `Block`, `Turn`, `Switch` |
| `KernelProperties` | what the kernel and shell promise; the refinement of `Lifecycle` | - |
| `MCKernel` | instances: command menus, preemption points, constraints | - |
| `JobList` | the linked list of jobs | one action per command that uses the list, one per turn of the polling loop |
| `JobTable` | abstract: a table from job numbers to jobs | `Add`, `SetStatus`, `Remove` |
| `JobListProperties` | the list's invariants; the refinement of `JobTable` | - |
| `Parser` | `parse_command` | one action per case of the two loops |
| `ParserProperties` | the reference reading of a line | - |
| `Fat` | the mounted filesystem | one action per `fs_` call |
| `FileLocks` | abstract: names, files and handles | one action per call |
| `FatProperties` | what the filesystem promises; the refinement of `FileLocks` | - |
| `FatBytes` | `Fat` with the bytes in the blocks: `fs_write_blk`, `fs_read_blk`, the filling of holes; the refinement of `ByteFiles` | `Fat`'s actions, with what they do to `data` and what they answer |
| `ByteFiles` | abstract: `FileLocks` with contents and positions | one action per call |
| `FatSteps` | `fs_open`, `fs_makefile`, `fs_write` cut open for the timer, and who owns a block in between; extends `Fat` | one action per part of a call, `Preempt` |
| `FilePrograms` | the programs that work on files, and `pennfat`; extends `Fat` | one action per filesystem call of a program |
| `FileProgramsProperties` | what the programs and the filesystem promise together | - |
| `MCFat`, `MCFatBytes`, `MCFatSteps`, `MCFiles` | instances | - |
| `FatProofs` | theorems about the entries, names and locks of `Fat` | - |
| `ChainProofs` | what the operations on the table do to chains of blocks; theorems about the chains of `Fat` | - |
| `FatRefinement` | `Fat` implements `FileLocks` | - |
| `FatStepsProofs` | theorems about interrupted allocation | - |
| `FileProgramsProofs` | theorems about what programs leave open, what they copy, and the chains they leave | - |
| `JobListProofs` | lemmas about lists; theorems about `JobList`, which implements `JobTable` | - |
| `KernelProofs` | lemmas about the queues and the kernel functions; theorems about `Kernel`, which implements `Lifecycle` | - |
| `ParserProofs` | lemmas about the words and operators of a line; theorems about `Parser` | - |

`Kernel` composes queues, kernel functions, system calls and shell;
`FilePrograms` composes the file programs, the descriptor layer and the
filesystem.  `Kernel` keeps the jobs as a map from pid to status and `JobList`
refines that map to the C list, with the processes reduced to what the shell
hears of them.

**Kernel.**  A C function that changes kernel state is an operator on a record
`k`.  The C program's failures are values of `k.fault`: `"segv"` for a NULL
dereference, `"hang"` for a walk round a cyclic list, `"overflow"` for the 21st
entry of `childPids`.  `pc[p]` is where process `p` goes on.  A label is split
off wherever an `Alarm` in between makes a difference: `Wait`, `WaitBlock`,
`WaitYield`, `WaitResume` are the four parts of `p_waitpid(pid, hang)`, and
`Sleep` ... `SleepResume` of `p_sleep`.  `Dispatch` is `scheduler()`.
`PreemptPoints` says at which labels an instance lets the timer in, so that the
guarantee "correct if not preempted here" and its failure "wrong if preempted
here" are both checked, by different configurations.  `echo` stands for every
program that does not act on processes.

**Lifecycle.**  `LifeOf` maps a process to "unborn", "ready", "blocked",
"stopped" or "ended" by the queue it is in, and to "lost" if it is in none and
not on its way between two.  `Lifecycle` has no such state, lets nothing leave
"ended", lets only the running process block, and lets the thread go only to a
ready process, so implementing it says at every step what the queue invariants
say of a state.

**Fat.**  The bytes of a file are abstracted to their number (`FatBytes` adds them).  Sizes and offsets
are `uint32_t` and wrap at `UINT`.  A handle is the address of a `file_t`; the
list of open files keeps its order because `fs_trackclose` depends on it
(closing swaps the last handle in).  `fs_extendblk` hands out the lowest free
blocks, and keeps those it has linked when the disk is full.  The end of the
program and its next start are `Remount`: the table and directory survive, the
open-file list does not.

**FileLocks.**  A file is an entry that is live, or unlinked and still open;
`named` and `held` are read off the directory and the list of open files.  The
abstract `Create` gives a name any file that no name and no handle refers to,
which is what the reuse of directory entries has to guarantee.

**FatBytes.**  `data` maps a block to its bytes and `answer` is what the last call
returned.  `fs_write_blk` and `fs_read_blk` are recursive as in the code, split at
the end of a block; a block keeps its bytes when it is freed, as on the disk.
`Fat` decides which blocks there are and where the handle ends up.

**ByteFiles.**  A file is a sequence of bytes.  A write replaces a part of it, with
zeros up to its position where the file was shorter; a read gives the part it asks
for; a write that fails has replaced a first part and says so.  Every other call
leaves all contents alone, save that opening for writing empties a file that may be
written.  `FatBytes` implements it with the contents read off an entry's chain.

**FatSteps.**  The filesystem masks no signal.  `fs_open` is cut between the
check of the locks and the recording of the handle, `fs_makefile` between the
choice of an entry and its use, the allocation of a block between finding,
marking and linking it.  As with the kernel, `PreemptPoints` says where an
instance lets another process in.  A process with an open file is in a write or
between two, so a further open is possible only while a handle is left
(`HandleLeft`, the bound of the instance; `malloc` in the code).

**FilePrograms.**  A program is at a label of its loop, with the handles it
holds in `src` and `dest`; a command's names are data.  The C programs of PennOS
and of `pennfat` differ only in where input and output come from, so one set of
actions stands for both: `Host` is the terminal or a file of the host, whose
calls may fail at any time.  The error exits are `refused`, `WithoutDest`,
`ReadFails` and `AfterWrite`.  `Kill` ends a program of PennOS between two calls;
`Restart` is the end of the whole program, `Mount`, `Umount` and `Mkfs` are
`pennfat`'s.  Four assumptions are named: two handles for each process
(`HandlesAssumption`: no program has more files open, and a `malloc` that fails
is left out); the arguments a command's parsing lets through
(`CommandsAssumption`); an image `mkfs` made (`ImageAssumption`); and a buffer
that is shorter than the numbers of a `uint32_t` (`Chunk + 1 < UINT`, for 4096
and 2^32).

**JobList.**  A job is named by its pid; `next` and `head` are C's pointers.
Where the code cycles, dereferences NULL or leaves the shell, `fault` says so.
`Careful` is the user's part: adding no job while the numbers have a gap or the
only job is number 2, and naming only jobs that are there and whose process
lives.  A command that waits (`Fg`, `RunAndStop`) is one step, since the shell
touches the list only before and after.

**Parser.**  Characters are reduced to the seven the code tells apart, each under
its name.  A token is stored as its first position and the position behind its
last, in the place of a pointer into the copied line.  The reference in
`ParserProperties` says what a line means by the places of its characters: which
operator offends, which words are arguments and which name a file, and that a
token's slot in `argv` is its rank among the arguments and pipes.

Operators whose name starts with `Bug_` are not part of the model: each is a
definition with a plausible mistake, used to show that a property notices it.

## 3. Runs

| Run | Question | Bounds |
|---|---|---|
| `MCSched` | do queues and control blocks survive any interleaving of the timer with foreground and background programs, sleepers, a program with a child and the signals of `kill`, and implement `Lifecycle`? | 4 pids (shell and three programs), sleeps of 1 to 3 ticks |
| `MCJobs` | do Ctrl-C, Ctrl-Z, `fg`, `bg` and the builtins keep them right? | 3 pids, one of them long-running |
| `MCLive` | is every ready process scheduled, does the prompt come back, do sleepers end? | 4 pids |
| `MCJobList` | is the list a table from numbers to jobs, and does the shell hear only of jobs it has? | 4 pids, so up to 4 jobs |
| `MCParser` | do both passes read a line as a reference does that reads it at once? | all lines of up to 6 characters of 7 kinds |
| `MCFatLocks` | are locks exclusive, open entries kept, readers undisturbed, and is `FileLocks` implemented? | 3 handles, 2 names, 2 free blocks, directory blocks of 2 entries |
| `MCFatBytes` | are chains disjoint, no block lost, names unique, and does a file hold what was written to it, on a disk that fills up? | 2 handles, 2 names, 3 blocks of 2 bytes, directory blocks of 1 entry, writes and reads of 3 bytes, sizes to 4 (`SizesTo4`) and offsets to 3 (`OffsetsTo3`) |
| `MCFatSteps` | does a block have one owner when the timer fires after it is marked? | 2 processes, 2 handles, 2 names, 3 free blocks |
| `MCFiles` | do programs leave nothing open, make complete copies, and end? | 2 processes, 3 commands, 3 names, 4 handles, 2 free blocks of 2 bytes, a buffer of one block |
| `DocDequeueHead` | does removing one process keep the others? (no) | 3 pids |
| `DocUnlinkedKept` | does the last close delete an unlinked file? (no) | 3 handles |
| `DocLockRace` | is a lock exclusive when the timer fires within `fs_open`? (no) | 2 processes, 2 handles |

What the runs show.  Away from the divergences below, the kernel's four kinds of
list surgery compose: no process is lost or doubled, and wake-ups are not missed.
The list of jobs is a faithful table for the careful user, who never gets a
job's neighbour.  The parser's error order and its buffer are right on every
line of the bound.  The filesystem's search through open handles does implement
a lock per file, across renames, unlinks and reuse of entries, as long as a call
is not interrupted; marking a block before linking it makes the allocator safe
from there on.  Reads return what was written last, through truncation, deletion
and reuse of blocks, and zeros in a hole.  Copies are complete whatever runs beside them, and only killed
programs leave files open.

Why these bounds suffice for the questions asked: three processes beside the
shell give a head, a middle and a tail of one queue, which is what tells the
removal functions apart; two ticks tell a sleeper that is due from one that is
not; three handles are needed for `fs_trackclose`'s swap to touch neither the
first nor the closed one; three blocks of two bytes hold a directory of two
blocks and one file, or one of one block and two files, so that
writes of three bytes meet the end of the disk before they begin and half way; three bytes
from position 0 or 1 are divided between two blocks in the two possible ways.  A
position of 1 in an empty file makes a hole in a block that has been another file's.  Four jobs give a head, an inner job, a last one
and one that comes when another has gone.  Six characters hold two pipes, an
operator with its name beside a command, and every pair of operators next to one
another with a word on both sides.  In `MCFiles` the source has two blocks and
the buffer one, so a copy takes two turns and a last empty one, and the disk is
full before the third file is complete.

The calm instances leave the timer out of five labels (`nice`, `wait`,
`waitBlock`, `sleepBlock`, `exec`).  There the program is wrong when it is
preempted, which the `Doc` runs show.  `PatientUser` keeps keys away from moments
at which the foreground process has ended already.  Constraints are named in
`MCKernel`, `MCFat` and `MCFatBytes` with the reason for each; those of `MCSched` keep the kill
process to a session of its own.  `MCJobs`, `MCJobList` and `MCParser` do not
check for deadlock because a session, the supply of pids and a line end there;
the other passing runs do.

### Divergences from the documents

Three are runs, listed as findings.  More were met while modelling; each has a
configuration of its own that TLC answers with a counterexample, and is not among
the runs:

| Configuration (module) | Property violated | Cause |
|---|---|---|
| `DocEarlyExit` (`MCKernel`) | `WaitFindsChild` | the result of `findProcessByPid` is NULL for a child that ended before the wait (`src/process/user.c:182`) |
| `DocHalfBlocked` (`MCKernel`) | `ParkedIsQueued` | the timer between `dequeue` and `enqueueBlocked` (`src/process/user.c:195`) |
| `DocLowPriority` (`MCKernel`) | `EndedNotReady` | the LOW case of `enqueue` has no `break` (`src/process/scheduler.c:350`) |
| `DocEarlySleep` (`MCKernel`) | `PromptAfterForeground` | `enqueueBlocked` sets `changedStatus`, so a wait for a child that already sleeps returns (`src/process/scheduler.c:211`) |
| `DocStopAgain` (`MCKernel`) | `StoppedIsJob` | `fg` removes the job and does not put it back (`src/process/shell.c:572`) |
| `DocMan` (`MCKernel`) | `ForegroundIsWaitedFor` | `retFlag` is never reset (`src/process/shell.c:766`) |
| `DocBlankLine` (`MCKernel`) | `OnlyBlankIsSkipped` | `flag_spaces` is never reset (`src/process/shell.c:954`) |
| `DocStopStopped` (`MCKernel`) | `SearchEnds` | a stopped process is appended to its queue again (`src/process/kernel.c:146`) |
| `DocNullDereference` with `OrphanMenu`, `ZombieMenu` or `KillBgMenu` (`MCKernel`) | `NoNullDereference` | lookups that fail and are used (`src/process/kernel.c:314`, `src/process/shell.c:890`, `src/process/kernel.c:65`) |
| `DocJobGap` (`JobListProperties`) | `GapsAreLinked` | the successor is read after it is overwritten, so the list becomes endless (`src/process/shell.c:206`) |
| `DocRenameSelf` (`MCFat`) | `BlockNoUnique` | the entry is unlinked and then gets its name back (`src/fs/fat.c:397`) |
| `DocBlockRace` (`MCFatSteps`) | `BlocksOwned` | the timer between finding a block and marking it (`src/fs/fat.c:556`) |
| `DocFullDisk` (`MCFat`) | `SizeHasBlocks` | -1 is added to an unsigned offset (`src/fs/fat.c:242`) |
| `DocHole` (`MCFat`) | `HolesAreFilled` | the hole is zeroed through NULL (`src/fs/fat.c:236`) |

What a careless user of the job list meets besides (`Careful = FALSE`): with one
job left, numbered 2, the next one is numbered 2 as well; a number no job has ends
the shell (`getJob` calls `p_exit`); a stopped job that is killed stays listed, and
`fg` of it dereferences NULL.

### Fairness

`FairSpec` of `Kernel` assumes that (1) `SIGALRM`, which an interval timer raises
for ever (`setTimer`, `src/process/shell.c:39`), is delivered some time whenever
the program is again and again at a point that lets it in and has something to
schedule or to wake; (2) the shell and (3) each program execute their next
instruction if they are given the thread again and again.  It assumes nothing of
the user: no command is ever typed by fairness and no key pressed.  Strong
fairness is needed because the timer takes the thread away between any two steps
of a process; for the timer and the programs the formula spells out the enabling
states (`AlarmDue`, `ProgramDue`), which TLC evaluates faster than ENABLED.

`FilesSpec` of `FilePrograms` assumes weak fairness of each process: that is what
`ReadyIsScheduled` gives a ready program, and `pennfat` does nothing but run its
command.  A killed or restarted program owes nothing.  `Parser` is sequential
code; weak fairness says that it runs.

## 4. Proofs

For every size of disk, every number of entries, names, handles, processes, pids,
commands, lengths and seeks that the named assumptions allow:

| Module | Theorem | States | Checked by TLC in |
|---|---|---|---|
| `FatProofs` | `TypeCorrect` | `Spec => []TypeOK`: sizes and offsets are those of a `uint32_t`, links are blocks, free or the end mark | `MCFatBytes` |
| | `LocksAreExclusive` | `Spec => []LocksExclusive`: two handles on one entry are both readers | `MCFatLocks` |
| | `HandlesStayAlive` | `Spec => []HandlesAlive`: an open handle's entry is in use, no handle is listed twice | `MCFatLocks` |
| | `NamesStayUnique` | `Spec => []NamesUnique`: a name names one live entry | `MCFatBytes` |
| | `ReadersAreKept` | `Spec => ReadersKeepEntry`: no call changes the size or first block of a file a reader has open | `MCFatLocks` |
| `ChainProofs` | `ChainsStayIntact` | `NoSelfRename => (Spec => []ChainsIntact)`: chains end and are disjoint | `MCFatBytes` |
| | `BlocksAreNotLost` | `NoSelfRename => (Spec => []NoLostBlocks)`: what is not free is in a chain | `MCFatBytes` |
| | `ReadersBlocksAreKept` | `NoSelfRename => (Spec => ReadersKeepBlocks)`: no call changes the links of a file a reader has open | `MCFatLocks` |
| `FatRefinement` | `Refinement` | `Spec => ImplementsFileLocks` | `MCFatLocks` |
| `FatStepsProofs` | `MarkedBlocksAreOwned` | `SafePoints => (StepsSpec => []BlocksOwned)`: interrupted allocation gives no block twice | `MCFatSteps` |
| | `LocksHoldBetweenCalls` | `SafePoints => (StepsSpec => []LocksExclusive)` | `MCFatLocks`, of `Spec` |
| `JobListProofs` | `JobTypes` | `CarefulUser => (Spec => []TypeOK)` | `MCJobList` |
| | `ListStaysIntact` | `CarefulUser => (Spec => []ListIntact)`: the list ends, in the order of its numbers, and nothing fails | `MCJobList` |
| | `NewsIsOfJobs` | `CarefulUser => (Spec => []NewsHasJob)`: polling hears of listed, running jobs | `MCJobList` |
| | `CurrentJobIsLast` | `CarefulUser => (Spec => []CurrentIsLast)`: the default job of `fg` and `bg` | `MCJobList` |
| | `ListIsTable` | `CarefulUser => (Spec => ImplementsJobTable)` | `MCJobList` |
| `KernelProofs` | `KernelStaysSound` | `PlainSession => (Spec => []KernelInv)`: the inductive invariant | `MCPlain.cfg` (below) |
| | `KernelTypes` | `PlainSession => (Spec => []TypeOK)` | `MCSched` |
| | `KernelDoesNotFault` | `PlainSession => (Spec => []NoFault)`: no NULL is used, no walk is endless | `MCSched` |
| | `QueuesStayIntact` | `PlainSession => (Spec => []QueuesIntact)`: the six lists stay lists, and apart | `MCSched` |
| | `ProcessesStayPlaced` | `PlainSession => (Spec => []PlacedByStatus)`: a process is in the queue of its status | `MCSched` |
| | `ActiveStaysLast` | `PlainSession => (Spec => []ActiveIsLast)`: who has the thread is the tail of its queue | `MCSched` |
| | `BlockedAreWoken` | `PlainSession => (Spec => []BlockedHasWaker)`: no wake-up is lost | `MCSched` |
| | `JobsStayMatched` | `PlainSession => (Spec => []JobsMatchProcesses)`: each zombie is a job, each job can be found by pid | `MCJobs` |
| | `SessionIsLifecycle` | `PlainSession => (Spec => ImplementsLifecycle)` | `MCSched` |
| `FileProgramsProofs` | `NothingLeaks` | `FilesSpec => []NoLeak`: what is open is what the programs hold | `MCFiles` |
| | `CopiesAreComplete` | `NoSelfMove /\ ImageLaid => (FilesSpec => []CopyComplete)`: a copy that ends without an error is complete | `MCFiles` |
| | `ProgramsKeepChains` | `NoSelfMove /\ ImageLaid => (FilesSpec => []ChainsIntact)` | `MCFatBytes`, of `Spec` |
| `ParserProofs` | `ParserInvariance` | `Spec => []ParserInv`: the inductive invariant of both passes | (below) |
| | `ParserRejectsAsReference` | `Spec => []RejectsAsReference`: the error is that of the line as a whole | `MCParser` |
| | `ParserParsesAsReference` | `Spec => []ParsesAsReference`: what is stored is what the line means | `MCParser` |
| | `ParserStaysWithinBuffer` | `Spec => []WithinBuffer`: the second pass fits what the first has counted | `MCParser` |

### Hypotheses

Some theorems have hypotheses on the constants.  Each but `PlainSession` holds of the
constants of the run that checks the property, and those on users and timers are
needed, as runs show:

* `NoSelfRename`: no `fs_rename` of a name to itself.  Such a call deletes the
  file's chain and keeps the entry (`DocRenameSelf`).  `NoSelfMove` says the same
  of the `mv` commands that are given.
* `ImageLaid`: the image the session starts with is one in which every file has a
  chain of its own and the directory the length its chain says.  `mkfs` makes such
  an image (`FreshLaid`), and the filesystem leaves no other (`ProgramsKeepChains`).
* `SafePoints`: the timer comes between two calls, or between marking a block and
  linking it.  At the point after the check of the lock it breaks the lock
  (`DocLockRace`), between finding and marking a block it gives the block twice
  (`DocBlockRace`).
* `PlainSession`: the commands start programs that compute or sleep, in the
  foreground or the background, or are blank lines; no key is pressed, so nothing
  is stopped; the timer is kept from `nice`, `wait`, `waitBlock` and `sleepBlock`,
  where it breaks the wait (`DocEarlyExit`, `DocHalfBlocked`); and the shell may
  start as many programs as `childPids` has entries, since the code does not check.
  Signals and keys are left to `MCSched` and `MCJobs`: they take a process off the
  queue that is not its tail, and drop the others if it is the head
  (`DocDequeueHead`), so what a session may do then depends on what runs.  Unlike
  the others this hypothesis leaves out part of what `MCSched` does; the constants of
  `MCPlain.cfg` satisfy it.
* `CarefulUser`: the user adds no job while the numbers have a gap and names only
  jobs that are there (`DocJobGap`, and the failures listed beside it).

### Entries, names and locks

`LocksExclusive` alone is not inductive: `fs_open` checks the lock
by entry number, so the lock says something of a file only if `fs_makefile` does
not give an entry in use to another file (`HandlesAlive`, first part), and
`fs_close` swaps the last handle into the place of the closed one, which takes off
exactly that handle only if none is listed twice (second part).  That
`fs_close` and `fs_unlink` leave open entries in use rests on the handles that
remain being those `StillCounted` looks at.  `NamesUnique` is needed by `fs_rename`,
which unlinks only the first file with the new name.  Hence

    Inv == TypeOK /\ HandlesAlive /\ LocksExclusive /\ NamesUnique

with one lemma per call (`OpenExistingStep`, `MakeFileStep`, `CloseStep`, ...,
`RenameStep`), put together in `NextInv`.  All conjuncts of `Inv` are invariants
of `MCFatLocks` or `MCFatBytes`.  `ReadersAreKept` follows from `Inv` by a second
round of lemmas over the calls: a writer cannot be on a reader's entry
(`WritersExclude`), truncation needs the entry to be unlocked, deletion that it is
not open.

`FatRefinement` shows on `Inv` that every call is a step of `FileLocks` or a
stutter.  `NamesUnique` makes the file a name stands for the only one that has the
name, so that `fs_rename`, which searches twice, changes one row of the abstract
table; `HandlesAlive` makes the entry `fs_makefile` takes one that no name and no
handle refers to, which is the guard of the abstract `Create`.

### Chains of blocks

`ChainsIntact` and `NoLostBlocks` are one induction:

    ChainInv == Inv /\ Laid

`Laid` says that the chains of the root directory and of the files partition what
is not free (`Layout` of the set of first blocks), that no two entries and no entry
and the directory have the same first block (`Owns`), that the directory has as
many entries as fit its chain, and that no call has met a corrupted table.  The
last is why it has to be said: `fs_freeblk` and `fs_extendblk` walk a chain without
a check, and do what is intended only on a chain that ends.

The first part of `ChainProofs` is about the table alone, for every table: which blocks a walk
visits (`Walk` is a recursive function on an interval, whose existence is shown
first), that chains of a layout are disjoint, and what `fs_freeblk` (`LayoutFree`),
a marked block (`LayoutNew`), `fs_extendblk` (`LayoutExtend`) and a linked block
(`LayoutJoin`) leave.  A chain's
end and its freeing need induction along the chain.  The library's induction
theorems take an operator as a parameter; here the induction is over a set of
numbers instead (`SetInduction`), and that a nonempty set of numbers has a first
element (`FirstElement`) is proved by counting: the lower bounds of the set are an
initial segment whose cardinality is one more than the first element.

### Interrupted allocation

The chains in flight, one marked block for each process that is to link one, are
the set `extra` of `Owns`, so the lemmas about calls hold with others in the middle
of theirs:

    StepsInv == Inv /\ LaidOver(InFlight) /\ StepsTyped /\ OthersWait
                /\ Holders /\ MarkedOnce /\ \A p : IsSo(step[p])

`OthersWait` is what `SafePoints` gives: whoever does not run is between two calls or
has marked its block.  `IsSo` is what a process knows from before it was
interrupted; it is about the running process only because a fact such as "this
entry is free" does not outlive the thread, which is what the two races are.
`Holders` keeps the handles of two processes apart, so `MarkedOnce` cannot be lost.

### The list of jobs

    JobInv == TypeOK /\ fault = "none" /\ ListOrdered /\ JobsKnown /\ RunningListed
              /\ NewsHasJob /\ NewsEnded /\ PidsInTurn

`ListOrdered` says that there is a sequence of distinct pids with growing numbers
whose links are `next`; the code's walks visit exactly that sequence
(`ListFacts`).  A new job's number is at most its pid (`JobsKnown`), since numbers
have no gap when a job is added and each belongs to an older pid; this is what
bounds the numbers.  The pid of a new job is one no link leads to (`PidsInTurn`).
`RunningListed` and `NewsEnded` are what polling needs: a process that ends while
its job is listed is reported once, and the report finds the job.  `addJob` before
the head and behind the last job are lemmas of their own (`AddFirst`, `AddLast`);
`ListIsTable` reads off the same lemmas which row of the table a command changes.

### Queues and kernel

    KernelInv == Steady(kern, Contents(kern), pc, pidCounter, curr_pid, DOMAIN jobs)
                 /\ Turn(...) /\ Globals

`Steady` is what holds whoever has the thread, `Turn` says who has it, `Globals`
what the shell's variables hold.  None of the seven properties is inductive.  The
argument goes round: a dequeue of the head empties the queue, so no process is
lost (`PlacedByStatus`) only because who blocks or ends is the tail of its queue;
it is the tail (`ActiveIsLast`, in `Turn`) because the scheduler has rotated the
queue before it gave the thread away, and nothing enters the queue behind the
running process but what the shell or the timer puts there, neither of which is
in it; that needs the queues to be lists (`QueuesIntact`) and each control block
to say where its process is (`Placed`).  A look-up by pid goes through the
same lists, so `NoFault` rests on them too, and polling finds the job of a zombie
because the jobs are just the background processes that are not reaped
(`JobFacts`), but for the one the shell has started and is about to enter.
`JobsMatchProcesses` follows from this and from where each of them is.
`BlockedHasWaker` needs, at every label between spawn and wait, what the shell
knows of the child it has started (`ShellFacts`).

The proof has three layers, which are three parts of the module:

* lists: `Lists(h, t, nx, L)` says that the links `nx` lead from `h` to `t` through
  `L`, once each.  What appending (`PutBehind`), taking the head (`TakeHead`) and
  unlinking behind it (`TakeOut`) leave is shown for any links; that the walks of the
  code visit just `L` (`WalkMeets`), by induction over a set of numbers as for chains;
* `Queued(k, M)`: six such lists hold the sets `M`, apart, and a process in none has
  no successor.  One lemma for each function of `ProcQueues` and `KernelCalls` says
  which set it changes.  The wake-ups of one tick are a recursive function over the
  positions of the blocked queue; that it moves all sleepers that are due is an
  induction over those positions, in which the queue already lacks those before;
* actions: one lemma for each action, from the call's effect on `M` and the control blocks.
  Of what is said for every process, a step disturbs the part about one or two.

`SessionIsLifecycle` needs no invariant beyond `KernelInv`.  Under it `LifeOf` can be
read off the control block and the label alone (`Stage`, `LifeIs`), so the lemma of
each action, which says how these change, also says which step of `Lifecycle` the action is, if
any: it keeps all lives (`KeepsLives`), blocks whoever has the thread, starts a program,
or passes the thread (`PassesThread`).  Only a blocked sleeper, or a shell whose
child ends, turns ready while the thread is passed, and only the program that calls `exit`
ends.  That the thread goes to no pid only when nobody is ready is a conjunct of `Turn`.

`MCPlain.cfg` (of `MCKernel`; not one of the runs, since it asks about the proof and
not about the system) checks `KernelInv` for four pids, with all plain programs and
sleeps of 0 to 2 ticks: it holds in all 1,129,569 states.

### What programs leave open

    FilesInv == Inv /\ prog \in [Processes -> Program]
                /\ \A p : InCommand(prog[p]) /\ InPlace(prog[p]) /\ ListedIsHeld

`NoLeak` says that the list of open files is what programs hold, and is not
inductive: that a program's next close is of a file it has open depends on which
of `src` and `dest` it holds at which label (`InPlace`); that a
close of one program is not of another's file, on `ListedIsHeld`.  Every error exit
of `cat`, `cp` and `touch` has its own step in the proof.  A `file_t` is left for
every program (`HandlesAssumption`) because a program holds at most two
and they are counted.

### Complete copies

    CopyInv == FilesInv /\ Laid /\ \A p : CopyState(prog[p])

`CopyComplete` speaks of the end of a source only.  Before that, what was there to
copy is what the target already has, what is in the buffer and what is left to read
(`AddsUp`), and the offset is at the end of what is written.  Three things make this
hold.

* No call of another program touches the size, the first block, the permission or
  the blocks of a file somebody has open, other than through a handle that writes, of
  which there is one (`Leaves`, with a lemma for each call).  Without `Laid` the
  blocks could be shared; so the theorem rests on that of the chains.
* `fs_read` stops at the end of the file or of its blocks, whichever comes first,
  and advances the offset by what it read, so what is left never becomes negative
  (`ReadAdvances`), and an empty read means that nothing is left (`EndHasNothingLeft`).
* `fs_write` returns -1 when the disk is full, and then leaves the offset or moves it
  back by one; the model reads the result off the offset.  Neither is where
  a whole buffer would have taken it, because the buffer is shorter than 2^32
  (`Elsewhere`); and what fits on the disk is shorter than 2^32, so a size that was
  reported as written has not wrapped (`FitsWithin`, `WriteAppends`).

A file without write permission is left as it is, and reported as an error
(`WriteIsDue`).  `CopyInv` has 161,013 states to hold in under the constants of
`MCFiles`, which satisfy both hypotheses, and does.

### The parser

    ParserInv == Typed /\ (pass = "trim" => Untouched) /\ (pass = "first" => InFirst)
                 /\ (pass = "second" => InSecond) /\ (pass = "done" => IsDone)

The three properties speak of the end only.  Before it, the loops go from token to
token (`Tokens`: operators, and words that name no file); `cur` is at a token or at
the end, never within one, and what the flags, counts, `argv` and `commands` hold is
what the reference says of the part of the line before `cur`: `ReadTo` in the
first pass, `StoredTo` in the second.  The theorems are for every length of line, and
have no hypothesis.

* `Onto(p, r)` says that `r` is the next token after `p` or the end.  That
  `skip_word` and `skip_space` lead there from a word (`WordStep`), from a pipe
  (`PipeStep`) and from a `<`, `>` or `>>` over its name (`RedirectStep`) is where the
  details of the line are dealt with; the rest counts sets of positions
  (`Passed`).
* The first pass decides from its flags alone.  `OffenceAtInput`, `OffenceAtOutput` and
  `OffenceAtPipe` show that the flags tell just what the reference looks for in the
  whole line before the operator, in the order of the checks.  The first token that
  offends is the least (`FirstOffence`); a line without arguments that gets past
  the loop has a file or an ampersand, since otherwise its first token would have
  offended (`NotEmpty`).
* The second pass makes no checks.  `Counted` is what it gets from the first: nothing
  offends.  That is why there is one `<` and one output whose name is where the loop
  looks for it (`FileNameIs`), why `is_file_append`, read there for any `>`, speaks of that
  one, and why a character that is none of the three operators is an argument's.
* The buffer fits because slots are arguments and pipes, each counted once
  (`SlotCount`), and a token's rank among them is at most their number (`RankGrows`).

`ParserInv` holds in all 443,411 states of `MCParser`.

### What rests on model checking alone

* Liveness, which needs fairness, and ENABLED: `ReadyIsScheduled`,
  `ForegroundReturns`, `SleepersEnd`, `ProgramsEnd`, `ParseEnds`.
* The invariants of the kernel and the refinement of `Lifecycle` in sessions with
  signals, keys, `fg`, `bg`, `nice` and programs that spawn: `MCSched` and `MCJobs`
  check them within the sessions their menus and constraints allow; outside these
  the code breaks them (section 3), and a hypothesis that says so would describe the
  session step by step.
* The refinement of `ByteFiles`.  Its copying loops are recursive operators, and what
  they do to the bytes is an induction over the string.  What follows the first
  write that a full disk refuses need not refine it: the size may have become more than the file
  has (`DocFullDisk`), and a handle that appends then starts beyond the end.  `SizesTo4`
  keeps the run to what comes before, and no hypothesis on the constants does.  What is proved of the blocks the bytes lie in is `ChainsStayIntact`,
  `ReadersBlocksAreKept` and `MarkedBlocksAreOwned`.

The theorems hold also in the states the divergences lead to, unless a hypothesis
excludes them: a full disk, a write at an offset that has wrapped, a hole.

## 5. What is not modelled, and why

* Names as strings, bytes of files outside `FatBytes`, permissions other than the one for writing
  (so a handle that may not read is not told apart),
  modification times, log lines and messages.
* Preemption inside `scheduler()` and `terminateProcess`, which would need the
  machine contexts that `Kernel` reduces to the process that goes on, and inside
  the `fs_` calls `FatSteps` does not cut open.
* The 512 slots of a descriptor table: no program opens more than two files beside
  its terminal.  Inheritance of descriptors in `p_spawn` is commented out.
* A stop of the program in the middle of an `fs_` call: nothing repairs the image at
  the next mount, so there is no recovery to model.
* `ls`, `ps`, `jobs` and `print_parsed_command`, which only print.
* A table of 65536 entries, whose last block has the number of the end-of-chain
  mark (`FatAssumption` leaves it out).
* `p_waitpid` with the two combinations of arguments that no caller uses.
* The stress tests, error numbers, error texts and usage messages.

## 6. Plan

Order of work, most important behaviour first.

1. *(done)* `ProcQueues`, `KernelCalls`, `Kernel` with the runs above.
2. *(done)* `Fat` with locks, blocks and deferred deletion; `FatProofs`.
3. *(done)* `FileLocks`, `ByteFiles`, `Lifecycle` and `JobTable` with their refinements.
4. *(done)* `JobList`, `Parser`, `FatBytes`, `FatSteps`, `FilePrograms`.
5. *(done)* Proofs: chains, the refinement of `FileLocks`, interrupted allocation, the
   list of jobs and its refinement of `JobTable`, what programs leave open, complete
   copies, the queues, the kernel and the jobs in plain sessions and their refinement
   of `Lifecycle`, the parser.
6. Proofs still worth their effort: `Kernel` with one signal (`kill` of a sleeper, for
   which the queue lemmas are there).
7. Preemption inside `fs_unlink` and `fs_rename`, and of `FilePrograms` on top of
   `FatSteps`.
