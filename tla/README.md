# Verification of workpen

workpen runs a command in a jail on Linux, macOS and Windows, hides the files its deny globs name, and removes leftover
git worktrees. This directory holds TLA+ modules that model its core, TLC configurations that check them on small
instances, and proofs that TLAPS checks for every instance. Paths are relative to `src/crates/`; line numbers are those of
the commit the modules were written for. `PROJECT.json` maps every definition to the lines it stands for.

## Inventory

| part | source | state | operations | what makes it hard |
|---|---|---|---|---|
| Linux reaper | `workpen/src/wrap/reaper.rs` | `STOP`, `MISSED`, `TABLE`, loop counters, the report pipe | adopt, walk, wait, stop, kill rounds, drain, report | races with forks, `setsid`, reparenting and slow deaths; child lists that lie; bounded rounds |
| macOS reaper | `reaper.rs` 401-1015, 1471-1653, 1984-2670 | the stop of the command, `TABLE`, `OVERFLOW`, `SEEN`, `IDENT`, a kqueue | watch, resume, handshake, fork note, walk, kill, settle, scan by name | a handshake of three processes, orphans that go to launchd, pids that come back, lists that are late |
| host wait | `workpen/src/wrap/mod.rs` 290-484 | deadline, grace, the report read at the end | poll, SIGTERM, SIGKILL, killpg, take the report | timeout against normal end; a reaper that dies; a host that ignores SIGCHLD |
| dest-deny launch | `wrap/mod.rs` 1261-1564, `wrap/linux.rs` | plants in the workspace, mounts of the child's namespace, `PreExecReport` | classify, plant, spawn, remount, drop | concurrent runs in one workspace, errors half way, a crash of the host |
| output forwarding | `wrap/mod.rs` 443-921, `wrap/pty.rs` | two pipes, one write lock, `O_NONBLOCK` on a shared open file, a stop flag, a deadline | copy, poll, write, give up, join, print the deadline line | a stalled reader, two threads and one lock, lost tails |
| Windows jail | `wrap/windows.rs`, `wrap/windows_net.rs`, `windows_net_helper.rs` | access lists, restore guards, the cached AppContainer, token, job | grant, deny, create, confine, wait, cancel, restore | an edit or restore that fails half way, a command that exists before it is confined, threads stuck in a read |
| command scan | `workpen/src/deny.rs` 734-1565, 2640-2780 | none | take words, find the command lines inside them, decode payloads | programs nest in each other, two scans read one text |
| command line | `workpen-cli/src/main.rs`, `wrap/mod.rs` 2133-2446 | none between calls | parse, check, rewrite for bash, choose the environment, map results to exit codes | words move between two checks, two systems edit one environment |
| worktree collector | `workpen/src/gc.rs` | git's registry, reflogs and refs, cached probes | list, classify, save, recheck, remove, prune | a person who goes on working; probes that are old when they are used |
| dest-deny predicate | `workpen/src/deny.rs` | per-scope cache of directory scans | match globs, scan hardlinks, check, open, verify | names that change between check, open and verify; link counts |
| PathGuard | `workpen/src/guard.rs` | roots | resolve, classify | dangling and chained symlinks, `..` |
| pre-exec report | `wrap/mod.rs` 177-250, `reaper.rs` 226-365 | the pipe between the forked child and the host | open, write one byte, stash, take | who holds which end after two forks |
| agent.lock, why | `agent_lock.rs`, `why.rs` | none | parse, explain | none to speak of |

How they meet: the command line checks and rewrites what it is to run, builds a policy (`deny.rs` and `agent.lock`),
`process_jail` lists the denied names that exist, `run_child` plants the missing ones and hides all of them in the child's
mount namespace, forks the reaper (which forks the command), and waits for the reaper while copy threads forward the output.
The reaper tells the host one byte through a pipe. On macOS the reaper also sees the command through its start; on Windows a
job object takes the reaper's place, and edited access lists that of the mounts. The collector is a call of its own; it uses
the policy only to recognise untracked files that must not be lost. Shared state between hosts is the file system alone:
plants, worktrees, access lists.

What makes each part correct, in one line:

- reaper and host: "ok" only if no process of the run is left; no signal to a stranger's pid; one answer, on time;
- macOS reaper: a clean byte is not given over what it could have found; a late command does not start; nobody waits for ever;
- launch: what is denied is hidden or the host is told; plants go, other people's files stay;
- forwarding: the bytes arrive, in order, and a reader that stops cannot hold the call past its deadline;
- Windows jail: the command runs only when it is confined; success means the access lists are back; a deadline is told;
- command scan and line: no name hides in a nested command line; the status, the environment and bash's options are what was asked;
- collector: no work, commit or working directory is lost, and the answer is what was done;
- verified read: the file handed out has no denied name;
- PathGuard: the accepted path lies in the roots when the kernel follows it.

## Modules

| module | models | state and actions |
|---|---|---|
| `ProcTree` | Linux: fork, setsid, exit, wait, SIGKILL, reparenting below one reaper (external) | `born`, `state`, `parent`, `ingroup` |
| `LinuxReaper` (extends `ProcTree`) | `reaper_main`, `stop_for_signal`, `finish`, `kill_adopted`, `drain_zombies`, `write_report` | one action per system call that another process can see; `Walk`/`WaitCmd` are the loop, `BeginStop`/`StopWait` the stop, `ListEmpty`/`ListKids`/`KillKid`/`Drain`/`RoundsSpent` the kill rounds, `WriteReport`/`ReaperExit` the end |
| `RunChild` (extends `LinuxReaper`) | `reap_process_group`, `finish_reap`, the spawn before them | host program counter `hpc`; the reaper's own steps are the other disjunct of `RNext` |
| `RunContract` | nothing: what a caller may rely on | `live` processes, one `answer` |
| `RunClaims` | one statement of the documentation about runs | - |
| `MacProcs` | macOS: the command up to its exec (the child's side of `supervise_or_continue`); fork, exec, setsid, orphans to launchd, fork notes, pids that come back (external) | `state`, `parent`, `leads`, `image`, `at`, `events`, `reused` |
| `MacReaper` (extends `MacProcs`) | `watch_command_macos`, `wait_until_stopped`, `await_handshake`, `on_fork`, `remember_tree`, `kill_recorded`, `settle_recorded`, `untracked_same_name`, the macOS arms of loop, stop and report | the start is `SeesStop` to `Handshake`, the loop `TakeEvent`, `List`, `Walk`, `Tend`, `Wait`, the end `KillRecorded`, `Adopted`, `Settle`, `Scan`, `WriteReport` |
| `OutputForward` | `copy_pipe`, `poll_out_once`, `push_nonblock`, `write_fd`, `finish_copies`, `write_timeout_notice` | a program counter per copy thread, the lock, the sinks with their readers, the host after its wait |
| `DestHide` | `process_jail`, `occupy_missing`, `remount_status`, `apply_dest_deny_remounts`, `bind_over`, `OccupiedDests::drop`, `require_dest_hide` | one record per run, the files at the denied names, a person who edits them |
| `AclGuards` | the edits of a run as a plan: which call adds which entry to which list, and the stack of guards that saved them | pure operators over `dacl`, `guards` |
| `WinJail` (extends `AclGuards`) | `ProcessJail` on Windows, `spawn_prepared`, the order of token, job, assign, lock and resume, `reap`, drains and copy threads, `restore_guards`, `combine_spawn_restore` | `pc` of the host, the command and one descendant, a copy thread per stream, the clock |
| `CommandText` | what a scan sees of a text: names, assignments, options, lines | - |
| `CommandScan` (extends `CommandText`) | `check_command_argv`, `check_command_dests` | pure operators |
| `EncodedScript` | `decode_powershell_encoded_command`, `decode_rfc4648_base64` | the decoder as operators, its loop a recursive function; the payload grows by a letter |
| `CommandWalk` (extends `CommandScan`, `EncodedScript`) | any command line, and what its programs would touch (external) | words are added, lines wrapped |
| `BashArgs`, `ChildEnv` | `with_bash_noprofile`; `scrub_child_command`, `child_env_pairs`, `apply_child_env` | pure operators |
| `RunCall` (extends `CommandText`, `ChildEnv`) | `cmd_run`, `cmd_policy`: arguments, checks, environment, exit status; what is refused and how a command line is rewritten are operators among its constants | one stage per early return |
| `RunCommand` (extends `RunCall`, `CommandScan`, `BashArgs`) | what env, wrappers and bash make of a command line (external), for the properties of scan and rewriting together | - |
| `Gc` | `run_gc_with_policy`, `remove_explicit_with_policy` and all they call | repository, caches of the collector, and one action per git process or walk |
| `VerifiedRead` | `open_verified_read`, `hardlink_sibling_hit_unix`, `verify_post_open_unix` | one directory read per step, renames and links in between |
| `PathGuard` | `resolve_workspace_root`, `PathGuard::new`, `check_path`, `check_path_entry`, `walk_guarded` | pure operators over a file tree, the kernel's path resolution among them (`Reach`, external); one step for the workspace, one per further root, one for the check |

`MC*` modules give constants their values (`MCFiles` asks both `PathGuard` and `VerifiedRead`); `*Proofs` modules hold
theorems. Operators whose comment begins with "Mutant:" or "A mistake:" are the plausible bugs each property was seen to
catch; no specification uses them.

The composition `RunChild` = host x reaper x process tree is an interleaving of their steps over shared variables: the host
touches the reaper only through `Sigterm`, `Sigkill` and `GroupKill`, and reads only `rpc` (is it a zombie) and `report`.
`OutputForward` takes the outcome of that wait as one of three actions (`WaitEnds`, `WaitTimesOut`, `WaitMisses`).
`WinJail` has the wait and the copies in one module, because on Windows they share the stop flag and the job.

## Runs

Passing runs, each of one question; all end within two minutes on two workers.

- `run` checks the host with the reaper, three processes that fork, leave the group, exit and are reparented in any order, a
  reader of child lists that may overlook everything once, and SIGTERM or SIGKILL at any moment. `CleanReportMeansEnded`: a
  clean byte means that nothing is left unless the kill rounds ran out. `SignalsOnlyItsOwn`: the pids that will be signalled
  were not waited for. `GroupIsStopped`: whichever way the call ends, nobody who stayed in the group runs.
  Bounds: `MaxProcs` 3 is command, child and grandchild, the smallest tree with a reparenting; `MaxPids` 1 lets the table
  overflow; `KillRounds` 3 and one each of empty and stop polls let every loop run out.
- `contract` checks, with fairness, that `RunChild` implements `RunContract` (`ImplementsContract`: one answer, "ok" only when
  nothing is left) and that the call returns: after its deadline whatever the tree does (`TimeoutReturns`), and after the
  command's end whatever it left (`ReturnsAfterExit`).
- `mac` lets a command with up to two descendants start, fork, call setsid, exec, end and leave its pid to strangers, with a
  Ctrl-Z or a shell's `fg` before the exec, SIGTERM and the deadline at any time, and a list of launchd's children that is
  late once. `LeadersAreTold`: after a clean report no session leader that was launchd's before the report began runs under
  the program's name unrecorded (where the reaper saw the command's stop, and the name and start time it looks for are not a
  descendant's). `RecordedAreGone`: what was recorded alive has been waited for. `NeverStartsLate`: the reaper does not
  continue a command whose deadline has passed. `NobodyWaitsForever`: the stop before the exec and the handshake always end.
  Bounds: one row in the table, so that the second descendant overflows it; of four name scans two are made and one may be
  late (`MaxLies` 1 < `Polls` 2), so that a late list never speaks alone.
- `forward` lets two copy threads move three bytes into sinks that hold two and take chunks of two, of each kind (private
  descriptor, toggled flag, blocking), shared or not, with readers that read, stop or close and another process that writes
  one byte. `NothingLost`: all the bytes arrive if the answer is the child's status. `NeverInWrite`: no thread sits in
  `write`. `DeadlineReturns`, `AllFlows`: see fairness.
- `hide` lets two hosts, one strict, share a workspace with three denied names (a file, a folder, one outside that cannot
  be planted) and an editing person; hosts crash, probes disagree, binds fail, and so may the removal of a plant, whose
  error `OccupiedDests::drop` ignores. `DestsAreHidden`, `NotHiddenIsTold`, `OldFilesSurvive`; `PlantsAreRemoved`: no exit of
  a call forgets a plant, which goes unless the host was killed or its removal failed (the history variable `left`);
  `NothingIsMissed`: no other name is to be seen, except changed ones and plants an earlier call of the run left. One host
  uses its policy twice, so that its list is old.
- `windows` takes one run from the first edit of an access list to the last restore, in the modes `workspace`, `blocked`
  (read-only and strict) and `reexec` (network left open), inheriting, collecting or forwarding output, with and without a
  deadline; every checked call may fail, one restore may fail, the command may be wedged in the kernel and a descendant may hold the pipe. `RunsConfined`: a command
  that runs is in the job, under a locked token, and all denies of the plan are in force. `OkMeansRestored`: a run that
  answers with an exit or a late exit has put every list back. `DeadlineIsTold`: a run that closed the job for the deadline
  says so, and one that says it finished left no command. `DeadlineReturns`: the host returns after the deadline, unless a copy thread
  whose registration failed (`windows.rs` 3092) never comes back from its call: such a thread cannot be cancelled, and the
  host joins it all the same.
  Bounds: nine objects, one of each kind the plan edits, the root edited more than once; one stream, since the threads of the
  two do the same and meet only in `stop`.
- `argv` builds every command line of up to three of seventeen words, wraps it up to twice in a shell, env, cmd or
  PowerShell, and every payload of up to six letters. `NothingHides`: a denied name that one of the programs would touch is
  refused. `DecodesTheBits`: the decoded units
  are the bits of the payload, none left over and none made up. Two wrappings are one for each scan that stops at the first
  program it knows; six letters leave every possible remainder of bits and give up to two units.
- `cli` makes calls of `run` and `policy` on both systems, with no option and four words, one and two, or two and one.
  `StatusIsTrue`: 0 means the child ended with 0 and everything after it went well, or the call only tells; a child's own
  status is its own. `ChecksAgree`: what passes the check before the rewriting passes the one after it. `EnvIsAsAsked`: the
  child sees the names it was given and those it may inherit, no loader. `BashReadsNoFiles`: where a command line comes down
  to bash it still does when rewritten, and bash gets both flags first (`-S`, assignments behind `--`, and an `env` that is
  the value of a wrapper's option, which no wrapper accepts, are not covered).
- `gc` runs every kind of collection over two worktrees and a commit against two steps of a person. `WorkSurvives`,
  `CommitsSurvive` and `LiveCwdSurvives` name exactly the windows that remain between the last probe and the removal.
  `AnswerIsTrue`: at the end of a call the worktrees it tells of as reclaimed are those that went, although the removal may
  fail halfway, and each ref it made for a commit is in the answer or the commit is still in a reflog. `OutsideLeftAlone`,
  `Ends`. Two worktrees are needed because the caches of the first visit serve the second.
- `files` asks two questions that need no third actor in common. Of `VerifiedRead`: one file with up to five names in three
  directories while three renames, links or unlinks happen, one for each of the two scans and the open (`ReadIsClean`). Of
  `PathGuard`: every combination of four varying nodes (missing, directory, file, relative and absolute links, chains and
  loops), a temp directory that is reached through a link, four root texts, up to two of four further roots, three policies
  and nineteen texts: `RootsAreMeant`, `StaysInside`. Four links cover every chain these trees contain; longer ones are
  loops. Two further roots (`MaxExtras`) let the second be one that is there already.

Runs that find what the documentation says not to hold, each with its counterexample:

- `claim_success` (`SuccessMeansEnded`): `kill_adopted` leaves after 32 rounds that found children and does not set the
  missed flag, so a descendant that takes long to die is alive after an "ok"; `docs/threat-model.md` 127 says it is not.
- `claim_acl` (`AclsComeBack`): a preparation that fails after two edits of one object (`windows.rs` 705) drops its guards
  first to last, so the second puts the first entry back after the first took it away; the README says the jail restores the
  lists when it drops.

Met on the way and left without a run of their own. Places where a property had to name an exception:

- host: in a host that ignores SIGCHLD the wait never ends (`ReturnsAfterExit` is checked with `AutoReap = FALSE`); after a
  timeout the reaper is killed 300 ms after SIGTERM and its byte ignored, so a `setsid` descendant can survive, although
  `mod.rs` 1904 says it is stopped before the wait returns; the rows of `TABLE` are never given back, so 129 short-lived
  descendants of a well-behaved command end in `Descendants`;
- launch: a name created between `process_jail` and the spawn is not hidden (`stale` in `NothingIsMissed`) although
  `docs/threat-model.md` 19 speaks of what exists at spawn; what a person saves under a planted name is removed with the
  plant (`linux.rs` 460);
- forwarding: a copy thread whose sink is full drops the lock and takes it again at once, and `std::sync::Mutex` promises no
  fairness, so the other stream may wait as long as the first reader stalls (`mod.rs` 522 means it not to; `AllFlows` has all
  readers reading); a copy thread that reads from a pipe held by a surviving descendant is not ended by the stop flag;
- collector: the cwd of another user's process is skipped (`gc.rs` 556) although 514 counts unknown ones as live (`Hidden`);
- guard: `check_path_entry("a/..")` answers the directory `a`, not an entry of it; a link to nowhere is followed as text for
  one hop (`NoWhere`);
- macOS: when the fork note of a recorded descendant that runs another program is read after SIGTERM and after the command
  ended, and before the command's name was read, `on_fork` takes name and start time from that descendant (`reaper.rs` 1994,
  2182), so a leader under the command's own name is not looked for and the report is clean, although
  `docs/threat-model.md` 138-141 says the name is then the program's file name and the start time the one taken at the stop
  (`ident` in `LeadersAreTold`; it takes four processes, one more than `mac` has, and came up in the proof);
- macOS: a SIGCONT that arrives before the reaper looked lets a short command end unwatched and the report be clean (`seen` in
  `LeadersAreTold`); one that arrives between the seen stop and `capture_command_start` can leave no start time, and then the
  scan by name has nothing to compare; a workpen inside a workpen has the reaper's own program name, so the identity of the
  command may be taken from the wrong image; a leader that execs another program is not looked for, as
  `docs/threat-model.md` 127-141 says; after SIGTERM a stopped command is continued even past its deadline, in order to end it;
- Windows: the restores come before the job is closed when the host lost track of the command (`result` in `RunsConfined`).

## Fairness

- `RunChild`: weak fairness of the reaper (the kernel schedules it), of the host except its refusal of a timeout, of the
  300 ms, and of the end of a process that has SIGKILL pending. Nothing makes the command or a descendant end by itself, and
  nothing makes the deadline come.
- `MacReaper`: weak fairness of the reaper, of its two clocks, and of the end of a process that has SIGKILL pending. The
  command need not come to its stop, leave its hooks or end.
- `OutputForward`: weak fairness of the host, of each copy thread, and of a reader as long as it reads. None of the child, of
  a reader's change of mind, of the deadline, or of who gets the mutex: `AllFlows` therefore has all readers reading, and a
  finite child lets the lock pass on.
- `WinJail`: weak fairness of the host, of each copy thread, of the clock once the caller set a deadline, and of the job: a
  process in a closed job ends unless it is wedged in the kernel. The command and its descendant need not end. That
  `CancelSynchronousIo`, tried up to 500 times, meets a thread inside its call is one of these steps: each round leaves the
  thread time for one step.
- `Gc`: weak fairness of the collector. The person has none.

## Proofs

TLAPS checks, for every value of the constants (only the named assumptions of the modules, which say that bounds are
numbers and sets are what they are called):

- `RunChildProofs`, of `LinuxReaper`: `TypeCorrect`; `TreeCorrect` (parents are older than their children, everybody present has a present
  parent or the adopter); from it `NobodyEscapesAlways` (adoption has no gap); `SignalsSafe`; and `CleanReport`. The last rests
  on `CleanInv`: every empty list counted so far was a lie or the tree has ended. An empty list that tells the truth means that
  it has: the oldest living process (`Oldest`, births are well-ordered) can have only the reaper as parent, so it would be on
  the list (`EmptyMeansEnded`); and an ended tree stays ended (`EndedIsStable`). The loop believes one list more than can lie,
  which is the hypothesis `MaxLossy <= EmptyPolls` of `CleanReport`, `OkCorrect` and `RunImplementsContract`.
- `RunChildProofs`, of `RunChild`: a step of the host is a step of the reaper or none (`RunIsReaper`), so the above carries over; then
  `RunTypeCorrect`, `GroupCorrect`, `OkCorrect` (with `AnswerCorrect`: "ok" needs a report byte and a reaper that has gone, for
  good), and `RunImplementsContract`, the safety refinement of `RunContract` for any number of processes.
- `MacReaperProofs`: `TypeCorrect`, `InvCorrect`, and from them `RecordedCorrect`, `LeadersCorrect` and `StartsInTime`, for any number of processes, rows, polls and late lists. Every step of a process only moves it forward from
  unborn to gone and lets live leaders of launchd's be (`Forward`, and `Pushed` for the signals of the reaper). What
  a recorded pid is good for rests on the births: a pid that was taken again is of a process that has gone (`Births`), and the
  command's is not, for the reaper has not waited for it (`Start`). `Recorded` carries the end of `settle_recorded` to the report. For
  `LeadersAreTold` the invariant follows the name scan: once a list was not late, no live leader of the command's name that
  was launchd's when the report began is unrecorded (`Untold`, `Scanned`), since such leaders stay launchd's (`Leaders`) and
  the name looked for is the command's (`Named`, `Seen`). The hypothesis `MaxLies < Polls` of `LeadersCorrect` says that not
  all lists are late. `NeverStartsLate` rests on `Shot`: a command killed before its exec is not continued any more.
- `GcProofs`: `TypeCorrect`, and for any number of worktrees and commits and any person at work `WorkKept`, `CommitsKept`,
  `LiveCwdKept`, `AnswerCorrect` and `OutsideKept`. The first three speak of the removal alone; `Inv` says what is known of the
  visited worktree at each step before it: which it is (`CurOK`), what the branches that were read still reach (`ReachOK`), that what its reflog named is saved (`SavedOK`), that it was clean
  (`CleanOK`) and unused (`UsedOK`), in each case up to what the person did since. `AnswerCorrect` has an invariant of its own
  (`Tells`): no row is written twice (`RowsOK`), so a row stays true (`DoneOK`); and a commit with a ref that is not told of
  yet is in the reflog of a worktree that was kept, or of the visited one, whose removal tells of it (`ToldOK`), whether the
  save failed halfway or not.
- `WinJailProofs`: `TypeCorrect`, and for any policy and whichever calls fail `ConfinedCorrect` and `DeadlineCorrect`. `Life` says
  of each stage where the command is and what was done to it, `Told` what may have been answered, `Tokens` which token the
  mode has by then. `Forced` follows the denies: one of a plan is in force or its edit is still to be made; its failure is not
  let through (`Lasting`), and the only edits that take entries away are of the object namespace, where no deny is put
  (`Sparing`, from the assumption `SpacesApart`); so all of a plan are in force when its stage is over, until a restore, which
  comes after the command's end or after the host lost track of it.
- `WinJailProofs` also: `RestoredWhenOk`, for any policy and any number of edits of one object. The guards are a stack of saved lists;
  unwinding it is exact because the first guard of an object saved the list from before the run (`FirstSaved`) and an object
  without a guard has it (`Untouched`). Both survive a push and a pop, and neither survives dropping the first guard, which
  is what `claim_acl` finds.
- `CommandProofs`, of `RunCall`: `PairsAgree` (the block built on Windows holds what the scrubbed command passes on elsewhere),
  `SeesWhatWasAsked` (the environment that changes recorded by `apply_child_env` come to), and for every call, scan and
  rewriting `EnvCorrect` and `StatusCorrect`. `CallInv` says what is known of the child at each stage: nothing before it
  starts (`Early`), then an environment of what was given, which no longer changes, and a result with its code.
- `CommandProofs`, of `EncodedScript`: `BitsCorrect` (`DecodesTheBits`) for payloads of any length, and `OneCode`: two payloads
  accepted for one script have the same digits, so nothing in a payload is read by nobody. The loop of the decoder is a
  recursive function that is shown to exist (`UptoExists`, `DecodedSteps`); after each digit the bits of the bytes and then
  those left over are the bits of the digits (`Holds`), by the four numbers of bits that can be left over (`DigitKeeps`). That
  `acc` is 0 at the end drops no bit, and `% 4` refuses the digit that no byte has a bit of.
- `FileProofs`, of `PathGuard`, for any file trees, texts and number of links: `GuardTypeCorrect`, `RootsCorrect`,
  `StaysInsideCorrect`, and `AcceptedAgain` (an accepted path is accepted again as it is). A walk of the kernel ends, since
  each step has one component less to go or one link less to follow (`Shrinks`, `WalkInduction`); that makes the recursive
  function `Reach` the one its definition says (`ReachStep`). What it arrives at is a path without links and `..` (`Real`,
  `ReachReal`), along which a second walk goes as it is written (`AlongReal`, `RealIsFixed`); a walk with more components
  behind it does first what it does without them (`WalksOn`). So an existing path is its own (`CanonIsReal`), one with missing
  components lands where it says or nowhere (`MissingLands`), and a text whose existing part leads nowhere ends in a link
  (`NowhereIsLink`), the exception `NoWhere` of the property. The invariant `GuardInv` adds to types and roots that the answer
  is still the verdict on the text.
- `FileProofs`, of `VerifiedRead`: `ReadTypeCorrect` and `ReadCorrect`. The invariant `VInv` follows the verifying scan: the
  names found so far are distinct ones of those the file had when its links were counted, none of them denied (`Tally`); when
  as many are found as were counted, all are (`FullTally`), and names that only went away since do no harm (`~ touched`
  excludes the rest). `ReadIsClean` alone says nothing about the middle of the scan.
- `DestHideProofs`: `TypeCorrect` and the five invariants of `hide` (`DestsHidden`, `NoneMissed`, `NotHiddenTold`,
  `PlantsRemoved`, `OldFilesKept`) for any runs, names, edits and crashes. `Good(r, s)` follows one run through its phases: a
  name is bound, still to be bound, or changed since the first bind (`Bound`); it is planned, listed or stale (`Planned`,
  `Listed`, `Covered`); an empty plant is on the list of the run that made it, or that run
  failed to remove it (`Remembered`). A step of anybody else, a person,
  another host or a child, is for this run the change of one file that goes into its history (`ChangeSeen`).
- `OutputForwardProofs`: `TypeCorrect` and `OrderCorrect`, `LosesNothing`, `NeverWaitsInWrite`, `FlagsRestored`, `QuietAfter`,
  for any number of streams, bytes and capacities. Three arguments meet: the holder of the lock is the only thread between
  poll and settle (`Alone`, `Prepared`, `Flags`), what was sent followed by what is buffered is what was read (`Counted`), and a
  thread that has ended left nothing behind unless it was stopped or its reader had gone (`Ended`, `Host`).

`NobodyEscapes`, `OkMeansEnded`, `InOrder`, `FlagsPutBack`, `QuietAfterAnswer` and the type invariants are proved and therefore
no longer checked by a run.

Only model-checked: liveness (`TimeoutReturns`, `ReturnsAfterExit`, both `DeadlineReturns`, `AllFlows`, `NobodyWaitsForever`,
`Ends`), which is out of the provers' reach, because fairness brings in ENABLED; and of the command
modules `ChecksAgree`, `BashReadsNoFiles` and `NothingHides`: they speak of lines within lines and
words within words, which the scans and the programs read by several operators that call each other. These are RECURSIVE
(without the SMT prover), for a recursive function would need the set of all texts as its domain, and what they compute takes
an induction over the nesting.

Each inductive invariant was checked by TLC at the bounds of the module's run before it was proved (that of `MacReaper` in
1.4 million states, that of `WinJail` in 0.8 million).

## Assumptions of the larger models

- `MacReaper`: a look at a process and the signal that follows are one step except in `kill_preexec`, so the moment in which
  a pid becomes a stranger's in between is left out; a row has no start time only if its process had ended when it was
  recorded, and then `kill_recorded` finds no child of the reaper or the command under it (`reaper.rs` 1622). For both
  reasons no property says whom a signal may hit on macOS; a pid is not reused within
  a walk or while a fork note of it is unread; the clock can be read; every process of the run has the caller's uid; the
  Seatbelt profile and `nono` are not looked into.
- `WinJail`: the directories of the policy exist, and none is one of the Restricted directories of the object namespace, which
  are kernel objects (`SpacesApart`); edits of the session's objects, of pipes, of the object namespace and of
  read-only system directories may be refused and are then skipped, as the code does; registering a copy thread may fail
  like every checked call (`Register`), and `DeadlineReturns` then holds only if that thread comes back from its call; 5 s are enough for a process that is
  not wedged to end after its job was closed; the drain threads of collected output are joined without a deadline
  (`windows.rs` 2987), which `DeadlineReturns` leaves out; one run at a time.
- `Gc`: a worktree holds files of five kinds; what lies in a cache directory past the limit of its walk (`"rest"`) is let go on
  purpose; unreadable directories outside of caches are not modelled.
- `RunCall`: exit statuses and signals are integers, a signal is positive, and only Unix has them.
- `CommandScan`, `BashArgs`: a text is a tree of names, assignments, options and lines; names stand for their spellings with
  `.exe`, in capitals or with a directory before them. `reject_command_secret_path_tokens`, which the library offers and
  neither `run` nor `policy` calls, is not modelled.

## Plan

In this order; a module joins the runs when a run of lesser weight makes room (there are twelve at most).

1. Done: the reapers on Linux and macOS, `RunChild` with `RunContract`, `OutputForward`, `DestHide`, `WinJail`, the command
   modules, `Gc`, `VerifiedRead`, `PathGuard`, and the proofs above. What is left to prove is listed under "Only
  model-checked"; a run of the macOS claim above would need the place of another.
2. `DenyGlobs`: `match_star`, `match_glob_at`, `first_matching_deny_glob_under`, `lexical_absolute` (`deny.rs` 827-857,
   1756-1977), against a declarative definition of matching; with it the dest-deny walks of `mod.rs` 2504-2815.
3. `PreExecReport`: the report pipe through two forks (`mod.rs` 177-250, `reaper.rs` 226-365), composed with `RunChild`.
   Property: the host reads to the end exactly when no writer is left, and never takes a stale byte of an earlier run.
4. Two Windows runs on one directory, whose guards save each other's lists.

## Not modelled

Seatbelt profiles, seccomp filters and Landlock rules (data for a kernel, no control flow); opening a pty and pumping stdin into
it; what Win32 tokens, AppContainers and the network filters do beyond the success or failure of the call; the permanent
entries for MSYS directories, `relax_child_bno` and the pipe hook; the subcommands init, why, gc and doctor, which print what
the library answers; `agent.lock` and `why`, which parse and explain; wording of messages; release scripts and the test corpora.
