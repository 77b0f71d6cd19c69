# USB Restoration Tool: a TLA+ verification project

USB Restoration Tool erases a USB stick and leaves one partition with one file
system on it. What can go wrong is not the happy path but what happens around
it: the stick is pulled and another one takes its name, the desktop mounts it
again between two system calls, a root helper dies or is the wrong one, a
request to stop comes a moment too late. This project models the parts of the
program that deal with that, checks them with TLC on small instances, and
proves their safety with TLAPS for every value of the constants.

Paths are relative to the repository. `src/src/` is written `src/` below where
no confusion is possible.

## 1. The system

| Part | Source | State it keeps | Operations | Hard because |
|---|---|---|---|---|
| Step plans | `core/restore_message.*` | `RestoreStepCounter` | plan, first writing step, advance | the window decides from it what is still safe, in another process than the writer |
| Restore contract | `platform/disk_service.h` | none | `restore`, `RestoreReporter` | three verdicts, of which "cancelled" is only the absence of an error text |
| Linux restore | `linux/linux_restore.cpp`, `linux/block_device.cpp` | one descriptor, one loop device, step counter, error | `performLinuxRestore` | everything it checked may be stale one call later |
| Linux facts | `linux/linux_enumerate.cpp`, `linux/sysfs.cpp` | none | `refreshUsbDisk`, guard, mount table | snapshots, read piece by piece; what leads back to a drive and what does not |
| Helper client | `linux/helper_client.cpp` | flags of the session, line buffer | probe, read loop, kill, token, judge | two pipes, one process it may not kill, three sources of exit codes |
| Root helper | `helper/main.cpp` | step, cancel flag | announce, check, restore, report | must outlive its caller, must not take its death for a wish |
| Restore worker | `platform/restore_worker.cpp` | cancel flag, step | run, requestCancel, step | the last reader of "no error" |
| Protocol | `core/restore_protocol.*` | none | encode, parse, judge, accept | a trust boundary; foreign text in lines, lines in pieces |
| Safety policy, geometry | `core/safety.cpp`, `core/partition_table.cpp`, `core/disk.cpp` | none | target checks, layouts, tables | unsigned arithmetic at the boundaries |
| Window, dialog | `gui/main_window.cpp`, `gui/restore_dialog.cpp` | running, scanning, step, phase | scan, start, cancel, close, outcomes | two threads and queued signals |
| Windows restore | `win/windows_disk_service.cpp`, `win/raw_disk.cpp`, `win/volume_manager.cpp` | one handle | `restore` | WMI addresses the disk by a number that is reused |
| WMI, utilities | `win/wmi.cpp`, `win/windows_util.cpp` | COM sessions | queries, storage jobs, conversions | a job outlives whoever waited for it |
| Shell | the rest of `gui/`, `platform/`, `core/language.cpp` | settings, log | start, theme, translations | not part of a restore |

How they interact: the window starts a `RestoreWorker` on its own thread. On
Linux the worker's service either runs `performLinuxRestore` itself (when root)
or `runHelperRestore`, which starts `pkexec usb-restoration-helper`; the helper
checks everything again and runs `performLinuxRestore`. Steps travel from the
restore through the helper's output, the client and a queued signal to the
window. A request to stop travels as an atomic flag, then as a token on the
helper's input, and is looked at in three places of the restore. On Windows the
worker runs the restore in the same, elevated process.

What makes each part correct:

- Linux restore: only the selected drive is written, only unmounted and held,
  only after the user was told; "cancelled" and "succeeded" are true; the kernel
  and the user see the new volume only when it is on the drive; it ends.
- Session: what the window is told is true, whichever of the processes dies, is
  killed, lies or is slow, and a cancelled session ends.
- Window: it never comforts its user once it has been told of a writing step, never
  loses a restore's outcome, is never closed over a working thread, and never
  starts two restores or a restore from a list it has replaced.
- Windows restore: what is written raw or formatted is the stick the handle was
  opened on, verdicts are true, and letters taken off another stick, which the
  code cannot rule out, are the end of the restore.
- Facts: what is written is what the user was shown; what nobody touched is not
  refused, unless udev made a better link meanwhile; a stick the system lives on
  is refused by every look that could have seen it.
- Protocol: the window reads exactly the messages that were sent.
- Policy and geometry: what cannot be laid out is refused before anything is
  erased, nothing after; ranges inside the drive, none over another.

## 2. The modules

| Module | Models | Kind |
|---|---|---|
| `RestorePlan` | plans, writing steps, counters | constant-level operators |
| `RestoreContract` | what a restore promises, on any platform | abstract specification |
| `BlockLayer` | kernel, udev, automounter, hands on the stick (external) | environment |
| `LinuxRestore` | `performLinuxRestore` and all it calls, over `BlockLayer` | detailed specification |
| `LinuxRestoreSafety` | its properties, and the mapping to the contract | properties |
| `LinuxRestoreProofs` | inductive invariant, proof, theorems | proofs |
| `HelperSession` | client, pkexec, helper, user, over `RestoreContract` | detailed specification |
| `HelperSessionSafety` | its properties, and the mapping to the contract | properties |
| `HelperSessionMC` | sets of builds for TLC | model |
| `HelperSessionProofs` | inductive invariant, proof, theorems | proofs |
| `WindowsRestore` | `WindowsDiskService::restore` and all it calls | detailed specification |
| `WindowsRestoreSafety` | its properties, and the mapping to the contract | properties |
| `WindowsRestoreProofs` | inductive invariant, proof, theorems | proofs |
| `RestoreWindow` | window, dialog, scan thread, worker thread, over `RestoreContract` | detailed specification |
| `RestoreWindowSafety`, `RestoreWindowMC` | its properties; scans for TLC | properties, model |
| `RestoreWindowProofs` | inductive invariant, proof, theorems | proofs |
| `SelectedDrive` | a drive's facts from the scan to the descriptor | detailed specification |
| `SelectedDriveMC` | sticks for TLC | model |
| `SystemGuard`, `SystemGuardMC` | mount table, guard, unmounting, exclusive open | detailed specification, model |
| `LinuxDriveProofs` | inductive invariants of `SelectedDrive` and `SystemGuard`, proofs, theorems | proofs |
| `RestoreProtocol`, `RestoreProtocolMC` | messages, lines, characters, pipes | detailed specification, model |
| `RestoreProtocolProofs` | what is read of a line, of a stream of lines and of pieces of it; theorems | proofs |
| `DiskGeometry` | layouts, tables, gates | constant-level operators |
| `DiskImage` | the raw writes of a Linux restore, range by range | detailed specification |
| `DiskImageSafety`, `DiskImageMC`, `DiskImageProofs` | properties; sizes for TLC; where the ranges lie, theorems | properties, model, proofs |
| `Fat32` | the two FAT32 bounds and the search for the clusters | detailed specification |
| `Fat32MC`, `Fat32Proofs` | volumes for TLC; theorems | model, proofs |

The composition is through the contract. `LinuxRestore` is shown to implement
`RestoreContract`, with the user's flag as the request to stop.
`HelperSession` takes the helper's restore to be that contract, with the cancel
token as the request, and is shown to implement the contract again, with the
user's flag.

`WindowsRestore` implements the same contract, and `RestoreWindow` takes whatever
its worker runs to be that contract. `SelectedDrive` and `SystemGuard` look closer
at what `LinuxRestore` does in one step, `RestoreProtocol` at the lines that
`HelperSession` takes to be whole or torn, `DiskImage` at the ranges that
`LinuxRestore` calls head, tail and partition.

The contract lets a *failed* restore be followed by writes, because that is what
the code does: a formatter that did not stop when killed, or that a dead helper
left behind, is not waited for. After "succeeded" and "cancelled" nothing is
written.

### LinuxRestore

`pc` is the place in `performLinuxRestore`. One action is what happens between
two points at which the world may have changed: a system call, or a run of
calls that nobody else can tell apart. `World` (of `BlockLayer`) may act between
any two. The destructor of the loop device is `ReleaseMapping` and
`UnbindMapping`, that of the descriptor `CloseDrive`; the callers' reading of
the return values is `Judge`. `LoopDevice::detach` is two steps wherever it is
called, because it gives the claim up (`block_device.cpp:703`) before the mapping
(`:704`): in between, an automounter may mount what the loop node shows.

| State | Code |
|---|---|
| `done`, `shown` | `RestoreStepCounter`, the reporter's `m_step` |
| `expected` | `disk.deviceSequence` of the re-derived facts |
| `claim` | the `O_EXCL` descriptor of `BlockDevice` |
| `loop`, `loopClaim` | `LoopDevice::m_fd`, `m_claimFd` |
| `loopMount` | no variable of the code: somebody mounted what the loop node shows. The node then clears itself only when they are done, and keeps the drive held |
| `todo` | the mounts `unmountDisk` read and has still to release |
| `head`, `tail`, `fs` | start, end and partition range of a drive: old, torn, zeroed, new; `cached` while the formatter's output is in the loop device's cache |
| `listed`, `partNode` | what sysfs lists and what `/dev` holds of partition 1 |
| `ok`, `error`, `verdict` | return value, "error text not empty", what the caller makes of them |

Abstractions, each of them named here so that it can be argued about:

- A `Disk` is one plugged-in instance. Plugging the same stick in again is
  another instance with another sequence number. The name in `/dev` and in sysfs
  always agree; the comparison of device numbers in `verifyIdentity` is part of
  `name = d`. `verifyIdentity` itself is one step: it reads facts about a held
  descriptor, and each of them is compared again later or cannot change back.
- Facts other than the sequence number, the layout and file-system checks and
  the lookup of `mkfs` can only refuse; they are the failing disjunct of the
  action that evaluates them. `signatureClearRange` is never empty for a drive
  that passed the layout check.
- Every call that can fail may fail at any time; a write that fails may have
  written a part (`torn`). Timeouts are choices: the code's 30 s, 15 min and
  5 s limits are not compared with anything.
- A kernel without sequence numbers (`sequences = FALSE`) is modelled:
  `verifyIdentity` refuses it.
- udev may change a node at any time, also while the drive is claimed. This is
  more than a comment at `linux_restore.cpp:615` expects of it.

### HelperSession

One action is one line read, one signal, one exit. The pipe is a sequence of
line kinds; `torn` is the unfinished last line of a helper that died. `Builds`
is the set of version lines that the binary run by pkexec may write: the
installed one writes a good line; a replaced one a bad line, or several; a
stranger none. The probe of the installed binary precedes it and tells nothing
about a binary replaced afterwards. `kill()` reaches pkexec only while it asks
for a password. Only the line kinds the verdict depends on are modelled: detail
lines, display texts and the steps other than the first writing one are not.

### WindowsRestore

`pc` is the place in `WindowsDiskService::restore`. A `Stick` is an instance; the
disk number is a role, and `holder` is who has it.

| State | Code |
|---|---|
| `handle`, `held` | `RawDisk`'s handle: closed, live, or dead because its stick was pulled; `held` never changes after the open |
| `adopted` | `disk`: the stick whose facts are compared with, at first the request's, then those `VerifyDisk` read |
| `listed`, `todo` | the volumes or partitions that WMI and `VolumeManager` listed by number, and whose they are |
| `job`, `jobWork`, `jobOn` | the storage job Windows queued, its work, its stick |
| `retries`, `written` | `m_notReadyRetries`, `m_writeAccepted` |
| `found`, `foundKind` | what `waitForVolumeOnDisk` returned |
| `ok`, `error`, `verdict` | as for Linux |

Sticks are compared twice and differently: by a scan's facts (`Alike`) and by the
handle's (`AlikeRaw`, the looser one: a missing serial matches, and so does one
that contains the other). Both are sets of pairs and no equivalences: a stick
without a serial is like two that differ, so the restore may be led by it from the
chosen one to the other (`LooksLike`). A letter is looked up three times, by name
and number: `DismountUnlettered` lists it, `DetachOne` opens whatever volume it
names by then, `RemoveLetter` deletes it. So a stick that was given number and
letter in between loses it. Letters that have gone to a disk with another number
are refused by the code and are not modelled. `ReusesHeldNumber` is what Windows may
do with the number of an unplugged stick whose handle is still open: `SECURITY.md`
says only that it reuses the numbers of unplugged devices, so both answers are
checked. A job may end before, while
or after the restore waits, with its work done or not; a wait that times out
fails the restore and leaves the job. Left out: which letter is assigned, the
chunks of a write, connection set-up, texts.

### RestoreWindow

One action is one click, one tick, one signal handled, or one step of a thread.
`queue` is the window's event queue with everything the two threads have posted
and the window has not handled. The variables are the members they are named
after (`m_scanning`, `m_restoreRunning`, `m_restoreStep`, `m_stallNoticeShown`,
`m_cancelRequested` is `asked`); `stage`, `dialogStep`, `cancelling`, `notice` and
`outcome` are the dialog's. `box` is the message box that refuses to close, which
spins the event loop: signals go on being handled under it. A scan's result is a
record of guard, error and list. `silence` counts the stall watch's limits (15 s,
60 s) as states, not seconds. Choices of style and file system are one choice that
does or does not fit the drive; language, theme, settings and the log are left out.

### SelectedDrive

One action is one attribute read. The five readings are the scan, the helper's
`main`, the restore's refresh, and the two `verifyIdentity` calls on a
descriptor; between any two attributes the stick may be pulled and another one
given its name. Name, serial, sequence number, size and sector size are the
facts that are compared, and `uniqueId`, which together with the serial comes from
one link in `/dev/disk/by-id`. `links` is the set of those that lead to the device
name: udev makes a drive's one by one, and those of the drive before may still be
there. `stableDeviceIdLink` takes the one that sorts first, "usb-" before all others.
Left out is `path` (the port), which is constant for a drive nobody touched, and for
one exchanged can only add refusals. `buildRestoreArguments` and
`parseRestoreArguments` are modelled as what they do to the facts: an unknown one is
not sent, zero is refused. Names, links and serials are arbitrary values: their
characters are the protocol's business.

### SystemGuard

The mount table is a set of mounts, each at a path (a sequence of names), of a
drive, through one of three `Vias`: a partition, whose number and source both
lead back to the drive; a file system with a number of its own, such as btrfs,
whose source still does; a device-mapper volume, of which neither does. Others
mount where the automounter does (nothing is mounted there or above) and unmount
what the system does not need. The restore reads the table for the guard, for the
facts, for `unmountDisk`, and never twice the same. `isProtectedMountPoint` is
the code's: a path is protected if a guarded path is at it or beneath it.
Only the conditions of `isSafeRestoreTarget` that depend on the table are here.
`mountedAt` is no variable of the code: it dates each mount, so that the property
can tell one that a reading of the table would have shown from one made later.

### RestoreProtocol

A text is a sequence of characters, a character a string; keyword, number and
the description of a plan count as one character each, so a two-digit number is
never torn. Halves of a surrogate pair are characters of the text and become one
replacement each when they travel alone. The limit counts characters as the code
counts UTF-16 units. `outgoing` is what the helper has handed to `write` and the
pipe has not taken; the helper goes on only when it is empty. Pipe, token and
reads are cut at any place. `Trimmed`, the split at the first blank and the
fields of a step and a version line are modelled by what they do to such
sequences. A helper ends with a result, a failure line or, `EndUnexplained`, without
one: it had nothing to say in the window's language, was not root, or could not
parse its arguments. Killed and foreign helpers are `HelperSession`'s. The branch of
`takeCompleteLines` for a line that is too long is there, and is never taken for
the own helper's lines: `ProtocolAssumption` says why. A window that has asked
reads on: the same loop does both.

### DiskGeometry, DiskImage, Fat32

Unsigned words wrap where the code subtracts before it has compared (`Minus`).
`DiskImage` checks the request, then writes up to five ranges in the code's
order; a call may take any of `ShortWrites` of what it was given and then goes
on, or fails. What lies at a place of the disk is the last range that has
reached it, so a disk of any size needs no array. `Fat32` is one step per
iteration of the search and of the loop over allocation units. `mkfsMakesFat32` is
`mkfs.fat -F 32` itself (external), at clusters of one sector, which is where its
floor is: it takes the volume down to a multiple of `MkfsAlignment` sectors first,
which is what the code rounds up for (`safety.cpp:545`). Checksums,
identifiers, names and type bytes are data no decision depends on.

## 3. Runs

| Run | Configuration | Shows | States |
|---|---|---|---|
| `swap` | `LinuxRestore_swap.cfg` | what is written, what a success is worth, that the contract is implemented, and that every restore ends | 1 212 664 |
| `accept` | `LinuxRestore_accept.cfg` | a violation: finding 1 | stops early |
| `session` | `HelperSession_all.cfg` | what the window learns, why a helper stops, that the contract is implemented, and that a cancelled session ends | 8 409 |
| `refused` | `HelperSession_refused.cfg` | a violation: finding 2 | stops early |
| `windows` | `WindowsRestore_all.cfg` | what is formatted, that letters taken off another stick end it, that the contract is implemented, and that every restore ends | 479 912 |
| `reused` | `WindowsRestore_reused.cfg` | a violation: finding 3 | stops early |
| `window` | `RestoreWindow_all.cfg` | one user of the service, the confirmed disk, true words and a shown outcome | 156 372 |
| `selection` | `SelectedDrive_all.cfg` | written as shown, decided alike, not refused but for a link made late | 6 885 056 |
| `guard` | `SystemGuard_all.cfg` | the system's stick is refused for every mount a look could have seen; its own mounts do not block each other | 498 396 |
| `stream` | `RestoreProtocol_stream.cfg` | harmful texts through small pipes, the token, the end | 1 174 803 |
| `image` | `DiskImage_scaled.cfg` | nothing refused late, nothing missed, nothing overwritten | 9 611 |
| `fat32` | `Fat32_scaled.cfg` | the search is exact, the choice the best, the refusals in time | 12 481 |

Bounds.

- `swap`: two instances, since a third can only do what the second does; two
  mount points, one of them the system's; four events, enough for unplug, plug,
  mount and a media change in one restore, each at any point; both styles, one
  or two formatter command lines; three tries of the open, as in the code.
  The session has no bound but its set of builds; its pipe never holds
  more than five lines.
- `windows`: three sticks, of which the third has no serial and is like both
  others, which are not like each other; four events lead from the chosen one
  through the third to the one that differs. Two retries instead
  of ten: the counter is only compared with its limit.
- `window`: two restores, for everything that outlives the first; three results
  of a scan; three steps, the second the first that writes.
- `selection`: two exchanges within up to five readings; a third only repeats
  what a stick can do that comes late. Five drives: two of one model and size, one
  of them with a second link; a larger one with a link that is not a "usb-" one;
  one with another name, larger sectors and no serial; an empty card reader.
- `guard`: three events in a restore, so that a mount can appear, be unmounted
  and come back; three levels of nested paths, the middle one of either drive.
- `stream`: four texts against a limit of four characters, with a line break, a
  blank or a surrogate pair at, before and after the cut, one that reads as a
  verdict from its second line on, and one that is empty; three reports and an
  end; a pipe shorter than a line, so that a line is always in pieces.
- `image`: every size, in bytes, in three stretches: from too small past the
  smallest disk and the smallest with two tables, and around the two sizes at
  which alignment adds a MiB to the partition. `CodeNumbersFit` states that the
  code's own numbers meet the assumptions under which the proofs hold for
  any size.
- `fat32`: every volume up to beyond the largest, with five units of which the
  default is the smallest, a middle one and the largest legal one. The alignment is
  4 sectors instead of 32; as in the code, the bare floor is no multiple of it
  (66 581 sectors of 512 bytes; the next multiple of 32 is 66 592, the "eleven
  sectors" of the code's comment). Volumes around the smallest and the largest
  that Linux accepts are among them, refused ones too.

`CHECK_DEADLOCK FALSE` is right in all runs that state it: a restore is over
once its verdict is there.

Fairness. `LinuxRestore`: weak fairness of the restore's thread, because it
never waits without a limit (three tries, two command lines, 15 min, 30 s). None
of the world: nobody has to plug or unplug anything, and udev has to do nothing.
`HelperSession`: weak fairness of the client's loop (it polls every 200 ms), of
its look at the cancel flag, and of the helper until its exit, which is what
`swap` shows of the helper's restore. `WindowsRestore`: weak fairness of the
worker's thread, whose waits have limits; none of jobs, which may never end.
`RestoreWindow`: both threads end (what the restore modules show of the worker)
and the event loop turns. `Fat32`: the search's own steps. `SelectedDrive`,
`SystemGuard` and `DiskImage` are checked for safety and assume none.
`RestoreProtocol`: the kernel fills a pipe that has room, the helper goes on when
its write has returned, the window's loop reads a pipe that is not empty and sees
that a process has ended. None of the user, the dialog, the death of a window or
a helper: nobody owes an answer.

Every property is paired with a mutant, a plausible bug in the mapped code under
which the run finds it violated; the mutants are the operators defined just
before what they replace.

### Findings

1. **A finished drive can be reported as failed** (`accept`,
   `FinishedDriveIsAccepted`). The restore waits until the partition's node
   exists and then looks once for the partition in sysfs. The node may be there
   before the entry is: one left from the old table, or udev re-reading the table
   because the restore has just closed the drive. `docs/TODO.md` suspects this
   from a flaky test; the run shows that the restore has the race too.
2. **A refused helper may have begun to write** (`refused`,
   `RefusedHelperTouchesNothing`). "Stop now, before the disk is touched"
   (`helper_client.cpp:180`) is a hope: the helper announces its version and goes
   on without waiting for an answer. It takes a binary replaced between the probe
   and pkexec, and a client slower than the helper's checks. The session's
   verdict is "failed" in that case, as it should be.
3. **Partitions of another stick can be deleted** (`reused`, `OnlySelectedErased`).
   The identity is checked on the handle, the deletion asks WMI by disk number.
   If Windows gives the number away while the dead handle is open, a stick nobody
   checked loses its partitions. `SECURITY.md` says that Windows reuses numbers, so
   no assumption excludes it. What is written through the handle and formatted is
   right in either case.

Limits of the code that the models show and the properties leave room for:

- The old file system can be mounted through the formatter's loop node. "The
  exclusive loop claim prevents an automounter from mounting an old filesystem
  exposed by this mapping" (`linux_restore.cpp:547`) is true until a restore gives up
  before its first write, because it was asked to stop (`:559`) or the drive was no
  longer the one (`:562`): `detach` releases the claim before the mapping
  (`block_device.cpp:703`), and an automounter may be in between. TLC reaches
  `loopMount` with the old file system still on the drive. The restore ends
  with its true verdict and writes nothing more (`NoWriteUnderMapping`), but the mount
  keeps the loop device bound and the drive held after that.
- A drive nobody touched can be refused as another one. `stableDeviceIdLink` falls
  back to any other link while the "usb-" one is not made yet
  (`sysfs.cpp:192-219`), and `isSameRestoreTarget` compares the two unique IDs
  (`safety.cpp:321`). It takes a scan or a refresh within the time udev needs, and
  scanning again is all the user has to do. `UndisturbedIsWritten` states it as the
  only exception.
- Letters of another stick can be removed, if it is given the disk number and the
  letter while they are being detached: `volumeHasDiskExtent` compares the number
  only. `WrongLettersEndIt` says what does hold: the handle's next question ends the
  restore, before anything is deleted or written.
- The box that refuses to close says "The disk has not been changed yet" by the
  last step the window has handled. It stays open while the worker goes on, so
  the sentence may be read of a disk that is being written. `DialogFollows` says
  what does hold: nothing that the dialog itself says is out of date by more than
  the signals still queued.
- A system whose root lies behind the device mapper on the stick passes
  `isSafeRestoreTarget`: the source `/dev/mapper/...` names no partition, and the
  mount's number is not the stick's. `SystemStickIsRefused` leaves it out.
  What keeps such a stick from being written is that the kernel refuses `O_EXCL` on
  a drive a mapping uses; until then its other file systems have been unmounted.

## 4. Proofs

TLAPS proves for all constants (any drives, mounts, number of events and tries,
any set of builds, any scans and restores, any size of disk), from the named
assumptions `SelectedAssumption`, `MountAssumption`, `EventsAssumption`,
`OpenAssumption`, `StyleAssumption`, `BuildsAssumption`, `StickAssumption`,
`LimitAssumption`, `DriveAssumption`, `GuardAssumption`, `PlanAssumption`,
`ScansAssumption`, `ProtocolAssumption`, `TextAssumption`, and those of `DiskGeometry`,
`DiskImage` and `Fat32` (there also `AlignmentAssumption`: a MiB is whole
alignments of mkfs.fat), which TLC evaluates in the runs.

The runs check the properties that say most; what is proved and follows from the
same invariants is not checked once more. So the theorems name more properties
than the runs: types, `CancelledMeansUntouched`, `AnnouncedBeforeWritten`,
`MappedDriveIsHeld`, `RereadOnlyUnmapped`, `ProtectedStayMounted`, `GatesAgree`,
that mounts the system needs stay in `SystemGuard`, and that `RestoreWindow` shows
the steps one by one.

**Linux restore** (`LinuxRestoreProofs`): every invariant and action property of
`LinuxRestoreSafety` but the one finding 1 refutes, and `Spec => ImplementsContract`. None of the properties is
inductive. `IInv` adds what each location relies on:

- `NumberInv`: sequence numbers are given out once, so no instance but the
  selected one ever has the number it was enumerated with. This is what makes
  `verifyIdentity` mean anything.
- `HeldInv`: where the descriptor is used it is held, on an unmounted drive; past
  `verifyIdentity` it is the selected one.
- `MappingInv`: the loop node is unclaimed only in the formatter's hands, over the
  new table, or where nothing will be written any more, so that whoever mounts what
  it shows keeps it as it is. `ContentInv` is what the drive holds after each
  writing step.
- `ReturnInv`: an error text wherever something may have been written, which is
  what the callers' "no error" rests on.
- `StepInv`: the exact number of steps shown at each location.
- `LocationInv`: the number read after the re-read belongs to no other instance,
  so the partition accepted at the end is on the selected drive.

The proof goes action by action: what the world may do (`WorldEffect`), what
leaves each part alone (`QuietSteps` and its kin), and one lemma per part over
the restore's own actions.

**Session** (`HelperSessionProofs`): the invariants, the finality of a refusal,
and `Spec => ImplementsContract`. The invariant's core is `HeardInv`: whoever has
got past its announcement has been heard or is still in the pipe. So a client
that has read everything and seen no version knows that nothing was written, and
may believe that its kill succeeded. `ReportInv` says what a result line and an
exit code are worth, `BoundaryInv` that the writing step is not lost on its way.
The action lemmas are grouped by what an action does to the pipe.

**Windows restore** (`WindowsRestoreProofs`): every invariant of
`WindowsRestoreSafety` but the one finding 3 refutes, and
`Spec => ImplementsContract`. `HandleInv`: a handle that answers is the handle of the
stick that has the number, so asking the handle is asking about the number, at that
moment. `FoundInv`: a volume found by number is
the opened stick's once the handle has answered afterwards. `JobInv`: a job that
still runs belongs to a restore that waits or has failed with a text. `OthersInv`:
up to the deletion, and past it wherever the handle answered again, no other
stick was touched. `FreedInv`: letters are taken off another stick only after the
opened one was pulled, and a handle that is dead stays dead, so that the question
before the deletion cannot be answered (`WindowsWrongLetters`). No assumption says
that a number is kept, or that the comparisons of sticks are transitive.

**Selection** (`LinuxDriveProofs`): all invariants of `selection`, for any
drives exchanged any number of times. `Carried` says what a chain of comparisons
keeps of what was shown: name, size, sector size, and the sequence number if it
was known. `HandleInv` says what the descriptor adds: the number behind it is the
expected one, so that a name read under that number is its drive's.
`UndisturbedInv` says that facts read of a drive nobody touched are its own, and
that its links only become more, so that the link read never sorts after the one
read before: two readings differ only if one was overtaken (`FittingIsSame`).

**System guard** (`LinuxDriveProofs`): all invariants of `guard`, and that no step
takes away a mount the system needs. The argument goes by the age of each mount:
a protected one that is older than a reading of the table is in that reading, and
still in the table, whatever else was mounted and unmounted since (`CheckedInv`). The
restore's own unmounting takes nothing protected, and leaves nothing of the stick's
that is not on its list as long as nobody else does anything (`PendingInv`).

**Window** (`RestoreWindowProofs`): all invariants of `window`, for any scans, any
plan and any number of restores. `QueueInv` says what the event queue may hold in each
state: while a restore runs, its own signals and no scan; once its worker has ended,
reports, then the verdict, then the thread's end; between restores a thread's end and
at the last place a scan. So the lemma `Handling` can say in which state the window
meets which signal: a verdict only in a running restore that has one, a scan only
where no dialog asks or runs. That is what keeps the confirmed disk on the list,
which no comparison in the code does. `StepsFollow` is inductive with it: the steps
queued are exactly those from the window's to the worker's, a report adds the next
at the end and handling takes the first away, so the dialog never skips one.

**Geometry** (`DiskImageProofs`): all invariants of `image`
and `GatesAgree` for every size and supported sector size. Its first
lemmas place each range: head, table, partition, backup and tail in
this order, each whole sectors. The invariant of `DiskImage` is then small: the
cursor lies in a range and is, up to the last write, whole sectors of it.

**FAT32** (`Fat32Proofs`): all invariants of `fat32`. `RequiredGrows` (the sectors
required grow with the clusters) makes the bisection sound: `SearchInv` keeps the
count in `low .. high`. `ChoiceInv` is that `best` is the best of the units seen.
That Linux refuses in time needs no search: a volume at the rounded floor, taken down
to mkfs.fat's alignment, still holds the fewest clusters and their tables.

**Protocol** (`RestoreProtocolProofs`): all invariants of `stream`, for any texts,
places, limits, pipe and cut of its reads. `TextAssumption` says what the code's texts
are: no half of a character without the other (they come from UTF-8 and from the
program's own messages), a place that has a name, numbers without blanks.

What the code does character by character is a recursive function in the model, and
no theorem of the library on induction can be used, since the provers do not
instantiate its operator. The proofs do without: a statement over `0 .. n` is a set of
numbers, and if it holds at 0 and is handed on by every step, the numbers outside the
set have no least one (`LeastNumber`, from the library's well-founded order of the
naturals; `UpTo`). With it

- `sanitizeProtocolText` is shown to leave what was meant (`SanitizedAsMeant`).
  `LoopInv` is the loop's invariant: the text has the words up to some character, and
  what came after it did not fit or added nothing. The two chops after the loop are
  what makes "did not fit" mean the longest beginning that ends in no half;
- every encoder's line is read as the message it was made of (`LineRead`), any
  beginning of it as one of its kind or an unknown one (`PartRead`). The first
  because a text has no blank at its ends; the second because the keyword is the one
  thing that every beginning keeps;
- a read leaves the client with what it had, and the rest of the stream with what is
  to come, wherever it ends (`Reading`, by `OneCharacter`).

Two invariants carry this through the system. `SaidInv` is what has been said at each
stage of the helper's `main`: one announcement, first; no verdict before the end; at
the end the one that goes with the exit code. `FlowInv` is that the client's buffer,
the pipe, what is not yet in the pipe and what a crash has lost are together exactly
the lines of the messages that the client has not heard. So nothing is left when a
helper has exited, and less than a line when it has died. `TokenInv` says the same of
the other direction: what `m_request` holds and what the helper's input holds are the
word, or nothing. `NeverFlooded` shows why the client's buffer limit takes no part in
this: `ProtocolAssumption` leaves room for the longest line.

Only model-checked: liveness (`EndsWithVerdict` of both restores, `CancelEnds`,
`OutcomeShown`, `SessionEnds`, `ChoiceEnds`), which is out of the prover's reach, and
the violations.

## 5. Not modelled, and what is left

Not modelled: start-up, settings, theme, log file and translations (no state a
restore depends on); the parsing of sysfs, udev and mountinfo text and the
escapes in it; the checks of device paths and volume labels, which can only
refuse; wording; the drive letter Windows assigns; COM set-up and conversions;
checksums, identifiers, names and type bytes of partition tables; the activity
log of the window.

Hazards that no property covers, because the code accepts them or they are
outside it: a formatter stuck in the kernel that outlives its kill (15 min and
5 s, `linux_restore.cpp:228`), and may write after "failed", which the contract
allows; the missing re-read after a failed backup table (`linux_restore.cpp:598`),
which only udev repairs; eight tries for a loop device that others may all take
(`block_device.cpp:600`); a foreign stick unmounted by path, never written
(`linux_restore.cpp:51`).

Left to prove: that `RestoreWindow`'s worker reads of a session what `HelperSession`
shows, as one composed theorem; today both sides name the contract.

Left to model: the bytes of the partition tables, if a decision should come to depend
on them, and `isValidVolumeLabel` against what the formatters accept.
