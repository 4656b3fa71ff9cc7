# A TLA+ verification of the LKDD helper examples

The repository holds small Linux 4.14 kernel modules for the BeagleBone Black:
one example per kernel facility (`01` to `18`) and three device drivers
(`device_drivers/`). It has no tests and no documents besides its comments and
usage texts. This directory holds TLA+ models of its concurrent and
failure-prone parts, the TLC runs that check them on small instances, and TLAPS
proofs of the checked safety properties for every instance.

## 1. Inventory

| Component | State | Operations | What is hard |
|---|---|---|---|
| 11 pseudo character device | `device_buffer`, `psd_mutex`, the position of each open file | `psd_open`, `psd_release`, `psd_read`, `psd_write`, `psd_llseek` | The VFS reads and stores the position outside the mutex; copies sleep and fault halfway; one return keeps the mutex |
| 17 poll example and two applications | `can_read`, `can_write`, `etx_value`, a wait queue | `sysfs_show`, `sysfs_store`, `etx_poll`, `etx_read`, `etx_write`; `poll()` and `epoll` loops | No lock; asking for the events consumes them; wake-up against sleep; timeout |
| Init/exit of 11, 17, 18 and probe/remove of 15, W25Q32, DS1302 | device numbers, classes, cdevs, device nodes, sysfs files, register maps, class pointers, `minor_count` | six init or probe functions, six exit or remove functions | Every call may fail; undo paths; two modules with one class name; several devices of one driver; driver data read before it is set |
| AT24C256 EEPROM | the chip, `reg_addr`, four sysfs files, driver data | probe with a read/write test, `reg_addr`, `read_byte`, `write_byte`, remove | Several users, no lock, transfers that sleep and fail, removal under a call, files that a failed probe leaves, text conversion |
| W25Q32 flash, file operations | the position, `txbuff` and `rxbuff`, the chip's busy and write-enable bits | `driver_open`, `driver_llseek`, `driver_read`, `driver_write`, `w25q32_check_busy` | No lock; pages; masked positions; a loop that waits for the chip; failing transfers; leaks |
| 03-10 deferred work | a work item, timer or tasklet; a lock; a condition; allocated memory | init, deferred function, exit of eight modules | The deferred function outlives the module; lost wake-up; signals; leaks |
| 16 GPIO interrupt | a timer, an interrupt, a GPIO | callback, probe, remove, binding again | The callback re-arms the timer against remove and against the next probe |
| 12-14 platform drivers and devices | registered drivers and devices, bindings, `id_entry` | match, probe, remove; load and removal of five modules | One name for three drivers; results ignored; walks of the driver core that overlap with each other and with removals |
| 15 file operations | an I2C client | `read`, `write` | A buffer on the stack of the length the caller asks for |
| 18 `etx_ioctl` | `value` | two commands | No lock; failed copies reported as success |
| 02 linked list | a list | fill, walk, free | Sequential |
| 01 parameters | none that changes | prints | Nothing |

The components interact through the kernel only: class names and driver names
are global (17 and 18 share one class name, 12 to 14 one driver name), and
applications talk to 17 through the VFS and sysfs.

## 2. Modules

| Module | Models | Checked by | Proved in |
|---|---|---|---|
| `PseudoCharDriver` | 11's file operations, and the VFS around them | `psd_*` | `PseudoCharProofs` |
| `SeekableMemory` | what such a device promises: atomic reads and writes | `psd_private` | |
| `PseudoCharRefinement` | the mapping from the first to the second | `psd_private` | `PseudoCharProofs` |
| `EtxPoll` | 17 and both of its applications | `etx_poll` | `EtxPollProofs` |
| `Registration` | init, exit, probe and remove of six drivers | `reg_all` | `RegistrationProofs` |
| `At24c256` | the EEPROM driver | `at24c256`, `at24c256_page` | `At24c256Proofs` |
| `HexConversion` | `convert_char_to_hex_reg` | `hex_*` | `HexConversionProofs` |
| `W25q32` | the file operations of the flash driver | `w25q32` | `W25q32Proofs` |
| `DeferredWork` | 03 to 10, and 16 | `defer_all` | `DeferredWorkProofs` |
| `Platform` | 12 to 14 and the driver core's walks | `platform` | `PlatformProofs` |

The modules named `MC...` give the constants of the runs their values.
The definitions that nothing uses (`remove_file_at_once`, `NextIndexLate`...) are
faulty variants of a definition that follows them; `PROJECT.json` names one for
each property that is checked, and put in the place of the real definition it
makes TLC find that property violated.

### PseudoCharDriver

`buffer`, `psd_mutex` and `f_pos` are the driver's and the file's variables;
`pc` and `call` say where each thread is and what its locals are. A read or
write is `vfs_enter` (the VFS copies `f_pos`), `psd_read_lock` or
`psd_write_lock` (mutex and clipping of `count`, up to the early return),
`copy_to_user` or `copy_from_user` once per byte, `psd_done` or `psd_fault`, and
`vfs_return` (the VFS stores the position if the call succeeded). A user buffer
is `valid` bytes long, so a copy can fault at every place; `copy_from_user` then
clears the rest of its destination. `psd_interrupted` is a signal during
`mutex_lock_interruptible`. `psd_llseek` computes and checks in one step and
stores in the next. `psd_open` checks no permission that the model would need.
Positions a caller names itself (`pread`, `pwrite`) are not modelled. `overtaken`
is history: the calls whose file another call has moved since they copied its
position.

### EtxPoll

Each statement on `can_read` and `can_write` is a step. `sysfs_store` is
`store_copy`, `store_flag`, `wake_up`; `sysfs_show` is `show_flag`, `wake_up`.
`etx_poll` is `poll_wait` (only when called with a poll table), then a test and
a clear for each flag. `poll()` calls it once with the table, again after each
wake-up and once more after the timeout. `epoll_ctl` calls it with the table and
keeps only whether there were events; `epoll_wait` calls it again for each file
on the ready list and reports what that call returns. The variables `unread` and
`unused` are history: a text was stored and not read, a write permission was
given and not used. Which of the two programs an application runs is chosen at the
start and can be told from `from` (`PollApps`, `EpollApps`).

### Registration

A driver is a record: the calls of its init or probe function in order, those
whose failure it notices, what it releases then, and the calls of its exit or
remove function. `acquire`, `fail`, `release` and `oops` interpret them, for
several registrants (modules, or devices of a bus driver) at a time. The class
pointer is one global per driver; `class_create` refuses a name that exists and
returns an error pointer, which a comparison with `NULL` does not notice;
`device_destroy` of an error pointer faults and `class_destroy` ignores one.
What `devm_` functions allocated is freed by the driver core when probe fails or
after remove. The probe function of the DS1302 calls `ds1302_set_time`, which
takes the driver data that probe stores only at its end: the step `set_time`
faults (`InitFaults`), so no device is ever bound.

`minor_count` is read for the device number, read again for the name of the node
(`read` keeps both), and incremented by a load and a store (`load_count`,
`init_done`), with steps of other probes in between. The decrement in remove
(`exit_done`) is out of reach: remove crashes before it, on driver data that no
probe has set. 17 may be loaded again after the error path that leaves its
device and cdev; `failed_at` is history, the call at which the last init failed.

### At24c256 and HexConversion

Probe is one step per transfer of `dummy_read_write` and one per
`device_create_file`; remove is one step per file, and waits for the calls that
are in it. A user's call is the transfer and then the load and the store of
`reg_addr`, which may interleave with another user's. A failed write may have
reached the chip. A store to `reg_addr` takes the driver data in one step
(`store_reg_addr`) and writes through it in another (`set_reg_addr`).

A probe whose last file cannot be created fails and leaves the other files
behind (`leftover`, history), with driver data that is freed and then cleared.
The device may then be probed again, and the module unloaded (`unload`), while
users are in such files or open them: `gone` are the files whose functions are
no longer there, `stale` the calls whose private data or code was freed under
them (`use_freed`, `call_leftover`). A call in `stale` crashes, or goes on and may
write into what the next probe has allocated.

`before`, `failed`, `expected` and `raced` are history; `expected` is the
address if the calls came one at a time, each moving it as the code does. The
text the user writes is reduced to the number it is converted to;
`HexConversion` is that conversion, one step per character, for all texts.

### W25q32

As in 11 the VFS copies the position at the start of a call and stores it at the
end. A read is `driver_read` (clip, allocate), `w25q32_check_busy` and
`read_transfer`; a write is `driver_write` and then, for each piece,
`w25q32_check_busy`, `write_enable` and `send_piece`, so that another thread can
use the chip between any two transfers. `bus_changes` makes transfers fail until
it happens again; `chip_ready` ends a program or erase. `Window` is the mask
0x0FFF, `Clip` the test against the end, and `NextIndex` the `tmp_index` the
code computes. What the chip does with a command is nondeterministic
(`Instruction`), because the code does not determine which command reaches it
(see the deviations below): it may change the busy and write-enable bits and,
with `POWER_DOWN` among the chip's instructions, `chip.down`. A chip that is
powered down ignores commands and leaves its line open, which may be read as
busy or as ready. For the same reason the bytes in the flash are left out.
`raced` and `sought` are history.

### DeferredWork

Each function is the sequence of its statements that matter, and each kind of
statement is an action of `main` (the process in init or exit) or of `handler`
(the deferred function). Leaving the module frees its code; `stray` is a
deferred function that runs after that. For 16, `main` runs probe and remove,
also while the module stays loaded (`start_remove`, `start_probe`); `mod_timer`
in the callback makes the timer pending while the callback runs (`rearmed`), and
`del_timer` removes what is pending and does not wait for what is running
(`escaped`). A module may be loaded again while a deferred function of an
earlier load is queued or running: `old` keeps it, and `old_stray` lets it crash
or end. Callbacks run on another processor than the process that removes the
module, as on any multiprocessor kernel.

### Platform

Driver modules and device modules are loaded and removed in any order and at the
same time. The driver core is external and modelled by its walks: registering a
driver visits the devices one at a time (`driver_attach_next`, `driver_attach`),
removing it visits those it has bound (`driver_detach_next`, `driver_detach`),
each with a reference to the device; a new device looks for a driver
(`device_attach`). `probe` is the match by device tree, id table or name and the
module's probe function, which reads platform data or the id entry.

A device is removed in the order of Linux 4.14: it leaves the list of the bus and
its driver's remove function is called (`device_exit`), it is deleted from sysfs
(`device_deleted`), and its module is freed (`device_freed`). A `driver_attach`
that has taken a reference to it before the first of these still finds
`device_is_registered` between the first and the second, and binds it again.
`raced` is history, the devices a walk had when they left the bus; `dangling` are
the drivers whose list of devices then has a freed entry, which their removal
meets (`detach_freed`). What a later binding writes next to a freed entry is not
modelled. Nothing in the repository sets `driver_override`, so the match does not
have it.

## 3. Runs

| Run | Instance | Shows |
|---|---|---|
| `psd_shared` | 2 threads on one file, 2 bytes of memory, counts to 3, offsets -1 to 1 | Types; no access outside the memory; the bytes of two copies never mix; the only step that leaks the mutex is a write with nothing to copy; a call moves its file by the bytes it copied unless another call moved the file in between |
| `psd_private` | 2 threads, a file each | Implements `SeekableMemory`; every call returns unless the mutex was leaked |
| `psd_calls_return` | 2 threads, one file | *Violated*: after a write with nothing to copy (a count of zero, or at the end of the memory) everybody waits for ever |
| `etx_poll` | 2 sysfs processes, 2 applications with `poll()` or `epoll` each | No lost wake-up; with `poll()` only, no lost permission, and every permission is used; with `epoll`, a permission is lost only by `epoll_ctl` |
| `reg_all` | 11 + 17 + 18, 11 + 15 + W25Q32, 11 + two devices of 15, or DS1302 + 11 + W25Q32 | Nothing is left behind but in one error path of 17, and by two probes of 15 at a time; objects lie within their parents; faults only where named; success means complete for the drivers that use `IS_ERR`; `minor_count` is right, because no driver ever binds a second device |
| `at24c256` | 2 users, 2 addresses, 2 byte values | Driver data and code are there for every call except through files of a failed probe, also while the device is probed again or the module is unloaded, and `write_byte` is never such a file; one address step per call unless two calls race; the test restores its byte unless its first read or its last write fails |
| `at24c256_page` | 1 user, 2 pages of 2 bytes | *Violated*: after a write to the last byte of a page the address goes on to the next page |
| `hex_byte` | all texts of 2 of 23 characters | Exactly hexadecimal texts are accepted, the result fits the register, and decimal digits convert to their value |
| `hex_letters` | the same | *Violated*: `a` to `f` count as 0 to 5 |
| `w25q32` | 2 threads on one file, a count of 4, offsets -3 and 9, pages and a window of 2, a flash of 10 | Positions stay in the flash; pieces stay in the buffer, in order up to the second; a piece is accepted unless another thread used the chip or an instruction has powered it down; buffers leak only on faults; the end is met only after `lseek`; some call returns once the bus stays up and the chip is not left powered down |
| `defer_all` | each of the nine examples, `LEN` = 7 | Names stay whole; the deferred function outlives its module only as listed; 16's callback meets a GPIO that was put only if it was running at `del_timer`; only `attr` leaks; init and exit end; all also with a deferred function of an earlier load still about |
| `platform` | all five modules and the device-tree device | No probe reads data that is not there; no binding outlives its driver, and one outlives its device only if a `driver_attach` had the device when it left the bus; a device is served as soon as its driver is there |

Bounds. Two threads and two processes of each kind give every pairwise
interleaving; the theorems below cover any number. A memory of two bytes has a
first byte, a last byte and an end, and counts and offsets reach beyond both
ends. The EEPROM needs two addresses for the test byte and another, and for the
wrap at the end of the memory; pages play no part in what the code computes, and
only `at24c256_page`, which asks for them, has pages of more than one byte.
`reg_addr` has twice that range, as `uint16_t` has twice the 32 KiB.
A digit is converted without regard to the others, so two characters show what
four do; the theorem covers every length that an `int` can hold. `LEN` is the
code's own. Three registrants cover every driver in one of
the teams, the two drivers that share a class name together, and two devices of
one driver together. In the flash, a count of four with pages of two makes
writes of one, two and three pieces, depending on where they begin and whether
they are clipped, and ten bytes are enough for positions inside, above and at
the last byte of the window. `Platform` has no bound: its modules are the
repository's.

Deadlock is checked except in the models where a stop is an end: a conversion
that failed or finished (`hex_*`), a fault of the kernel (`DeferredWork`,
`Platform`), and in `At24c256` a remove that waits for ever for a call that has
crashed in one of its files.

Fairness. A thread inside the kernel is scheduled (weak fairness on each
thread's, process's and handler's steps). `psd_mutex` gets strong fairness,
because the kernel's mutex hands itself to its first waiter. The `poll()` and
`epoll` programs loop, so their calls are fair too. The flash ends what it has
begun (weak fairness of `chip_ready`), and nothing is assumed of its bus:
`SomeCallReturns` has "the bus stays up and the chip is not left powered down"
as a hypothesis, and claims that some call returns, not that each does, because
threads can make the chip busy for each other again and again. Users, signals,
timeouts and the loading of modules get no fairness.

### Disagreements between the code and its own words

The runs marked *violated* are the findings in `PROJECT.json`:

- `psd_calls_return`: 11:212 returns with the mutex locked.
- `hex_letters`: AT24C256:89 does not add 10 for a letter.
- `at24c256_page`: AT24C256:58 promises a roll-over within the page; line 221 wraps
  at the end of the memory.

Further deviations that the models contain, without a run of their own:

- 11:183 and 11:221, "update the current file postion", add to a position that the
  VFS copied before the mutex was taken, so of two calls at a time on one file the
  bytes of one may not count (`LostOnlyIfOvertaken` says that this is the only way).
- 17:161: `epoll_ctl` calls `etx_poll`, which clears the flags, and the event is
  reported to nobody (`NoPermissionLost` is about `poll()` applications only;
  `LostOnlyByCtl` says that this is the only way).
- 17:200 and 18:131: `class_create` is compared with `NULL` and returns an error
  pointer, for instance because 17 and 18 use one class name; init reports
  success without class and device, and exit faults (`CompleteIfChecked`,
  `OopsOnlyKnown`).
- 17:217: if `sysfs_create_file` fails, device and cdev stay (`LeftBehind`).
- 15:204 and W25Q32:389: remove reads driver data that no probe sets
  (`OopsOnlyKnown` names it).
- 15:151: a second device overwrites the class pointer with an error code; if the
  first is still in probe and fails after that, its class stays (`LeftBehind`).
- 15:184 and W25Q32:369: the counter is incremented without a lock; it does not go
  wrong because the class name of the first device keeps every other one from
  being bound (`CountsTheOneDevice`).
- AT24C256:178 and 221 load, increment and store `reg_addr` without a lock: an
  address that is stored in between, or another increment, is lost (`raced`).
- AT24C256:343 and 388: if the first read of the test fails, an uninitialised
  byte is "restored" (`failed`); 414 says that a failed test ends probe, 416
  ignores how it ended.
- AT24C256:233: the files of a failed probe stay, without driver data, also while
  the device is probed again or the module is gone (`CallsHaveData`).
- W25Q32:199: `driver_write` copies the command bytes from the address that the
  command word happens to be (the step to `oops`, or an arbitrary command). Line
  157 sends the read command in the processor's byte order.
- W25Q32:235: `tmp_index` becomes the length of the last piece instead of its
  end, so a write of three or more pieces sends some bytes twice and the last
  ones not at all (`PiecesInOrder`).
- W25Q32: the mask 0x0FFF keeps every address within the first 4 KiB and maps
  the position back after each call (`EndOnlyAfterSeek`); after a write the
  position is the sum of two addresses (258).
- W25Q32: error returns of read and write keep their buffer (`LeakOnlyOnFault`);
  the wait loop at 64 never ends while transfers fail (`SomeCallReturns`); two
  writers can take each other's write-enable (`AcceptedUnlessRaced`). An arbitrary
  command may be the one that powers the chip down, and the driver never wakes it
  on purpose.
- DS1302:203: probe calls `ds1302_set_time` before the driver data is set and
  faults. Behind that, unreached: the order of three registers differs between
  reading and setting, and `regmap_exit` is called on a `devm_` map.
- 16:27: the callback re-arms its timer after `del_timer`, outlives the module
  or meets the next probe's `timer_setup` (`OnlyKnownStrays`,
  `StaleTimerOnlyEscaped`).
- 12-14: all three drivers have one name, and the results of registering are
  ignored, so the second is loaded and serves nothing (`refused`); a device that
  was refused is unregistered all the same (fault `unregister`); the last
  reference to a device may be that of a walk, and `pcdev_release` then runs
  after its module is gone (fault `release`); such a walk may also bind the device
  once more while it is removed, and the removal of the driver then meets a freed
  device (fault `detach`).
- 03:31: the result of the interruptible wait is ignored. 04:36: `del_timer` does
  not wait for the callback. 06, 07 and 09 never flush their work
  (`OnlyKnownStrays` lists these).
- 09:41 and 10:46 ask for `sizeof(LEN)` bytes, the size of an `int`, for seven
  characters. The models keep what is allocated and not how much. (The smallest
  block that `kmalloc` hands out is larger.)
- 15:33: the buffer of `read` and `write` is on the kernel stack and as long as
  the caller asks.

## 4. Proofs

Each theorem holds for every value of the constants that satisfies the named
assumption of its module and the hypothesis given.

`PseudoCharProofs`, from `PsdAssumption` (a memory of at least one byte, integer
offsets, a `None` that is no thread): `TypeCorrect`, `BoundsCorrect` and
`IsolationCorrect` for the invariants `TypeOK`, `AccessInBounds` and
`CopiesAreIsolated`, and `LeakCorrect` and `AdvanceCorrect` for the action
properties `LeakOnlyByEmptyWrite` and `LostOnlyIfOvertaken`, with files shared in
any way. `AccessInBounds` alone is not inductive: a position
travels from the file into a call and back, and the count is clipped in between.
`IInv` adds what a call looks like at each step (`CallInv`), that every position
is within the memory (`PosInv`) and that a copying thread owns the mutex
(`OwnerInv`). For isolation, `CopiesAreIsolated` is added: the owner of the mutex
is the only thread that can change the memory. For the positions, `ShareInv` says
that a call's copy of the position is its file's, and at its end ahead of it by
what was copied, unless the call is in `overtaken`; a step that moves a file must
put every other call on that file there.

The same module, with `PrivateFiles` (no two threads share a file):
`RefinementCorrect`, that `PseudoCharDriver` implements `SeekableMemory`. The
mapping lets a read or write
take effect when it gets the mutex (a copy that is going to fault takes effect
on the memory then, and on the position never), so each step of a copy must be a
stutter: the abstract memory already has the bytes that are still to be copied,
and nobody else can tell, by `CopiesAreIsolated`. `PrivInv` is `ShareInv` without
the exception: with private files no call is ever overtaken.

`EtxPollProofs`, for any number of processes and any mixture of programs:
`TypesCorrect`; `NoLostWakeupCorrect`, with and without `epoll`;
`NoPermissionLostCorrect`, if there is no `epoll` application; and `LostCorrect`
for `LostOnlyByCtl`, with any applications. `NoLostWakeup` speaks of sleepers.
Its strengthening speaks of every application that has tested a flag and not been
told (`Tested`): if the flag is set now, the application is awake or about to be
woken, because it entered the wait queue before the test (`InQueue`). The
permissions rest on the types and `UseInv`, the order in which an application
uses what it was told: whoever clears a flag has the event in its mask, and the
mask is only given up by using it.

`At24c256Proofs`, from `At24Assumption`: `At24Types`, `CallsCorrect`,
`TestCorrect`, `AdvanceCorrect`, the four invariants of the run. `DriverInv`
ties the stage of probe and remove to the driver data, the files and the calls
inside them: which files the present probe has made, which ones an earlier one
has left, and which calls are in the latter; it holds for any number of probes
after each other and of unloadings. `ByteInv` follows the byte the test
overwrites, `AddrInv` the address.

`W25q32Proofs`, from `W25q32Assumption` (the window is at most half the flash):
`TypesCorrect`, `BufferCorrect`, `OrderCorrect`, `AcceptCorrect`,
`LeakOnlyOnFaultCorrect`; with `SmallCounts` (two counts fit the flash above the
window, and one above two windows) also `EndCorrect`. `PiecesOK` says where the
next piece starts after none, one and more pieces; it makes the bounds of the
buffer inductive. Whatever an instruction does to the chip, `AcceptCorrect` only
needs that the thread itself was the last to use it. Buffers, acceptance and the
end of the file each add an invariant of their own (`BufferInv`, `AcceptInv`,
`EndInv`).

`PlatformProofs`, without assumptions: `PlatformTypes`, `ProbesCorrect`,
`BindingsCorrect`, `ServiceCorrect`. The four invariants are inductive together
with `WalkInv`: a live device that a walk has visited and released is bound, also
if it has left the bus and come back since; a driver whose walk holds a device is
attaching or detaching; and a device that is being deleted while a `driver_attach`
holds it is in `raced`, so that only such a device is bound after it has left.

`RegistrationProofs`, with `ModulesOnce` (a module is loaded at most once; a bus
driver may have any number of devices): `TypesCorrect`, `LeftBehindCorrect`,
`NestedCorrect`, `OopsCorrect`, `CompleteCorrect`, and for finitely many
registrants `CountsCorrect`: however the reads and the increments of
`minor_count` interleave, it counts the bound devices, because whoever has got
past `class_create` owns the class, and nobody else does until it is released.
What a step does depends on which call comes next, so `RegInv` says for each
driver what is held before each of its calls (`PsdAt`, `PollAt`, `IoctlAt`,
`I2cAt`, `W25At`, `ClockAt`) and how the classes, the one thing the drivers
share, hang together (`ClassAt`).

`DeferredWorkProofs`, from `DeferredAssumption` (some of the nine examples,
names of at least one character and the final zero): `TypesCorrect`,
`DataCorrect`, `StraysCorrect`, `StaleTimerCorrect`, `LeaksCorrect`, the five
invariants of `defer_all`. `TypesCorrect` bounds the index of the loops by
`LEN`, which is the size of `data` in 06 and 07 but not that of `attr` in 09 and
10. None is inductive, because what a step may do depends on the
statements that the two activities have still to execute. `Inv` says for each
group of examples what holds before each statement of either: `TimerInv` (04,
05, 08), `WaitInv` (03), `LockInv` (06, 07), `WorkInv` (09, 10) and `GpioInv`
(16). In `LockInv`, `Section` tells from the rest of an activity's list how far
it has filled the name; that the other one is not inside follows from the lock
alone, so the argument is one lemma for each of `lock`, `fill` and `unlock`, for
either of the two. In `GpioInv` the GPIO is there or a timer that is not idle
has `escaped`. `Kinds` breaks a step into the statement it executes, and a lemma
for each group (`TimerStatements`...) says where in the code that statement can
be, which leaves a handful of cases for each action.

`HexConversionProofs`, from `CountAssumption` (an `int` holds the digits):
`ConversionCorrect` for `AcceptsAndConverts`; and `ResultCorrect`, which says what
the code computes for every text it accepts: the value of the text with `a` to
`f` read as 0 to 5 (`Folded`), so that the missing 10 of `hex_letters` is all that
is wrong. The invariant is Horner's scheme: after `i` characters `out` is what
they are read as, shifted to its place, and has `i` digits. The shifts (`Weight`)
and the values (`Values`) are recursive functions, and that they obey their
defining equations needs an induction. The prover cannot instantiate the library's
induction theorems, which take a predicate; `SetInduction` takes a set instead and
is proved from `WFMin`, by the least number that is not in the set.
`HornerExists` then shows that a function with these equations exists, and
`WeightSteps` and `ValuesSteps` that the module's are such.

Only model-checked: liveness (`ReturnsUnlessLeaked`, `PermissionsAreUsed`,
`SomeCallReturns`, `LoadsAndUnloads`), which rests on fairness and `ENABLED`,
which the prover does not handle.

## 5. Not modelled

- 01 prints its parameters. 02 is one sequential pass over a list of five.
- 11: positions passed by `pread` and `pwrite`.
- 15, lines 31-82: `read` and `write` pass one buffer to the bus and keep no
  state. 18, lines 85-107: `etx_ioctl` copies one integer in or out.
- 17, lines 119-147: the bytes of `etx_value`, and how many of them are copied;
  the model keeps whether the text was read since it was stored.
- The contents of the W25Q32, for the reason given above.
- DS1302: the bodies of `ds1302_read_time` and `ds1302_set_time`, which
  `OopsOnlyKnown` shows to be out of reach in this code.
- The interrupt handler of 16 and the probe functions' printing in 12 to 14
  change no state. Makefiles, device tree sources and overlays have no behaviour
  of their own.
