# A verification project for the Pixel 11 recovery tree

The repository builds an OrangeFox/TWRP recovery for the Pixel 11 family ("malibu": yogi, cubs, grizzly, kodiak).
The recovery it produces is a small distributed system: `init`, a boot control HAL, a storage proxy for the secure
world, keymint and weaver services, a GPU driver staged out of the vendor image, several shell stages and the recovery
process, whose partition code the patches under `subpatch/` rewrite. They share files, properties, mounts and
partitions, may die at any point, and decide together whether user data survives.

This directory holds TLA+ models of that system, the TLC runs that check them on small instances, and TLAPS proofs of
what matters most for every instance. Run them from this directory: `tlc -config X.cfg M` for a run of
`PROJECT.json`, `tlapm M.tla` for the proofs of a module. `PROJECT.json` also maps each definition to the lines it
models, lists the hazards of the code with the properties that cover them, and for each property a mutation of a
definition, a plausible bug, under which that property fails.

## 1. Inventory

| Part | Source | State it keeps | Operations | What is hard |
|---|---|---|---|---|
| Boot control HAL | `pixel-source/bootctrl/1.2/BootControl.cpp` | devinfo cache, devinfo partition, boot LU, fuses | mark successful, set active, set unbootable, getters | whole-struct write of a cache, two writes that must agree, irreversible fuses |
| Partition table editor | `GptUtils.cpp` | header, entries and their backups on a block device | Load, Sync, the Sync of the destructor | order of four writes, crash between them, a failed Load that is synced |
| Storage proxy | `selfcode/recovery_storageproxyd/` | open files, an RPMB buffer, a channel to Trusty | nine request types, reconnect, restart | descriptors that outlive a session, RPMB commands that may or may not be repeated, an answer built from a buffer that was not filled |
| Weaver | `selfcode/recovery_weaver/`, `subpatch/0022`, `0031`, `0032`, `0040` | one GSC connection, the chip's throttle | getConfig, read; in vold: find the service, size the key, find the slot, derive the last key | a service that comes late or never, a chip that reports no key size |
| KeyMint connection, fastbootd | `subpatch/0015`, `0026` | - | connect, look for HALs | a HAL that is declared and never comes, or comes and fails |
| Titan wipe | `selfcode/titan_wipe/` | - | wipe every weaver slot, with retries | a slot left unwiped and told as done |
| Format Data | `subpatch/0044` | mounts, mappings, userdata, weaver slots, misc | the sequence from unmount to reboot | a point of no return, failure of one step of several |
| Other ways to a wipe | `subpatch/0016`, `0017`, `0042`, `0047` | the boot message, the recovery's script | read the message, run the script, install an update, mkfs | a request that passes through several programs and a reboot |
| Metadata decryption and mounting | `subpatch/0009`, `0010`, `0012`, `0018`, `0020`, `0028`-`0030`, `0035` | cached credentials, mapper devices, mounts, a checkpoint | Decrypt in a child with a timeout, Mount, UnMount | a child killed at the timeout, a cached state that is stale |
| Recovery reflash | `reflash_twrp.sh`, `subpatch/0013` | two boot slots, hashes | dump, repack, flash, verify | a slot left half written, two reporters of one result |
| Early init | `subpatch/0014`, `init.recovery.pixel_common.rc`, `runatinit.sh`, `runatboot.sh` | the ramdisk's files and their copy, services | two children and their end, start of services | a child that fails in the middle, `wait` with a timeout that passes |
| GPU staging | `stage_lib.sh`, `gpu_stage.sh` | loop devices, mounts, staged files | get, put, stage, unstage | a kill at any step, what the next attempt finds |
| GPU renderer | `selfcode/minuitwrp_gl/`, `subpatch/0041` | per-thread contexts, a texture cache, scan-out buffers | init, draw, upload, flip, fall back to the CPU | threads, resources freed while used, a late fallback |
| USB host shim | `selfcode/customDriverForDwc3/`, `otg_yogi.sh` | role of the controller, a proc file | write, module exit | unsynchronised writers, exit racing a write |
| SUSFS rename fix | `selfcode/susfsFastSymlinkFix/` | a kprobe | one handler | kernel context |
| Ramdisk snapshot | `selfcode/ramdisk_snapshot/` | a copy of the ramdisk's files | copy each file of a manifest | it must come before the unpacking, and tell of failures |
| LGZ codec | `selfcode/lgz/lgzv3.c` | match tables, a bit stream | compress, decompress, unpack the files of a list in place | memory and disk that run out, a status that says nothing |
| Smart patcher | `patch.py`, `subpatch/` | patched source trees | apply a list of changes | partial application, order, a second run |
| Torch, CPU temperature | `torch_ctl.sh`, `setup_cpu_temp.sh` | sysfs files | on, off, brightness | little |
| Event and graphics patches | `subpatch/0006`, `0007`, `0027`, other small ones | - | input, vibrator, DRM | device specific |
| Build and packaging | `build.sh`, `fox_build_callback.sh`, `create-orangefox-yogi.sh`, `orangefox-ak3/`, `*.mk`, `.github/` | - | - | build tooling, not modelled |
| Data and configuration | `fox_mod_ui/`, `recovery/root/**/*.xml`, props, fstabs, prebuilt binaries | - | - | not code |

How they interact, and over what:

- the bootloader, Android's update engine and the boot control HAL share the slot data of `devinfo` (or of the partition
  table) and the boot LU; the HAL reads `devinfo` once per process and writes it back as a whole;
- Format Data calls the merge code of the update engine through the partition manager, stops `recovery_weaver` through
  `ctl.stop`, runs `titan_wipe` on the device node that service has open, and writes userdata below whatever the
  kernel still has mounted;
- `reflash_twrp.sh` is run by the recovery (`twrpRepacker`) and killed with it by init; `anykernel.sh` is run by the
  installer of the recovery, or of Android, and writes the same partition;
- `gpu_stage.sh` runs inside init's `early-boot` trigger under `timeout`; the GPU renderer finds the driver there or not;
- the renderer is called by the `gr_*` functions of minuitwrp from whatever thread draws, and from any thread that
  frees a surface;
- the storage proxy serves Trusty; the weaver service and keymint serve vold's code in the recovery, which Decrypt runs
  in a child with a timeout.

What makes each part correct is stated in the sections below for the parts that are modelled. For the USB host shim, which
is not: the role of the controller and what the proc file shows agree whenever no write is under way.

## 2. Plan

| | Module | Composes | State |
|---|---|---|---|
| 1 | `BootControl`, `BootControlProofs` | `GptUtils` | modelled, checked, proved |
| 2 | `FormatData`, `FormatDataProofs` | - | modelled, checked, proved |
| 3 | `VendorBoot`, `VendorBootProofs` | both writers of the partition | modelled, checked, proved |
| 4 | `Staging`, `GpuProofs` | `stage_lib.sh` and its caller | modelled, checked, proved |
| 5 | `GpuRenderer`, `GpuProofs` | renderer and its hooks in minuitwrp | modelled, checked, proved |
| 6 | `StorageProxy`, `SecureStore`, `StorageProxyProofs` | the daemon, and the abstract store it implements | modelled, refinement checked and proved |
| 7 | `DataPartition`, `DataPartitionProofs` | the Decrypt child, vold's caches, mount, unmount and reboot | modelled, checked, proved |
| 8 | `EarlyInit`, `Services`, `ServicesProofs` | init's two children; on top of them Weaver and KeyMint | modelled, checked, proved |
| 9 | `SmartPatcher`, `SmartPatcherProofs` | a list of changes, again and again | modelled, checked, proved |
| 10 | `DataWipes` | `FormatData`; proved about in `FormatDataProofs` | modelled, checked, proved |
| 11 | `OtgHost` | proc writers and module exit | left for later |
| 12 | `LgzCodec` | coder and decoder as functions, checked against a round trip | left for later |

Every safety property of a passing run is a theorem; each section says under which hypotheses, and section 12 what stays
with TLC.

The number of runs is kept small: a module has one run with everything that may happen, `BootControl` two, for its two
stores. Two more show where the code contradicts a message or a comment of its own; other such places are described in
prose, with the configuration that shows them. Where a configuration leaves faults out, the sections below say which
and what they break. A run lists the properties that say most. The type invariants of `VendorBoot`, `Staging`,
`StorageProxy`, `SmartPatcher` and `Services` and the parts of the strengthened invariants (in the modules of the proofs)
hold in the same configurations and can be added to them.

## 3. Boot control (`GptUtils`, `BootControl`, `MCBootControl`, `BootControlProofs`)

`BootControl` models the `IBootControl@1.2` HAL, `GptUtils` the object it uses to edit the partition table, over a
device with a page cache. One call is served at a time: the service asks for one RPC thread.

| Variable | Code |
|---|---|
| `devinfo`, `hal` | the slot data in the devinfo partition; the static `devinfo`, `is_devinfo_valid`, `is_devinfo_initialized` |
| `lun`, `otp`, `current` | bBootLunEn; the anti-rollback fuses; `ro.boot.slot_suffix` |
| `call`, `reply` | the operation, its place in the function and `ok`; the `CommandResult` |
| `promised` | a history: the flags that successful answers said are set |
| `cached`, `media`, `gpt` | the header, the entries and their backups as `read` sees them and as a power cut leaves them; the `GptUtils` object |

The actions are `LoadDevInfo` (the static initialisation at the first use), `UpdateDevInfo`/`UpdateDevInfoFails`
(one change of the cache and the whole-struct write, with its failure), `UpdateTable` and `SyncTable` (`Load`, the
change of the entries, `Sync` in the order of its four writes and its fsync, or with a stray write, `SyncStrays`, where the object never read the backup header), `WriteLun`/`NoLun`, `BlowFuse` and
`AnswerMarked`, and what the environment does: `HalDies`, `Reboot`, `Flush` (write-back, region by region, an array one
entry at a time). Crcs are taken to tell contents apart, so a header is the array its crc was computed over.

| Run | Instance | Shows |
|---|---|---|
| `BootControlDevInfo` | every call on either slot, failing writes of devinfo, of the boot LU's attribute and of the fuses, deaths, power cuts; zuma, the platform with two fuses | the inductive invariant `IInv` (with `TypeOK`, `OneActiveSlot` and `SuccessMeansInSync`), `PromisesKept`, `SwitchCompletes`, `BlownAfterMarked` |
| `BootControlTable` | no usable devinfo, so that the table is used, with failures of each of its system calls, deaths, power cuts at any state of the write-back, and writes that go astray; a switch that is asked for again and a call that gives the other slot up | `BackupTouchedLast`, and under fairness `CallsEnd` |
| `BootControlLunLost` | a write of the boot LU's attribute that fails | violation, below |

Bounds: two slots are what the hardware has. The retry counter is never decremented here. The numbers of calls, deaths
and power cuts are not bounded: the state space is finite without. `InitTables` holds an accepted running slot beside
one that is empty or was accepted earlier. `Table` takes two requests and one table to start with, since the contents of four
regions in two copies multiply: the table before, the table after, the zeros of an unreadable one, one array of junk and an
invalid header are enough for each region to differ from each other one. `Reach`, the regions that a write to an uninitialised
address may hit, is the backup copy in this run; the proof is for any.

Fairness is weak fairness of the HAL's own steps: the service is a thread that runs. Nothing is assumed of clients.

**A disagreement a run shows.** `BootControlLunLost`: `WriteStringToFd` returns a `bool`, the code asks
`ret < 0`, and a failed write is answered with success.

**What the code does not guarantee.** `Load` checks no crc of the entries; of an invalid backup header it only warns.
(1) A `Load` whose read of the entries failed returns before it reads the backup header (`GptUtils.cpp:88-92`), which
nothing has initialised, and the array holds zeros. The destructor's `Sync` writes the primary header and the zeros,
then the zeros again at the address that the uninitialised header names, and last that header over the backup one. So
`setActiveBootSlot` returns an error and the table is gone, and the bytes may land anywhere. The model lets the stack
hold the right header, left by an earlier object, or none (`LoadCannotReadEntries`), and then lets the write hit
either copy or neither, or fail at the end of the device (`SyncStrays`, `SyncStraysOff`); the backup header is spoiled
(`Invalid`) in any case. A backup header that cannot be read, or is invalid on the disk, leads to the same
(`LoadCannotReadBackup`, `LoadAs`), so one such call makes every later one write astray. A primary header that cannot
be read makes the destructor write two headers to unknown places (`LoadCannotReadHeader`). All of this happens in
`BootControlTable`; `BackupTouchedLast` speaks of objects that hold the backup header (`gpt.backup`), and for the
others there is nothing to say: without the condition TLC finds the step that leaves no valid copy, as soon as `Reach`
has the primary entries. (2) "Nothing to do (no changes)" (`SyncSkips`) compares header crcs, and the header is
written first: after a death between header and entries the next identical call skips the entries that are missing and
answers success; no property covers that retry, since the code gives no promise there to check. (3) Two deaths, one
after the header and one after the backup header of different calls, can leave no valid copy. (4) After a power cut
that tore the array, `markBootSuccessful` and `setSlotAsUnbootable` change one flag and write a valid crc over the
torn rest, so that a copy the bootloader takes for valid may have two active slots or none; only `setActiveBootSlot`
repairs both slots. (5) One failed open or read of devinfo makes the HAL use the table for the life of the process.
(6) The destructor's second `Sync` does nothing: after a failed first one the crc in memory is that of the array
already.

Not modelled: `setSnapshotMergeStatus` and misc (code that is not in the repository), the getters (they read `hal.cache`
and the table; `SuccessMeansInSync` is about them), a device with one slot, and what a stray write does to the partitions
between the two copies: `devinfo` is one of them if it shares the device, so what is said of `devinfo` presupposes that no
write went astray into it.

**Proved** (`BootControlProofs`), for any initial tables, requests, platform and faults: `TypeCorrect`, `Invariance`
(`IInv`), and from it `PromisesAreKept`, `OneSlotIsActive`, `CacheIsInSync`, `FusesFollowSuccess`. The properties are
not inductive: that devinfo keeps a promise after the next write depends on the cache, and that a call does not break
one depends on what its start took back. `IInv` adds `CacheInv` (what is promised, and the single active slot, hold of
the cache too), `DispatchInv` (nothing is promised that the call at hand undoes) and `UpdatedInv` (past the update the
cache has been written, and the state of the call fits its place). The lemmas `ApplyTable`, `ApplyOneActive`,
`ApplyKept` and `ApplyFlag` say what the three operations do to any table. `GptActions` says that each step on the
partition table keeps its type.

`SwitchIsComplete` is `SwitchCompletes` (a switch told as done has both the slot data and the boot LU) for every set of
faults without `lunWrite`: with it the property is false, which is what `BootControlLunLost` shows. It takes one more
invariant, `LunSwitched`: while a success of setActiveBootSlot is the last answer, the boot LU is that of its slot.
`BackupComesLast` is `BackupTouchedLast`, for every table, every failure of the system calls and every set of regions that a
stray write may hit: a write of a `Sync` that holds the backup header and leaves a valid backup copy invalid finds the primary
header's crc that of the primary entries. Its invariant `Written` says which of the regions hold, at each place in `Sync`, the
array that is being written back; past a stray write it says nothing.

## 4. Format Data (`FormatData`, `DataWipes`, `MCFormatData`, `FormatDataProofs`)

`Format_Data` of `subpatch/0044`, one action per step that can fail or be overtaken, beside those who use `/data`: MTP
and a shell that open files and bind-mount, the unmount of `subpatch/0009` that detaches lazily, the file system
itself, which writes its superblock when it likes, `recovery_weaver`, and init, which reaps it in its own time.

| Variable | Code |
|---|---|
| `mounts`, `held`, `mappings` | /proc/mounts as far as it is /data's; files open in processes, also on a detached mount; /dev/block/mapper |
| `userdata`, `secrets`, `flags` | the first 4 KiB and the rest; keys in /metadata, Titan M, Trusty; messages in misc |
| `merge`, `weaver` | the Virtual A/B update; `init.svc.recovery_weaver` |
| `format`, `reply` | the call: step, list of targets, `success`, attempts of titan_wipe; what it returned |

`DataWipes` puts around it what else might wipe `/data`, and the patches that close each way: `ReadMessage` (the boot
message in misc as `processRecoveryArgs` takes it, `0047`), `RunScript` and `Ask` (the script of the recovery, and
someone at the phone), `InstallUpdate` (an older build, or one that wants a powerwash, `0016` and `0017`), `Mkfs` (the
three functions that end in a mkfs, `0042`) and `RebootWithMessage` (Android, or its init after failed boots, leaves a
message, which the recovery reads when it starts). Its variables are `message`, `started`, `script`, `formatted` and
`byHand`, a history of who began the call. The TWRP around the patches is external: it clears the message once it is
read, and it ends in these three functions whichever page was used.

`FormatDataAll` (encrypted, Virtual A/B, every call may fail, power cuts, one other partition) checks, under
`SpecWipes`, `WipesTypeOK`, `SuccessMeansWiped`, `SecretsOutliveData`, `ErasedOnlyIdle`, `OnlyAskedFor` (the data goes
only in a Format Data that someone at the phone began) and, under fairness, `FormatEnds`. `MergeSettledFirst` (proved) and `NoFalseRefusal` hold
there too.

**A comment the code contradicts.** With `FailedMeansIntact` as the invariant and the faults `secDiscard` and `zero` a run fails at
once: when the secure discard is refused, the plain one succeeds and the write of zeros after it fails, `DiscardBlockDevice`
returns false, and `Format_Data` returns before its other steps as if nothing had been erased. The comment at
`0044:156` says false means that the discard never happened.

Bounds: three mount points, a parent, its child and a bind mount outside; two users; two mappings, of which userdata is
the first; `kEraseAttempts` is the code's. Any number of calls, mounts, open files and power cuts. Fairness is weak
fairness of the steps of the call, which the action thread runs; `WaitForProperty`'s five seconds are the fault
`weaver`: without it the wait lasts as long as init takes, and then init's reaping would have to be fair.

`Encrypted` is TRUE in the run, as the device ships. Without a mapping, a `/data` that was detached lazily while a shell
had a file open is in no list, nothing refuses, and the f2fs that is still alive writes its superblock after the zeros
were read back: `SuccessMeansWiped` and `ErasedOnlyIdle` fail with `Encrypted = FALSE`. The kernel does let a discard
through below a live file system: it falls back to dropping the page cache.

`0039`, the arguments of a mkfs of a zoned `/data`, is never reached: `Wipe_F2FS` refuses first. A `wipe_data` message is
read, logged and cleared; nothing tells the user of the recovery that Android asked.

Not modelled: what `Check_Pending_Merges` does inside, the mounts of /metadata, the script that formats /data on the
next boot, the wording of the messages.

**Proved** (`FormatDataProofs`), for every combination of faults and with or without Virtual A/B: `TypeCorrect`,
`Invariance`, `SecretsGoLast`, `MergeIsSettledFirst`; with encryption `SuccessIsTrue` and `NeverErasedAlive`; without
the fault `zero` `FailureIsHarmless`, which is `FailedMeansIntact`, so that the violation above is the only one there
is. The inductive invariant relates what is alive to the mappings (`Mapped`: an encrypted /data that is alive has its
mappings, `Unmapped`: past their removal there are none, so nothing is alive while it is erased), says what each step
may rely on (`Settled`, `PastTheErase`), and what a success that still stands says of the steps already done
(`SuccessSoFar`). `NoFalseRefusal` and `FormatEnds` are model-checked only.

In the same module, for any set of other partitions: `WipesAreFormatData`, `SpecWipes => Spec`, since each step of
`DataWipes` is one of `FormatData` or leaves its variables alone, so that the theorems above hold there too;
`WipesTypeCorrect`; and `WipedOnlyWhenAsked`, which is `OnlyAskedFor`, from `ByHand`: the script never holds a format,
and a call that is under way was begun by hand. The lemma `OnlyBeginBegins` says that no other step leaves "idle".

## 5. The writers of vendor_boot (`VendorBoot`, `MCVendorBoot`, `VendorBootProofs`)

`reflash_twrp.sh` and the backup, graft, write and verification of `anykernel.sh`, over two slots, the working directory
that survives a killed run, the backup file, updates of the other slot, changes of slot and power cuts. An image is
what the properties tell apart: whose platform fragment it holds, whether that is reduced to its first-stage, whose
recovery, and whether all of it is there. A write begins with `WriteStarts`, which tears the partition, and ends with
`WriteEnds`; a death between the two leaves it torn.

`VendorBootAll` (both scripts and updates, every failure the scripts notice, deaths, power cuts) checks `FirstStageKept`,
`BothMeansBoth`, `InstalledMeansDone`, `RunningSlotUntouched` and `StaysReflashed`; `OversizeNeverWritten` is proved only.

**A message the code contradicts.** With installs only, the fault `backup` and `BackupBeforeWrite` as the invariant a run
fails: the backup is taken for good when the file exists (`anykernel.sh:119`); a `cp` that failed half way, after which
line 120 aborts ("refusing to write without a backup"), leaves one, and the next attempt keeps it and writes the partition.

Bounds: two slots; two builds of Android, the installed and the updated one, since a third relates to the second as
that to the first. Any number of runs and crashes.

`Noticed` leaves out the failures the scripts do not notice. Each breaks a property when it is added: `copy` (the exit
code of `cp` of the first-stage is dropped, the image then has the platform of the source: `FirstStageKept`),
`partialRepack` (reflash_twrp.sh asks only whether the file has more than a MiB: `BothMeansBoth`), `lostWriteback`
(anykernel.sh reads back from the page cache: `InstalledMeansDone`). A reflash after an install in the same session
copies the recovery that was installed, which has never booted, over the other slot's, which may be the last that did.

Not modelled: the size, device and checksum checks, which only refuse; the header and device tree of the containers;
that a power cut may also lose the backup file, which is not synced. Torn images are taken not to unpack.

**Proved** (`VendorBootProofs`). For every set of requests and faults, the three above included: `Invariance`,
`TypeCorrect`, `RunningIsUntouched` (no step of a reflash changes the running slot) and `NothingOversize`. The others
need what the scripts do not look at, and their hypotheses are the three faults that break them and nothing else:

| Theorem | Property | Hypotheses |
|---|---|---|
| `FirstStageIsKept` | `FirstStageKept` | `CopyWorks`: no `copy` |
| `BothIsBoth`, `ReflashedStays` | `BothMeansBoth`, `StaysReflashed` | `CopyWorks`, `RepackWhole`: no `partialRepack` |
| `InstalledIsDone` | `InstalledMeansDone` | `CopyWorks`, `WriteLands`: no `lostWriteback` |

So the scripts are right but for those three commands. The properties speak of slots; what makes them inductive is where
the images in the working directory come from: `SourceInv` (a reflash holds the running slot's image), `WorkInv`
(what is packed is reduced and has the recovery; a slot being flashed is torn), `PlatformInv` (each image in hand was made from the
platform of its slot, also after an update of the other one), `WrittenInv` (a verified slot is the image in hand) and
`DoneInv` (slots a reflash is done with are in their end state).

## 6. Staging of the GPU driver (`Staging`, `MCStaging`, `GpuProofs`)

`gpu_stage.sh` over `stage_lib.sh` as init runs it: `timeout -k 5 30`. A command and the assignment that records what it
made are two steps. The trap of TERM runs between two commands, never during one; KILL ends the shell anywhere.
Its specification is `SpecStaging` (`InitStaging`, `NextStaging`), so that `GpuProofs` can extend it beside the renderer.
`Needs` is the NEEDED entries of each library; the loop over them is `WantRoot`, `NextLib`, `Skip`, `Want`.

`StagingAll` checks `WholeOrAbsent` (what the renderer looks for is there only with all it needs), `OneThingLeft` (a
script that ended in time leaves only the mounts that `umount` failed on and the mappings under them or that `dmctl`
failed to delete; one that was told to end leaves besides what one command had just made) and, under fairness,
`BootGoesOn`. Six libraries with a cycle (gles, egl, srv, and through the ramdisk's own `log` to `ui`), a root a phone
may do without, phones on which one of them is missing; three attempts at a mapping (`Tries`; the code makes twenty,
and the second differs from the last only in what follows it). Fairness: the shell runs, `timeout` sends its signals
in the end. Deadlock is not checked: the script runs once per boot and ends.

What it leaves out: `partialCopy`, a `cp` that fails half way. Such a file is in no list; it stays, and the next
program that opens the library finds half of it (`WholeOrAbsent` fails). `WholeOrAbsent` and the first part of
`OneThingLeft` are about scripts that were not told to end, and all of it about scripts that were not killed: after a
TERM what the last command made may stay, since the trap runs before the assignment that records it, and after a KILL
everything stays. These too are short counterexamples when the condition is dropped.

**Proved** (`GpuProofs`), for every graph of libraries with or without cycles, any roots and partitions, any phones:
`StagingInvariance` and `StagingTypeCorrect`; `LittleIsLeft` (`OneThingLeft`, whatever fails, `umount` and `dmctl
delete` too, but not after a KILL); `DriverIsWhole` (`WholeOrAbsent`) when no `cp` is cut off half way, which is the
one fault that breaks it; and `RamdiskStays`: what the ramdisk came with is never copied over and never removed.
`StagingInv` follows the closure: `FilesInv` (what is wanted so far is whole, or is being copied, and nothing else is
there), `ScanInv` (what a wanted library needs is seen, or shared, or that library is in the queue or being scanned),
`ModuleInv` (module and firmware before the first library), and `LooseInv`, what is there and in no list: nothing
between two commands, one thing while a command's result is not recorded. `ResultInv` says how the script ends, and
`ReleasedInv` how far the loops of `release` have come: they echo a `umount` or `dmctl delete` that fails and go on
(`stage_lib.sh:27-28`), so what they have behind them is gone or was failed on. The model keeps the latter in
`lists.stillMounted` and `lists.stillMapped`, which the code only writes to its log; a trap that comes later goes
through both lists again.

The proof corrected the property. `WholeOrAbsent` used to say that each library that is there has what it needs; that is
false of a library of the ramdisk that nothing refers to and whose needs are missing, and the instance had none.
It now says that the roots and what was staged are in a set of whole libraries that is closed under `Needs` up to what the system shares.

Not modelled: `dmctl getpath`, `powervr.ini`, the removal of the working directory, dependencies between kernel modules;
the firmware is one file.

## 7. GPU renderer (`GpuRenderer`, `MCGpuRenderer`, `GpuProofs`)

`minuitwrp_gl.cpp` and the hooks of `subpatch/0041` in minuitwrp: the context that is current on one thread at most, the
cache of textures by the address of a surface, textures that other threads leave to be deleted, the canvas and the two
buffers that take turns on the screen, and the CPU path with its own buffers.

| Variable | Code |
|---|---|
| `active`, `holder` | `g.active`; the thread for which `eglGetCurrentContext() == g.ctx` |
| `cache`, `doomed`, `texs` | `g.cache`, `g.doomed`; the driver's textures and what they show |
| `heap`, `leaving` | the surfaces and their pixels; those between `gr_gl_forget` and `free` |
| `canvas`, `cpu`, `bufs`, `disp` | `g.canvas`, `gr_draw`, the scan-out buffers, which of them the planes show and `current_buffer` |
| `gui`, `frame` | a history of what the GUI has drawn; the frame and the surface in hand |

A blit is three steps, `Blit` (`Begin`), `UploadHit`/`UploadMiss`, `DrawTexture`, with surfaces freed and placed by
other threads between them. Driver names are reused: `UploadMiss` takes any that is free.

| Run | Instance | Shows |
|---|---|---|
| `GpuRendererAll` | two threads, two surfaces, three textures, a driver that may fail at any `eglMakeCurrent` | `IInv` (with `EachTextureOwned` and `CacheOfTheLiving`), `ShownIsDrawn`, `StaysOnGpu` |
| `GpuRendererFallback` | the same | violation: after a failure the planes keep the GPU's buffers and the CPU draws into others |

Bounds: one part of the screen (two were checked too, without failures of the driver), two threads, two places for
surfaces and for pixels, two images; three names of textures, one more than there are surfaces, since a texture that is
doomed is deleted before the next is made. Threads, addresses, images and names are symmetric.

Assumed of what is not in the repository: the GUI draws one frame at a time and takes screenshots between frames or from
the thread that draws; a surface is not freed while it is being uploaded; a struct that gets other pixels gets them at
an address other than the one its texture was made of (the cache compares addresses: with the same address, size and
format it shows the old image). Everything before the first frame (`Start`, loading the driver) is one choice of
`active`. The end of the GUI is left out; after a failure `gr_gl_exit` does not release the context.

**Proved**, for any threads, surfaces, images, texture names and failures, from `GpuRendererAssumption` alone (the names
that stand for nothing are not among the real ones): `Invariance`, that `IInv` is inductive, and from it
`TheScreenIsRight`, `TexturesAreOwned`, `OnlyTheLivingAreCached`, `TheGpuIsKept` and `ShownIsLeftAlone`. What the screen
shows at a flip depends on all that was cached before, so `IInv` adds to the properties
- `PictureInv`: in the middle of a blit, what the GUI has drawn is the canvas with the surface in hand put in;
- `ImageInv`: a texture that `Upload` takes for that of a surface shows it. A miss writes to one texture and deletes
  another; that neither is the texture of a third surface is `EachTextureOwned` (lemma `Miss`);
- `FrameInv`: the surface in hand is alive while it is uploaded, its texture while it is drawn;
- `HolderInv`: the context is held only within a frame, by the thread that draws it, while the driver works.

## 8. Storage proxy (`StoreData`, `SecureStore`, `StorageProxy`, `MCStorageProxy`, `StorageProxyProofs`)

`SecureStore` is what the storage service of Trusty is promised: it asks one thing at a time of files and of the value
and the write counter of the RPMB partition; what is told done was done, in full and once, what is told read is what is
there; an error means that nothing was done, except to a file that was being written; only an RPMB exchange may be left
in doubt; a lost session takes its handles along. `StorageProxy` is the daemon; `StoreData` has the requests and the
contents that both speak of.

| Variable | Code |
|---|---|
| `pc` | the place in `main`, `proxy_loop` and the handlers |
| `fds` | the daemon's descriptors: `rpmb_fd`, `tipc_fd` and the files, whose handles they are |
| `req`, `at`, `tries`, `reply` | locals: the request, the progress of `write_full`, `retry` of `send_ufs_rpmb`, the answer |
| `buf` | `rpmb_read_buf`, which keeps its contents from one exchange to the next |
| `files`, `rpmb`, `register`, `response`, `attention` | external: the files below `/tmp/ss`; the partition, the result of its last write, what it answers next, a reset it has yet to report |
| `incidents`, `calm` | how many resets and errors there were, and whether one fell into this exchange |
| `ta` | external: whether Trusty is linked, its handles, the counter it is sure of, the last answer |

An exchange is `ReliableWrite`, `Request`, `Fetch`, each one `ioctl` with the four outcomes `check_sg_result` and the
return value tell apart: obeyed, refused after a reset, in error (obeyed or not), failed (obeyed or not). Only the second
is repeated, once for a write, three times for a read request, never for the request of a result and for the answer. An answer
that could not be fetched is the old buffer: Trusty takes a result of a write for good by its counter, a read by its
nonce (`Verdict`), and writes only with a counter it is sure of (`Asks`).

`StorageProxyAll` (one file of two blocks, four descriptors, two RPMB writes, one incident, a file system that may
refuse, any number of sessions and deaths) checks

- `KeepsPromises`: the daemon implements `SecureStore`. The mapping takes `request` from the handler being run, `held` from
  the descriptors of the handles the session was given, and `done` from the progress of the write, from the counter of
  the partition, or from the answer. It fails when a command is repeated after any error: the second one is refused,
  and Trusty is told that a write which took place did not;
- `ResetCostsNothing`: a reset between two exchanges is absorbed by the repetition. One between the write and the request of
  its result is not: that exchange is left in doubt;
- `ComesBack`, under weak fairness of the daemon and strong fairness of `Connect` (Trusty accepts in the end, and the daemon is not
  killed each time before that): it always connects again.

Bounds: with one value and holes, the places of blocks tell apart what `write_full` may get wrong; two writes let a stale result
meet a later write; two descriptors beside the daemon's own let one be leaked or be given out again while another is
held.

Not promised: files that a lost session had open stay open. They never take the channel's descriptor, but in the end
no file can be opened until the daemon is restarted. Left out: `mkdir` of parents, malformed and unknown requests, and the
command that asks for a maximal size, which change nothing; syncs, since `/tmp` is a tmpfs here; the pauses between
attempts to connect. `size` and `read` are one request. Trusty is taken not to delete a file that it has open.

**Proved** (`StorageProxyProofs`), for any names, descriptors, values, size of a file, number of RPMB writes and of
incidents, and whether or not files can fail; from `StoreAssumption` and `ProxyAssumption` alone (the bounds are numbers,
handles are numbers but not 0, and the names of the daemon's own descriptors are not names of files):
- `Invariance`: `IInv` is inductive; `TypeCorrect`;
- `DaemonKeepsPromises`: `Spec => KeepsPromises`, the refinement. Initial states map to initial states (`InitRefines`), each step
  to one of the store or to none (`StepRefines`, from a lemma per action: `OpenRefines`, `WriteRefines`, ...). One turn
  of `write_full` is one `Write` of the store because blocks written behind those already there leave the file as if all had been written
  at once (`WritesJoin`), which is a fact about `Patched` for files of any length;
- `ResetsAreNotSeen`, which is `ResetCostsNothing`.

The mapping alone is not inductive. `IInv` adds `HandleInv` (a handle of Trusty is a descriptor of a file there is;
so the lowest free descriptor, which `Lowest` finds, is none of them), `RequestInv` (a handler runs on a request of its
kind that Trusty may make), `WriteInv` (what was written so far is in the file), `ReplyInv` (an answer on its way is an
error, or says what was done), `FrameInv` (no frame refuses a write, no result counts a write that did not take place, and in a read
a frame with this nonce has what the partition holds), `CountInv` (Trusty knows the counter, but for a write under way;
`ReliableWrite` is only ever tried with that counter) and `CalmInv` (where an exchange is that met no incident). That a refusal never reaches
Trusty is what the mutant `AgainOnAny` breaks: a command repeated after any error.

The proof also found two definitions, `Verdict` and `DoneOfIt`, whose `CASE` branches overlapped; TLC takes the first that
holds, TLA+ leaves the choice open. They now say what was meant.

## 9. /data as a partition (`DataPartition`, `MCDataPartition`, `DataPartitionProofs`)

What `subpatch/0009`, `0010`, `0012`, `0018`, `0020`, `0028`, `0029` and `0035` make of `/data`. Decrypt forks a child that
maps userdata and its companions (a zoned device, expansion devices) with the keys of /metadata and mounts `/data`; the
recovery waits two minutes, then kills it. Mount commits a checkpoint that Android left open and, after an unmount,
installs keys again and tries the cached credential. UnMount detaches a `/data` in use and forgets what was known of
keys. A reboot syncs and unmounts. Beside them run keymint, MTP, a shell and programs on /sdcard.

| Variable | Code |
|---|---|
| `present`, `keymint` | the companions named in the fstab that this phone has; whether `init.svc.vendor.keymint.rust-trusty` runs and answers |
| `dm`, `child` | the dm-default-key devices; the forked child and what it has mapped |
| `super`, `binds`, `holders` | the superblock and the keys the kernel keeps with it; layers of /sdcard; open files |
| `disk` | whether a checkpoint is open, and whether writes are in none |
| `part`, `vold`, `manager` | `Is_Decrypted`, `Decrypted_Block_Device`; `s_de_policies`, `s_ce_policies`; the users' `isDecrypted`, `tw_fbe_cached_password`, `tw_fbe_rekey_needed` |
| `call` | where the recovery's thread is |
| `history` | what was refused or killed, what was told as a failure, what was lost |

`DataPartitionAll` (two users, phones with a zoned device, an expansion device, both or none; the child hangs or is killed
anywhere; keymint stops, falls silent or comes back until /data is decrypted and whenever it is asked for a key after that; keys,
mounts, the checkpoint, /sdcard, Android's directories and the detaching fail) checks `TypeOK` (one
layer of /sdcard at most), `KeysAreReal`, `DecryptedMeansMapped`, `NoFalseFailure`, `RekeyOwed`, `WritesLast` and, under weak fairness
of the recovery's thread alone, `ComesToAnEnd`: a call ends however the child hangs, since it is killed in time; where the
recovery calls `Decrypt_DE` or `Decrypt_User` itself (`Asks`: `0009:84`, `0009:94`, `0010:259`, Decrypt_Device) nothing limits the
wait, and the property leaves it there for as long as keymint is silent, and nowhere else. Deadlock is not checked: a phone that
was rebooted is off.

External, as the patches use it: `fs_mgr_do_mount`, keymint, what Decrypt_User does in vold, and the kernel, whose
superblock lives, with its keys and its unsaved writes, as long as it is mounted or has an open file. That it dies with the last of them is why an
unmount has to void what the caches say; that a detached one may live on is why a mount that follows may find its keys there.

Bounds: one companion of each kind, since each is handled alone; an owner and another user with a password of his own.
Mounts, attempts, users' requests and open files are not bounded.

What the run also shows, and no property forbids: a child that is killed after it made a mapping leaves the name taken,
so that every later attempt fails until a reboot; an attempt never clears what an earlier one left. The cached credential is that of
the last user who was decrypted and is tried for user 0 (`0009:94`): after a guest came last, a remount opens nobody and
drops it, at the price of a prompt. `Mount` returns early when `/data` is mounted already, so that keys which are owed after a
bind mount that failed stay owed until the next unmount. A checkpoint the kernel refuses to commit is a log line; `0043` shows a page
about it only when the recovery starts.

Left out: the probing of the type of the file system, the version of keymaster (the patch fixes it to none), the SD
card, adoptable storage.

**Proved** (`DataPartitionProofs`), for every set of users and passwords, every set of companions, every fstab whose fields are there
and all that may fail: `Invariance`, `TypeCorrect`, `KeysRemainReal` (`KeysAreReal`), `DecryptedIsMapped`, `RekeyIsOwed`,
`FailuresAreTrue` (`NoFalseFailure`) and `WritesAreKept` (`WritesLast`): every safety property of the run, without further hypotheses.
The invariant ties what the recovery believes to what the kernel has: `CallInv` (where the recovery's thread and its child are), `DevicesInv`
(what the child has mapped is in the kernel, all of it once it has mounted: the flag the parent sets is true also after an earlier child
was killed), `KeysInv` (nothing is known of keys before /data is decrypted, and the need to install them again is known
from the unmount on), `FailureInv` (as long as nothing was refused, no name is left over from an earlier attempt, so nothing can
fail for that) and `WritesInv` (an open checkpoint is committed before anyone can write, unless the commit was refused).

## 10. Early init and the services (`EarlyInit`, `Services`, `MCServices`, `ServicesProofs`)

`EarlyInit` is what `subpatch/0014` adds to the second stage of init: a child that copies the ramdisk's files to
`/dev/ramdisk_snapshot`, as they came from the image, and a child that unpacks the programs the build packed
(`lgz --decompress_all`), file by file, beside the packed form and then by `rename`. Each may fail to start, crash between any
two steps, or end. `Services` goes on from there.

| Variable | Code |
|---|---|
| `stage`, `child`, `todo`, `status` | the place in `SecondStageMain`; the child, the rest of its list, how it ended |
| `file`, `copy`, `tmp`, `full` | each file packed, plain or cut; its copy; the `.lgz_tmp`; whether the rootfs was ever full |
| `bare` | the file that `rename` has put in its place and `chmod` has not come to: its new form has not the permissions of a program |
| `gsc`, `weaver`, `up`, `chip` | /dev/gsc0; recovery_weaver, a oneshot service; the registered services; wrong keys the chip has seen |
| `vold`, `excuse` | the attempt to open a user's data: find Weaver, size the key, find the slot, reach a KeyMint, derive; a history of what failed |

`ServicesAll` (two programs, both packed; six phones that differ from the Yogi in one respect each: the format of
the .weaver file, the key size the chip reports, KeyMint's version, the version of the spblob; services that come late,
go, or never come; three looks for Weaver where the code has fifteen, two mistakes where the chip has its own number)
checks

- `SnapshotIsTheImage`: a snapshot whose child ended well is the image. It fails when the two children change places;
- `PackedOrWhole`: wherever the unpacking is cut off, a program is packed or whole, unless the rootfs was full, and at most
  one, the one that `lgz` was at, is in its place and cannot be executed; init has then seen `lgz` fail;
- `RightKeyOpens`: the right key is refused only for want of a Weaver in all of the time there was for it, of a chip that
  answers, or of a KeyMint;
- `NobodyWaitsForEver`, under weak fairness of the thread that decrypts: an attempt ends, whatever never comes or goes
  meanwhile.

The fifteen looks are all alike, so three have a first, a middle and a last one. That the HIDL Weaver is not declared on
these phones is assumed; the looks for it then return at once.

What the models also show: `lgz` always exits with 0, so init logs "Decompression completed successfully" also when files
failed; its `fwrite` is not checked, so a full rootfs leaves a program that is cut (`full`); recovery_weaver is oneshot,
and gives up for good when /dev/gsc0 comes after the ten seconds it is waited for; a KeyMint that is registered and fails
at `getInterfaceVersion` is an error without a fallback, unlike one that is not registered; so is a km_compat that is registered and
fails at `getKeyMintDevice`. A crash between `rename` and `chmod` leaves a recovery_weaver that is whole and does not start. The dump of vendor_boot next to the snapshot
does not change the status.

Not modelled: fastbootd (`0026`), all of whose looks for its HALs return at once, so that a model of it would have nothing that
could wait; a `chmod` that fails, which `lgz` does not look at; the other commands of init's scripts (properties, modules, the pruning of twrp.flags), the coder of LGZ, `write` of
Weaver, which a recovery never calls, the arithmetic of the key derivation (a name for each function), and a build
that packs an already packed tree.

**Proved** (`ServicesProofs`), for any list of files, any number of looks and mistakes, whichever child fails and whichever service
comes: `Invariance`, `TypeCorrect`, `SnapshotStaysTheImage` and `FilesAreWhole`; and `RightKeyDoesOpen` (`RightKeyOpens`) under
`KnownPhones`: a .weaver file of 5 or 8 bytes, a chip that reports 16 bytes of key or none, spblobs of versions 1 to 4.
These are the cases the code distinguishes; it falls back to a default for any other, which would not be what Android has used.
`SnapshotIsTheImage` is about a copy while the property must hold after the next stage has rewritten the originals: `StageInv`
(the files are the image's while the first child runs, and no stage is left before its child is gone) and `CopyInv`
(a copy is the image's form of its file) carry it over; `CutInv` says that only a full file system cuts what waits to be
renamed, and `BareInv` that `lgz` is at one file at a time. `RightKeyOpens` needs no strengthening beyond the types, since an attempt is a chain of cases on the phone.

## 11. The smart patcher (`SmartPatcher`, `MCSmartPatcher`, `SmartPatcherProofs`)

`patch.py --mod`, which every build runs on the tree of the build before. A text is a sequence of tokens; white space tells
nothing to the search, which joins tokens by `\s*`, and is left out, the conversion of line ends with it. `Start`
(a run loads its patches, and goes on without those that do not load), `Open` (read a file and make its changes in memory:
`Decoded`, `Status`, `Replaced`, `Step`), `Truncate` and `Write` are the run, `Kill` ends it anywhere, also with part of
a file written, `Sync` is `repo sync`.

A file is read with `errors='ignore'`: what does not decode as text is dropped. A file of the tree is therefore a sequence of
tokens and of marks for such bytes (`Undecodable`), a text in memory one of tokens (`Decoded`), and what is written back is
the text: a file that a change is made in loses those bytes everywhere. One thing is left out: a byte of this kind inside of
a word, which is dropped with the two halves becoming one token, is in the model two tokens side by side.

| Variable | Code |
|---|---|
| `tree`, `upstream` | the source files; what the last synchronisation brought |
| `run` | where `PatchManager.run` is: the file of a patch (`Parts`), the text in `new_source`, the parts of patches that did not load |
| `failed` | the changes for which FAIL was printed, or that are in a patch for which the failure to load was |
| `torn`, `settled`, `whole` | histories: files a run was killed in the middle of writing; whether a run was completed since the tree last came from elsewhere, and whether one was that had loaded all patches |

`SmartPatcherAll` has every kind of change that the repository has (a line added, a block replaced or removed, a change
inside of what an earlier patch put there, a patch of several files, a text that occurs twice, a text that could end where
the next one begins) on a tree that the changes fit, with a byte that does not decode in the middle of what one looks for, on one
in which a block has changed and a file has gone, and on one with such bytes where no change fits; any of the patches may fail
to load. It checks

- `AppliedOrReported`: no change is left out in silence;
- `NothingElseChanges`: a file is written back only if a change found in it, as it came, what it looks for, and then keeps all
  of its text that no change names; every other file keeps every byte. It does not say that a changed file keeps what does not
  decode, for it does not;
- `RerunIsQuiet`: on a tree that a run with all patches has been through, a further run, with all patches or some, writes
  nothing. Without the first condition it would be wrong: the patches that did not load are made up for by the next run.

**What the patches are taken to be like.** A patcher that only searches and replaces keeps none of this for any list
of changes: one could undo another, or make anew what an earlier one looks for. The module names what it takes:

| Assumption | What it says |
|---|---|
| `ModsStay` | what a change leaves is found after any later replacement in the same file, unless that one reworks it (its original lies inside); what a rework leaves stays for good |
| `OrigsDoNotComeBack` | no change makes anew what an earlier one looks for; where their texts could overlap, that would take a text (`Never`) that is not in the source and that no change makes |
| `ReworkedOnce` | the original of a change that is reworked is once in the source, its result not at all, and no change makes either |

They compare texts, without running anything: whether one lies in the other, and what becomes of the places where one
could overlap the edge of another (`Overlaps`). For the lists of the repository, 104 changes, they were evaluated
outside of TLC, on the tokens and also on the single characters, since a search may begin in the middle of a word. They hold.
Two changes are reworked: one of `0007` by `0041`, one of `0010` by `0035`. One pair needs the `Never` case, the two changes
of `0044` to one file, where a `/` could end one text and begin the other. The parts about `Upstreams` cannot be
evaluated, as the sources are not in the repository: that the places the two reworked changes look for are once in them, as they
are read, and that their results are not is what the authors rely on too. TLC evaluates all of the assumptions for the instance.

**Proved** (`SmartPatcherProofs`), for any lists with these assumptions, any source trees and texts of any length:
`NothingLeftOutInSilence` (`AppliedOrReported`), `OnlyWhatIsNamed` (`NothingElseChanges`), `SecondRunWritesNothing`
(`RerunIsQuiet`), `TypeCorrect` and `Invariance`, also when runs find files that earlier ones were killed writing.
`NothingElseChanges` needs none of the three assumptions, `AppliedOrReported` only `ModsStay`, and `RerunIsQuiet` all of them.
The argument:

- *Texts.* `FoundIs`: a text is found where the other can be cut around it. `StillFound`: after a replacement it is found where
  it was, unless it lay over an edge, and then what is left of it there is one of `Overlaps`. `StaysFound`
  applies the assumptions to that; `StaysUnfound` is the same for the replacement undone.
- *One change* (`StepAccounted`, `StepQuiet`, `StepSound`, `StepUnnamed`) keeps what is said of every earlier one. `ModifiedInduction`
  carries that through all changes of a part.
- *Reading.* `DecodedIs`: what is read of any file is a text; `TextDecoded`: a text that was written is read as it is.
- *The invariant.* `AppliedOrReported` and `RerunIsQuiet` speak of completed runs and are not inductive. `AccountedInv` and `QuietInv` say the same of
  the parts a run is done with, for the text in memory (`Memory`), which is what the file will be if it is being written; `QuietInv`
  only of the parts that were loaded (`Quieted`). `RestInv` says of a text that is about to be written, too, that it is kin (`Kin`) to the file as it came.
  `SoundInv` carries what is assumed of the source to every text that a run or a kill can make of it: that the place of a
  reworked change is there at most once, and not together with its result. Without it a change whose result was reworked
  could find its original a second time. TLC checked the parts of the invariant on the instance before (of `SoundInv` the part about reworked changes: the other is about all texts there are).

What the run also shows: `0035` works inside of what `0010` leaves and `0041` in what `0007` leaves, so that a second run reports
the earlier change as FAIL, and `--check` as a conflict, although all is well. A file that a run was killed writing is
taken for the source by the next run, which reports FAIL for what is missing; only a synchronisation repairs it. A run ends
as a success whatever it reported.

Left out: `--check` and `--list`, which only print.

## 12. What stays with TLC, and why

- Liveness (`CallsEnd`, `FormatEnds`, `BootGoesOn`, `ComesBack`, `ComesToAnEnd`, `NobodyWaitsForEver`) is model-checked:
  TLAPS has no support for ENABLED and fairness.
- The library's induction theorems take an operator, which the installed provers cannot instantiate. `SmartPatcherProofs`
  does without: `Induction` takes a set in its place and rests on the least number outside of it (`WFMin`), and `Recursion` gives
  the functions that `Modified` and `Unnamed` choose. The LGZ coder, if it is modelled, can use them.
- `FailureLeavesCpu` and the property of `BootControlLunLost` are violated by the code; there is nothing to prove.

All other properties of the runs are theorems. Those with a hypothesis on the faults are `SwitchIsComplete`, `FailureIsHarmless`, `DriverIsWhole`
and four of `VendorBoot`; sections 3 to 6 say what the code does under the faults they leave out. `RightKeyDoesOpen` has one on the phones,
`SuccessIsTrue` and `NeverErasedAlive` that /data is encrypted.

## 13. Not modelled

The USB host shim is planned (section 2); its hazard is listed. The SUSFS kprobe, torch and CPU temperature, the package checks
of the installer (`0004`, `0005`), the patches of events, graphics and lists, the checkpoint notice, fastbootd (section 10), the build files and the build
and packaging scripts are single branches in programs that are not in the repository, pure I/O, kernel context or build
tooling. `PROJECT.json` gives the reason for each.
