# A verification of lvlab

`lvlab` builds small labs of libvirt machines from a manifest (`Lvlab.yml`): it
downloads cloud images, writes disks and cloud-init seeds, and drives `virsh`,
`qemu-img` and `virt-install`. Two more commands, `createvm` and `deletevm`,
do the same for one machine without a manifest. There is no daemon, no
database and no lock: the state is in libvirt and in a few directories, every
command is a sequence of separate calls against it, and any other command,
guest or person may act between two calls.

This directory holds TLA+ models of that code, TLC configurations that check
them on small instances, and TLAPS proofs for every instance. Paths below are
relative to `src/src/tkc_lvlab/`, those of the harness to `src/scripts/validate/`.

## 1. The system

| Component | State it keeps | Operations | What makes it hard |
|---|---|---|---|
| Machine lifecycle (`cli.py`, `utils/libvirt.py`, `utils/snapshot_cleanup.py`) | the domain in libvirt; the machine's directory | `up`, `down`, `destroy`, `snapshot create`/`delete`, `cloudinit` | a decision is made on a state read one or more calls earlier; a call that fails may have been carried out; the guest changes state by itself |
| Virtual disks (`utils/vdisk.py`) | the qcow2 files | `exists`, `create` (copy or backing file) | a file written in place is taken for finished as soon as it exists |
| Cloud-init seed (`utils/cloud_init.py`) | three documents and an ISO | render, pack | a partial rendering must not reach an ISO |
| virsh wrapper (`utils/virsh.py`) | none | `run_virsh`, its retries, parsers | which failures are retried, and which are read as "no" |
| Image download (`utils/images.py`) | the image cache: files and their `.partial` | download, resume, retry, rename | ranges against a file that changed, encoded replies, several downloaders |
| Image verification and `lvlab init` (`utils/images.py`, `cli.py`) | keyrings, checksum files, `.verified` files | a pool of workers, one image each | workers share a keyring's path; a `.verified` file can be out of date |
| Cache cleaning (`cli.py`) | the image cache | `images clean` | what the manifest protects against what a download needs |
| `createvm`, `deletevm` (`scripts/`) | one directory under the storage root, one domain | create, remove | overlapping runs; clean-up after a failure half-way; consent for snapshots |
| Smoke runner (`smoke.py`, `footprints.py`) | a run directory; cases and their domains | batches under a memory budget, teardown, reaping | failure of a teardown, stragglers, packing |
| Static addresses (`utils/network.py`, `smoke.py`) | none | free bands, DHCP overlap | boundaries |
| Manifest and host configuration (`config.py`, `utils/catalog.py`) | up to four files | load, defaults, merge, hosts file | precedence of layers |
| Guest networks and keys of `createvm` (`scripts/createvm.py`, `utils/network.py`, `utils/standalone_cloud_init.py`) | the guests that exist | settle networks, addresses, resolvers, keys; render them | two families on one NIC; what is checked against what the DHCP servers do; templates that drop a part |
| Validation harness (`scripts/validate`) | a memory pool, one task per scenario | admit, create, poll, tear down, reap | cancellation at every await, processes that outlive their task, waiting on memory |
| Credentials, host probing, output, listing commands | none | look-ups and formatting | little |

How they interact: a command resolves the manifest, asks `virsh` whether the
machine exists and in which state, then calls the lifecycle operation, which
asks again and acts. `up` uses disks, seed and `virt-install` in that order.
`init` feeds the image cache that the disks are copied from. `smoke` drives the
manifest commands, and the harness `createvm` and `deletevm`, as processes. All
of it shares the file system and libvirt, and nothing else.

What each component must get right:

* lifecycle: no live domain is undefined; no file goes from under a machine
  that is in libvirt; a guest's data survives everything but a `destroy`; a
  success that is reported is true; repeating a command gets the user there;
* download: what is renamed to its final name is one version of the resource,
  all of it; whatever an earlier run left, a later one gets the file;
* `createvm`/`deletevm`: one process provisions, from a whole disk; files and
  snapshots go only after the undefine, with the user's consent;
* smoke: what runs together fits the host; a case runs on a machine the run
  made; a run ends, and leaves no machine that it did not try to remove;
* `init` and cleaning: an image that is passed without a word is there and
  verified; repeating `init` gets every image; what a manifest names stays, and
  the backing files of disks as far as a cleaning finds them;
* addresses: the free bands a user is advised are exactly the free addresses;
* configuration: a setting is that of the last file that speaks of it;
* `createvm`'s plan: no guest is made on a bridge without a gateway, nor without
  a resolver unless a config file has an empty one; none with an address out of
  place, with one that is leased to another guest, or without a way to log in;
* harness: memory is booked for exactly the guests that hold a lease; a domain
  has its lease; nothing of the run is left in the end; the run ends.

`PROJECT.json` lists every component with its status, and the hazards of the
code line by line with the properties that would catch them going wrong.

## 2. Modules

| Module | Models |
|---|---|
| `LvlabMachine` | one manifest machine and the six commands that processes run on it |
| `MachineContract` | what those commands promise together, without calls or failures |
| `LvlabMachine_proofs` | theorems about `LvlabMachine` |
| `ImageDownload` | `_download_file`/`_stream_to_partial`, the mirror, the cache entry |
| `CachedFile` | what the cache takes a download for: one step |
| `ImageDownload_proofs` | theorems about `ImageDownload` |
| `CreatevmPlan` | config files, options, networks, addresses and keys of `createvm`, up to the guest's NIC |
| `CreatevmPlan_proofs` | theorems about `CreatevmPlan` |
| `OneoffVm` | one standalone machine, `createvm` and `deletevm` |
| `OneoffVm_proofs` | theorems about `OneoffVm` |
| `SmokeRun` | one run of `lvlab smoke`: plan, batches, worker threads, reaping, Ctrl-C |
| `SmokeRun_proofs` | theorems about `SmokeRun` |
| `ImageCache` | `lvlab init`'s workers, verification, `images clean`, one cache |
| `ImageCache_proofs` | theorems about `ImageCache` |
| `StaticBands` | static addresses against the DHCP range, and the advised bands |
| `StaticBands_proofs` | theorems about `StaticBands` |
| `ValidateRun` | one run of the conformance harness: pool, scenario tasks, Ctrl-C, reaping |
| `ValidateRun_proofs` | theorems about `ValidateRun` |
| `MC...` | instances for TLC: the values of the constants, nothing else |

### LvlabMachine

A process has a program counter; a label is a place between two calls to
libvirt or the file system, and an action is one call with everything the code
does until the next.

* `ProbeList`, `ProbeState` are the two queries of `Machine.exists_in_libvirt`;
  `OnAbsent` and `OnPresent` are what each command of `cli.py` does with the
  answer. A failing `domstate` is read as "not deployed", as in the code.
* `Confirm`/`Decline` are the prompt of `destroy` and `snapshot delete`;
  `--force` is a user who confirms at once.
* `List`, `State` are the second look that `poweron`, `shutdown` and
  `_DomainDestroyer` take; `Verb` is `virsh start`, `shutdown`,
  `snapshot-create-as` or `snapshot-delete`.
* `ForceOff`, `Recheck`, `Undefine`, `UndefineMetadata`, `Glob`, `Remove`,
  `Rmdir` are `_DomainDestroyer.destroy`: force off, look again, undefine (once
  more with `--snapshots-metadata` when snapshots forbid it), clean up.
* `ConsiderDisk`, `CopyDisk`, `ResizeDisk` are the loop of `create_vdisks` with
  `VirtualDisk.create`; `Render`, `OpenIso`, `WriteIso` the seed; `Deploy` is
  `virt-install`.
* `Guest` is the guest: it pauses, crashes, powers off. `Kill` ends a process
  anywhere.

A call fails in two ways (`Call`): libvirt did nothing, or libvirt did it and
the caller sees an error (a lost connection, a timeout). The rest of libvirt is
external and taken from how the code uses it: a transient domain disappears
when it stops, undefining a live domain leaves it running without a definition,
an undefine is refused while a stopped domain owns snapshots.

Disks: `disk0` is the one `virt-install` attaches, `disk1` stands for the
others of the manifest, which the tool creates, and never attaches. A content
is what the properties tell apart: nothing, a partial copy, a full base image,
a disk at its size, a disk a guest has used.

Initially the machine was never deployed, or was deployed by an earlier `up`
and rests in any state, possibly with a file or a directory of the user's
beside its own. The manifest is taken to be valid. `up --all` repeats `up`.

### MachineContract and the refinement

The contract has three variables: deployed, live, storage (missing, new, used).
Storage is created only when it is missing and the machine is not deployed; a
machine is deployed only onto storage, forgotten only when it is not live,
and loses its storage only when it is not deployed. `LvlabMachine` instantiates
it with `state # "absent"`, `state \in LIVE_STATES` and the content of `disk0`;
everything else a command does is a stutter. `ImplementsContract` is checked in
`machine_seq` and proved.

### ImageDownload

One resource and its names in the cache. A name refers to an inode, as a
process that has a file open goes on writing to it after it was renamed or
removed. A block is a pair of the version it is of and its place, so that mixing
two versions, or leaving a hole, shows. `Ask` is the size that becomes the
`Range` header, `Body` the reply (200 or 206; sized, chunked or ended by closing
the connection; encoded or not), `StaleRange` the 416, `EncodedRange` the reply
that cannot be appended, `Write` one block, `Check` the length check, `Replace`
the rename. `HttpError`, `Refused`, `Dropped` are the three ways a request
fails, which the code treats differently. `Clean` is `images clean --force`
removing the partial file of a download under way, `Publish` the mirror
publishing a new version.

`steady` is history: whether the mirror has had only one version, nothing was
cleaned, and no body was cut short in silence. What `DownloadInv` says of the contents of files
(`CacheInv`, `ControlInv`) is about a steady download, as the code cannot see
the difference: it resumes by length alone.

### CachedFile and the refinement

What is above the download knows three things: the version the mirror serves,
what is at the path, and whether the download was disturbed. `Fetch` is the only
step that puts something there, once, and `Fetchable` says what: what is served,
or, of a disturbed download, a version that was published or nothing whole
(0). `ImageDownload` instantiates it with the version that the file at the
destination is a whole copy of (`KeepsPromise`, checked in `download` and
proved). `ImageCache` instantiates it too, and takes `Fetchable` for the outcome of
a download that succeeds: what it assumes is what `ImageDownload` shows. There the
disturbance is a publication, a worker that is `raced`, or, as a fault, `CutShort`.

### CreatevmPlan

What `createvm` decides before it makes anything.

* `ReadLayer` reads one of the four places (`/etc`, home, current directory,
  `--config`) and merges what it says (`deep_merge`): a section that is a mapping
  is merged field by field (`Overlay`), an empty one replaces what is below.
  `Counts` is what `parse_networks` makes of a value: a field that is null, or a
  blank gateway, hides what is below and counts for nothing; but of a blank `dns` or
  `search` a list is made, `[""]`, which passes for a value (`Blank`). A value is
  what it comes from: nowhere, the rank of a file, an empty string, the flag, or
  the network itself.
* `Load` is `load_host_config` and the image's entry (`ImageKnown`): an entry of
  the config replaces the built-in one as a whole.
* `Resolve4` and `Resolve6` are the two legs: `parse_option`, the facts of the
  network from libvirt, the policy for its forward mode
  (`resolve_network_settings`), and `validate_static_ip`. An option is a network,
  an address of a family, a typo, or a mixture, as `--ip4` and `--ip6` take them.
  Each leg may end on a network of its own, and the NIC is on the first.
* `Provision` is the guard against a guest without keys, the two templates
  (`HasResolver`, `AsksDhcp`), the keys (`KeysGiven`), and the guest that boots
  on its NIC and may have leases (`Leasable`).
* `Refuse` is any check or call that fails; `Delete` is `deletevm`. What happens
  on disk meanwhile is `OneoffVm`.

Addresses are a family and a number; a network's subnet and DHCP ranges are sets
of numbers. `LayersRank` compares the merge, made file by file, with a definition
that looks at all files at once.

### ValidateRun

The harness is one process with an event loop: `main` is the place of the main
task, `at[s]` that of a scenario's task, and a task runs alone from one await
to the next.

* The pool: `Lease` deducts what a guest is charged (`Effective`, the clamp) or
  puts the task to sleep; `Release` gives it back and wakes all sleepers.
* A scenario: `CreateEnds`, `PollEnds`, `DeleteEnds` (deletevm, the backstop and
  the release). A process takes effect when it ends; one that fails, or is killed
  at its timeout, may have done any part. A `createvm` whose task has gone, or
  the `virt-install` it started, may go on (`CreatevmGoesOn`).
* `Interrupt`, `CancelTasks`, `CloseLoop` are what asyncio makes of Ctrl-C: the
  first cancels the main task and with it all scenarios; `gather` fails with the
  first of them that ends, and closing the loop cancels the teardowns again
  (`RunCancelled`); a second Ctrl-C ends the loop at once. This is taken from
  how `asyncio.run` and `gather` are documented to behave.
* `Confirm`, `RunEnds`, `LoopCloses`, `List`, `Reap`, `Reaped`, `Sweep` are `_run`
  and the `finally` of `main`.

`excused` and `late` are history: guests whose teardown could not be had whole,
and what the final reaping failed on or a surviving process made after it.

### OneoffVm

`createvm` from `_check_vm_preconditions` on: `CheckDir`, `CheckVm`,
`EnsureImage` (a download of any length), `MkDir` (`exist_ok=False`), then
`_provision_vm` as `Render`, `Copy`/`CopyEnds`, `Resize`, `Install`/
`InstallEnds`, and `Cleanup` for the errors the command handles. A `--disk-size`
that cannot be parsed is a `ValueError`, which it does not handle: `Resize` may
end without a clean-up. `virt-install` may fail after it has defined and
started the domain.

`deletevm`: `Exists`, `HasSnapshots`, the two prompts `Tier1` and `Tier2` (with
`--force`, and `--force --snapshots-too`, as agreement given in advance),
`Destroy` (whose failure is ignored, though not its timeout), `Undefine`,
`UndefineMetadata`, `RmTree`.

Commands of one kind may overlap, in any number. A `createvm` that overlaps a
`deletevm` of the same name is left out. `SnapshotsRace` says whether a person
may take a snapshot while a `deletevm` is under way.

### SmokeRun

A case is its position in the manifest, `main` the place of the main thread in
`run_smoke`, `at[c]` the place of the worker of a case in `_run_case`.

* The plan. `Place(c)` is one turn of the loop of `plan_batches`: `IsNext` is
  the stable sort by cost, `Room` the bins a case still fits, `AddTo` and
  `AddBatch` the two outcomes. With `--batch-size` the same action cuts chunks
  in the order of the manifest (`_chunk_fixed`). `BudgetOf` is the budget.
* Before the batches: `Preflight`, `Planned`, `Confirm`, `Refuse` (the checks and
  the user, as choices; `ShouldConfirm` is the question), then `List` and
  `ForceDestroy`, which reap what an earlier run left. A list that fails is
  read as an empty one, as in the code.
* The batches: `Submit`, `Submitted`, `BatchOver` (all workers of the batch have
  returned; an exception of one of them leaves `_run_batches`), `PoolExit` (an
  exception waits for the pool on its way out), and `Leave`, which computes
  the stragglers from the published phases. `ForceDestroy` and `Finish` are the
  `finally` of `run_smoke`.
* A worker: `Up`, `Boot`, `Verify`, `Down`, `Destroy`; a phase is published with
  the step that begins it. Each of the three `lvlab` processes a worker starts
  is one action, which takes effect when the process ends; what happens inside
  is `LvlabMachine`. `Raise` is an exception out of a worker.
* `Interrupt` is Ctrl-C: it raises in the main thread, wherever that is, and
  strikes every `lvlab` process that runs (`struck`), as they share a terminal.
  A call that was struck may fail with no fault counted.

`unreaped`, `fresh` and `overlooked` are history: the cases whose last destroy
did not remove their domain, those whose domain this run defined, and whether
the list of leftovers failed. No action reads them.

### ImageCache

The cache is a function from the files there are to versions; a file that is cut
short or mixed from two versions counts as version 0. Two images may share a
keyring, and then share its path: `PathOf` is `CloudImage.__init__`.

* A worker of the pool: `Take`, then `Look` and `Get` for the image, the keyring
  and the checksum file, in that order (`Advance`), `Gpg`, `Sidecar` (the text
  of the `.verified` file, after it was truncated), and `Hash`.
* `Get` is a whole download, with the outcomes that `ImageDownload` reaches
  request by request: `Fetched` (`CachedFile`), `CutShort`, `Incomplete` (logged, and the worker goes on), `Unreachable`
  (an `ImageError`, which ends the worker), `Vanished` (the rename finds no
  file: the worker raises). Two downloads of one file meet in one `.partial`;
  their workers are `raced`, and what they put in place is whole or mixed.
* `noisy` are the images an error was logged for. `_init_image_worker` returns
  success after most failures, so a line in the log is all a user has.
* Cleaning: `CleanScan` computes what is to be removed from a manifest, its
  comments and the backing files of disks. These are looked up on a best effort:
  a disk that `qemu-img` cannot read, such as that of a running guest, which holds a
  lock on it, is taken to have none, and disks outside the manifest's basedir are not
  looked at. So `CleanScan` finds any subset of those the manifest's disks have
  (`disks`); one that it misses may be removed, also under a running guest, and
  what it has found is remembered (`backing`). `CleanRemove` and `CleanPartial`
  remove one file at a time, an image before its sidecars (`SidecarsOf`) and
  otherwise in any order, beside a running `init`. The
  partial file of a worker may be removed under it, which makes it `raced` too: a
  tail is then written to a new file, and where the reply has no length to check,
  that is renamed.
* `Kill` ends `init` anywhere, `Publish` moves the mirror on. The keyring does not
  change upstream.

`disturbed` is history: whether a cleaning removed files since `init` started.

### StaticBands

The preflight check of `smoke` that keeps static addresses out of the DHCP range
(`Check`), and the bands of free addresses its message advises, computed as the
code does: `Scan` is one turn of the loop of `_compute_free_static_bands`, which
ends a band (`EndBand`), begins one (`BeginBand`) or goes on (`Pass`), and
`Report` what follows the loop. Addresses are numbers. A network that does not
declare its gateway or netmask has no subnet (`NoNetwork`), and gets no bands.
The reference is another part of the code: `Valid` is `validate_static_ip`,
which `createvm` applies to an address. The user has the two remedies of the
message, `Move` and `Narrow`, and runs `smoke` again.

## 3. The runs

| Run | Instance | Shows |
|---|---|---|
| `machine_seq` | 1 process, 6 commands, 3 faults, copied disks | `MachineInv`, `NeverUndefineLive`, `FilesStay`, `DestroyHonest`, `GuestDataKept`, `ImplementsContract` hold |
| `machine_pair` | 2 processes, every command but `up`, 2 faults | `CalmInv`, `NeverUndefineLive`, `FilesStay` hold when commands interleave |
| `machine_repeat` | 1 process, `up` and `destroy`, 3 faults, backing files | `DestroyWorks`, `UpBoots` hold under fairness |
| `machine_race` | 2 processes, `up` and `destroy`, no fault | `NeverUndefineLive` is violated |
| `download` | 1 downloader, 2 versions, cleaning, any framing and encoding, 3 faults | `DownloadInv`, `KeepsPromise` hold, and `Fetched` under fairness |
| `oneoff_create` | 2 processes, both commands, 3 faults | `OneoffInv`, `BootsWhole`, `StorageKept`, `ConsentKept` hold |
| `smoke_run` | 3 cases of 2 sizes, leftovers, 1 Ctrl-C, 1 fault | `SmokeInv`, `MemoryFits`, `BootsFresh`, `EndsClean` hold, and `Terminates` under fairness |
| `cache_init` | 2 images, a shared keyring, 2 workers, 2 versions, cleaning, 1 fault | `CacheInv`, `QuietMeansVerified`, `InUseStays` hold, and `Converges` under fairness |
| `static_bands` | subnets of up to 8 addresses, any gateway and DHCP range, 2 machines | `BandsInv`, `AdviceExact` hold, and `AdviceWorks` under fairness |
| `harness` | 3 guests, one too large, 1 check, 2 Ctrl-C, 1 fault | `HarnessInv`, `MemoryBooked`, `AdmittedAlone`, `DomainIsLeased`, `AllSwept` hold, and `HarnessEnds` under fairness |
| `plan` | 2 machines, 4 places, 4 networks, 9 options, 1 key | `PlanInv`, `LayersRank`, `NoSharedAddress`, `LoginKept` hold |
| `plan_resolver` | 1 machine, 1 place | `StaticResolves` is violated |

The violated properties are what a comment or a docstring says of the program;
the findings in `PROJECT.json` quote it. In short:

* `destroy` and `up` of two processes can undefine a running machine and remove
  its disk: the state is checked one call before the undefine.
* The version 1 template of the network-config gives a static guest without
  search domains no resolver, on a NAT network, where docs/one-off-vms.md
  promises the gateway as one.

More disagreements, and behaviour a reader should know of, have no run of their
own. The models have the steps of the first group:

* A copy of the base image that failed or was killed stays at its final path, and
  the next step boots it (`utils/vdisk.py:178`).
* A download is resumed by length alone: after the mirror has published, old head
  and new tail are renamed to the destination (`utils/images.py:313`; the
  docstring at 369-371 promises otherwise). `steady` excuses it.
* `deletevm` looks for snapshots before its prompt and trusts that look after it:
  with `SnapshotsRace = TRUE` in `oneoff_create`, `ConsentKept` is violated. It also
  takes every failure of `virsh destroy` for "already off", undefines the machine
  that runs on and removes its disk. An undefine that was carried out but
  reported as failed ends it before the directory is removed, and the next
  `deletevm` refuses (`scripts/deletevm.py:209`).
* A `--disk-size` that cannot be parsed leaves the directory behind
  (`scripts/createvm.py:1150`).
* With `UriInManifest = FALSE` (a manifest without `libvirt_uri`) `UpBoots` fails:
  `up` passes `None` to `poweron`, and a machine it created can never be started
  again.
* A second Ctrl-C in `smoke`, while the pool waits for its workers, starts the
  reaping beside them; with a failing call a domain is left (`smoke.py:1748`).
* `images clean --force` removes the base image of a guest, also of a running one,
  when its manifest does not name the image and the look-up of backing files misses
  the disk (`utils/images.py:926`): "the cleanup command will never pull a
  backing file out from under a live disk" (lines 820-821) holds for those it finds,
  as the best effort announced there. `InUseStays` and `CleanInv` say no more.
* A blank `dns` of a bridge in a config file passes both checks for a resolver, and
  the guest is made with an empty one (`config.py:574`, `utils/network.py:401`,
  `scripts/createvm.py:783`). `PlanInv` says that this is the only way to a bridge
  without a resolver.
* A checksum file and an image of different versions are BAD in every later
  `init` (`utils/images.py:568`); a keyring without a checksum file ends a worker
  in a `TypeError` (`cli.py:1123`).
* The harness waits for ever when its budget is 0, in a dry run too: with
  `Available = Reserve` in `harness`, `HarnessEnds` is violated (`pool.py:72`; the
  docstring at 46-48 says that it cannot deadlock).
* A static address is compared with the first DHCP range of its network, and an
  `--ip6` address with a network the NIC may not be on; without these two
  excuses `NoSharedAddress` fails. An override without users drops the keys that
  the guard counted; without that excuse `LoginKept` fails.

And these are outside the models, or carry no property:

* `__main__.py:108-112` looks for leftovers of a prior run by a prefix that is new
  with every run, so it never finds any.
* A bridge is refused without a gateway and a resolver with DHCP too
  (`utils/network.py:400-405`), although `scripts/createvm.py:788` advises
  "--ip4 NETWORK" for DHCP on it. Likewise for IPv6.
* `--ip4 NET,2001:db8::5` is taken for an IPv6 address (`scripts/createvm.py:516`);
  the gateway's own address passes the check of a static one.
* `--ip6 dhcp` fails on a NAT network without IPv6, although it is said to be the
  same as no `--ip6`.
* An image of the config without `image_url` ends `createvm` in a traceback
  (`utils/catalog.py:233`).
* `smoke` finds leftovers by their domain: a disk whose domain is gone is used by
  the next `up` of the case (`smoke.py:1558`).
* A `deletevm` removes a directory that a `createvm` of the same name may have made
  after the undefine (`scripts/deletevm.py:214`); two `up` of one machine can boot
  a disk that the other is still copying (`utils/libvirt.py:1182`).

### Bounds

* Processes: properties of one command at a time need one; two are enough for a
  check and its use to be separated by anybody else's step. The proofs remove
  the bound where it could hide something: `OneoffVm` is proved for any number.
* `MaxFaults` counts failing calls and kills. Three let a command fail, the one
  that repairs it fail, and a third be killed; in `download` they use up the
  attempts of one download (`_MAX_ATTEMPTS` is 3). The proofs hold for any value.
* One snapshot name is enough to forbid an undefine; two disks to have one that
  is done while the other is not.
* Lengths 3 and 2: a partial file can be empty, in the middle, complete, or
  longer than the newer version. Encoded lengths differ from both.
* Three inodes: the destination, a partial file, and the one still open.
* In `oneoff_create` processes are interchangeable, and declared symmetric;
  only safety is checked there.
* Three cases of cost 1 or 3 with a budget of 2 make a batch that is filled to
  the last, one that a case does not fit any more, and one case that is too
  large; three batches can follow each other, and one worker can end while
  another is anywhere.
* One Ctrl-C in `smoke_run`: a second, while the pool waits for its workers,
  starts the reaping beside them, and with a failing call a domain can be left
  (section 3).
* In `cache_init` two images are enough for two workers to meet at the keyring
  they share, and for one to be verified while the other is not. The image with
  a checksum takes every step; the other has a keyring and no checksum file, the
  entry that ends a worker in a `TypeError`. Two manifests to clean from name
  only the image without one; the image with a checksum is mentioned in a comment of one, and is
  the backing file of a disk of the other. So it stays because of the comment, or
  because it is found, or goes because it is missed; its checksum files stay or go;
  and the keyring, which both images share, stays. One fault is a kill
  between any two steps, one failing call, one body cut short in silence, one look-up
  that misses a backing file, or one download hit by a cleaning.
* In `static_bands` eight addresses (`Top = 7`) leave room for three bands,
  between the ends, the gateway and the range; the subnets are all the aligned
  blocks of one, two, four and eight. Two machines may clash together or alone,
  and end on one address, which the code does not look at.
* In `harness` two guests fit together, though not with the third, which is
  larger than the budget and clamped to it; one check with one place for checks.
  Two Ctrl-C reach every phase; one fault is a failing call or a process that
  lives on.
* In `plan` the networks are one NAT with both families, one with two ranges and
  IPv4 only, a bridge, and a mode that is refused; the files say nothing, set a
  default network and a bridge's gateway, its resolver, an empty section, and its
  gateway and resolver blank with a null search domain, in any order over four
  places. Two machines let one be
  leased what the other has. Machines are interchangeable; only safety is checked.
* Deadlock is checked except in `download` and `harness`, which really end.

### Fairness

`FairSpec` of `LvlabMachine`: a started command makes its calls (weak fairness
of `Step`: nothing in a command waits, and every call has a timeout or ends); a
user who wants something issues the command again (weak, per command) and
confirms in the end (strong, as a prompt is open only now and then); a guest
that is being shut down powers off (weak). Faults are bounded, so they stop.
`FairSpec` of `ImageCache`: every worker gets on (its calls end), and the user
starts `init` again when it has ended; a cleaning need not go on. `Converges`
asks that the mirror publishes nothing, that no two workers ever download the
same keyring at once, and that no file that is put in place is mixed or cut short:
a file that exists is never downloaded again, so a spoilt keyring, or a checksum
file of another version than the image, stays until somebody cleans the cache.
`FairSpec` of `SmokeRun` is weak fairness of the main thread and of each worker:
every process the run starts ends, and every poll has a number of tries. It
asks nothing of a guest, which may shut down for ever.
`FairSpec` of `ValidateRun` is weak fairness of every task and of the main task:
all its processes have a timeout, its polls are bounded, and the loop runs what
is ready. The user need not answer the question, nor a process that lives on
take any step.
`FairSpec` of `StaticBands`: the check is run again, the loop goes on, and the
user gives every machine that clashes an advised address in the end (strong, as
the bands are there only after a check that failed).

Which command is repeated is left to the user: both properties begin with
`<>[]OnlyRepeats(c)`, so that a user may do anything first, and then keeps to
one command. Nothing is assumed of a guest that runs. `FairSpec` of
`ImageDownload` is the same for a download and for the user who asks again.

`DestroyWorks` is checked for guests that run, pause, crash or shut down. With
`GuestStates = {"pmsuspended"}` it fails: `_force_off_if_alive` forces off only
running and paused domains, and `destroy` undefines only dead ones. That
limitation is listed with the hazards.

Every property that holds has a mutant in `PROJECT.json`: a definition changed
the way a plausible bug would change it, under which the property fails.

## 4. The proofs

TLAPS checks every leaf; the backends used are SMT, Zenon and PTL. Assumptions
are the named ones on the constants and, for two modules, that one process runs
(`Procs = {me}`), which is how those theorems say "one command at a time", or that
a command is not among those the processes run (`"up" \notin Commands`).

**`LvlabMachine_proofs`** (any snapshots, commands, guest states, strategy, number
of faults). One command at a time:
`SequentialSafety` (`Spec => []MachineInv`), `SequentialUndefine`,
`SequentialFilesStay`, `SequentialGuestData`, `SequentialContract`,
`SequentialDestroyHonest`. Any number of processes, in any interleaving:
`ConcurrentCommands` (`Spec => []CommandsInv`, with every command); and, as long as
nobody runs `up`, `ConcurrentCalm` (`Spec => []CalmInv`), `ConcurrentUndefine`,
`ConcurrentFilesStay`, `ConcurrentGuestData`, `ConcurrentContract`; and
`ConcurrentDestroyHonest`, as long as nobody runs `up` or `cloudinit`.

`MachineInv` is inductive. The properties are not by themselves: whether an
undefine is safe depends on what the process saw two calls ago. `ControlInv`
says what a process may rely on at each label, and `DomainInv` and `DirInv` what
is true of the machine between any two steps. The proof splits `MachineInv` into
`WorldInv` and `ProcessInv` (`Halves`), proves each kind of step keeps its half
(`SameWorld`, `SameFiles`, `PutWorld`, ...; `FinishInv`, `GotoInv`, `ArriveInv`)
and then goes through the actions. For the action properties and the
refinement, `StepKinds` first classifies every step as one that writes files,
removes files, changes the domain, or deploys; each theorem then follows from
the four kinds. The refinement maps initial states to initial states
(`ContractInit`) and every step to a step or a stutter (`KindContract`).

With several processes `ControlInv` is false in parts: what a process has seen may
no longer hold when it acts, which is what `machine_race` shows of `up`. The proof
keeps the parts that survive. `CommandsInv` is what no interleaving can touch:
each process is where its own command may be (`PhaseInv`, `Belongs`), and the
directory is there as long as it holds a file. `CalmInv` adds `CheckInv`, the checks
that `destroy` relies on: without `up` no step makes a domain live or brings one
back, so a check that was true stays true. `ClearInv`, what a `destroy` has visited
stays removed, needs in addition that nobody writes to the directory, hence
the exception of `cloudinit` in `ConcurrentDestroyHonest`. The last part, `WriterInv`
(the disk being written is the one that was opened, and of no machine), is about
`up` itself. The classification of steps into kinds
(`MachineStep`) does not depend on the number of processes, so each theorem has the
same second half in both cases.

**`ImageDownload_proofs`**: `TypeCorrect` (any number of downloaders) and
`LoneDownload` (`Spec => []DownloadInv`) and `LonePromise` (`Spec => KeepsPromise`)
for a lone downloader, any versions, length, faults and kinds of reply. The invariant relates the open file, the range that
was asked for and the reply being received: at each write the file ends where the
reply continues. All of it holds only while the download is `steady`; each action
either keeps `steady`, and then the relation, or gives it up. The refinement
needs more than `DownloadInv`, as the promise also speaks of disturbed
downloads: every block on disk or on its way is of a version that was published
(`FromMirror`, which any number of downloads keep), so a file is a whole copy of a
published version or of none (`VersionOfWhole`); and there is no file at the
destination while the downloader is busy (`Vacant`), so that it is put there once.

**`CreatevmPlan_proofs`** (any files, places, networks, options, keys, machines):
`PlanCorrect` (`Spec => []PlanInv`), `SettingsRank`, `AddressesApart`, `LoginIsKept`.
`PlanInv` carries from the settling of each leg to the guest that what was settled
was compared with a network; `NoSharedAddress` then follows, as a lease is from a
range the address was kept out of. An empty resolver is carried along with the file
it is from (`BlanksBacked`). For `SettingsRank` the relation `Ranked`
between the files read and the merge is shown to survive one more file: it is the
last of them, so it decides what it speaks of and leaves the rest.

**`ValidateRun_proofs`** (any scenarios, costs, budget, failures, Ctrl-C):
`HarnessCorrect` (`Spec => []HarnessInv`), `MemoryIsBooked`, `PoolNeverStuck`
(`Spec => []AdmittedAlone`), `DomainsAreLeased`, `NothingIsLeft`. A sum over a set of guests would take an induction, so the sum is
a constant function, `Load`, of which `LoadAssumption` asks that it adds up over
disjoint sets; the instance defines it as the sum, and TLC checks the assumption.
`PhasesAgree` is the strengthening.

**`OneoffVm_proofs`** (any number of processes and faults): `OneoffSafety`
(`Spec => []OneoffInv`), `OneoffBootsWhole`, `OneoffStorageKept`, and
`OneoffConsentKept` when no snapshot is taken during a `deletevm`. The
strengthening is that a directory belongs to one provisioner: `MkDir` finds no
directory, hence no disk (`disk # "none" => dir`) and no other process past its
own `mkdir` (`OneProvisioner`), and nobody removes it until that process ends.
`CreateStep` and `DeleteStep` say once what a step must satisfy to keep the
invariant of all the other processes; each action is then shown to satisfy it.

**`SmokeRun_proofs`** (any number of cases, any costs, budgets, batch sizes,
leftovers, failures and interrupts): `SmokeSafety` (`Spec => []SmokeInv`),
`SmokeMemoryFits`, `SmokeBootsFresh`, and `SmokeEndsClean` when Ctrl-C is pressed once at most,
which is the assumption the code needs: only while one exception is under way
does the pool wait for its workers before the reaper looks at their phases.
`SmokeMemoryFits` needs that a guest that is not excused belongs to the current
batch, whose memory is what was booked (`Charged`); what a set of cases costs
together is a constant, `Total`, that adds up over disjoint sets
(`TotalAssumption`). `PlanSound` is inductive over the loop of `plan_batches` (a batch, once too full
for a case, stays so, as it only grows). `EndsClean` needs `ControlInv` (a worker
past its teardown is exactly one with a terminal phase, and a worker that has
not returned belongs to the current batch) and `DomainInv` (a case that returned
was cleaned, or destroyed in vain). `WorkerKeeps` says once what a step of a
worker must satisfy; `WorkerInv` shows it suffices.

**`ImageCache_proofs`** (any images, keyrings shared in any way, manifests,
`--jobs`, versions, failures): `CacheSafety` (`Spec => []CacheInv`),
`CacheQuiet`, `CacheInUseStays`. `QuietMeansVerified` speaks of the end of a run;
`SeenTo` says what holds at each place on the way there of a worker that has
logged nothing, and with it `CacheInv` is inductive. `WorkKeeps` says once what a
worker may do: change its own place, add to what is shared, put a file of its
own image. `OthersSeenTo` shows that this leaves what other workers have seen to
(the only file they share is the keyring, and that is only ever added), and one
lemma per action shows it of the worker itself. `CacheInUseStays` rests on `CleanInv`
(what a running cleaning has yet to remove belongs to no image of its manifest, and
is no backing file that it has found) and `FreshInv` (an image that is being
downloaded is not there), so that no image is ever put a second time over a file
that a disk may have for its backing file. The proof needs the manifest
to be finite, for the size of the pool.

**`StaticBands_proofs`** (any subnets, gateways, ranges, machines, addresses):
`BandsSafety` (`Spec => []BandsInv`) and `BandsExact`. `BandsInv` is the invariant
of the loop: complete bands are free and end before a blocked address, the band
under way is free so far and begins after one, and no free address was passed
over. As the last address of a subnet is reserved, the loop never ends inside a
band: the branch of the code that would close one there is never taken. The
theorem rests on what libvirt enforces only in so far as the first address is
not behind the last.

Only model-checked: the liveness properties (`DestroyWorks`, `UpBoots`, `Fetched`,
`Terminates`, `Converges`, `AdviceWorks`, `HarnessEnds`), as the prover has no
fairness, nor `ENABLED`; and the mutants. That `Load` and `Total` are the sums they
are asked to be would take an induction: TLC checks it on the instances. Of several
processes with `up` among them only `ConcurrentCommands` is proved, as the rest
does not hold (`machine_race`).

## 5. Not modelled

* Texts: XML, tables, host files, messages, and cloud-init documents but for
  which addresses, resolvers and keys they carry.
* `run_virsh`'s own retries: a call here is what remains after them.
* Of static addresses: bands for IPv6, and two machines with one address, which
  the code does not look for.
* `Lvlab.yml` of the manifest commands, taken to be valid, and `hosts --append`.
* Of `createvm`: the dry run, passwords, memory and disk sizes, and the time
  between reading a network and attaching the NIC, in which it may change.
* Of the harness: which scenarios there are, what their checks look at, and the
  report.
* Of `init` and cleaning: a `checksum_type` that is missing or unknown, two
  images of one file name, two `init` at once, the dry run and the lock of
  `images clean` (which remove nothing), files that belong to no image, and
  the tables on the terminal.
* What the preflight of `smoke` looks at, its report, and the removal of the
  empty environment directory.
* A second `up` of the same machine at the same time, and a `createvm` beside a
  `deletevm`: possible with the code, and described in section 3.
* Scheduling inside libvirt and the contents of a guest.

## 6. Plan

Done: every module of section 2, and their proofs. What would add most next:

1. `Virsh`: the retry loop of `run_virsh`; a verb is not repeated after it may
   have been carried out unless it is safe to. Then `Call` of `LvlabMachine` as
   its abstraction.
2. Abstract specifications: the promise of a smoke run, and of `createvm` and
   `deletevm` together.
3. `OneoffVm` with a `createvm` beside a `deletevm` of the same name: what is left of
   `BootsWhole` and `StorageKept` there.
4. The manifest: `Lvlab.yml` with its defaults, and `hosts --append`.

A new run takes the place of one that answers a question less worth asking.
