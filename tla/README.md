# Verification of NuttX applications in TLA+

The repository is a collection of applications and libraries for the NuttX
operating system. There is no single program: the parts share the operating
system and little else. This project models the parts whose correctness hangs
on interleavings, crashes, lost messages and partial failures, one at a time:

- the bootloader `boot/nxboot`, which must leave a board bootable however often
  power fails;
- `system/settings`, which keeps an application's settings across reboots;
- the TFTP client `netutils/tftpc`;
- the DHCP server `netutils/dhcpd` and the DHCP client `netutils/dhcpc`, composed;
- the file transfer `system/ymodem`, sender and receiver composed;
- the Modbus slave on a serial line, `modbus`.

Apart from server and client of DHCP, and the two programs of YMODEM, the parts do
not interact.

## Inventory

| Part | State | Operations | What makes it hard | Status |
|---|---|---|---|---|
| `boot/nxboot` | three flash partitions, header magics | update, revert, confirm, download | reset between any two writes, torn sectors, roles deduced from headers | modelled, proofs |
| `system/settings` | map, hash, pending flag, storages | create, set, get, load, save | save timer racing setters, crash in a save, several storages | modelled in part, proofs |
| `netutils/tftpc` | block number, retry count | get, put | lost, late and repeated packets | modelled, proofs |
| `netutils/dhcpd`, `dhcpc` | leases, client state | discover, request, renew, cancel | two clients, two servers, expiry, retransmission | modelled in part, proofs |
| `system/ymodem` | sequence number, retries, writer thread | send, receive | noise, lost replies, numbers that wrap | modelled in part, proofs |
| `modbus` slave | receiver, sender, event queue | API, timer and serial callbacks | callbacks between the steps of the poll loop, a queue of one place | modelled in part, proofs |
| `modbus` master | the same and a retry state | as the slave | as the slave | left |
| `netutils/ntpclient` | daemon state, samples | start, stop, poll | start and stop from two tasks | left |
| `netutils/ptpd` | best master, timestamps | announce, sync, delay | timeouts, two-step messages out of order | left |
| `system/nxplayer` and relatives | buffer queue, player state | play, pause, stop | thread and driver messages crossing | left |
| `logging/nxscope` | sample buffer, stream state | put, stream, stop | writers racing the stream thread | left |
| `netutils/netinit` | link state | signal, poll | signals between checks | left |

`PROJECT.json` lists the remaining parts with the reason they are left out:
imported libraries (`graphics`, `system/libuv`, `interpreters`, most of
`crypto`), demonstrations and tests, and parts that mostly parse and format.

What is left to do, in this order: failing file operations and the block layout
of `save_bin` in `system/settings`; the start and stop of `dhcpd`; the parts marked
"left" above.

Throughout, TLC checks small instances and TLAPS proves theorems for every value
of the constants. Liveness under fairness, ENABLED and RECURSIVE operators are out
of the prover's reach and stay with TLC. (No module uses RECURSIVE.) The library's
induction theorems take an operator as a parameter, which the provers cannot
instantiate; where a proof needs an induction over a sequence or a number, the
module proves one for sets of numbers from the least-element theorem (`UpTo` in
`SettingsDataProof`) and uses recursive functions. Where a property is proved, it is
either also checked by a run or, if it is a type invariant or an auxiliary one,
left to the proof.

## The bootloader

### System

The flash has a primary partition, from which the board runs, and a secondary
and a tertiary one. One of those two holds an update, the other a recovery, a
copy of a confirmed image. No variable in flash says which is which:
`nxboot_get_state` deduces it from the header magics, from the recovery pointer
in the primary's magic and from the CRC fields. `nxboot_perform_update` either
installs an update, after saving the primary image as recovery, or reverts to
the recovery. The running application downloads images into the update
partition (`nxboot_open_update_partition`) and confirms itself
(`nxboot_confirm`). A reset may come between any two flash operations or within
one.

### Modules

| Module | Models | Correspondence |
|---|---|---|
| `NxFlash` | `loader/flash.c`, header layout of `include/nxboot.h` | a partition is a magic and the image each block belongs to |
| `NxBootState` | the reading half of `loader/boot.c` | one operator per function or decision, of the flash contents |
| `NxBoot` | the writing half of `loader/boot.c`, `nxboot_main.c`, the application | `pc` is the place in `nxboot_perform_update` and `perform_update`, `idx` the offset in `copy_partition`, `st` the `struct nxboot_state`, `conf` and `dl` the application's tasks |
| `NxBootAbs` | what the bootloader promises | the current image changes in one step |
| `NxBootProof` | theorems and proofs | |
| `MCNxBoot` | image sizes and versions for TLC | |

One action is one flash write or one decision between writes. `CopyBlock` is an
iteration of `copy_partition`; `ConfirmBlock` one of `nxboot_confirm`.
`Reset` is a reset with any cause, `check_only` being chosen as `main` does.
Two variables record history for the properties and are read by no action:
`good`, the images the application asked to confirm or the board came with, and
`offered`, the images downloaded.

### Abstractions

- A block is the image it belongs to. Two headers have equal CRC fields iff
  block 0 is from the same image; CRC collisions are left out.
- The code writes blocks without erasing them, so the driver below has to
  rewrite the erase sector. A reset within a write leaves the block written or
  not, and may lose any blocks of that sector (`Lose`); a lost block reads as erased, and losing block 0 loses the
  magic. A page is programmed entirely or not at all.
- Failures to open a partition, to read it, to query its geometry or to
  allocate a buffer are left out. So are partitions of different geometry and
  images larger than a partition.
- The application runs only from a complete image. It confirms and downloads
  in two tasks that may interleave; it may download any image, also a foreign
  one, at any time, and abandon a download.
- `WriteErrors` says whether writes and erases may report errors.

Nothing is counted: resets, downloads and confirmations are unbounded.

### Runs

| Run | Configuration | Shows |
|---|---|---|
| `nxboot` | images a, b and a foreign x, 2 blocks, sectors of 1 block, downgrade prevention, `check_only` boots, `FairSpec` | every boot ends in a complete image, the flash is always recoverable, the two ways to ask for confirmation agree, reverts go to trusted images, refinement of `NxBootAbs`; boots end, no update loop, an install once begun is carried through |
| `nxboot_errors` | a and b, 3 blocks, sectors of 2 blocks, write errors | a complete image stays within reach in spite of write errors |
| `nxboot_confirmed` | 3 blocks, sectors of 2 | violation: a reset before the update is erased counts as confirmation |
| `nxboot_downgrade` | same, downgrade prevention | violation: an older image replaces a newer one |

Bounds. The decisions compare an image with two others, so two images and a
foreign one give every outcome of the comparisons. Image b is one block shorter
than a, so a copy of b over a leaves a tail of a. With 2 blocks a copy has a
first and a last block; with 3 blocks and sectors of 2, a confirmation takes two
writes and a sector holds the header and data. The proofs lift the bounds for
the safety properties.

Fairness. `FairSpec` assumes weak fairness of the bootloader's actions together:
the bootloader is the only task running and waits for nothing. Nothing is
assumed of the application or of resets; the liveness properties speak of
behaviours in which resets, or resets within a boot, come to an end.

Under downgrade prevention `compare_versions` is false for two equal versions,
so `get_update_type` would install the same image again: the erase of the first
sector is what `NoUpdateLoop` depends on there.

### Proofs

`NxBootProof` proves, for any images, sizes, partition and sector geometry,
versions and options allowed by the assumptions `FlashAssumption`,
`StateAssumption` and `BootAssumption`:

- `TypeCorrect`: no copy leaves its partition;
- `AlwaysRecoverable`: with or without write errors a complete image is in the
  primary or within reach of the next boot;
- `BootsValidImage`: without write errors every boot ends in a complete image;
- `TrustedRevert` and `ConfirmAgreement`;
- `Refinement`: the bootloader implements `NxBootAbs`.

All follow from `Invariance`, that `IInv` is inductive. `Recoverable` alone is
not: that an interrupted copy can be repeated depends on what the headers say
about the other partitions. `IInv` adds `Provenance` (what a magic tells about
where an image came from, and that two internal partitions occur only beside a
complete internal primary), `Tasks` (confirmation and download run from a
complete image and touch only the other partitions) and `Control` (at each `pc`,
what `st` and the blocks copied so far have to do with the flash). There is a
lemma for each action; the flash writes share lemmas on what a write, torn or
not, does to a partition that is not valid, and on what keeps the roles of the
partitions.

Only model-checked: the liveness properties (fairness and ENABLED are out of the
prover's reach).

### Disagreements between comments and code

The two violation runs state what a comment or the configuration help says.
`PROJECT.json` quotes the lines and describes the traces. Two more were met while
modelling and have no run:

- a recovery may get the magic of an update: `copy_partition` (`boot.c:159`)
  inverts the kind of the magic, and a recovery made of an internal primary is
  marked like a downloaded image;
- after a failed write there may be no valid image in the primary when
  `perform_update` goes on (`boot.c:386`); `EndsWithValidImage` and
  `BootsValidImage` therefore exclude write errors.

None of these leaves the board without a recoverable image: `AlwaysRecoverable`
holds throughout.

### Not modelled

`flash_partition_erase` (a bulk erase) is called nowhere in the loader. The
image tool `tools/nximage.py` runs on the host.

## The settings

### System

An application keeps settings, typed values under keys, in a table in memory
(`map`). Its files, the storages, are binary or text. `settings_setstorage` and
`settings_sync` load files into the map, a later storage overriding an earlier
one. `settings_create`, `settings_set` and `settings_clear` change the map and
call `save`, which sets `wrpend` and starts a timer; when it expires, a thread
runs `dump_cache`, which writes all storages. Without
`CONFIG_SYSTEM_SETTINGS_CACHED_SAVES` the caller runs `dump_cache` itself. One
mutex protects everything. Registered tasks get a signal when a value changes.

### Modules

| Module | Models | Correspondence |
|---|---|---|
| `SettingsData` | setters and getters of `settings.c`, formats of `storage_bin.c` and `storage_text.c` | an entry is a key, a type and a value; a file is a sequence of entries or of lines |
| `Settings` | calls, timer thread, storages, resets | `map`, `hash`, `wrpend`, `nstore` and `notify` are the code's variables; `dump` is the place in `dump_cache` and `save_fn` |
| `SettingsDataProof` | lemmas about the map and what loading a file makes of it | |
| `SettingsProof` | theorems and proofs: types, notifications, files and the steps of a save | |
| `SettingsRebootProof` | theorems and proofs: what a reset finds, what a call returns | |
| `MCSettings` | values and storage orders for TLC | |

A call is one action, enabled while `dump_cache` does not hold the mutex; its
wait for the save is `WaitDone`. Saving a binary file takes two steps (truncate,
write), a text file four (truncate the backup, write it, remove, rename), with a
reset possible before each. Calls that fail change nothing and are not actions;
their return codes are the operators `SetRet` and `CreateRet`.
`asked` and `saved` are history, read by no action.

### Abstractions

- `hash` is the map that was hashed: collisions of the CRC are left out. The hash
  of the zeroed map is 0, as `settings_clear` assumes.
- Strings are model values of the kinds `load_text` tells apart: `true`, `false`,
  dotted addresses, the empty string, others, and strings a setter rejects.
  A float counts units of 10^-7, so that the six decimals of `save_text` round,
  and reading it as an integer cuts off towards zero.
- A text file can be parsed again only as far as `Parse` says: types are guessed
  from the text.
- A file is absent, intact or torn; only a binary file can be torn, which its CRC
  shows. A partly written backup is modelled by the empty one: it is never used
  while the file exists (`TextKept`). The file system keeps the order of write,
  remove and rename.
- Builds without assertions. The application calls `settings_setstorage` before
  it creates settings (`readme.md`), and the files exist: `save_bin` creates none.
- `settings_setstorage` stores the hash after a save that is not cached; the model
  stores it in the same step, a difference only `settings_hash` could see.
- One notification thread of the timer at a time.

Calls, saves and resets are not counted; the state is finite by the sets of
keys, values and threads.

### Runs

| Run | Configuration | Shows |
|---|---|---|
| `settings` | text then binary, 2 keys, cached saves | type invariant and shape of the map, backup of the text file, reboots change nothing that was saved, a reset in a save leaves old or new values |
| `settings_text` | text only, 3 keys, map of 2, values of every type, saves not cached | saves are atomic for all settings together, what was stored is read back |
| `settings_threads` | text then binary, 1 key, 2 threads, 2 signals, `FairSpec` | no forgotten save, signals on every change, everything saved in the end |
| `settings_two_storages` | binary then text | violation: two resets lose a stored setting |

Bounds. Two keys give old and new values side by side in a save; a third key with
a map of two fills it. Two storages are what the order of loading and saving can
tell apart. Two values are enough for a change and a change back. Two threads let
one wait while the other changes settings; more than two only repeat this.

`CrashAtomic` depends on the order: it holds for text then binary, and fails for
binary then text (run `settings_two_storages`), because the binary file is
truncated while the text file may be out of date. It also depends on room for all
keys in the map: with three keys, a map of two and cached saves TLC finds a boot at
which a setting of the binary file does not fit beside those of the text file, and
which comes back after the next interrupted save, when the text file has fewer.

`RebootKeeps` fails for a binary storage alone with cached saves: a timer that was
set again while `dump_cache` ran makes it save once more with `wrpend` clear, and
a reset within that redundant save finds the file truncated.

Fairness. `FairSpec` assumes weak fairness of the timer, of the thread that saves
and of each polling thread. `EventuallySaved` speaks of behaviours in which
changes and resets end, because each change sets the timer anew.

### Proofs

From `MapAssumption` and `SettingsAssumption`, for any keys, values, threads,
storages in any order and both save modes:

- `HashIsCurrent`: the hash is that of the map;
- `SaveIsComing`: while `wrpend` is set the timer runs or a dump is on its way,
  which is why the polling loops can end;
- `TextIsKept`: a text storage has its file or a backup, and the backup is
  rewritten only beside the file;
- `TypeCorrect`: the map keeps its shape;
- `ChangesAreNotified`: a step that changes a value sends the signals.

And, for values that a text file gives back (`TextFaithful`, which says nothing
if no storage is a text file):

| Theorem | Further assumptions | States |
|---|---|---|
| `RebootKeepsSettings` | none | `RebootKeeps`, in every state with the mutex free; in all states if the first storage is a text file or saves are not cached |
| `RebootKeepsAll` | first storage text, or saves not cached | `RebootKeeps` |
| `GetReturnsLastSet` | saves not cached | `GetReturnsSet` |
| `TextSaveIsAtomic` | one text storage | `SaveAtomic` |
| `CrashKeepsEachSetting` | text then binary, room for all keys | `CrashAtomic` |

Why they are there: values that a text file does not give back are in the list
below, as is what `settings_sync` does to a pending save. With a second storage a
reset between the two saves finds settings of both, which `CrashAtomic` allows and
`SaveAtomic` does not. The remaining ones are explained under Runs.

The first three follow from `Invariance`. `TextKept` is not inductive alone: that
the backup is rewritten only beside the file depends on what earlier steps and
loads left behind. `IInv` adds `TextFiles` (a configured text storage has its file
except between remove and rename, and has its backup from the write to the
rename), and strengthens `HashCurrent` to `hash = map` also while a save is in
progress.

The others rest on what loading computes. `SettingsDataProof` defines the shape of
a map (`Shape`) and proves by induction over the entries of a file that loading
keeps it (`LoadBinShape`), that a file written from a map gives that map back,
loaded first or over the map itself (`SavedHolds`, `LinesHold`, `Reload`), and
that otherwise the file's settings are laid over those of the map if there is
room (`Overlay`, by a pigeonhole argument in `RoomLeft`). `SettingsProof` and
`SettingsRebootProof` add the invariants

- `Typing`: shape of the map and kinds of the files, from which `TypeOK` follows;
- `Good`: every file that can be loaded was written from some map of settings that
  the storages in use keep as they are;
- `Work`: the storages that `dump_cache` is done with hold the map, its backup
  holds it before it replaces a text file, a save is asked for only once the
  storages are configured, and without cached saves `wrpend` is set exactly while
  the mutex is held by a save;
- `Settled`: while nothing is pending, the first storage gives the map and the
  others add nothing to it. This is `RebootKeeps` for the storages configured so
  far, and it is what `settings_sync` needs in order to change nothing;
- `Asked`: without cached saves the map holds what the application stored;
- `Before` and `OldBin`: until the text file is replaced a boot finds the last
  complete save, and until the binary file is truncated it has no setting that is
  not of that save.

`Known` collects the first four with `IInv`; its steps are proved once and used
for all five theorems of the table.

Only model-checked: `EventuallySaved` (liveness).

### Disagreements between documentation and code

`PROJECT.json` quotes the line and describes the trace of the violation run. More
places were met while modelling; most are a matter of one call, so no run is
spent on them:

- with cached saves `settings_sync` loads files that a pending save has not yet
  brought up to date, and so undoes a `settings_set` (`settings.c:922`);
- `settings_create` returns OK when the map is full and assertions are off
  (`settings.c:1172`);
- `settings_notify` returns OK when the table of signals is full (`settings.c:1004`);
- `settings_get` of a string that is no address as an IP address returns 0, which
  is the result of `inet_pton`, and writes nothing (`settings.c:510`);
- in a text storage the string `true` or `false` comes back as a Boolean, a dotted
  string as an address, an empty string not at all, and a float with six decimals.

### Not modelled

Failing file operations (`save_text` removes the file without looking at the
result of its writes, `storage_text.c:418`) and allocations, the first save to a
text storage without a file (`storage_text.c:358`), lines longer than the buffer, the block
layout of binary files, getters given buffers that are too small, `settings_type`
and `settings_iterate` (they change nothing).

## The TFTP client

### System and modules

`tftpget_cb` and `tftpput_cb` transfer one file over UDP. The server answers each
request from a new port, so a request that was sent again opens a second transfer
beside the first.

| Module | Models | Correspondence |
|---|---|---|
| `Tftpc` | `tftpc_get.c`, `tftpc_put.c`, `tftpc_packets.c`; the server is external | `pc` is the place in the loops, `blockno`, `retry` and `port` are the code's variables; one action per outcome of a receive |
| `TftpAbs` | what a transfer promises | blocks are stored in order, each once; success after the last |
| `TftpcProof` | theorems and proofs | |
| `MCTftpc` | the file for TLC | |

Abstractions. `net` is the set of all packets ever sent: a packet in it may arrive
never, late, again, or before an earlier one. The contents of a block are a model
value; two blocks of the file are equal, so contents do not give the number away.
Sending may fail. Storing the block number through the null pointer that
`tftpput_cb` passes for the first ACK (`tftpc_put.c:317`, `tftpc_put.c:235`) is
undefined: the program goes on, or ends there (`"crash"`). Failures before the
first packet (open, allocation, socket) and the layout of packets are left out.

### Run, bounds and fairness

`tftpc`: success is reported only for an intact file (`Intact`); a write goes to one
transfer of the server (`OneSession`); the transfer a file is read from is never
told to give up (`SessionKept`); refinement of `TftpAbs` (`Delivers`); the client
ends (`Terminates`). Four blocks give a first, two middle and a last block; three
ports allow two repeated requests; `BlockMod` is 5 instead of 2^16, one more than
the blocks, because of the limit below.

`FairSpec` assumes weak fairness of the client: `tftp_recvfrom` has a timeout, so the
client always goes on. Nothing is assumed of server and network. `Terminates`
excepts behaviours in which packets of other hosts or ports never stop coming,
since the code does not count those as tries.

### Proofs

`TftpcProof` proves for every file, retry limit and set of ports, from
`FileAssumption`, `PortAssumption`, `NumAssumption` and the hypothesis `SmallFile`
(fewer than `BlockMod` blocks): `TypeCorrect`, `TransferIntact`, `StoredOnce`,
`OneRequest` and `Refinement`. They follow from `Invariance`. `Intact` is not
inductive: that a block with the right number has the right contents depends on
all packets ever sent. `IInv` adds `NetInv` (a DATA packet in the network carries
the block of the file its number names), `ServerInv` (what a transfer of the server
holds, or has sent, is a prefix of the file) and `GetInv` and `PutInv` (how the
client's block number relates to what is stored). Only model-checked:
`Terminates`.

### Known limits

- The block number has 16 bits and the request is sent again whenever it is 1
  (`tftpc_get.c:156`): in a file of 2^16 blocks or more the port is forgotten in the
  middle, and a block of a new transfer may be taken for the awaited one. Hence
  `SmallFile`.
- After block 1 nothing is sent again on a timeout, and a repeated block is not
  acknowledged again (`tftpc_get.c:149`): one lost ACK fails the transfer, with an
  error.
- `tftp_rcvack` compares the port with itself (`tftpc_put.c:190`). `OneSession` and
  `TransferIntact` show that ACKs of other transfers do no harm.

## DHCP

### System and modules

`dhcpd` keeps a table of leases, one entry per address, and answers DISCOVER,
REQUEST, DECLINE and RELEASE. `dhcpc_request_async` starts a thread that requests an
address, reports it in a callback, sleeps for half of the lease and starts again
with a DISCOVER.

| Module | Models | Correspondence |
|---|---|---|
| `Dhcpd` | `dhcpd.c`: table and handlers | `leases` is `ds_leases` with the time left instead of the expiry; one action per handler and outcome. `granted` is history: the lease last acknowledged to a client |
| `Dhcp` | `dhcpc.c`, composed with `Dhcpd` | `st` is the place in `dhcpc_run` and `dhcpc_request`; `owned` is history: the address of the last callback |
| `DhcpProof` | theorems and proofs about `Dhcpd` and about `Dhcp` | |
| `MCDhcp` | what the other client sends | |

Abstractions. The segment keeps the order; a message may be lost, and one to the
server handled twice. Instead of `xid` a message has an age in requests, and none
grows as old as `XidMod` requests (the code's `xid` has one byte that counts). A
restart of the daemon loses its socket and its table, and takes place when its
replies have arrived. A tick of time is longer than a whole request of the client with all retries, and
longer than a restart of the daemon. The second server is external and offers one
address. The address that `dhcpc_request` sets on the interface meanwhile is left
out; so are leases stored through a mapping function, and the semaphores of
`dhcpd_start` and `dhcpd_stop`.

### Run, bounds and fairness

`dhcp`: no address has two owners (`OneOwner`); the address reported to the
application stays reserved from callback to callback, through a renewal whose
DISCOVER cuts the lease down to the time of an offer (`LeaseKept`);
`dhcpc_cancel` returns (`CancelReturns`). Two clients, one of them sending
anything, compete for two addresses with one between them that is never given out
(`Skip`), so the table is full when both have one. A lease of 5 ticks is more than
twice an offer of 2: the shortest times that satisfy `DhcpAssumption`, and
`LeaseKept` needs them. Two retries have a first and a last.

`FairSpec`: the thread is scheduled, `recv` has a timeout, time passes.

`OneOwner` speaks of leases acknowledged since the daemon was started: `dhcpd_run`
zeroes the table (`dhcpd.c:1535`), and nothing in this code protects leases of
before.

### Proofs

`DhcpProof` proves about the server, for every table, set of clients and times, from `AddrAssumption`
and `TimeAssumption`, and for clients that send anything in any order:
`EntryOnce` (a client has one entry) and `OwnerOnce` (`OneOwner`). The inductive
invariant adds to both `Backed`: a lease acknowledged and not given up is in the
table, under that client and with that time left. `OneOwner` is a consequence, for
an entry has one client.

For the composition it proves, with `DhcpAssumption` and queues of any
length: `NetTypeCorrect`, `NetOwnerOnce` (`OneOwner` again, now with the real client,
a second server and restarts) and `AddressKept` (`LeaseKept`). It reuses the lemmas
on the handlers. `LeaseKept` is not inductive: that the lease survives the
callback depends on what is on its way before it. `NetInv` adds to the invariant
of the server `Queues` (what the messages may be), `Place` (what the variables of
`dhcpc_request` are at each `st`), `Before` (no acknowledgement of this request arrives
before its REQUEST was sent), `During` (a DISCOVER comes before the REQUEST and is
handled before it, and a DECLINE follows only if the REQUEST went to another server:
once the ACK is sent nothing cuts the lease down) and `After` (the server keeps the
address reported last, for a time that depends on `st`). `DhcpAssumption` says that an offer
lasts longer than one tick and the second half of a lease longer than two; without
that `LeaseKept` fails.

Only model-checked: `CancelReturns` (liveness).

### Known limits

- `dhcpd_stop` writes `DHCPD_STOP_REQUESTED` after the daemon may have ended by
  itself (`dhcpd.c:1722`), and then waits for a semaphore nobody posts.
- Leases are kept in wall-clock time (`dhcpd.c:381`): setting the clock changes them.
- If all REQUESTs time out, the offered address stays set on the interface
  (`dhcpc.c:890`), which was meant to be temporary (`dhcpc.c:754`).
- A signal of `dhcpc_cancel` between the test of `cancel` and `sleep` has no effect
  (`dhcpc.c:493`): cancel returns only after half of the lease.

## YMODEM

### System and modules

`sb` sends a list of files to `rb` over a serial line: for each file a packet with
its name and length, its contents in packets of 128 or 1024 bytes, and an EOT; an
empty name ends the session. The receiver acknowledges each packet, asks again
with NAK, and has a timeout. The sender waits without one. `rb` may hand what it
receives to a writer thread through a buffer.

| Module | Models | Correspondence |
|---|---|---|
| `Ymodem` | `ymodem.c`, `rb_main.c`, `sb_main.c` | `spc` is the reply `ymodem_send_file` waits for, `total`, `started` and `retries` are the variables of `ymodem_recv_file`, `circ` and `writer` the buffer and thread of `rb` |
| `YmodemProof` | theorems and proofs | |
| `MCYmodem` | the files for TLC | |

Abstractions. Contents are units, and a unit knows its file and place. The line
keeps the order; a packet may be lost or arrive with a wrong checksum, a reply may
be lost or garbled, `MaxFaults` times in all. The sender's read of a file and its
write to the line may fail; after a short write `ymodem_send_buffer` begins the packet
anew, which arrives as a damaged one. A read of the receiver times out between packets:
one that times out within a packet leaves the rest of it to be read as commands, like
a damaged first byte, unless the flush that follows discards it. That flush is of the
output as well (`TCIOFLUSH`), and finds the last answer sent. Damage to the first byte of a packet
is left out: the receiver would read the rest of the packet as commands
(`ymodem.c:129`). The options are chosen at the start: with or without the writer
thread, where packet numbers wrap, and a receiver whose timeout is longer than a
packet and its answer, or shorter ("hasty"). `sb`'s read-ahead thread, the terminal
settings and the parsing of options are left out.

### Run, bounds and fairness

`ymodem`: what `rb` has written is the beginning of the file (`InOrder`); what was
acknowledged is stored (`Acked`), although an EOT ends a file without a look at its
length; `rb` ends (`ReceiverEnds`); a session whose faults the protocol can repair is
completed (`Repaired`). Three files, of 1, 5 and no units with packets of 1 and 2,
have one packet, several with a short last one, and none at all. Numbers wrap at 3,
within a file, or at 8, not at all. `RETRY` is 2 and there are three faults: enough
for faults in the repair of another one, and for the receiver to give up. `Repaired`
is claimed for sessions of at most `RETRY` faults, since `rb` cancels at one error more
between two data packets. `HastyMax` bounds the
replies a hasty receiver may leave on the line.

`FairSpec`: both programs run, the receiver's read has a timeout and its writer thread
is scheduled. The sender's progress depends on replies, of which fairness promises
none.

### Proofs

`YmodemProof` proves for any files, packet sizes, places where numbers wrap, sizes of the
buffer, retry limits and numbers of faults, from `YmodemAssumption`:

- `TypeCorrect`: counters stay in range and the buffer of the writer thread never
  overflows, for a hasty receiver too;
- `AckedStored`: what `sb` knows to have arrived is stored (`Acked`);
- `WrittenInOrder`: what `rb` has written is the beginning of the file (`InOrder`).

None of these is inductive: that a packet with the awaited number is the awaited packet
depends on what sender and receiver know of each other. The inductive invariant
`IInv` says, beside the types, that a receiver that is not hasty keeps pace (`Paced`):
there is one packet or one answer on the line, never more (`Turns`); the
receiver has not yet taken the packet the sender is at (`Due`), or has taken it (`Taken`),
and an ACK stands only for the latter (`Sync`); what is saved of the file in hand is its
beginning (`Prefix`), and what was acknowledged is stored (`Kept`). A packet that is
sent again differs in its number from the one that is due because the numbers
wrap at 2 or more, which is all that `Moduli` has to satisfy. `Prefix` and `Kept` rest on
lemmas on `write_data` and `flush_data` (`WriteStore`, `FlushStore`): moving units from
the packet to the buffer and from the buffer to the disk changes nothing of what
`Stored` gives for units already written.

A hasty receiver does not keep pace: packets and answers queue up on the line. For it
`InOrder` is claimed while the line is good, and `IInv` has a second part for that case
(`Clean`), which says nothing of the answers: however the sender was led to send
a packet, the packets on the line follow one another as in the files, some of them
repeated, the first one repeats or follows the last that the receiver took (`Flow`), and the
last one is what the sender has in hand (`Stream`).

Only model-checked: `ReceiverEnds` and `Repaired` (liveness).

### Known limits

- `Repaired` excepts what the code does not repair: a fault in the first packet, in
  the two-byte answer to a name or an EOT (`ymodem.c:279`), and the lost ACK of a
  packet whose successor has number 0 (`ymodem.c:231`). The session fails then;
  nothing wrong is stored.
- With too short a timeout a NAK stands on the line next to the ACK, and every later
  ACK is taken for the packet after the one it answers (`ymodem.c:227`). `Acked` does
  not hold for such a receiver. `InOrder` does while the line is good; with enough
  faults, repeated answers lead the sender past lost packets, and with three files of one
  unit and four faults TLC finds data of the third written to the second.
- The sender waits for ever if the last ACK or the CAN is lost (`ymodem.c:526`).
- The writer thread ends silently at a write error (`rb_main.c:102`), and `rb`
  returns success.
- A file that exists is opened without `O_TRUNC` (`rb_main.c:226`): a longer end stays.
- A file that cannot be opened ends the list for `sb`, with success
  (`sb_main.c:169`).

## The Modbus slave

### System and modules

An application calls `eMBInit`, `eMBEnable`, and then `eMBPoll` in a loop, which reads
characters, runs timers and handles one event at a time: a frame was received, it
is to be executed, its reply was sent. The frame, in RTU framing (ended by
silence) or ASCII framing (from ':' to CR LF), is executed by a function handler,
and the reply is built in the buffer it arrived in.

| Module | Models | Correspondence |
|---|---|---|
| `Modbus` | `mb.c`, `rtu/mbrtu.c`, `ascii/mbascii.c`, `nuttx/portevent.c`, `portserial.c`, `porttimer.c` | `eMBState`, `rcv`, `snd`, `queued` and `handlers` are the code's variables; `pc` is the place in `eMBPoll`; `log` is history: what was executed and replied |
| `ModbusProof` | theorems and proofs | |
| `MCModbus` | frames and handlers for TLC | |

Abstractions. A byte is its frame and place, and a checksum fits a whole frame and
nothing else. The line may lose a character, garble it or insert one, `MaxFaults` times;
in ASCII framing the noise may be a ':', CR or LF. The write of a reply may fail, and
leave the beginning of it on the line. A character
arrives while the slave listens, and is read before the next one does, or just
before the input is flushed: any other order gives the slave the same characters.
A "polite" environment damages nothing, sends only to a waiting slave and leaves it
enabled; handlers are registered only there, since disturbances do not touch the
table. `eMBInit` is called when the port is not open, with one mode; its failure is
left out. Assertions are compiled out and stated as a property.

### Run, bounds and fairness

`modbus`: a handler is given only whole frames that the master sent to this slave or
to all, and is found if its function is in the table (`Genuine`); none is executed
twice (`AtMostOnce`); replies are whole and answer the frame executed last
(`ReplyMatches`, for what was written of a reply if the write failed); the assertions
of the code on its states hold, with two exceptions (`AssertsHold`; a third
assertion, on the size of a frame, is not stated: see below); while the slave is enabled an
event is overwritten only by one of its own kind, and in RTU mode not at all
(`NoEventLost`); after any disturbance the slave listens again
(`Recovers`); a polite master gets its reply (`Answered`). Two frames, of the
smallest and of the largest size, to this slave, to all or to another one, and one fault,
which may make a frame too long, are enough for a frame to meet what is left of another one. Two calls disable and
enable the slave again.

`FairSpec`: the application goes on polling, and a frame once begun arrives.

### Proofs

`ModbusProof` proves for frames, buffers and handler tables of every size and any
number of frames, faults and calls, from `ModbusAssumption`: `TypeCorrect` (the buffer
never overflows, `TypeOK`), `FramesGenuine` (`Genuine`), `ExecutedOnce` (`AtMostOnce`),
`RepliesMatch` (`ReplyMatches`), `Asserts` (`AssertsHold`) and the action property
`EventsKept` (`NoEventLost`).

They follow from `Invariance`. The properties speak of the log, of what was executed
and sent; whether the next entry is right depends on the buffer, which the receiver
and the transmitter share. `IInv` adds `Control` (what is enabled, and which event can be
queued, at each place of `eMBPoll`), `Line` (characters arrive in the order they were sent),
`FirstByte` and `Indices` (what the buffer holds was sent, and is no reply while a frame is
received), `Checked` (the frame whose checksum was found right is still there when it
is executed), `Sending` (the reply in the buffer is the one to the frame executed last),
`Packed` (the table has no gaps unless a handler was removed) and `Once`: a frame is
executed only if its first byte was read into the buffer, that byte is read once, and
for a frame already executed it is no longer on the line.

Only model-checked: `Recovers` and `Answered` (liveness).

### Known limits

- The event queue has one place (`portevent.c:60`). Two ASCII frames in one poll leave
  one event, and the first frame is lost.
- `porttimer.c:93` multiplies microseconds by 1000 where it should divide, so that
  every timer has expired after the 50 ms of silence that end a read. In ASCII mode
  `AtMostOnce` depends on it: with a timer that ran its full time, the event of an
  overwritten frame would be spent on the next one, which would be executed before
  its LF and again after it. For the same reason frames less than 50 ms apart are
  merged.
- `eMBDisable` in a transmission leaves `eSndState` (`mbrtu.c:163`), and the next
  character meets the assertion of `mbrtu.c:255`. A CR that is followed neither by
  LF nor by ':' leaves the timer running (`mbascii.c:408`), which meets the assertion
  of `mbascii.c:540`. These are the exceptions of `AssertsHold`.
- A frame of exactly 256 bytes is received (`mbrtu.c:301`) but excluded by the
  assertion of `mbrtu.c:174` (`mbascii.c:225`). `AssertsHold` leaves this assertion out.
- `eMBEnable` after `eMBClose` is accepted; the read then fails for ever inside
  `eMBPoll` (`portserial.c:347`). `Recovers` is stated for an open port.
- The search for a handler ends at the first free entry (`mb.c:401`), so removing one
  hides those behind it.

### Not modelled

The function handlers, Modbus/TCP, the master, a failing initialisation and a change
of mode.

## Not modelled

Parts of the repository that are left out altogether are in the inventory above and,
with reasons, in `PROJECT.json`.
