# ZJUNIX in TLA+

TLA+ specifications of the ZJUNIX teaching kernel (a single-core MIPS32 system
with a shell, a buddy and a slab allocator, a FAT32 file system on an SD card,
and a round-robin scheduler), with the TLC runs that check them and TLAPS proofs
of their main theorems. Paths below are relative to the repository's root.

## 1. Inventory

| Part | State | Operations | Hard behaviour | What makes it correct |
|---|---|---|---|---|
| Boot memory map, `kernel/mm/bootmm.c` | table of ranges, page map, last position | insert a range; first-fit search from where the last one ended | ranges that touch on either side or bridge a gap, the table's limit | ranges stay apart and tell exactly what is used; a free run is found wherever it lies |
| Buddy allocator, `kernel/mm/buddy.c` | `bplevel` of each page, a list and a counter per order | `init_buddy`, `__free_pages`, `__alloc_pages` | merging with a twin told only by its `bplevel`; splits; long sequences | no page in two blocks or in none; free twins merged; counters right |
| Lists, `include/zjunix/list.h` | `prev` and `next` of each cell | add, delete, move | deleting a cell that is on no list; a cell on two lists | links two-way; each operation is the one on sequences |
| Slab allocator, `kernel/mm/slab.c` | 12 caches, links inside pages | `kmalloc`, `kfree`, `slab_alloc` (`slab_free` is never reached) | links that lie inside the objects, sizes at the boundaries, flags tested by equality, an order that is a number of pages | objects disjoint and clear of headers and of the links still to be read, inside a block that is held |
| Processes, `kernel/pc/pc.c`, `arch/mips32` | `pcb[8]`, `curr_proc`, the registers | switch on the timer, create, kill by number, by system call or by exception | the timer cuts `pc_create` anywhere; a process killed while it runs; slots reused | idle process stays, nobody starves, registers survive, no half-made process runs |
| Interrupts and locks, `arch/mips32/intr.c`, `kernel/lock/lock.c` | interrupt mask, `spin` | dispatch, lockup, unlock | `lockup` does not wait | interrupt state restored; who may be inside together |
| Block cache, `kernel/fs/fscache/fscache.c` | buffers with block number, state and reference bit | read, write back, clear, clock replacement | eviction of the only copy of a modified block | reads see the last write; modified blocks reach the disk |
| FAT32, `kernel/fs/fat/*.c` | the table, the hint for the next free cluster, directory entries, the open file | open, read, write, seek, create, close, rm, list | a write that extends the chain cluster by cluster and is refused or fails half way; a hint taken unseen | no cluster in two files; none in use out of reach; every byte up to the size is the one written; files found and listed once |
| SD card, `kernel/driver/sd.c` | device registers | read and write a block | errors and time-outs ignored | (external disk) |
| Keyboard, `kernel/driver/ps2.c` | ring of 32 codes, shift state | interrupt handler, `kernel_getkey`, `kernel_getchar` | the handler runs inside the reader; a full ring; reset | codes come out in order, once |
| Clock, `kernel/time/time.c` | none: the processor's count of ticks | `get_time_string` | 64 bits in two words, divided by hand | the time shown is the time passed |
| Shell, `usr/ps.c`, on the screen, `kernel/driver/vga.c` | line buffer, cursor, cells | line editing, split into command and argument, commands, `exec` | a line left from before, rubbing out, scrolling, the editor's return | the screen shows the line that will be run; the argument is what was typed |
| Editor, `usr/myvi.c` | text, cursor, page, mode, instruction, file | load, move, insert, delete, `:q!`, `:wq` | the page follows the cursor through deletions that join lines; a full buffer; a save that fails | the text ends in a line, the cursor is on the screen, what `:wq` saved is what is loaded again |
| Log, debug output, start-up, page table, string helpers | none | output, register set-up | | |

How they interact: `init_kernel` builds the boot map, hands the rest of memory
page by page to the buddy allocator, sets up the slab caches, opens the file
system through the block cache, creates the shell (slot 1) and the clock (slot
2), and enables interrupts; from then on it is the idle process (slot 0). The
timer interrupt switches processes. The shell calls everything else
synchronously: `kmalloc` calls the slab allocator or the buddy allocator, the
file system calls the block cache, which polls the SD card. The keyboard
interrupt fills the ring the shell reads. Every lock is in the buddy allocator,
whose only caller after boot is the shell.

## 2. What is modelled

### PageAllocator.tla, Buddy.tla, MCBuddy.tla

`PageAllocator` is the promise made to callers: pages are donated at boot; a
request is *granted* an aligned run of free pages of the order asked for, or
*refused*, and refused only when there is no such run; a block comes back by
`GiveBack`.

`Buddy` is `buddy.c` at the granularity of one loop iteration per step, so that
the invariants are checked and proved in the middle of a call, not only between
calls.

| TLA+ | code |
|---|---|
| `bplevel`, `freelist`, `nr_free` | `pages[i].bplevel`, `freelist[k].free_head`, `freelist[k].nr_free` |
| `booted` | `i` in `init_buddy`'s loop |
| `pc`, `idx`, `level`, `want` | where the running call is, and its locals |
| `owned` | what callers hold (no variable of the program) |
| `BootFree`, `Free` | the call of `__free_pages` by `init_buddy`, by `free_pages` |
| `Merge`, `MergeDone` | the body of the `while` loop; what follows it |
| `AllocCall`, `ScanNext`, `AllocFail`, `Found`, `Split`, `AllocReturn` | `__alloc_pages` |

Pages are indices from `start_page`. A list is the set of its members; the code
takes the one in front, the model any, so its behaviours include the code's.
`BlockSize` is a constant function with the assumptions that make it a table of
powers of two, which keeps exponentials out of the proofs; `NPages` is a
multiple of the largest block because `init_buddy` rounds both ends. `nr_free`
wraps at `CounterMod`, as an unsigned int does. The page flags are not modelled
here: `buddy.c` writes them and does not read them.

The code decides that a twin is free from its `bplevel` alone, and an allocated
block keeps its order there. So `Spec` lets callers free any block they hold, in
any order, and under it only placement is proved (`WellPlaced`);
`SafeSpec` restricts frees to those for which no block with the same parent, at
the block's order or above, is held (`SafeToFree`). That is the discipline under
which `buddy.c` is correct, and the other properties are stated for it. The
program itself does not keep it; the run `buddy_doc` shows what follows.

### Lists.tla, ListHead.tla

`ListHead` has the functions of `list.h` as updates of two pointer maps, in the
order of the assignments; `Lists` has the same operations on sequences, and the
refinement mapping is the walk of `list_for_each`. The nodes are finite in number,
as the pages of a memory are, and a walk takes no more steps than there are nodes.
`Buddy` relies on this when it takes a list for a set. Callers add only cells that
are on no list; that `__free_pages` may call `list_del_init` on a cell that is on
none is kept.

### Sched.tla

| TLA+ | code |
|---|---|
| `live` | the slots with `ASID >= 0` |
| `pcb`, `cpu`, `curr_proc` | `pcb[].context`, the registers of the running process, `curr_proc` |
| `job` | which slot of `pc_peek`'s search, or which assignment of `pc_create`, the shell is at |
| `halted` | which endless loop of the kernel the machine is in |
| `Tick`, `Schedule` | the timer interrupt: `start.s`, `do_interrupts`, `pc_schedule` |
| `Run` | any instruction of the running process |
| `KillSyscall`, `Fault` | system call 10; an exception without a handler |
| `Proc`, `Time`, `Kill` | the shell's commands `proc`, `time`, `kill` |
| `Asked` | the shell's being free to begin a creation, and the creation's number |
| `Peek` | one slot of `pc_peek`'s search |
| `WriteEpc`, `WriteSp`, `Publish` | the assignments of `pc_create`, each a step of its own |

`pc_schedule` runs with interrupts off and is one step; `pc_peek`, `pc_create` and
`pc_kill` run in the shell with interrupts on, so a `Tick` may come between any
two of their steps. A context is three registers: the program counter and the
stack pointer, which `pc_create` writes, and `rest`, which it does not; a value
is the number of the creation it comes from, so that a mixture can be seen.
`fresh` and `waits` are ghost variables. `gp` and the name, written between the
stack pointer and `ASID`, are the same for all processes or only printed, and
are part of `WriteSp`.

### KeyQueue.tla, KeyRing.tla, KeyState.tla

The keyboard's interrupt handler does two things that share no state, and each
has a module. `KeyRing` is the ring between the handler (`Push`, atomic, since
interrupts are off) and `kernel_getkey`, which runs in the shell one assignment
per step, `init_buffer` included: `Look`, `Take`, `Unmark`, `Advance`, `Erase`,
`Clear`, `Rewind`, `Restart`, `Return`. `buffer`, `wptr`, `rptr` are the
program's `buffer`, `buffer_wptr`, `buffer_rptr`; `ready` is the set of slots
marked 1; `pending` is a ghost, the presses the shell has not had. A code is the
press it comes from, so that a repetition can be seen; a code is pressed again
only when no trace of it is left. `KeyQueue` is the promise: a queue.

The handler does not look whether a slot is full, and `init_buffer` erases codes
the reader has not taken. So with any typist the ring loses keys, and what is
required of it is that it recovers: no code twice, no hole to wait at. The ghost
`patient`, chosen at the start, says whether the typist waits when `wptr` is back
at 0; with such a typist the ring implements the queue. No sentence of the
repository promises more.

`KeyState` decodes bytes: `key_buffer` (four bytes), `keyboard_state`,
`keyboard_cmd_state`; one turn of the handler's loop is `AckByte`, `PartByte` or
`LastByte`, by the byte. The keyboard (`KeyDown`, `KeyUp`, `Answer`) is external:
scan code set 2, one answer 0xfa for each byte it is sent, never inside a key's
bytes. Pause is a key of its own, without a release: its code, E1 14 77 E1 F0 14 F0
77, is taken for four codes, the second of which is Num Lock's, and that one goes
into the ring. `PauseGoesOn` sends what is left of it (`rest`), and `OnlyPresses`
says that Num Lock's code comes so, once for each press of Pause, and no other
piece does. F7 (0x83) never completes a key, since the handler takes every byte of
0x80 or more for a prefix; the ghost `odd` sets it apart. Not modelled: after an
answer the loop goes on without reading the control register again
(`ps2.c:144`), so what it reads next is up to the device.

### BlockCache.tla

One module for three caches with the same code, told apart by `kind`: clusters of a
file (`fs_*_4k`), sectors of directories (`fs_*_512`), and FAT sectors (`fat.c`), which
have two copies on the card (`Copies`). `Spec` has all the calls; `FatSpec` those
on FAT sectors, where nothing is ever new.

| TLA+ | code |
|---|---|
| `cur`, `data`, `ref`, `dirty` | `cur`, `buf`, bits 0 and 1 of `state` |
| `Passed`, `Victim`, `Hand`, `Swept` | `fs_victim`: how far it goes, the buffer, the hand after, the reference bits it clears |
| `ReadHit`, `ReadMiss`, `WriteFails`, `ReadFails` | `fs_read`, by its paths |
| `Modify` | a caller that changes the buffer it was given and sets `state = 3` |
| `Extend`, `ExtendFails` | `fs_alloc`'s erasing of the cluster, then `fs_clr` |
| `Flush`, `FlushFails` | the loops of `fs_fflush` and `fs_close` |
| `card`, `truth` | the SD card (external); what was last written |
| `Writes`, `Reads` | what a call to the card does, and the block it may cost |
| `spoiled` | ghost: the blocks that failed calls have cost |

A call is one step: only the shell uses the file system, and it waits for the
card. A failed write leaves anything in its block. What the code hears of a failure
depends on the `kind`. Of clusters it does: `sd_write_block` and `sd_read_block`
return 1 for calls of two or more sectors. For a single sector they return the
device's code, which never is 1, and the caches test for 1 (`sd.c:99-121`,
`fat.c:127-139`): a sector of the FAT or of a directory whose writing fails loses its
dirty bit and is forgotten, one whose reading fails is taken for read. `spoiled` has
those blocks.

A failed read of a cluster is heard but not undone: the buffer keeps its block's
number with the contents of another (`fscache.c:80`), and that block is in `spoiled`
too. `Coherent` and `NothingLost` leave out the blocks in `spoiled` and no other: a
failure costs the block that failed, never one that was not being read or written.

### Bootmm.tla, Slab.tla, Memory.tla, MCMemory.tla

`Bootmm` is the boot memory map in pages: `used` (`s_map`), `last_alloc_end`, and
`info`, the first `cnt_infos` entries of the table. `Insert` is `insert_mminfo` with
the removal of an entry that it bridges; `FindPages` the search, `FoundRun` its two
uses, behind the last run and then in front of it. `bootmm_alloc_pages` does not
look at what `insert_mminfo` returns: the ghost `unrecorded` has the pages it gave
out while the table was full.

`Slab` is `kmalloc` and `kfree`, over what `PageAllocator` promises: `free` pages,
`held` blocks, any aligned run for a request. Addresses are bytes and the sizes the
program's own, since what could go wrong is arithmetic: slots of `size + 4`, links
in the first word of each slot, the last one's in the word behind. The link words
lie inside objects, so the callers overwrite them; `junk` is the ghost that knows
which ones they may have.

| TLA+ | code |
|---|---|
| `slab`, `nr_objs` | the cache a page was last formatted for; `nr_objs` in its header |
| `cpu`, `full` | `cpu.page`, `cpu.freeobj`; `node.full` |
| `Links`, `LinkWord`, `TakePage` | `format_slabpage` |
| `FromCpuPage`, `FromNewPage`, `HandOut` | `slab_alloc`, by where the object comes from |
| `BestFit`, `OrderAsked` | `get_slab`; the order `kmalloc` asks `alloc_pages` for |
| `FromBuddy`, `FromNowhere`, `FromSlab`, `Halt`, `Kfree` | `kmalloc` by its paths, `kfree` |
| `ExecLoad` | what `exec` writes to its block: pieces of 64 bytes, at least one |

No page of a slab has only the flag that `kfree` tests for: `slab_free` is never
called, `node.partial` stays empty, and `Kfree` gives a whole page back. So `Spec`,
under which the properties are stated, is for careful callers. They free blocks of
pages only, as `exec` does; they free one only when no block held beside it on the
way up would be merged with it (`SafeToFree`, the discipline of `Buddy`'s `SafeSpec`),
since that is where `PageAllocator`'s promise, that the block comes back and nothing
else, holds; they ask for no more than there is; and they load only programs that
fit the block (`ProgramFits`). Nothing in the program sees to any of it: two pages from
`kmalloc` and a `kfree` of the first are the trace of `buddy_doc`, and `exec` reads a
program of any size into two pages (`exec.c:26`, `exec.c:50`). `AnySpec` frees anything,
as `cat` does, and the run `memory_free` shows what follows. A second `kfree` in a
page that is free already, and a caller's use of an object in it, have no defined
outcome and are not modelled. A request of 1537 to 2048 bytes finds no cache, and
the machine is halted.

`BlockSize[k]` is `1 << k`, a constant function as in `Buddy`.

`Memory` composes the two: users of bootmm (`BootCall`, of which the program has
one, `init_buddy` itself), the hand-over by `init_buddy`, then `kmalloc`'s callers.

### Files.tla, MCFiles.tla

The FAT, the root directory and one open FILE, above the caches of `BlockCache`. A
cluster has `Bytes` bytes; the byte written to position p of file f is <<f, p>>.

| TLA+ | code |
|---|---|
| `fat`, `nxt`, `spare` | the FAT; `FSI_Nxt_Free`, `FSI_Free_Count` |
| `dir`, `file` | the directory's entries; the FILE: its entry, where that came from, `loc` |
| `data`, `unsaved` | contents of clusters; those only in the FILE's own buffers |
| `spoiled`, `Seen` | clusters whose buffer holds what a failed read left there; what a reader gets |
| `call` | where `fs_write` or `fs_rm` is in its loop over clusters |
| `Open`, `Create`, `Found`, `Vacant` | `fs_open`, `fs_create`, `fs_find`, `fs_find_empty_entry` |
| `Extend`, `Refuse`, `EraseFails` | `fs_alloc` and the linking in `fs_write` |
| `Pass`, `Fill`, `FillFails` | the turns of the loops of `fs_write` |
| `ReadFails`, `Garbles` | an `fs_read` that fails; the buffer that costs |
| `Rm`, `Release`, `Removed` | `fs_rm` |
| `Close`, `Closing`, `Lseek`, `Read` | `fs_close`, `fs_lseek`, `fs_read` |
| `NextListed`, `Listing` | `fs_read_dir` called from `ls` |

`fs_alloc` takes the hint for the cluster without looking at it, marks it, and only
then looks for the next one above it. If there is none it fails, and the cluster
stays marked: the ghost `lost` has those. Once it has failed so, it goes on
refusing although clusters below the hint are free, until one above is freed; no
sentence of the repository says otherwise. `others` are the clusters of the
directory and of files that another system wrote.

A failed read takes a buffer from another cluster of the file, which keeps that
cluster's number (`fscache.c:80`), so that it is read from there, or saved, later:
`ReadsBack` promises nothing of a byte in a cluster so `spoiled`, and every other byte.
Clusters of a file may fail to be read, erased or written; of single sectors no
failure is heard, and what it costs is in `BlockCache`.

What `Files` is for:
- a partition that starts the card (`base_addr` is 0). Elsewhere `fs_alloc` erases
  sectors `base_addr` in front of the new cluster (`fat.c:533`), and the second sector
  of the directory is looked for `base_addr` behind (`fat.c:261`, `fat.c:672`,
  `dir.c:95`); `cache_base` is the same slip in a third place;
- less than 4 GB of it: on a full card `fs_alloc` marks entry 0xFFFFFFFF of the FAT
  (`fat.c:513`, `fat.c:518`), a sector that must lie behind the end of the card, where
  writing fails and no one hears;
- a first hint that names a free cluster, as the format requires; `fs_alloc` does not
  check. The format allows 0xFFFFFFFF too, for not known. Then the number of the
  cluster wraps to 0, a reserved entry of the FAT, and is handed out, though the
  comment at `fat.c:508` has the search start at 2.

### Editor.tla, Shell.tla, MCShell.tla

`Editor` is `myvi.c`: `text` is `buffer[0 .. size - 1]`, `page_end` where the text on
the screen ended when it was drawn last. Each key is an action; `Show` is what every
key does after it, the page's move (`Follow`: `Up` or `Down`, by a line or not at all)
and the drawing (`Flush`), whose places of characters, tabs included, are `Places`.
Two things lose the cursor: a backspace typed in front of the first character takes it
to -1 (`myvi.c:293`), and a page that moves by lines need not come to a cursor in a
line of several rows. Both happen in the model; the ghost `astray` has them from then
on, and `CursorShown` is for texts and keys before. At -1, `x`, `j`, `l`, a character
and a second backspace read or write `buffer[-1]`, which is not defined (`Defined`).

`Saves` writes over the file from its beginning, so that a file never gets shorter
(`myvi.c:93`). `Torn` is a save during which the card fails, in `fs_write` or in
`fs_close`: each cluster has its new contents, its old ones, or neither, and the entry
the new size or the old. `Reads` is what `load_file` gets if reads fail: it does not look,
and takes the character it read before once more.

`Shell` is `ps.c` on the screen of `vga.c`: `ps_buffer` is kept from line to line, as in
the code, which is why what follows the end of a line matters (`Split` looks for a
blank in the whole of it). A command's output is one line; `vi` starts the editor,
and the screen is cleared when it ends. `DrawTime` is another process, which draws on
the row below the others all the time (`time.c:48-51`). A tab at the prompt is a step
to the next stop, of which rubbing out takes one cell back (`ps.c:66-72`): the ghost
`tabbed` says that the line had one, and `LineShown` is for lines without.

Bounds: the editor is started by the first line only, and after a save only empty
lines are entered. Left out, as the code's outcome is undefined: the keys above, an
instruction longer than its array, and `save_file` when `fs_create` or `fs_open` fails,
for it goes on with what the FILE held before (`myvi.c:86-94`).

### Clock.tla

`get_time_string`, a pure function of the two words of the count of ticks. There is
no state, and its words are larger than TLC's integers, so it has theorems and no
run.

## 3. Runs

| Run | Instance | States | What it shows |
|---|---|---|---|
| `buddy_safe` | 12 pages, orders 0 to 2 | 39 161 | under the discipline each page is in exactly one block, in mid-call too (`EachPageOnce`), `nr_free` is the length of its list (`CountsRight`), free twins are merged (`Coalesced`), a held block remembers its order (`OrderRemembered`); every request is answered, and refused only when no aligned free run exists (`KeepsPromise`: the refinement of `PageAllocator`, with liveness) |
| `buddy_doc` | 4 pages, orders 0 to 2 | | violation: `buddy.h` says that the pages of a listed set are free; after a free beside a held twin they are not |
| `lists` | 2 heads, 4 nodes | 536 | links are two-way (`Mutual`), and the operations are those on sequences (`AreLists`) |
| `sched` | 4 slots, 3 creations | 169 516 | a switch always finds a process and runs no dead one but the shell (`RunsOn`); `BoundedWait`, `FreshIsWhole`, `OnlyClockMixes`, `SwitchKeepsRegisters`; every live process runs again (`EveryoneRuns`) |
| `key_ring` | 3 slots, 5 codes, typists of both kinds | 499 294 | `OnceOnly`, `NoneAhead` (nothing newer lies ahead of a reader that finds nothing), `NeverDeaf`; with a patient typist the ring implements `KeyQueue`, with liveness (`KeepsPromise`) |
| `key_state` | 9 keys, 2 unanswered commands | 4 976 384 | `NoneStuck` (modifiers), `OnlyPresses` reach the ring, and Pause as Num Lock, `LampFollows` Caps Lock |
| `cluster_cache` | 2 buffers, 3 blocks, each `kind`, failing card | 583 220 | `Coherent`, `NothingLost` (in both copies of a FAT sector), but for `spoiled` blocks; `SparesUseful` |
| `cache_base` | the same with `Base` 1, no failures | | violation: `fscache.c:94` says that a cleared buffer spares the read of a new block; its address lacks `base_addr`, so it is never found |
| `memory` | 12 pages, table of 3, the program's caches, 4 objects | 25 633 | of bootmm: each page in use is in exactly one entry of the table (`TableExact`), a free run is found (`RunsFound`); of the hand-over: `BootPagesKept`; of `kmalloc`: `ObjectsApart`, `ObjectsHoused`, `LinksIntact` |
| `memory_free` | the same with 3 objects, freed by anyone | | violation: `slab.h:14` says that `nr_objs` is the number of segments allocated; after a `kfree` of an object it is not |
| `files` | 4 clusters of 2 bytes, 2 names, 3 entries, 3 bytes a file | 1 212 297 | in mid-write and mid-removal, after any refusal and failure: `OneOwner`, `Accounted`, `HintFree`; a file reads back as written (`ReadsBack`), is found (`FoundIsThere`) and listed (`ListsThem`) |
| `shell` | 5 characters of text, 2 rows of 8 columns, 3 of a line, the clock | 1 351 608 | of the editor: `EndsInLine`, `CursorShown`, `SavedReloads` (what `:wq` saved is what is loaded, if the card does not fail); of the prompt: `LineShown`, `ArgumentTyped` |

Every module has a type invariant. Those of `Buddy`, `Sched`, `ListHead`,
`BlockCache`, `Files`, `KeyRing` (a conjunct of `NoneAhead`) and `KeyState` (of
`NoneStuck`), `Bootmm` (of `TableExact`), `Slab` (of `ObjectsHoused`) and `Editor` (of
`EndsInLine`) are proved (section 4).

Bounds. The orders are those of the code cut from 5 to 3 or 2: with three
orders a block is split and merged twice in a row, which is where a wrong index
or a stale level would show, and with 12 pages there are three top blocks, so
that merging stops for both reasons. `CounterMod` is one more than the
number of pages, the least value `CounterAssumption` allows. Four slots are the
three of the boot and one to create in, kill and reuse; three creations fill the
table. `MaxCreates` bounds the creation numbers and nothing in the code; `waits`
stops at `NSlots`, beyond the value `BoundedWait` forbids.

Three slots of the ring let the handler overrun the reader and the reader erase the ring
with one, two or no codes left in it; five codes are one more than the ring and `temp`
hold. `MaxLag` 2 lets Caps Lock be pressed again before either byte of the first
exchange is answered; the nine keys are one of each kind the handler tells apart, Pause
among them. Two buffers and three blocks make every read path happen, eviction of a
dirty block with no clean one left included; the kind is chosen in `Init`, and failures
come heard and unheard by it.

In `memory` the pages and the sizes of the caches are the program's; the sizes
asked for are a small object, one of a cache of 96 and of 192, one whose cache cuts
two objects from a page (so that a page fills and goes to `node.full`), one that
halts the machine, one page and two pages; programs are empty, a page long,
nearly two, or two. Two types and three entries let ranges be extended at either end,
joined, and refused by a full table. `MaxLive` bounds the objects alive at once.

In `files` four clusters, one of them the directory's and one perhaps another
system's, are filled, refused, freed and reused; three bytes of two per cluster
make a write cross a cluster; the spare counts are none, one the hint is above of,
and one it is below of. `NSlots` 3 with 2 names leaves a removed entry in front of
a live one. `MaxSize` bounds a file's length and nothing in the code.

In `shell` five characters fill the editor's buffer, two rows scroll, and the files have
tabs, carriage returns, an unfinished line, and a length the buffer does not hold; eight
columns make the longest text a line of two rows or not, by its tabs; three letters or
tabs fill a line, and the clock has one column. `InstMax` 3 is `:wq` and `:q!`.

Fairness. `Buddy` has weak fairness of `Step`, the steps of a call that has
begun: the code between the call and the return of a function loops over orders
only and waits for nothing. There is none for callers. `Sched` has weak fairness
of `Tick`: the timer is set up once, restarted on each switch, and interrupts
are off only in interrupt handlers and after the machine has halted. Nothing is
assumed of processes or of the shell. `KeyRing` has weak fairness of the reader's
steps: `kernel_getchar` polls without end and the scheduler returns to the shell
(`EveryoneRuns`) as long as it is not killed; none of the typist. `KeyState` and
`BlockCache`, `Memory`, `Files` and the shell have none: their calls are answered
before the caller goes on, and nothing makes a caller call.

Deadlock is checked in every run. A halted machine goes on spinning (`Spin`,
`Rest`).

Next to the definitions of the component modules stand a few mutants
of them: what the code would be with a plausible mistake. `PROJECT.json` names,
for each property, the one that breaks it.

## 4. Proofs

All theorems are for every value of the constants that the named assumptions
allow (`SizeAssumption`, `CounterAssumption`, `SlotAssumption`,
`CellAssumption`, `CacheAssumption`, `FilesAssumption`, `RingAssumption`,
`LagAssumption`, `BootAssumption`, `SlabAssumption`, `MemoryAssumption`,
`EditorAssumption`, `ShellAssumption`), which the runs evaluate.

`BuddyProof.tla`
- `TypeCorrect`: `Spec => [](TypeOK /\ WellPlaced)`, for any callers. The
  arithmetic is in `TwinFacts` and `SplitFacts`: the twin of an aligned block is
  aligned, inside the arena, and the two make up the block above.
- `SafeInvariant`: `SafeSpec => []IInv`; `PagesKept` (`EachPageOnce`) and
  `OrderKept` follow. `NoOverlap` alone is not inductive: a merge takes the twin's `bplevel`
  for membership of a list. `IInv` adds that a listed or held block carries its
  order (`Marks`), that pages not booted yet carry none (`Boot`), and that a
  block being freed has no held block in its way up (`WayClear`, which
  `SafeToFree` establishes and each merge keeps). The key lemma is
  `TwinIsListed`: aligned runs are nested or disjoint (`Laminar`), so the block
  that contains the twin can only be the twin itself, at the same order, free.
- `CountsHold` and `CoalescedHolds`, from `IInv`.
- `Refinement`: `SafeSpec => PA!Safety`. The step that needs work is a refusal:
  if a run of free pages were left, the smallest block listed inside it would
  have a free twin of its own order, against `Coalesced` (`NoRunLeft`).

`LibraryProof.tla`
- `MutualHolds`: `TypeOK` and `Mutual` of the lists, for any heads and nodes.
- `ListsAreSequences` (`AreLists`): for any finite set of nodes, every operation of
  `list.h` does to the sequence of each head what `Lists` says. `Mutual` alone does not
  tell which list a node is on. The invariant `ListsInMemory` adds that the memory holds
  the sequences (`Holds`: going round from a head, `next` and `prev` lead through them,
  and no node is in two places) and that a node on none is alone or poisoned (`AreOff`),
  so that `IsLinked`, all that the code can look at, means being on a list
  (`LinkedIsOn`). `AddToRing` and `DelFromRing` are `__list_add` and `__list_del` of any
  place of a ring; a list is never longer than there are nodes (`ListsEnd`, by the
  pigeonhole), so the walk of `list_for_each`, a recursive function, meets all of it
  (`WalkIs`).
- `ClockRight`: for counts below 2^40 (three hours) the seconds shown are exact.
  `ClockJumps`: at 2^40 the clock jumps ahead by 45421 seconds, since the code adds
  a remainder where it means a quotient.

`SchedProof.tla`, for every number of slots
- `TypeCorrect`, `SomeoneRuns` (`RunsOn`), `RegistersKept`.
- `NobodyStarves`: the invariant is `Turn`, that the switches a live process has
  waited and the slots the search still has to move to reach it sum to at most
  `NSlots`. `LandingFacts` says that the search passes no live slot.
- `CreationIsWhole` and `NoMixture`, from the invariant `Whole`: between the
  assignments of `pc_create` the slot is not live, unless it is the clock's, or
  is the shell's own after it killed itself.

`BlockCacheProof.tla`, for any number of buffers and blocks, any contents, and with
failures, heard or not by the kind; what is promised leaves out the blocks that failed
calls have cost (`spoiled`)
- `FatSafe`: `TypeOK`, `OnceCached`, `Coherent` and `NothingLost` of the cache of FAT
  sectors, wherever the partition starts: since no failure is heard there, it loses the
  sectors whose own reading or writing failed, and no other. `FileSafe`: the same of the
  caches of files' and directories' blocks, if the partition starts the card (`Base =
  0`; `cache_base` shows what happens otherwise).
- The invariant `IInv` joins what a reader sees to what the card holds: a block not in
  `spoiled` that is in a buffer has its latest contents there, and a block that is not
  dirty in a buffer is on the card. `Coherent` alone says nothing of the card under a
  buffer, and is lost at the next eviction; `OnceCached` is needed for writing one
  buffer back not to undo another.
- `SparesTheUseful` (`SparesUseful`), for any addresses: turning once, the hand comes by
  every buffer (`HandComesBy`), so a search that ends without a clean one has seen them all.

`FilesProof.tla`, for any number of clusters, bytes, names, entries, any first hint
that names a free cluster, and whatever is refused or fails, in the partitions `Files` is
for (section 2)
- `FilesTyped`, `FilesApart`, `FilesAccounted`, `HintSound`: `TypeOK`, `OneOwner`,
  `Accounted` and `HintFree`. The invariant `IInv` joins them with `LostApart` (a
  cluster given up by a failed allocation is the end of no chain: without it the
  hint, which may name one, would link it to a second file), `OthersUsed`, and
  `CallHolds`: a write under way stands at a cluster some file reaches, so that what
  it links there gets exactly one owner; an open FILE comes from an entry that is
  still there. `OneOwner` alone is not inductive: a link from a cluster no one owns,
  or to one that is free already, would break it a step later.
- `FilesFound`: `FoundIsThere`, which is inductive with the types alone: a name is
  only put where every entry in front has one, and a removed entry, which a search
  passes, is never an empty one again.
- `FilesRead` (`ReadsBack`): every byte of a file up to its size can be reached and is
  the one written there, but in clusters the card failed to take (the bytes are `Junk`)
  or whose buffer a failed read has `spoiled`. `AllHold` adds to `IInv` what a write has
  put in the file though the size does not count it yet, and that it stands in front of
  the cluster its place names (`WriteHolds`). From `OneOwner`: the chains of two files
  meet nowhere and no chain comes back to a cluster (`ChainApart`), so that what is
  filled, freed or linked for one file is in no other's way (`FileKept`), and a chain
  ends within `NClusters` links, by the pigeonhole (`ChainShort`). A refused allocation
  changes no link of a chain (`AllocKeeps`); a cluster is filled with the bytes whose
  position, divided by the size of a cluster, leads there (`FillReads`).
- `FilesListed` (`ListsThem`), from `FoundIsThere`: no file lies behind an entry that was
  never used (`NoneMissed`). `Nth` and `Listing` are recursive functions; `ChainIs` and
  `ListingIs` say that they are defined, by induction over sets of numbers.

`KeyboardProof.tla`: the ring of any length, with the handler between any two steps
of the reader
- `NeverRepeated` (`OnceOnly`) and `NoHoleAhead` (`NoneAhead`), for any typist. The
  invariant `RingInv` says that codes in the ring differ (`Distinct`), that one marked
  ready has not been handed out, but for the slot `init_buffer` is just erasing
  (`Waiting`), that the one in the reader's hands is in no other ready slot (`Hand`),
  and that between the reader and the handler every slot is ready (`NoHole`), counted
  from where the reader is going (`From`): `init_buffer` resets `buffer_wptr` before
  `buffer_rptr`, and in between a press may come.
- `RingIsQueue`: `Spec => Q!Safety`, the part of `KeepsPromise` without fairness. With a
  patient typist `pending` is what the ring holds from the reader's slot on
  (`InOrder`), and while `init_buffer` erases it is the one code in the reader's hands
  (`LastOne`), so that nothing else is lost.

and the decoding of bytes, for any number of unanswered commands (`MaxLag`)
- `NoKeyStuck` (`NoneStuck`), `PressesOnly` (`OnlyPresses`, with the one code that Pause
  leaves in the ring) and `LampIsCaps` (`LampFollows`). A property about the moments
  between keys needs to know what the handler has in the middle of one. `Whole` says
  that bytes come in whole keys, `Clean` that before F7 what `key_buffer` holds and what
  is still on the wire (`Coming`) are the bytes of one key going down or up, of one of
  the four codes of Pause, or one answer with nothing gathered. `ModifiersHeld` counts a
  key whose release is still on its way as held. `LampInv` says what the lamp will be
  (`LampWill`): what the last argument on its way says, and if there is none what it is,
  unless an ACK is still to send a new one.

`MemoryProof.tla`: the boot memory map, the hand-over and `kmalloc`, for any size of
memory and of the table, and for any pages and caches that `SlabAssumption` allows
(the table's sizes are whole words; the last slot of a page ends inside it). The
invariant is `MemoryIInv`.
- `TableRight` (`TableExact`): the table is one of ranges that are apart and make up the
  pages in use but for the unrecorded ones (`TableOf`); `InsertStep` goes through the
  four ways of `insert_mminfo`, with `TableAppend`, `TableGrow` and `TableBridge`.
- `RunsAreFound` (`RunsFound`): `find_pages` is a recursive function. That the recursion
  has a solution (`SearchExists`), and that it finds a free run if there is one
  (`SearchFinds`), is shown by taking, of the starts for which it is not so, those
  nearest to the end: there is a nearest one since natural numbers are well-founded.
- `ObjectsStayApart` (`ObjectsApart`), `ObjectsAreHoused` (`ObjectsHoused`), for callers
  that keep to `SafeCall` (`SafeToFree` and `ProgramFits`, section 2; under others
  neither holds): the invariant `SlabIInv` says which slot of which page (`Slotted`), or
  which block (`Blocked`), an object fills, that blocks are apart (`BlocksApart`), that
  a page stays with its cache (`SlabHeld`), and that `freeobj` is in front of every slot
  not handed out (`CpuPlaced`). Without it `ObjectsApart` would be lost with the next
  object.
- `LinksStayIntact` (`LinksIntact`), for the same callers: a program that fits its block is
  written in pieces of 64 bytes, and these too stay inside it.
- `BootPagesStay` (`BootPagesKept`), if `LastPageInside`. `init_buddy` rounds up the number
  of the last page in use, not of the first free one (`buddy.c:62`): should that page be
  the first of a block of the largest order, the arena would begin with it. With the
  program's 128 MB it is page 4319, the last of its block, and the hypothesis holds.

`EditorProof.tla`: the editor, the prompt and the clock, for any files, reads that fail,
any keys whose effect is defined, and any size of the screen, of the buffer and of the line.
- `CursorStaysShown` (`CursorShown`), until a line has taken several rows or the cursor
  was at -1 (`astray`): afterwards the code does lose it. The page moves by one line or
  not at all, so a key must leave the cursor at most one row below the page, or in the
  line above it (`Near`); `FollowShows` says that this is enough, and a lemma for each
  key that it leaves the cursor there (`JKeeps`, `KKeeps`, ...). It rests on what the
  drawing does: `Places` is a recursive function (`PlacesAre`: it is defined
  everywhere); drawn from the beginning of a line, a text has the places it has when
  drawn from its first character (`ShiftedPlaces`), so `Row`, the row in the whole text,
  does for every page; `Flush` stops at the first character `ROW_LEN` rows below
  (`FlushIs`); a line of a text that is not `astray` takes one row (`NextLineIs`); and
  what is typed or deleted moves nothing in front of it (`SamePrefix`). `Induction` is
  stated for sets of numbers, which the provers can instantiate.
- `TextEndsInLine` (`EndsInLine`), `astray` or not, from the same invariant, `EditorInv`:
  deletions stop in front of the last newline (`XKeeps`,
  `BackspaceKeeps`), and a file is loaded with one (`LoadedIs`).
- `LineStaysShown` (`LineShown`), from `ScreenOK`: below the cursor's row the screen is
  empty but for the clock on the row below the others (`Fresh`), so that a new line,
  scrolled or not, is an empty row; a tab spoils no line but its own.
- `ArgumentIsTyped` (`ArgumentTyped`), from `LineOK`: the typed part of `ps_buffer` has no
  end of a string, whatever lies behind it.

Only model-checked: the liveness in `KeepsPromise`, `NeverDeaf` and `EveryoneRuns`
(TLAPS does not do fairness), and `SavedReloads`, since loading goes through a file of any
length character by character, which is induction over data.

## 5. What is not modelled, and the plan

Not modelled for good:

- log and debug output, number formatting, the page-table set-up, the string
  helpers: output or straight-line code;
- the registers of the SD card and of the keyboard (external devices);
- `split_mminfo`, `slab_free`, `node.partial`, `fs_mv`, `fs_mkdir`: nothing reaches
  them; the last two also read locals that nothing wrote;
- what the code leaves undefined (section 2): keys typed with the cursor at -1, a save
  with what an earlier FILE held, a second `kfree` in a freed page;
- what `Files` is not for: a `base_addr` that is not 0, 4 GB and more, a first hint of
  0xFFFFFFFF or one that names a cluster in use.

Not modelled yet:

- sub-directories, and directories of more than two sectors, whose third sector
  `fs_find_empty_entry` gets wrong (`fat.c:672`);
- `lockup`, `unlock` and the interrupt mask; only the shell calls what they guard;
- the shell's commands that only print or call the file system.

Next: sub-directories in `Files`.
