# A verification of HeineOS

HeineOS is a teaching kernel for x86-64 with one CPU, preemptive round-robin
threads, a linked list heap, interrupt driven keyboard and network card, a
read-only tar file system and a few system calls.  This directory holds TLA+
models of its parts, TLC runs that check them on small instances, and proofs,
checked by TLAPS, that hold for every instance.  Paths below are relative to
`src/kernel/src`.

## The system

| Part | State | Operations | What is hard |
|---|---|---|---|
| Scheduler (`thread/scheduler.rs`) | active thread, ready queue, terminated threads, `initialized`, one lock | `schedule`, `ready`, `yield_cpu`, `exit`, `kill`, `cleanup_terminated_threads`, `get_active_tid` | the lock is taken on one stack and released on the next; the timer calls `yield_cpu` anywhere |
| Threads (`thread/thread.rs`) | kernel and user stacks, saved stack pointer, TSS `rsp0` | create, start, switch, kickoff, drop | saved flags, the right `rsp0`, freeing a stack nobody is on |
| Interrupts (`interrupt/`, `device/pit.rs`, `device/pic.rs`) | vector map and its lock, system time | dispatch, register, timer tick | handlers that switch threads while the dispatcher's lock is held |
| Locks (`library/spinlock.rs`, `library/once.rs`) | a bit; a bit and a value | `lock`, `try_lock`, drop, `force_unlock`; `init`, `get` | spinning with interrupts off, a flag set before its value |
| Heap (`allocator/`) | the free list | `init`, `alloc`, `dealloc`, dump | sorting, coalescing, rests too small for a node, leaks |
| Linked queue (`library/queue.rs`) | `head`, nodes that own their successors | `enqueue`, `dequeue`, `remove` | removing from the middle while the others keep their order |
| Network card (`device/rtl8139.rs`) | receive and transmit queues, descriptors, ring offset, two locks | send, receive, handler | handler and threads share queues through `try_lock`; the card runs beside both |
| Keyboard (`device/keyboard.rs`, `device/key.rs`, `library/input.rs`) | decoder prefix and modifiers, event queue | handler, decoder, LEDs, polling | codes outside the tables, reused event objects, allocation in the handler |
| PCI (`device/pci.rs`) | list of devices | recursive scan, configuration reads and writes | multi-function hosts, bridges |
| Files (`filesystem/tarfs.rs`) | table of handles | `open`, `read`, `seek`, `size`, `close` | ends of files, handles never closed |
| Terminal (`device/terminal.rs`, `device/framebuffer.rs`) | cursor, screen, two locks | print, clear, set the cursor, scroll, draw | the spinner in the timer's handler; a dump that prints while the scheduler refuses to switch |
| Coroutines (`coroutine/`) | ring of coroutines | start, switch | a saved context agrees word by word with the one prepared by hand |
| System calls (`syscall/`) | table of functions | dispatch | the gate leaves interrupts on, so a call is preempted anywhere |
| Start-up (`boot.rs`, `device/pic.rs`, `boot.asm`, `multiboot.rs`, `paging/`) | tags, page tables, vector map, interrupt masks | straight-line | padding between tags; shared and self-mapped page tables; mask, vector and routine of a line agree |

The parts meet in three places.  The timer's handler runs on the stack of
whatever it interrupts and calls `yield_cpu`, so the scheduler, the vector map
and the heap share the rule that nobody may be switched away while holding
their locks.  Every component allocates.  The drivers share data between
threads and handlers on one CPU, where a handler that waits for a thread waits
for ever.

## The modules

**`Scheduler`** models scheduler, context switch and interrupts together.
Each stack has a program counter `pc[t]` and, in `below[t]`, the program
counters of the code that interrupts have pushed aside on it; only the stack
named by `cpu` moves.  Labels stand for stretches of code between points where
an interrupt can tell the difference.  `thread_switch` is cut into saving
(`SwitchSave`: registers, flags, `rsp0`), `mov rsp` (`SwitchStack`),
`unlock_scheduler` (`UnlockScheduler`) and `popfq` (`PopFlags`), because
interrupts may come between them when a thread has yielded by itself.  The IF
bit in a saved frame is part of its label (`saved_on`, `saved_off`, `fresh`).
Locks are the bits of the source: `schedLock`, `allocLock`, `vecLock`.
Allocation inside the scheduler's critical sections is not interleaved
further: the scheduler's lock already keeps everybody out.  `kill` is called
with ids of ordinary threads: the one caller in the repository
(`demo/lesson4.rs`) passes 1 and 2, and the idle thread has id 0.  Device
interrupts (`"dev"`) stand for handlers that neither switch nor allocate: the
network card's, and the keyboard's once its event queue exists.  The first key
event constructs that queue in the handler (`keyboard_buffer()`,
`device/key.rs:268`) and takes the heap's lock there, so it waits for ever if it
interrupts code in the heap.  That event is part of `Once` and not of
`Scheduler`: `NeverSpins` and the liveness properties do not speak of it.

**`RoundRobin`** says what the scheduler promises: one running thread, a
queue, and operations that take the head of the queue and put the running
thread at its end.  **`SchedulerRefinement`** maps the scheduler onto it: the
running thread is the one on the CPU until `mov rsp`, and a thread on its way
into the queue is counted as still running until then.
**`LinkedQueue`** is `remove` on a queue seen as the sequence of its elements.

**`Contexts`** looks at the same switches from below: registers and the words
on stacks.  `thread_switch`, `thread_start`, `thread_user_start`,
`coroutine_switch`, `coroutine_start` and `dispatch_syscall` push and pop in the
order of the source (`PushOrder`, `PopOrder`, `SyscallPush`, `SyscallPop`; a row
of pushes or pops is one step, because an interrupt in the middle of it leaves
what one before or after it leaves), the
first contexts are the words of `prepare_kernel_stack` and `prepare_stack`
(`Prepared`), and the way to ring 3 is the frame of `switch_to_usermode`
(`UserFrame`).  Each piece of code puts values of its own in its registers, so a
word taken from the wrong place shows.  Which thread comes next is open; the
scheduler's lock is left to `Scheduler`.  All system calls of `user_api.rs` are
there, with arguments, table and answers.  `before` and `keyEvent` are history.
The idle thread, one more kernel thread here, is left out, and the CPU's part
(gates, `iretq`, choice of the stack) is external.

**`ListAllocator`** models the heap.  The free list is the sequence of nodes in
the order of their `next` pointers, addresses are bytes.  `StopAt` is the place
where the loop of `add_free_block` stops, `AddFreeBlock` the list it leaves,
`FirstFit` and `Fits` the search with its rule on rests smaller than a node.
`leaked` is history: the gaps in front of aligned addresses, which the code
forgets.

**`PacketQueue`** is the ring buffer of Ethernet frames, **`FrameFifo`** what
its users rely on.

**`Rtl8139`** is the driver: threads that send, receive and log, the interrupt
handler, and the card.  While the handler runs no thread moves, but the card
does.  `flush_tx_queue` looks at OWN in one step (`FlushCheck`) and pops and
copies in another (`FlushPop`): between the two come the card, other threads
and the handler.  The interrupt line is level triggered and the card sends its
descriptors in turn; both are external to the source and modelled as the
driver uses them.  Packet queues are sequences, which `PacketQueue` justifies.

**`RxRing`** is what `Rtl8139` leaves out of reception: positions.  The card
stores packets in the ring, each with a header, padded to four bytes and in one
piece past the end of the ring (a copy of what is past the end may go to the
start of the ring as well, see below); `process_rx_buffer` adds up the same lengths on
its own, writes CAPR 16 bytes short and in 16 bits, and pushes good packets on
the `PacketQueue` the module extends.  `rxBuffer` holds the packets that are
still whole, `held` is history: the packets between CAPR and the write
position.  A header is read from whatever is at `rx_read_offset`, which is any
bytes if no packet starts there.

**`Keyboard`** is the PS/2 keyboard from the keys to the characters a thread
reads: keys and their bytes of scan code set 1 (external), `decode_byte` with
its prefix, modifiers and locks, `parse_ascii_code` over the real tables of
**`KeyTables`**, the dialogue of `set_led` inside the handler, the bounded
event queue and `poll_char`.  `typed` is what was pressed, `decoded` what became
of it.  Under NumLock a key of the cursor block comes with a Shift around it
(`SendsShift`), as the comment at `device/keyboard.rs:402` has it.  The reverse,
keyboards that cancel a held Shift around these keys while NumLock is off, is
left out, for the source does not speak of it; so is key repetition, and Pause,
the one key with the second prefix, is not pressed together with Ctrl.  The
scancode of an event is the key's or, with NumLock on the number block, its
digit's; `set_scancode` makes `None` of the table entry for the comma, which is
no scancode, and `EventsMatchKeys` says so (`ScanEntry`).  `NoStuckModifier` asks
of Shift, which has two keys and the cursor block behind it, only that it is not
active without any of them: releasing one ends it.

**`Once`** splits `init` into the swap of the flag, the construction (which
allocates, so it takes the heap's lock) and the write of the value.  Boot code,
threads and a handler use the cells in the phases the kernel goes through:
boot with interrupts off, the menu with interrupts on, threads.

**`Terminal`** is the screen and the threads that share it.  `print!` takes the
terminal's lock for the whole text and the framebuffer's for each character
(`PutCharLock`, `PutChar`); `draw_bitmap` takes the second lock alone, and the
spinner of the timer's handler tries it.  The handler switches to any thread,
unless the heap is locked: `dump_free_list` prints with the heap locked
(`DumpLock`, `DumpLine`, `DumpEnd`).  A cell of the screen shows whose character
is there.

**`Pci`** is the recursive scan as a function of the machine, with a reference
definition of what there is to find, and the write to one half of a register.
**`Multiboot`** is `find_tag` on the layout of the boot loader, and **`Paging`**
the recursion of `setup_initial_page_map` over page tables beside the CPU's
translation.  **`Boot`** is `main`, from the check of the magic number to
`enable_int`, on a computer that is one of `Computers`: framebuffer, UEFI handle
and system table, page tables, initial ramdisk, then masks and vectors of the
interrupt controllers, the drivers' `plugin`, the search for the network card
and its registers, and at last the interrupts and the routines they reach.  A
missing or unsuitable tag, a refused card and a missing routine are panics.

**`TarFs`** is the table of file handles.  `open` takes its number before it
locks the table (`NextHandle`, `Insert`).  Clients are the loaders
(`read_from_file`, the ROM of the emulator), `print_file`, and threads that share
a handle.  Bytes are positions in the file; the result of `read` is an interval.
The sum that `seek` takes in `isize` does not overflow in the model (`SeekTo`).

Modules named `MC...` instantiate these for TLC, modules named `...Proofs` hold
theorems: `DeviceProofs` those of `PacketQueue`, `RxRing` and `Once`, the others
those of the module they are named after.  An operator `Name_Defect` is `Name` with a plausible mistake in the
code; putting it in place of `Name` must break the property it is listed with
in `PROJECT.json`.

## The runs

| Run | Instance | Shows |
|---|---|---|
| `scheduler` | idle thread, one kernel and one user thread, quantum 2, interrupts one deep, with fairness | the inductive invariant, mutual exclusion, no spinning, no freed stack in use, interrupt flag, refinement of `RoundRobin`; every queued thread runs, every terminated thread is freed |
| `contexts` | a kernel and a user thread, three coroutines, interrupts on stacks of up to 57 words | registers, stacks, privilege level and answers of system calls are the ones of the code that goes on; what is suspended stays untouched |
| `allocator` | heap of 136 bytes, layouts of 3, 20, 32 bytes and 16 bytes aligned to 32 | the free list is ordered and coalesced, pieces are disjoint and cover the heap, only over-aligned requests leak |
| `devices` | ring of 32 bytes with 7 behind it, packets of 5 and 12 bytes, good and bad, queue of two, frames too large for it; apart from it, two threads, handler and boot code with one early and two lazy `Once` cells | card and driver agree on every position, nothing unread is overwritten, only the oldest good packet is delivered; the queue refines `FrameFifo`; every cell is written once, early cells are never seen empty |
| `nic` | two threads, two descriptors, queues of one, ring of two, three frames, three packets | order of frames, buffers of the card untouched, packets in order and accounted for |
| `nic_left_queued` | one thread, two descriptors, three frames | violation: a frame is left behind |
| `keyboard` | one key of every kind the decoder tells apart, three key presses, event queue of one, one mouse byte | one event per press and release, no stuck modifier or prefix, lamps agree with the locks, one character at most per press, and the right one for every key that has one |
| `keyboard_stale_char` | the same without the mouse | violation: a key without a character is read as the one before |
| `once_lazy` | `Once` with one thread, handler and boot code | violation: a lazy cell is used before its value is written |
| `terminal` | two threads, a screen of two by two, three calls, with fairness | texts stay whole and in place, nobody draws over a drawing, calls return unless a dump waits |
| `boot` | any of six kinds of tags missing, doubled or unsuitable; page tables of two entries on four levels, shared, self-mapped, with large pages; three buses with bridges between them in every order of numbers, card on line 5, 9 or 11, BAR of either kind | main uses the first tag of each type or stops, every page is opened and none moved, the scan finds every device once, interrupts reach their drivers, the card is configured |
| `files` | two threads, three opens, a file of three bytes, a second of the same name and an empty one | loaded files are whole, shared reads give every byte once, closed handles stay closed |

Bounds.  With two threads beside the idle thread each can be running, queued,
preempted in any place, or terminated while another is freed; with quantum 2
there are ticks that end a quantum and ticks that do not.  Interrupts are one
deep there: a second level, a handler interrupted in the window before `popfq`,
makes the liveness check too large, and the safety properties and the
refinement are proved for every depth.  In `contexts` 57 words hold two frames
of interrupts and a switch, so that nested handlers in that window do occur;
the stacks of the kernel have 65536.  136 bytes hold seven of the smallest
blocks with a rest of 24, so that lists of several blocks, merges on both
sides, exact fits and rejected rests all occur.  The drivers' queues are small
so that they fill up.  Three key presses allow a modifier, a lock and a key to
overlap in every order, with their releases and the LED dialogue in between.
Runs on the card do not check for deadlock: the
programs send a bounded number of frames and then stop; nor do those on the
keyboard, whose user stops typing, on `Once`, where a handler may wait for
ever, on `Boot`, where a panic halts the kernel, and on `TarFs`, where opens are
bounded and a thread that panics on an empty file stops.

A screen of two by two has a right edge, a last line and a corner; three calls
are two that compete and one more that finds what they left.  There
are three buses of two devices with two functions, so that nested bridges,
multi-function devices and gaps combine.  Tags, page tables and buses vary one
at a time: no step looks at two of them.  In `devices`, where ring and cells
share nothing, one rests while the other runs; a packet that crosses the end
of the ring may end before the buffer does or not, and one of
the two lengths needs padding; the proofs take the sizes of the code.  Three
opens give two threads a handle each and one that is opened after another was
closed.

Fairness.  `scheduler` assumes that the CPU executes, that a thread which
gets the CPU again and again makes progress in its own code and not only in
the handlers on its stack (interrupts come at a finite rate), and that timer
ticks, also those that end a quantum, keep hitting thread code.  The timer is
periodic (`device/pit.rs`) and not synchronised with the program.
`terminal` assumes that the timer switches to every thread again and again
while switches are allowed, and that a thread which could take its next step
again and again takes it: a lock that others take and release is found free at
last, because ticks keep no beat with it.

## The findings

`nic_left_queued`: while `transmit` holds the lock of `TxState`, having just
seen that no descriptor is free, the card finishes and interrupts.  The
handler's `flush_tx_queue` cannot take the lock, returns, and the handler
acknowledges the interrupt.  `transmit` then releases the lock without another
look: the frame stays in `tx_queue` although every descriptor is free, until
the next `send_packet`.

`once_lazy`: `init` sets the flag first; a handler that comes before the value is
written gets a reference to nothing.  It concerns the cells that are not
initialised at boot.

`keyboard_stale_char`: `set_ascii` ignores a table entry of 0 and the decoder
reuses one event object, so a key without a character carries that of an
earlier key.  `poll_char` returns it, where `read_char` is documented to
"continue to wait until a valid ASCII character is pressed".

## What the models show beside the properties

These states are reachable in the models, except where it says otherwise.  The
properties of the passing runs are stated around them; `PROJECT.json` lists them
as hazards, apart from the card on another line and the upper case letter.

- When the receive queue of the card is full, `PacketQueue::push` logs a
  warning.  In the handler this means `COM1.lock()` with interrupts off; if the
  interrupted thread was logging, it holds that lock and never runs again.
- A heap dump that meets a terminal or framebuffer lock held by a preempted
  thread waits for ever, since nobody is switched to while the heap is locked
  (`DumpWaits`, the exception in `PrintReturns`).
- The first key event, decoded by a handler that interrupts code in the heap,
  waits for ever for the heap's lock (`Once`: the handler at `construct` with
  `allocLock` set).  `NeverSpins` is stated for handlers that do not allocate.
- While a cursor key is held under NumLock, SHIFT is active without a Shift key:
  a letter typed meanwhile is upper case, although "that should not matter"
  (`device/keyboard.rs:402`).  `NoStuckModifier` names these keys (`shifting`).
- Scan codes 92 and 93 are beyond the tables of 92 entries: the handler panics.
- With a multi-function host controller `PciBus::scan` leaves its loop at the first
  function that is present and scans nothing (`FoundAll` is stated for the
  other hosts).
- A card on a line other than 9, 10 and 11 stops the kernel at boot, after the
  card was initialised and told to report interrupts.
- Outside of the models, from the arithmetic: a packet of 1518 bytes with its
  CRC, stored at offset 8188 of the ring, ends at 9710, two bytes past the 9708
  of `RX_BUFFER_SIZE`.  The driver does not read the CRC.
- The source says two things about a packet that crosses the end of the ring:
  the slice at `device/rtl8139.rs:354` reads its end behind the ring, and the
  comment at lines 364-365 says that the card writes the overflowing bytes to the
  start of the buffer even with WRAP=1.  The card of `RxRing` writes them behind
  the end and may write them to the start as well, and `RingOK` holds either
  way.  If a card wrote them to the start only, the driver would read the end of
  such a packet from stale bytes; the model leaves that card out.
- Outside of the models: `setup_initial_page_map` does not flush the TLB, and
  follows entries that are not zero but not present; `find_tag` reads types into
  an enum that does not name them.

## The proofs

`SchedulerInvariant` states the inductive invariant `IInv` of the scheduler and
proves that the steps within one stack keep it, among them the entry and return
of interrupts; `SchedulerProofs` does the same for the steps that change stacks
and those that make, kill and free threads.  It concludes `Spec => []IInv` and
from it the safety properties of the `scheduler` run, and six more that the run
leaves to the proof (types, `OnePlace`, `ActiveRuns`, `ExitFindsThread`, `UserEntersOwnStack`,
`SwitchHoldsNoLock`), for any sets of threads, any quantum and any nesting
depth, from `SchedulerAssumption` (the idle thread, the boot code and the
threads are distinct, user threads are threads, the quantum is positive).  The
properties are not inductive: that a resumed thread may clear the lock bit again
is safe only because whoever is switched away is at one of a few places and
holds nothing else.  `IInv` therefore describes the shape of every stack
(`Shapes`: what may lie below what), that only the stack of `cpu` is at a place
that runs (`OneRuns`), which places hold which lock (`LocksHeld`), the interrupt
flag at every place (`Flags`), where `active` and `cpu` differ (`Moving`,
`ActiveOK`), and that the queues and stacks agree (`Queues`).  There is one
lemma per action.

It also proves that `Scheduler` implements `RoundRobin`, in the same generality.
Beside `IInv` it needs `QueuedLast`: a thread that has
queued itself and still runs is the last in the queue, so that `mov rsp` is the
rotation of the abstract queue (`Rotate`, `Unrotate`).

`DeviceProofs` proves that the ring buffer of packets implements `FrameFifo` for
every capacity.  `Inv` adds to the types that `head` is `tail` plus `size`
modulo the capacity and that the slots between them hold pushed frames;
`PushContents` and `PopContents` are the arithmetic of the wrap-around.  Then it
proves `RingOK` and `OldestDelivered`, and `FrameFifo` for the queue behind the
ring, from `RingAssumption`: a ring of 8192 bytes (or of the two small sizes for
TLC), packets that fit in it, any capacity of the queue.
`RingOK` is inductive as it stands: it lines the packets in `held` up from CAPR
to the write position without gaps, and says where the driver is among them.
`Ahead` measures positions from CAPR, which turns the order around the ring into
an order of numbers; `Apart` is why a new packet overwrites none that is held.

The same module proves `EarlyCellsSafe` and `WrittenOnce` for any `Once` cells and
any number of threads.  `CellsInv` says that whoever has swapped the flag of a
cell and not yet written it is the only one and finds it empty; `BootInv` that at
boot only the boot code runs and that an early cell with its flag set has its
value or is the one it initialises.

`ListAllocatorProofs` proves all properties of the `allocator` run for every heap
and every set of layouts, from `ListAllocatorAssumption` (the heap is aligned to
nodes and can hold one; sizes are positive; an alignment divides that of a node
or is a multiple of it, as powers of two do).  The properties speak of blocks
that do not overlap, the argument of bytes: `IInv` says that the free list is
sorted, coalesced and aligned (`Sorted`), and that every byte of the heap is in
exactly one free, live or leaked block (`Partition`).  What one freed block does
to the list (`AddFreeBlock`: between two blocks, joined to the one before, to the
one behind, or to both) is a lemma about sequences, what `align_up` returns one
about numbers; that `add_free_block` does not panic follows because the block it
gets covers no free byte.

`Rtl8139Proofs` proves the three properties of the `nic` run for any number of
threads, descriptors, queue entries, frames and packets.  The orders are not
inductive: that threads and handler may flush the queue in turns rests on the
lock having one holder (`LockInv`), and that the next free descriptor follows
those in use rests on their being one run around the descriptors, from the one
the card transmits next to the one before `current`, filled with consecutive
frames (`TxInv`).  That the descriptor
found free is still free when its buffer is filled rests on the lock as well:
whoever is between check and copy holds it, and the card only frees descriptors
(`FreeInv`).  Frames are numbered when `send_packet` pushes them; `CallsInv`
keeps their number within `MaxFrames`.  `RxInv` is the same for receiving:
receiver, queue and ring hold growing numbers, one after the other.

`TarFsProofs` proves the three properties of the `files` run for any archive and
any number of threads and handles.  The number that `open` takes is unique
(`Numbered`, `Private`), so the handle of a loader leads to its file, at the
beginning until it reads (`ClientOK`), whatever others do between its steps;
`Accounted` is the sum of what a shared handle gave out.

`TerminalProofs` proves `PrintIntact` and `DrawsAlone` for any threads, texts and
size of the screen.  `LockInv` gives each of the two locks one holder; `PrintInv`
says that all that was printed since the terminal was locked is its holder's and
that the cursor is where the next character goes; `OutInv` that every character
is on the screen or above it, also after `scroll_up`.

`KeyboardProofs` proves the four properties of the `keyboard` run for any keys, any
number of key presses and mouse bytes and any capacity of the event queue, from
`KeyboardAssumption` (codes are those of seven bits, only Pause has the second
prefix).  None of them is inductive, since bytes that the keyboard has sent and
the handler has not read stand between `typed` and `decoded`.  `Ahead` bridges
them: a decoder that starts where the driver is (`Now`) and reads all bytes under
way (`Pending`: the one in the controller, unless it is an answer or the mouse's,
and those behind it) would append the rest of `typed`, event by event, and end
with no prefix and with the modifiers of the keys that are held (`Expected`;
`ShiftHeld` has the Shift of cursor keys among them), or stop at a code beyond the
tables.  It is stated by the existence of the states
in between (`ReadsAll`), so that a byte read takes the first state away, a key
pressed adds one or two at the end, with a Shift of its own four, Pause six, and no induction over the bytes
is needed.  `LedInv` follows the dialogue of `set_led`
command by command: in it the byte that is taken for the answer is the answer,
unless the handler panics.  `OrderInv` says that what was read, and what is
queued, are events decoded in that order (`Placed`).  After a panic of the
handler only what was decoded before counts.

Each invariant was checked by TLC on the instance of its run before it was
proved (`Ahead` with a decoder that is computed), except the heap's, whose bytes
are all natural numbers.  Only model-checked are:

- liveness (`ReadyRuns`, `TerminatedFreed`, `PrintReturns`): liveness under
  fairness is outside the prover's reach;
- the start-up with tags, page tables and PCI bus: `scan`, `setup_initial_page_map`
  and `find_tag` recur over data, and what they compute for every input takes an
  induction that is outside the prover's reach as well; the masks and vectors are
  set up in the same module, `Boot`, and so are not proved either;
- contexts (`RegistersKept`, `SyscallAnswers`, `OnOwnStack`, `SuspendedIntact`): their
  properties need an invariant over the words of every stack, piece of code by
  piece of code, which has not been worked out.

## Not modelled

- The Game Boy emulator: third-party C code, without shared state of the kernel.
- The speaker, `set_interrupt_interval` of the timer, the serial port's protocol
  and the address arithmetic of PCI: values written to ports, without a state of
  the kernel that a property could relate them to.
- Pixels, pitch and font; the decoder of bitmaps, a straight loop over rows of
  which the file system's model has the reading.
- The bump allocator and the other functions without a caller (`forbid`,
  `set_repeat_rate`, `draw_cursor`, the strings in tags).
- `boot.asm` and `exit_boot_services` of the firmware, before and under `main`.
- The demos as such: what they call is what the modules let their clients do.
- The TLB, and spurious interrupts of the controllers, for which no routine is
  registered.
