# Verification of the Raspberry Pi arbitrary waveform generator

The program is a bare-metal operating system for a Raspberry Pi that plays
waveforms through four DAC channels, the user programs that run on it, and a
Python client that uploads files over a UART. These modules model in TLA+ its
control, its memory management, heap and file system, the GUI library, the front
panel, the display, the transfers over the UART, and the wave application with the
path of a sample from the buffer to the pins. TLC checks small instances of them.
The TLA+ proof system proves, for every value of the constants, the safety of
control, memory, files, heap and arrays, the GUI's queues, the front panel, the
display and the wave application, and that the kernel and the event ring implement
their abstract specifications.

Contents: [inventory](#1-inventory), [modules](#2-modules),
[runs](#3-runs), [fairness](#4-fairness), [proofs](#5-proofs),
[disagreements](#6-disagreements-between-code-and-text),
[not modelled](#7-not-modelled), [plan](#8-plan).

## 1. Inventory

One core runs everything. The kernel has no scheduler and no locks: there is one
program at a time, the kernel runs it and waits, and concurrency means interrupts
(the periodic keypad poll, the PRG_EXIT button on a GPIO, UART input), the
program's own PRG_EXIT handler run at the end of one, a client at the other end
of a serial line, and a user who switches the power off.

| Part (path under `src/`) | State | Operations | Correct when |
|---|---|---|---|
| **Program control**: `kernal/src/app/main.c`, `lib/user_program.{c,s}`, `lib/syscalls.{c,s}`, `lib/interrupts.c`, `lib/events.c`, `lib/exception.c`, `boot/vectors.s`, `io/data_output.s`, PRG_EXIT in `io/keypad.c` | the kernel stack; `s_active_user_program`, the path of the next program, the two words of `system_call_exit`, `dac_output_return_stack`, the word a PRG_EXIT handler returns through, the PRG_EXIT handler, the table of handlers to run at the end of an interrupt, `interupt_active`, the banked `elr_el1` | load, launch, exit, `switch_to`, fault, interrupt entry and exit, PRG_EXIT and its capture, DAC session start and end | every way out of a program leads back to `main()`, the next program starts clean, PRG_EXIT works |
| **Program memory**: `lib/page_allocator.c`, `lib/translation_table.c`, `lib/user_program.c` | the page bitmap, lists of page segments, the sorted section array, the page tables built from it | load, `vmemmap` (create, resize, query, delete, anywhere), destroy | a page has one owner, sections are apart, no page is mapped twice, memory is given back |
| **FAT32**: `io/file_access.c`, `io/filesystem.c` | the FAT and its one cached sector, directory clusters, file and directory descriptors with seek position and current cluster, path hash tables | open, read, write, lseek, truncate, remove, rename, diropen, dirread, close | chains are disjoint, end, and hold exactly what was written; a power loss loses no other file; a descriptor's cluster is the one of its position |
| **Heaps**: `lib/central_block_memory_allocator.c`, the same in `user/libarys` | 2 bits per block: free, start, middle, end | aligned allocate, free | allocations are disjoint and inside the heap, free frees that allocation |
| **Dynamic arrays**: `lib/dynamic_array.c`, the same in `user/libarys` | a pointer, a count; the entries in order | insert, remove, delete, binary search | the buffer is the array's own and holds its entries, a search finds what is there |
| **GUI queues**: `user/libarys/gui/src/{events,timers}.c` | a ring of event pointers that grows; an array of timers ordered by end | push, next, resize; push, pop, peek | first in first out, nothing lost or delivered twice; timers in order of expiry |
| **GUI loop and elements**: `user/libarys/gui/src/` | element tree, input capture, cursor, the fields' texts and values | next event, default handler, key, end of a capture, set limits | an application's events tell it the library's state; a field gives only values in its range |
| **UART transfer**: `user/uartupld`, `user/uartrun`, `uart_interface.py` | packet being read, file position, ready word matched so far | create, rename, delete, list; section, copy, set, execute | the file holds the bytes sent; both ends agree where a packet ends |
| **Keypad**: `io/keypad.c` | physical key word, three emulated key words, poll period | poll, UART message, get state | a press is seen once by the program; a message is applied whole |
| **DAC configuration**: `io/data_output.c`, `io/hardware_controll_register.c` | resolution, buffering, a register byte for relays and one for the keypad row | set resolution, set buffering, write register | relays show what the words say; only supported states are entered |
| **Framebuffer and console**: `io/framebuffer.c`, `io/putchar.c`, `io/pc_screen_font.c` | number of buffers, the active one, its mapping, cursor | request, switch, draw | the firmware shows the active buffer, nothing a program drew stays, the console is in order |
| **Waveform libraries**: `user/libarys/{abstracted_outputs,simple_waveform_input}` | channel buffers, parameter list | set channel, start, stop | the packed words carry each channel's samples |
| **Single wave**: `user/sch1wave` | menu choice, wave, parameters, numeric input, the output buffer, the captured handler | menu, input, write the buffer, output, abort | the output is the selected wave, the main loop can always be left |
| Other applications, configuration parser, SD card, boot, drivers, formatting | see `PROJECT.json` | | |

How they interact. `main()` loads a program's configuration and image through
FAT32, takes pages for it, builds its translation table and enters it with an
`eret`. The program calls the kernel with `svc`; such a call runs with interrupts
masked, except a DAC session, which unmasks them. An interrupt leads to the
keypad, and the keypad to PRG_EXIT, which is deferred to the end of the interrupt
through a table of handlers; the handler in force either ends the program or, when
the program has captured PRG_EXIT, runs one of its functions. Files and pages both
use the kernel heap. The keypad scan and the relays share one shift register.

What makes the code hard:

- Control leaves the middle of things by loading an old stack pointer
  (`system_call_exit`, `dac_output_end`, `_return_from_user_function`), and each of
  these depends on a global word that must still describe a living frame.
- Interrupts are enabled while `main()` prepares a launch, and during a DAC
  session, and an interrupt entry saves no `elr_el1`.
- A PRG_EXIT handler may never come back, may nest DAC sessions in the session it
  interrupted, may switch programs, and may be captured or released meanwhile.
- Page accounting, the table and what the program sees are three structures updated
  one after another with failures in between.
- A write to a file touches the FAT, the data and the directory in turn.
- The GUI acts on selection and capture at once and reports them through a queue that
  is read later; its ring and its timer array are resized and shifted in place.
- Neither end of the UART can see that the other has given up: a packet is
  delimited only by what both have counted.
- A keypad row is latched while the next is selected, in the register that holds the
  relays; the emulated keys are read and cleared while the host may be sending.
- The firmware may refuse a framebuffer, after the old one has been given up.

`PROJECT.json` lists the hazards one by one, each at its line, with the
properties that cover it or the reason none does.

## 2. Modules

| Module | What it is |
|---|---|
| `ProgramLifecycle` | abstract specification: select, start, end, recycle, one program at a time |
| `ProgramControl` | the control flow of the kernel, and its properties |
| `MCProgramControl` | instances for TLC |
| `ProgramControlProofs` | proofs about `ProgramControl` |
| `AddressSpace` | page allocator, translation table, load, `vmemmap`, destroy, and their properties |
| `MCAddressSpace` | instances for TLC |
| `AddressSpaceProofs` | proofs about `AddressSpace` |
| `FileAccess` | the files of a directory, the allocation table, open descriptors, and their properties |
| `MCFileAccess` | instances for TLC |
| `FileAccessProofs` | proofs about `FileAccess` |
| `BlockHeap` | the block allocator |
| `DynamicArrays`, `MCDynamicArrays` | sorted arrays on a `BlockHeap` shared with other allocations |
| `DynamicArraysProofs` | proofs about `BlockHeap` and `DynamicArrays` |
| `BoundedFifo` | abstract specification: a queue with a capacity, beyond which nothing is promised |
| `GuiQueues`, `MCGuiQueues` | the event ring and the timer array; the ring implements `BoundedFifo` |
| `GuiApplication`, `MCGuiApplication` | the event loop, navigation, capture and cursor |
| `GuiFields`, `MCGuiFields` | the integer and the float field, key by key |
| `GuiProofs` | proofs about `GuiQueues`, `GuiApplication` and `GuiFields` |
| `UartLink`, `MCUartLink` | `uartupld` and `uartrun` with their client, on a line that overruns |
| `Panel`, `MCPanel` | keypad scan and emulation, relays, output configuration, the wait after a fault |
| `HostProofs` | proofs about `Panel` and `UartLink` |
| `Screen`, `MCScreen` | framebuffers, overscan, the console, a program's drawing |
| `ScreenProofs` | proofs about `Screen` |
| `SampleBuffer` | samples as bits of words, and what the converters latch |
| `WaveEditor`, `MCWaveEditor` | `sch1wave` with `numeric_input.c`, over `SampleBuffer` |
| `WaveEditorProofs` | proofs about `SampleBuffer` and `WaveEditor` |

A definition whose comment begins with "Mutant" is a plausible wrong version of
the definition after it. No specification uses one; each breaks a property, which
is how `PROJECT.json` shows that the property depends on the code.

### ProgramControl

Everything the kernel is in the middle of lies on one stack, so the state is that
stack above the frame of `main()`, plus the words the jumps use.

| Variable | Code |
|---|---|
| `pc` | the point of `main()` / `execute_user_program` / `_execute_user_program` reached; "running" once the `eret` has entered the program, "stopped" when `main()` has returned, "lost" when control has left any path the code intends |
| `stack` | frames: "user" (the program), "irq" (`generic_irq_handler`), "handler" (a captured PRG_EXIT handler in EL0), "dacEntry", "dac", "dacExit" (a DAC session before, while and after its word is set), "getc" (`system_call_uart_getc` waiting), "fault" (waiting for a key after a user exception). `intact` is FALSE once a handler has returned into the frame with its own registers |
| `mainMasked` | PSTATE.I as `main()` finds itself with |
| `active`, `program`, `request` | `s_active_user_program`, the program chosen, the path `switch_to` left |
| `elr`, `regs`, `block`, `returnSet` | what the launch's `eret` will use, whether `main()`'s registers are its own, and what the words of `system_call_exit` describe |
| `dacReturn` | `dac_output_return_stack`, as a position in `stack` |
| `handlerReturn` | `_execute_function_as_user_program_return_stack`, as the position of the handler frame it was stored for; the code never clears it |
| `handler`, `events`, `interruptActive`, `cooling` | the PRG_EXIT handler, `s_interupt_end_hanlders`, `interupt_active`, the debounce time |
| `pending` | interrupts raised and not dispatched |
| `dirty` | what the program changed and `on_user_program_exiting` must put back: descriptors, framebuffers, polling period, key emulation |

An action is one stretch of code that an interrupt cannot divide, or one the code
divides where interrupts are enabled. The launch is therefore five actions
(`SetActive`, `SetEntry`, `SaveRegisters`, `StoreReturn`, `Eret`): an interrupt
fits between any two of them and that is where it does harm. An interrupt is
`TakeIrq`, `DispatchIrq`, one `RunEvent` per deferred handler, and
`ReturnFromIrq`. The program's own choices (`Exit`, `SwitchTo`, `CapturePrgExit`,
`DacOutputStart` ...) are enabled whenever EL0 code runs, and that includes a
captured handler.

Abstracted: which resource `dirty` names, everything a program computes, the
contents of a register context beyond whose it is, and time, which is two booleans
(`young`: less than a quarter of a second since the start; `cooling`: less than the
debounce time since the last PRG_EXIT).

### AddressSpace

Addresses and sizes count 2 MiB pages. An allocation is the set of its pages (its
linked list of segments is that set's runs, which `FirstSegment` recovers), and
the section array, kept sorted by the code, is a function of the start address.
`Translates` is what the processor's walk finds in the tables the code fills: it
follows the page middle directory that the last section to write an upper
directory entry left there, indexed as the code indexes it. The errors of the
arithmetic are kept where they have an effect: the 8-bit entry count
(`EntryMod`), the clash check that scales a size by eight (`NoClash`), the
clearing of the image with the size of the stack (`Clears`), the rounding of every
resize to one page (`Resize`), the page that is freed and marked again (`Freed`).

`Load` is the whole of a load from the configuration file's values to the finished
table, with each of its refusals; `Destroy` the end of a program;
`Create`, `Resize`, `Remove`, `RemoveMissing` the four cases of `vmemmap`,
`VmemmapQuery` its size of -1, and `VmemmapAnywhere` its search for an address.

The phases "panic" and "undefined" end a behaviour. "undefined" follows
`remove_translation_table_section`, which leaves in the table what it read behind
the end of an array.

### FileAccess

A system call runs with interrupts masked, so a call is a step; what is hard here is
not interleaving but a long sequence of legal calls. State: `fat` (a cluster's
successor, free or end), `dir` (the entries of one directory: name, first cluster,
size), `fds` (`s_fd_hash_table`: the entry's place, first and current cluster,
offset, size, whether it may write), `phase` and `result`. A path and its descriptor
are the same name, since the code's descriptor is the hash of the path.

Each of the code's shortcuts is kept: the current cluster that stays behind when a
transfer ends with a cluster (`Moved`), the seek that starts where the descriptor
happens to be (`SeekStart`), the move to the next cluster at the end of a file
(`Grown`), the offset that a long read advances twice (`Read`), the byte a truncated
file keeps (`Kept`), zeros written where a failed seek left the descriptor
(`FtruncateUp`), the card that runs out in the middle of an extension (`Lowest`).
`truncate` and `remove` of a path are `Open`, `FtruncateDown`, `FtruncateUp` or
`Fremove`, and `Close` in sequence.

Two forms of damage cannot be followed. Where a call uses a number that is no cluster
as one (`Wild`), it reads and writes whatever lies there on the card: the step leads
to the phase "undefined", which ends the behaviour. And three calls leave structures
inconsistent as soon as they succeed: shrinking a file by whole clusters, renaming an
open file, creating a file on a full card. `Misuse` says which of these an instance
may make; in `FilesSafety` none, so that its invariants say what holds for a
program that avoids them.

`ProgramExits` is where `FileAccess` meets `ProgramControl`: there the descriptors
are one of the resources in `dirty`.

### BlockHeap and DynamicArrays

The kernel's allocator and arrays and the program library's are the same code; the `map` of
`PROJECT.json` names lines of both. `BlockHeap`'s state is `control` (the two-bit words, a
few behind the region included, because the code's scan can reach them), `free` (the count
of free blocks) and `held` (what the callers hold: a history variable, as the heap itself
records no sizes). `AllocAt` takes the first blocks that fit. `Scan` is the two nested loops
which find them in the code, and `FirstFit` compares the two in every heap that arises: they
agree but for a one-block request with an alignment, which may be given the block behind the
region. `Freed` is the loop of a free, which finds an allocation's end in the words alone.

`DynamicArrays` extends it with arrays of ordered entries: `Insert` at the place the
binary search (`Search`, the loop as a recursive function of its two bounds, and
`Closest`) gives, `RemoveEntry`, `Delete`, each of which moves the array
to a new allocation before it frees the old one, or fails and leaves the array as it
was; `Others` is everything else that allocates and frees.

### GuiQueues

`queue` is `gui_event_queue` slot for slot: the slot at `read` holds the event that is
being handled, and the next call frees it. `timers` is the array of `timers.c`, whose
slots are shifted by reading and writing the same array (`Inserted`): `Turn` is one turn
of the copying loop, which reads what earlier turns have written unless the array
grows, and `Copied` the loop. A timer that
expires becomes the payload of its event. History variables note when the code has
left the region where the properties hold: `grown` (the ring has been full once, and
its growth, which computes its length from an index out of range, has lost the events
that waited; what they hold is then lost to `free`, but nothing is freed twice) and
`peak` (more than two timers were ever set, and an insertion may have
overwritten a timer before it was moved). `stale` is a freed timer taken for a pending
one; the behaviour ends there.

### GuiApplication

The event loop over a queue that does not overflow. `GetNextEvent` samples the keypad,
takes an expired timer, queues the events and hands out the first; the other actions
are the default handler for each type of event. Selection and capture change in a
handler at once (`SetSelection`, `SetCapture`), and the events about it are queued.
`HeapExhausted` is the point from which `malloc` fails: the library then drops events
and timers silently. `told` is the picture an application draws from the events it was
given. Elements, keys and where an arrow leads are constants; the structure of a
screen does not change while it is shown.

### GuiFields

Either field under any sequence of keys. The integer is two's complement of `Width`
bits. The float field has three views of one number, and all are state: the text buffer
with its ends (`Nul`) and its length, the coefficient with its magnitude and the weight of
the next decimal, and the value the application reads (`output`). `Magnitudes` is the table
of prefixes in `complex.c`; a limit is a coefficient with its place in that table, its
decimal weight and its text. `SetMinMax` and `SetDefault` are the application's calls, at
any time, also during a capture: `SetMinMax` leaves the minimum the weight it had, which is
that of no digits in a field made by the `_simple` constructor (`FloatCreated`), and
`SetDefault` compares the default with no limit. `CharBefore` is the character in front of
the next one, which is the one in front of the buffer where the text is empty. Floats are
fixed-point to `MaxPlace` decimals: rounding is not modelled.

### UartLink

`dev` is the program, at the packet and the point of it reached; `client` the command and
its step. `up`, `rx` and `down` are the line to the device, the device's receiver of `Depth`
tokens, and the line back, which carries the ready word among other text. `Arrive` drops
what the receiver cannot hold while the device is elsewhere. The client matches the ready
word a character at a time (`Matched`) over pieces of any length (`HandleUartInput`), as it
may find it split over two reads. A command is a script of waits, sends and data. `Hearing`
is what each further character of a text makes of the word matched so far. `early` says that
more was sent than a ready word had asked for: a command that sends its header without a
wait, or zeros for more than one chunk at once (section 6); `FramesAgree` says nothing of a
line where that has happened. `faults` records which of the listed failures has happened: a
file that could not be opened or written, an exception in the client, ^C, an overrun, and
"overlong", several chunks over a file that is longer than one. `cluster` is where the
file's descriptor stands: `WriteFile` puts a chunk there, which is where it belongs unless
the file was longer (`WriteCluster`), and fails where the end of the file cannot be found
(`CannotExtend`); `TruncateFile` cuts only behind that cluster, and its result is dropped.
`Misread` is a device that takes a byte for something else than it was sent as; nothing
follows it, since everything then depends on the bytes.

### Panel

The interrupt handlers of the keypad, against system calls (masked, hence one step), a
running output and the wait after a fault (both interruptible). A handler of the program's
own (`HandlerBegins`) breaks into an output, makes the same calls, masked, and returns to it
(`HandlerReturn`), leaves it (`DacOutputEnd`) or starts another inside it: `outputs` is the
sequence of those begun. What an output counts on is gone from its entry when a handler
changes the configuration meanwhile (`Reconfigured`). `register` and `wired`
are `hardware_controll_register` and what the shift register drives. `TimerFires`, four
`PollRow` and `PollEnds` are a scan; `MessageArrives`, `KeyEntry` or `OtherEntry` per
entry, and `MessageEnds` a message of the host; `GetKeypadState` is the system call and
`HaltReads`, `HaltClears` the same function in two steps, where interrupts are enabled.
`latched` and `asked` are history variables: what each row showed, what the host asked.

### Screen

One record, `fb`, holds the statics of `framebuffer.c` and `putchar.c` and the memory
they describe. `Requested` and `Switched` give every record a call can leave, each
refusal of the firmware and of the allocator included. `Mapped` keeps the code's error
that a new allocation is stored in a copy of the section: the mapping then moves only
when the heap returns the block just freed (`moved`), and a second remake frees the old
one again, which is a panic (`owned`). Display rows hold the number of the line
drawn in them; buffers of programs hold whether anything has been drawn (`ink`).

### SampleBuffer and WaveEditor

`SampleBuffer` has no state. `Written` is the packing of `raw.c`, a word as a set of bit
numbers; `OnPin` the rotation of the output loop; `Latched` composes both with the
converters' wiring, from `LsbWiring` and `MsbWiring`.

`WaveEditor` is `sch1wave`: `Menu`, `SelectWave`, `Input` on the main loop's key
presses, then the writing of the buffer a sample at a time, the output and its end, with
PRG_EXIT between any two steps (`PrgExitAborts`, `PrgExitStops`, `PrgExitEnds` by the
handler in force). `Edited` and `Returned` are `numeric_input.c`, with its multiplier
and base. The frequency is the one parameter kept; amplitude, offset, phase and duty only
change the levels, as does the wave type.

`AddressSpace` and `ProgramControl` do not share state. `ProgramControl`'s `LoadProgram` and
`LoadFails` are `AddressSpace`'s `Load` and its refusals, and its `Recycle` is
`Destroy`. `Panel`'s `Exiting`, `Screen`'s `ProgramExits` and `FileAccess`'s
`ProgramExits` are what `on_user_program_exiting` does to each of the resources in
`ProgramControl`'s `dirty`; `Panel`'s wait after a fault is the frame "fault".
`WaveEditor`'s PRG_EXIT, capture and output session are `ProgramControl`'s, seen from a
program. The packets of `uartrun` make the calls of `AddressSpace`.

## 3. Runs

| Run (`.cfg`) | Checks | Shows |
|---|---|---|
| `ControlSafety` | `TypeOK`, `SessionOwnsReturn`, `ControlInvariant`, `PrgExitEndsProgram`, `CleanStart`, `ImplementsLifecycle` | whatever the interleaving of interrupts, handlers and DAC sessions: no deferred handler survives its interrupt, a captured handler is in force only while its program can be returned from, an undisturbed DAC session is left through its own frame, a new program inherits nothing, PRG_EXIT with the default handler ends the program it finds running, and the kernel implements `ProgramLifecycle` |
| `SpaceSafety` | `TypeOK`, `PagesOwnedOnce`, `Contiguous`, `SectionsApart`, `NoAlias` | across loads, every `vmemmap` call and destroyed programs: a page has one owner, an allocation is one run, sections do not overlap, no page is reachable at two addresses |
| `FilesSafety` | `ClustersOwnedOnce`, `PositionInFile`, `DescriptorsAgree` | files are created, written past their end, seeked in, truncated within a cluster, removed and renamed until the card and the directory are full: no cluster has two owners or is free while in use, a descriptor stands in its own file or nowhere, a descriptor agrees with its entry |
| `DynamicArrays` | `BlocksOwnedOnce`, `BuffersHoldEntries`, `SearchKeepsOrder`, `FirstFit` | across insertions, removals, other allocations and refusals: allocations are apart and a free ends where its allocation ends; an array's buffer is its own and large enough; the search finds every entry and the place of every other value; the scan is first fit |
| `GuiQueues` | `HeldOnce`, `TimersOrdered`, `ImplementsFifo` | until the ring first fills it is a queue, wrapping included; while at most two timers are set at once, also in a ring that was resized, each event and timer that is held has one owner that frees it, until the ring is resized nothing leaks, two timers stay in order and none is used after it was freed |
| `GuiApplication` | `EventsTellAll`, `ScreenAgrees`, `CursorTicks` | an application's picture of keys, capture and focus is never contradicted and catches up with the library's; what is drawn agrees with it even when `malloc` fails; a capturing field keeps a cursor timer |
| `GuiFields` | `ReadInRange`, `TextInBuffer`, `ValueIsRead` | whatever is typed, overflow included, and however limits change, the application reads values in range or a default, the text ends inside its buffer although typing ends no text, and keys go on from the value read |
| `UartLink` | `FramesAgree`, `UploadIsSource`, `CommandsEnd` | packets keep their frames except after the faults it names; an upload without fault leaves exactly the file sent, over a file of at most a chunk, or in one chunk over any; and a command ends |
| `Panel` | `RowsReadInPlace`, `KeysAsAsked`, `OutputsWired`, `KeyEndsHalt` | a scan that relay writes interrupt reads each row as that row's; the three emulation masks say what the host asked last; relays, report and running output agree; a key ends the wait after a fault |
| `Screen` | `ShowsActive`, `LeftClean`, `ConsoleInOrder` | across refusals and remakes the firmware shows the active buffer; a program leaves none of its drawing and never touches the console; the console is a gapless window on the output |
| `WaveEditor` | `OutputIsSelected`, `OutputInBuffer`, `MainLoopAttended` | the output, through packing, rotation and wiring, is the selected wave at the selected frequency; no word outside the buffer is written or read; after any abort the main loop has the keypad and PRG_EXIT back |
| `ClaimProgramStart` | `EretStartsProgram` | a disagreement, see section 6: TLC finds it violated |

`PrgExitEndsProgram` has three exceptions, and all three are the code's: the
program is inside a handler it captured earlier (interrupts stay masked in it until
it returns), it waits for a UART byte (`system_call_uart_getc` unmasks only the copy of
the mask that acts after the call), or it captures PRG_EXIT before the interrupt is
dispatched.

"lost" is a state of `ProgramControl`, and no run claims that it is unreachable: it
is reachable, by the windows of section 6. What the runs show holds in spite of
those windows, and the lifecycle has a `Derail` step for them. `LaunchReady` and
`StackShape`, parts of `ControlInvariant`, say how far the damage goes: a program
that has been entered always has its way back stored and intact.

Bounds:

- `MaxHandlers = 4` slots for deferred handlers. `ExitsDrained`, a part of
  `ControlInvariant`, shows that one is ever used, so more slots add nothing; the proof
  covers every number of slots.
- `MaxDacs = 2` sessions open at once: a session, and one opened by a handler that
  interrupted it. That is the least number at which `dacReturn` can be the wrong
  session's, and a third only repeats the second. The proofs bound nothing here.
- `Apps` has two programs beside the main interface, so that a request can differ
  from the program that makes it; `ClaimProgramStart` has one, as
  nothing there depends on which program is next. `Resources` has one element: no
  action treats two resources differently.
- The stack is bounded by the code itself: interrupts do not nest, and handlers nest
  only through DAC sessions.
- `NumPages = 8`, `KernelPages = 1`: room for a program, a mapping and a leaked
  allocation, and few enough that allocations fail. `PagesPerGiB = 4` stands for 512
  and `EntryMod = 2` for 256, in the code's proportion: a section of 2 pages is one
  of 512 MiB, whose entry count wraps to 0. `MaxSize = 3` pages for image, program
  and stack crosses that wrap. `MCStarts` = {4, 6, 8, 28} holds two addresses of one
  GiB, the next GiB, and one for a stack that passes the scaled clash check.

- `FilesSafety`: three clusters of two bytes, two directory entries, three names,
  offsets and sizes up to 4. Two files of two clusters do not fit on the card, so
  extensions fail half-way; a third file does not fit in the directory; a file of two
  clusters has every case of a transfer: within a cluster, up to its end, across it.
  `PositionInFile` and `ClustersOwnedOnce` need two files whose clusters alternate,
  which three clusters allow. Clusters of 2 bytes rather than 1, so that a position
  within a cluster exists.
- `DynamicArrays`: five blocks that begin at an odd address, two arrays of up to four
  entries, two to a block, next to allocations of one block and of an aligned pair:
  arrays grow and shrink across a block's boundary, the heap fills, and an aligned
  request skips a block. Ten words, so that the scan's steps past the region stay in
  view.
- `GuiQueues`: a ring of four slots wraps and fills, and may grow twice (to 6 slots);
  three timers exceed the two that work. Four instants give timers in any order.
- `GuiApplication`: two fields and a disabled label, Enter and one arrow: captures end,
  begin and move on while their events wait. Four waiting events and three timers; a
  handler queues at most three.
- `GuiFields`: 8 bits for 64; limits inside the width's, so that the integer leaves the range on
  either side and wraps, and a default outside them; digits 0 and 5, the ones that the code's
  leading-zero cases and carries tell apart; three decimals and a text of four characters
  in a buffer of five; coefficients up to 60, `MaxCoefficient`, beyond every limit;
  a default inside both ranges, and one outside the tighter of them; `Kilo = 4` for 1000,
  so that all five magnitudes fit TLC's integers.
- `UartLink`: files of 1 or 5 units in chunks of 2, a cluster of 1, over a file of 2, and
  then over what an earlier upload left: a chunk that is not full, whole and partial chunks,
  zeros over more than one chunk when the source has become shorter, a file of one chunk over
  a longer one, chunks over a longer one (the fault "overlong"). A receiver of one token
  is the least that overruns. Three commands, so that one starts after a command that
  was abandoned and one after that. Deadlock is not checked: after the last command, a
  misread packet or the end of `uartrun` both ends really stop.
- `Panel`: two buttons of one column in different rows, so that a row read in the
  wrong place shows; one of them emulated. Two channels with different support. Messages
  of two entries, so that one can undo the other. An output, a handler that breaks into it,
  an output of the handler's and a handler in that (`MaxOutputs`).
- `Screen`: two to four buffers, a display of 9 rows with a console of 4, characters 2
  rows high: three lines, and a third of the console (1 row) that must be rounded up.
  Lines are numbered modulo 5, more than the display can hold.
- `WaveEditor`: nine samples per second, so that 1 Hz fills two words, 2 Hz one, and the 16
  bytes of memory, which may be refused, are the two words. The base step is 10. Two
  characters of input hold every case of the point. Two waves with all levels different,
  some beyond the converters' range.

Deadlock is checked in every other passing run: `SystemHalted` and `Halted` are the endless
loops the code ends in.

## 4. Fairness

**ProgramControl.** `FairSpec` assumes that the processor does not stop: `main()` runs on
(`Main`), a pending interrupt is taken when it is unmasked (`TakeIrq`), and an interrupt
handler runs to its end (`DispatchIrq`, `RunEvent`, `ReturnFromIrq`). The hardware gives
this on one core with level-triggered interrupts. Nothing is assumed of programs: a program,
a captured handler or a DAC session may run for ever, so liveness never rests on one's good
will. Nor is it assumed of the user or the serial line that a button is pressed or that a
byte arrives. Weak fairness is enough for `TakeIrq`: an interrupt stays pending until it is
dispatched, a system call that does not wait is one step, and the two places where a program
stays masked, `uart_getc` and its own handler, are exceptions of `PrgExitEndsProgram`.

**Panel.** The system timer's interrupt is pending until it is served and the
dispatcher looks at it first, so a scan is not put off by messages for ever, though other
interrupts come between: strong fairness of `TimerFires`. Handlers run to their
end, and the host sends the entries it has announced (the handler waits for them):
weak fairness of `Handlers`. The wait after a fault makes progress between interrupts,
which are further apart than it takes: strong fairness of `Halts`. Keys are pressed or
not. `KeyEndsHalt` therefore assumes that the held buttons stay as they are, and says
that the wait cannot go on for ever with what it sees different from what it saw first.
`Exiting`, which turns polling on again to its default, is what makes it true; with
polling off in `system.cfg` it does not hold, and the instance has it on.

**UartLink.** Both ends run on and the line delivers: weak fairness of the device, of the
client's steps, of its reading and of `Arrive`. A user gives a command or presses ^C as he
likes, and files may fail to open or be written.

The other specifications state no fairness and no liveness property.

## 5. Proofs

The theorems are about the specifications the runs check, from the named assumptions
on their constants and no others. Each `...Proofs` module holds one component's
inductive invariant, the lemmas about its operators, one lemma per action, and the
theorems at its end.

| Module | Theorem | States |
|---|---|---|
| `ProgramControlProofs` | `ControlCorrect` | `Spec => [](TypeOK /\ ControlInvariant)` |
| | `TypeCorrect`, `ExitsAreDrained`, `CaptureIsOwned` | its parts of that name |
| | `SessionsOwnReturn` | `SessionOwnsReturn`: the word of `dac_output_end` is that of the innermost running session |
| | `StartsClean` | `CleanStart`, an action property |
| | `LifecycleImplemented` | `Spec => ImplementsLifecycle`, a refinement |
| `AddressSpaceProofs` | `MemorySafe` | `Spec => [](TypeOK /\ SpaceInvariant)` |
| | `OwnedOnce`, `Unfragmented`, `Apart`, `NoAliasing` | the four safety invariants of `SpaceSafety` |
| `FileAccessProofs` | `FilesCorrect` | `Misuse = {} /\ Spec => []FilesInvariant` |
| | `NoClusterShared`, `PositionsInFiles` | `ClustersOwnedOnce`, `PositionInFile`, where `Misuse` is empty |
| | `DescriptorsTrue` | `DescriptorsAgree`, where no open file is renamed and none is created on a full card |
| `DynamicArraysProofs` | `HeapCorrect`, `HeapBlocksOwnedOnce` | the heap on its own (`HeapSpec`): its invariant, `BlocksOwnedOnce` |
| | `ArraysCorrect` | `Spec => []ArraysInvariant` |
| | `ArraysOwnBlocksOnce`, `BuffersLargeEnough`, `SearchedInOrder`, `ScansFirstFit` | the four invariants of `DynamicArrays` |
| | `ScanFindsFirst` | the scan for a free run of any size and alignment, whatever the words hold |
| `GuiProofs` | `QueuesCorrect` | `Spec => []QueuesInvariant` |
| | `HeldByOne`, `TimersInOrder` | `HeldOnce`, `TimersOrdered` |
| | `FifoImplemented` | `Spec => ImplementsFifo`, a refinement |
| | `ApplicationCorrect` | `ApplicationSpec => []ApplicationInvariant` |
| | `EventsAreTrue`, `CursorGoesOn`, `ScreenIsRight` | the three invariants of `GuiApplication` |
| | `FieldsCorrect` | `FieldSpec => []FieldInvariant` |
| | `ReadWithinLimits`, `TextEndsInBuffer`, `GoesOnFromRead` | the three invariants of `GuiFields` |
| `HostProofs` | `PanelCorrect` | `Spec => []PanelInvariant` |
| | `RowsAreReadInPlace`, `KeysStayAsAsked`, `OutputsStayWired` | the three invariants of `Panel` |
| | `LinkCorrect` | `LinkSpec => []LinkInvariant` |
| | `FramesStayAgreed`, `UploadedIsSource` | `FramesAgree` and `UploadIsSource`, the two invariants of `UartLink` |
| `ScreenProofs` | `ScreenCorrect` | `Spec => []ScreenInvariant` |
| | `ActiveIsShown`, `ProgramsLeaveClean`, `ConsoleIsWindow` | the three invariants of `Screen` |
| `WaveEditorProofs` | `EditorCorrect` | `Spec => []EditorInvariant` |
| | `SelectedIsPlayed`, `WritesInBuffer`, `MainLoopListens` | the three invariants of `WaveEditor` |

**Program control.** From `ControlAssumption` alone: any programs, any number of slots,
any bound on sessions. `CaptureNeedsProgram` is not inductive. That a captured handler
finds `returnSet` and a block of `main()`'s own needs `LaunchReady`: the `eret` that
enters a program is one that no interrupt of `main()` has redirected, so all the
stores before it happened with `main()`'s own registers. That a handler's frame is in a
program needs `StackShape`, and that what `RunEvent` runs is the handler now in force
needs `QueuedIsCurrent`, which holds because the table is drained within one
interrupt (`ExitsDrained`) during which no program code can change the handler. The
wait after a fault runs with interrupts enabled and the program still active; there
`FaultQuiet` says that its settings have been put back. `HandlerWord` bounds the one word all
handlers return through: each store is for the handler on top, and frames are only taken off
behind it, so that it never leads below a handler that runs. The proof takes one lemma per
action, and in it one step per conjunct the action can disturb.

`SessionOwnsReturn` speaks of the frame that runs and is not inductive either: an
interrupt covers a session and uncovers it again. `SessionWord` says it of a session
under interrupt frames too; that a session which becomes the top has only ever been
covered so, or is no longer `intact`, needs `StackLayers`, which kinds of frame can lie
over which. `CleanStart` needs that nothing is dirty while a program is loaded
(`DirtyNeedsProgram`) and that `interruptActive` is false outside an interrupt
(`InterruptOnTop`). The refinement needs `RequestAwaitsEnd`: a request is made by a
program that ends in the same step, so that it never outlives the choice it is for.

**Program memory.** From `SpaceAssumption`: any memory size, any page table size, an
entry count that wraps at or before a GiB, and no single program section above 1 GiB,
since no board has more memory below the GPU's. The argument rests on a defect:
because no page is ever freed, the pages in use are always the bottom of memory
(`Packed`), hence the lowest free pages are the next ones up, hence each allocation is
one run (`Blocks`) and is disjoint from all earlier ones (`PagesOwnedOnce`).
`Unfragmented` follows, and with it that the branch of `s_shrink_page_allocation`
which destroys an allocation and goes on using it is never reached. Were
`s_set_page_availability` repaired, `Contiguous` would fail, and the mutant of
`Freed` shows it. `Apart` needs `NeighboursSuffice`: in a sorted array of disjoint
sections, to check the next and the previous one is to check them all. `NoAliasing`
holds because a section writes at most one upper directory entry, so that within
its one GiB a page has one index.

**Files.** For a card of any size, any names, any size of a cluster. The hypothesis `Misuse
= {}` is the one the run makes: with a member of it the three invariants are false, and each
is reachable (section 2). A chain is followed with `Ahead(f, c, k)`, the cluster `k` links
behind `c`, a recursive function. `FilesInvariant` says of every entry that its clusters are
in use, that its chain comes to an end within `Limit(size)` links, one cluster or as many as
the size needs, that the chains of two entries are disjoint, and of every descriptor that it
agrees with its entry and stands on that chain or at its end. That a chain which ends passes
no cluster twice, and comes to its end within the size of the table, is a counting argument
(`ComesRound`, `PassesOnce`, `ClustersBefore`). The delicate case is a write past the end:
it links new clusters behind the one the descriptor stands on, which the seek to the end has
found, while the descriptor itself may be elsewhere. It is not cut off there, by
`EndNotBehind`: a seek that starts at the descriptor ends at or behind it, and one that
starts at the file's beginning finds a cluster only where that is the last. A card that
fills up in the middle leaves a file with fewer clusters than its size needs, never with
more, which is why `Limit` is a bound and not a length. `DescriptorsTrue` needs no chain and
has an invariant of its own, `EntriesInvariant`: as names differ, each open file has its
entry, and a call changes one entry with its descriptor (`OneEntry`). It therefore holds with
files made smaller by whole clusters too. The two calls it leaves out do break it: the rename
of an open file, and the creation of a file on a full card.

**Heap and arrays.** For a region of any size, beginning anywhere, any requests; any
values and any number of them to a block. `HeapInvariant` ties the words to `held`: in
an allocation a start, middles and an end, free words elsewhere, and `free` their number.
`FreedSpan` shows that the loop of a free stops where the allocation does. Arrays add
that each buffer is one of `held` and no two the same, through a move that allocates
first and frees after. `SearchedInOrder` states what the binary search returns for a
sorted sequence of any length. The scan is two loops, one that counts a run of free words
and one that goes on behind it: `RunStops` says where the inner one stops, `TurnGoesOn` that
a turn of the outer one passes no place that would do, and `ScanFindsFirst` follows for any
contents of the words. `ScanAssumption` asks that the region holds an aligned block and that the
words cover it: without the first the rounding of the alignment begins behind the region,
and what is found there is not the first fit.

**GUI queues.** For any number of events and timers, any first size of the ring, any
delays. `RingSound` says that outside of read..write the ring is empty, and
`ArraySound` that reading and inserting stay in the timer array, however many timers
are set. `FewTimers` adds, for at most two, that the array has no gap: an insertion then
copies one timer at most and overwrites nothing it has yet to read. The
indices wrap, so what is in which slot rests on `Slot` and `Between`, the slot `k`
behind and the number between, with `RingNumbers` and `SlotBetween` stating how a
step of an index changes them. For the refinement, `WaitingAfterPush` and
`WaitingAfterNext` show that the sequence of waiting events is what `Append` and `Tail`
make of it; a push to a full ring is `Overfill`, after which nothing is promised.
`BoundedFifo` asks nothing of the timers, and the proof nothing of their number.

**GUI application.** For any screen, any keys, and any bound on events and timers. The
application's picture is compared with a fold over the events that wait, a recursive
function (`TellAll`); `TellOn` says what a concatenation tells, and `KeyEventsTell` that the
events of the keys which changed, one for each, make the keypad of this sample from that
of the last. `EventsTellAll` is then inductive, with each handler's events told in the
order they are queued (`PushTells`). `CursorTicks` needs that a timer which has expired still
waits once others are queued before or behind it (`StillWaits`). `ScreenAgrees` speaks of what
is set at once, and needs no hypothesis about `malloc`. `KeyOrder`, in
`ApplicationAssumption`, lists each key once: the order in which the library compares them.

**GUI fields.** For any width of the integer, any length of text and any limits. What is
read is in range because each way to it ends in the clamp or in a limit (`PutOutput`), and
an integer that leaves the width wraps from `Half` back into it (`WrapTyped`) before the end
of the capture clamps it; the default alone is compared with nothing. `TextInBuffer`
follows the text (`TextFits`): a key shortens it or writes one character where the input
length still allows it (`WriteOne`, `WriteStep`), and a copied limit brings its own end and
leaves what lies behind (`StrcpyTyped`). `FieldAssumption` says of a limit that its magnitude
is an index of the table and that its text is shorter than the buffer, of a range that its
minimum is not above its maximum, and of the longest input that it is shorter than the
buffer. It says nothing of where a default lies.

**Panel.** For any matrix of buttons, channels and length of message.
`RowsReadInPlace` needs that each writer of the register leaves the others' fields alone
(`RegisterFields`) and that what was latched is the row selected before (`PollInStep`);
for `OutputsWired`, outputs are only ever begun, ended from the last on, or deprived of what
they count on (`OutputsChange`, `OutputsLeft`), the last only while one is left (`OutputRuns`).
`PanelAssumption` says that emulated keys are among the keys, and gives each channel what
it supports.

**UART link.** For files, chunks, reads and receivers of any size, and any number of
commands. `Phase` says what the device reads next, and `Run` what becomes of that with the
tokens on their way (`Reached`), a recursive function: a token the device does not expect
there makes it "bad", which `BadStays`. `InStep` says that what is reached is where the
client's script is (`Follows`): the packet, the paths and units left, the room in the chunk.
It is stated twice, because neither form gives both invariants. In the strict one a token
may be on its way only where the device reads and its ready word has been heard (`Unasked`),
and a ready word ends what is on its way back (`WordsRight`); `FramesAgree` follows from it:
nothing is then on its way that could overrun the receiver. The loose one asks for no ready
word, hence holds of what is sent early, but only as long as nothing has failed; it carries
the lengths of the source that explain the units received so far (`Sources`, `CardSound`),
and `UploadIsSource` follows. Where the next chunk goes is `InPlace`: between two chunks
without "overlong" the descriptor is on the last cluster of what is written, and the file
ends there, so that `WrittenInPlace` puts the chunk behind what there is and the truncation
finds the cluster it needs. `UnitsSent` is the loop of the upload against the device's
chunks, and `CutEnds` the arithmetic of where it cuts. `LinkAssumption` asks for a chunk, a
read and a receiver of one unit at least, that the client reads no more than a chunk at
a time (1024 bytes of the file, and 32 KiB), and that a chunk is whole clusters, as it is on
any card with clusters of at most 32 KiB.

**Screen.** For any display, font, console height and number of buffers. `ShowsActive` and
`LeftClean` follow from `Sound`, a statement about one record that every call and every
refusal keeps, and from nothing drawn being left in a moved mapping when no program
runs. `ConsoleInOrder`
is arithmetic: a scroll moves a whole number of lines, whatever the font's height
(`ScrollsLines`), the copy keeps the rest (`ScrolledRows`), and lines numbered
modulo more than the display holds stay distinct. `ScreenAssumption` asks that a third of
the console is a row at least, and that the display has two lines more than the console.

**Wave editor.** For any waves, rate, limits of the input, and memory. The samples are packed
as the editor has them, 8 bits in four frames of two. `Placed` and `SpotsApart` show that
a sample's bits take its own places in a word; `LatchesWritten` that the converters,
after rotation and wiring, latch the sample's code, and `LatchesOthers` that writing it
changes no other. `EditorInvariant` then says of a buffer being filled that its samples so
far are the wave's, and `Attended` in which phases the main loop has given away the
keypad or PRG_EXIT, and to what. `WaveAssumption` says that a level is a number for each
sample.

**Recursion.** The provers cannot instantiate an induction theorem that takes a predicate as
a parameter. Loops are written as recursive functions, and induction is stated on sets: a
set of naturals with 0, and `n + 1` with each `n`, is `Nat` (`Induction`), from the
well-foundedness of finite sets' inclusion. That a recursive function exists is shown in the
same way (`WalkExists`, `SearchLoops`, `CopiesExist`, `RunExists`, `HearingIs`). Each module
that needs `Induction` or a fact of division has it itself, as none extends another.

**Only model-checked.**

- `PrgExitEndsProgram`, `KeyEndsHalt` and `CommandsEnd`: liveness under fairness is
  beyond the prover. Every safety invariant and action property that a passing run checks
  is stated by a theorem.

## 6. Disagreements between code and text

`ClaimProgramStart` finds the stated behaviour violated: `execute_user_program` is said to
start the program (`user_program.h:79`), and an interrupt between the write of `elr_el1`
and the `eret` replaces the address it goes to.

The following were met while modelling. The models do what the code does, and no run
is spent on the text.

Program control and memory:

- `dac_output_end` "will simply return" without a session (`data_output.h:19`); a program
  ended inside one leaves the word set, and the next program's call loads a dead stack
  pointer. `dac_output_start` stores two register pairs in one slot
  (`data_output.s:9-10`), so x21 and x22 come back wrong.
- `terminate_current_user_program` goes where `exit()` would (`user_program.h:32-35`), but
  a program counts as active before its return words are stored.
- interrupts are unmasked "or PRG_EXIT wont fire properly" (`syscalls.c:18`), in
  `spsr_el1`, which acts only after the call.
- a PRG_EXIT handler that returns does so straight into the code its interrupt broke
  into, with its own registers (`ReturnToInterrupted`), where `user_program.h:104` says
  the kernel goes on. Its way back is one global word (`user_program.s:122`): where a second
  handler breaks into a session of the first and leaves it with `dac_output_end`, the first
  returns through the second's dead frame, into the session that is over
  (`ResumeDeadSession`) or nowhere. `HandlerWord` bounds the harm: the word never leads
  below the frames the running handler interrupted.
- destroying a program frees all its resources (`user_program.h:85`); freeing a page
  sets its bit again (`page_allocator.c:301`).
- a mapping is put at the address asked for or the call fails (`v0_abi.md:20`); the page
  directory is filled from index 0 wherever in its GiB the section starts
  (`translation_table.c:402`).
- deleting a mapping that does not exist returns 1 where the document says it fails
  (`RemoveMissing`); querying one panics (`VmemmapQuery`); `vmemmap` on an existing
  section rounds every size to one page (`Resize`, `page_allocator.h:61`); deleting a
  section copies one element too many and leaves the count (`Remove`); a program
  configured without a stack is refused and keeps its pages (`Load`); the rest of an
  image is cleared up to the size of the stack (`Clears`).

Heap and files:

- the rounding of an alignment with one block left takes the block behind the region
  (`central_block_memory_allocator.c:204`, the exception in `FirstFit`). No caller asks
  for it once the heap is in use.
- removing the last entry of an array leaks its buffer (`dynamic_array.c:70-86`, `lost`).
- shrinking is to "Set the entry to the last cluster of the file" (`file_access.c:1236`)
  and sets the one the descriptor stood on; the end of a file is a case of its own
  (`file_access.c:114`) which moves on also where the last cluster has room, so that the
  write fails (`file_access.c:1513`).
- `FILE_FLAGS_TRUNCATE` leaves one byte, and fails on an empty file, where
  `file_access.h:133` says zero bytes (`OpenTruncated`).

Panel and screen:

- an "on" key sent between the reading and the clearing of the emulated keys is lost
  (`keypad.c:141-142`), where `doc/keypad.md:64` has it apply in the next input frame;
  `HaltClears` is the only place where interrupts allow it.
- `dac_resolution` and `dac_channel_buffering` do not look for a running output
  (`data_output.c:131`, `:170`): a handler inside one changes the relays, and the output goes
  on with the frames per value it began with (`data_output.c:78`), on channels that may not
  support the new setting. `OutputsWired` says nothing of such an output.
- a remade framebuffer's allocation is stored in a local section (`framebuffer.c:615`), so
  that the mapping moves only by luck, and a second remake panics.
- where buffers may not shrink, the active one may be beyond the count (`ShowsActive`
  compares it with the buffers that exist).
- the character a full line has no room for is not drawn on the next one either
  (`PutLine`); a request of -3 buffers becomes the maximum (`Clamp`).

GUI, transfers and applications:

- a full event ring loses the events that wait (`events.c:110`), and three timers may
  overwrite one another (`timers.c:86`): the limits in `GuiQueues`' properties.
- the float field draws its text, not its number: `0 . 0 5` is read as 0.05 and drawn as 0.5
  (the digit behind `.0` replaces that 0, `complex.c:606`), and since typing writes no end
  (`FloatDigit`), what an earlier text left behind the length is drawn too. On an empty field
  line 607 reads the byte in front of the text, which is the top byte of a pointer and always
  0, so that nothing comes of it (`CharBefore`).
- `set_min_max` never stores the decimal weight of a new minimum (`complex.c:452`); in a field
  made by `_simple` it is 0, and digits typed behind a minimum then change the text only. A new
  default is compared with no limit (`complex.c:510`), so that what is read may be outside.
- CLR and then ENT leaves 0 in an integer field, clamped, where `complex.h:104` has the
  default: the ENT key takes the mark away on which it would be put back (`complex.c:101`).
- each capture sets a timer of its own: a field captured twice within half a period
  blinks twice as fast (`CursorTicks` asks for at least one).
- an emptied float field shows its default and gives its minimum (`restored`).
- `file_move`, `file_remove` and `list_dir` send their header without waiting for a ready
  word (`uart_interface.py:1103`, `:1138`; `doc/included_uart_apps.md` asks for the wait); an
  empty upload divides by zero (`:831`); the packet that zeroes a page raises before it
  is sent (`:1005`); a file that cannot be opened or written ends its packet on one side
  only (`uartupld/src/main.c:157`).
- an upload whose source became shorter is padded with zeros that are cut at the last chunk
  boundary only (`uart_interface.py:855-863` and `:807-827`): the zeros of several chunks go
  out at once, and the device is sent data while it writes (`doc/included_uart_apps.md:146` has the
  client wait after each 32 KiB).
- an upload "will completly overwite the old file" (`doc/included_uart_apps.md:133`). `write`
  leaves the descriptor on a cluster that it has filled to the end, and moves it on only
  where the file grows from its end (`file_access.c:1508`): in a file that is longer, the
  next chunk overwrites the cluster just written. The truncation behind it then finds that
  the chain and the size do not match (`file_access.c:1254`), fails, and is not looked at
  (`uartupld/src/main.c:167`), so that the old tail stays. `UploadIsSource` without its
  exception for "overlong" is violated by an upload of 5 units over 6 in chunks of 2, which
  leaves units 1, 3, 5 and three old ones.
- an upload over a file that is smaller than its first chunk and ends with a cluster fails:
  the seek to that end does not find a cluster (`file_access.c:1163`, `CannotExtend`).
- a failed `vmemmap` leaves the menu of `sch1wave` with a choice nothing handles, so that
  only PRG_EXIT helps (`main.c:286-289`, `Start`); a value with a prefix that is edited and
  entered again is multiplied again (`numeric_input.c:136`, `Prepared`); the multiplier
  is kept by CLR (`AllCleared`).
- with 16 bits and frames of 6 bits or more, `raw.c:36` shifts an `int` past its width;
  `sch1wave` uses 8 bits and frames of 2.

## 7. Not modelled

`PROJECT.json` gives a reason per part. The drivers and the SD card are pure I/O; the
boot runs once in a fixed order; the configuration parser, `printf`, strings and
fonts are conversions with no later state; the main interface, `ovrscnc` and the test
programs are menus over calls that are modelled. Beyond that:

- Program memory: the statistics, section attributes, addresses at 256 GiB and above, the
  kernel's own table with the framebuffer's sections, and a full kernel heap.
- Files: subdirectories and moves between them, reading directories, what files contain,
  read-only files, failures of the card, power loss between two sector writes.
- Program control: what the window between unmasking interrupts and saving the DAC
  stack does when a handler calls `dac_output_end` in it is modelled, but no property
  speaks of it.
- Heap and arrays: `resize_dynamic_array`, which nothing calls with less than the array
  has, and `preset_alloc.c`, a bump allocator that is done before the heap exists.
- GUI: drawing and layout, which write pixels and keep nothing another part reads;
  screens created and destroyed while shown.
- Waveforms: `buffer_managment.c` and `simple_waveform_input`, used only by a test program;
  in `sch1wave` the four parameters beside the frequency, and the toggle of a channel's
  buffering, which is `Panel`'s `DacChannelBuffering`.
- UART: bit errors on the line; the client's windows and its reload of the kernel.

## 8. Plan

1. **`FileAccess`, continued**: power loss between the sector writes of a call, with the
   cached FAT sector; subdirectories; `dirread` and `dirclose`.
2. **The kernel's own table**: the framebuffer's sections and the page tables' allocations
   over `BlockHeap`, which would join `AddressSpace`, `BlockHeap` and `Screen`.
