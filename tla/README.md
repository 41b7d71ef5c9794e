# Imaginot in TLA+

Imaginot lets the DOS game Sopwith, which expects to share a floppy disk with
the other players' machines, be played over a packet network. It emulates the
shared disk on every machine and keeps the emulated disks in step by exchanging
every player's commands. This directory holds models of that, their TLC
configurations and machine-checked proofs.

## The system

| Part | State | Operations | Talks to |
|---|---|---|---|
| command pipeline, `protocol.c` | `maketic`, `gametic`; per node a send window, a receive window, a player number and the time of the last send | `InitProtocol`, `SwapCommand`, `ReceivePackets` (`CheckResends`, `ReceivePacket`) | the driver interface below it, the emulated disk above it |
| driver interface, `doomnet.c` | the `doomcom` buffer | `NetGetHandle`, `NetSendPacket`, `NetGetPacket` | the external driver (IPXSETUP, UDPSETUP), through an interrupt |
| emulated disk, `fakedisk.c` | `state`, `locked`, `multio`, the old vectors, `hooked` | the handlers of int 13h, 25h and 26h, `HookDiskInterrupts`, `RestoreDiskInterrupts` | Sopwith (its caller), `SwapCommand` and `ReceivePackets`, `ApplyPatches` |
| memory patches, `mempatch.c` | none; it edits Sopwith's memory | `ApplyPatches`, `ApplyPatch` | called by the first int 25h |
| program, `imaginot.c` | the flags | `main`: parse, initialise, hook, spawn, restore at exit | all of the above |
| flag parser, `lib/flag.c` | the table of flags, the response file | `ParseCommandLine`, `SquashToResponseFile` | `main` |
| interrupt library, `lib/ints.c`, `lib/ints.h` | vectors, the PIC's mask, `CHAIN_IRQ` variables, the PSP, the ISR stack | hook and restore of interrupts and IRQs, `SwitchPSP`, the stack switch | `fakedisk.c` uses the stack switch |
| checksum, `crc32.c` | a table | `Crc32` | `protocol.c` |
| `lib/log.c`, `lib/dos.c` | the program's name | logging, console helpers | |

A tic of the game goes like this. Sopwith reads the data sector until it is its
turn, puts its command into the sector and writes it. The write handler calls
`SwapCommand`, which puts the command into the window of every other machine,
sends the windows, and polls the network until it has every player's command for
the tic. It then returns these commands, which are some tics old: a command is
made `DELAY` tics ahead. The handler puts them into the sector as if
every player had written, and copies the sector back into Sopwith's buffer.

What is hard about it:

* **The network** loses, repeats, delays and reorders packets. There is no
  connection: packets carry everything unacknowledged, acknowledgements are
  cumulative, old packets are mostly ignored, and one resend per second repairs
  what was lost.
* **Everybody waits for everybody** inside an interrupt handler, with no timeout.
* **The games must not diverge by a single command**: Sopwith has no means to
  notice, each machine simulates the whole game.
* **The start**: the first tics run with commands nobody made; every Sopwith must
  give itself the right player number and the common random seed.
* **The turn protocol**: a read too many, a read too few or a stale buffer leaves
  Sopwith polling for ever.
* **The memory patches** search with a loop that steps back after a partial match.
* **The flag parser** rearranges one list in place for two programs, and remembers an
  argument by its address across the passes.
* **Interrupts nest**: `Int13` keeps its state in statics and on one stack, while the
  old handlers and Sopwith's timer may call it again.
* **One buffer** serves for sending and receiving; a short packet leaves the rest of an
  older one behind it.
* **Interrupt vectors** are taken by Imaginot, then by Sopwith, then by Imaginot
  again, and must come back to what they were.

The full list, with lines, is under `hazards` in `PROJECT.json`.

## The modules

| Module | What it is |
|---|---|
| `Protocol` | `protocol.c` and `doomnet.c` |
| `Lockstep` | what `SwapCommand` promises, without windows, packets or time |
| `ProtocolProofs` | the inductive invariant of `Protocol`, its safety theorems, and that it implements `Lockstep` |
| `FakeDisk` | `fakedisk.c` over `Lockstep`: operators for each sector operation and interrupt |
| `Game` | every machine's Sopwith playing through `FakeDisk`, from `main()` to its exit |
| `GameProofs` | the inductive invariant of `Game` and its safety theorems |
| `MemPatch` | `mempatch.c` |
| `MemPatchProofs` | the loop invariants of `MemPatch` and its theorems |
| `Wire` | packets in the `doomcom` buffer, between `protocol.c` and the driver |
| `WireProofs` | the inductive invariant of `Wire` and its theorems; which damage `Crc32` shows in any packet |
| `Crc32` | `crc32.c`, and the checksum of a packet, beside `Wire` |
| `Startup` | `main()` with `NetGetHandle` and the checks of `InitProtocol`, after `Flags` |
| `StartupProofs` | the invariants of `Startup` and of every pass of `Flags`, and their theorems |
| `IsrStack` | how the disk interrupts are entered and left: stack, statics, nesting |
| `DiskInterrupts` | the first int 25h, which applies the patches (`MemPatch`), and the disk interrupts after it (`IsrStack`) |
| `IsrStackProofs` | the inductive invariant of `IsrStack`, its theorems, and that `DiskInterrupts` implements it |
| `Irq` | `lib/ints.c`: hardware interrupts shared by several programs |
| `UserInt` | `lib/ints.c`: a driver's own interrupt and the PSP, together with `Irq` |
| `IntsProofs` | the invariants of `Irq` and of `UserInt`, their theorems, and that `UserInt` implements `Irq` |
| `Flags` | `ParseCommandLine` of `lib/flag.c` |
| `Squash` | `SquashToResponseFile` of `lib/flag.c` |
| `ResponseFile` | `ReadResponseFile`, on files written by hand and by `Squash` |
| `SquashProofs` | the invariants of `Squash` and `ResponseFile` and their theorems |
| `MCProtocol`, `MCGame`, `MCDiskInterrupts`, `MCFlags`, `MCSquash` | the instances that TLC checks |

`Protocol` is shown to implement `Lockstep`; `FakeDisk` uses `Lockstep` in place
of `protocol.c`. What is true of `Game` is therefore true of the disk over the
real pipeline, as far as safety goes. Below `Protocol` are `Wire`, which shows that a
packet is accepted only as it was meant, and `Crc32`, which shows what damage the
checksum notices. `Startup` extends `Flags`, as `main()` begins with `ParseCommandLine`, and
leads to the state in which `Game` begins. `ResponseFile` extends `Squash` and justifies that
`Flags` and `Squash` take a response file for a list of words. `DiskInterrupts`
extends `MemPatch` and `IsrStack`, one after the other. `UserInt` extends `Irq`: the
programs are the same, and hardware interrupts arrive in the middle of service routines.
The modules other than the `MC` ones are also the root modules of their runs where their
constants are simple.

Definitions whose name begins with `Mut` are wrong on purpose. Each precedes the
definition it spoils and is used to test that a property notices the fault.

### Protocol

The state is that of `protocol.c` with `[m]` for "on machine m": `nodes[i]` on
machine `m` is the entry `[m][n]` where `n` is the machine behind node `i`. Windows
keep their arrays, including the stale contents behind `len`. `due[m]` is the set of
nodes whose `last_send_time` is before the current second. `pc[m]` says where the
machine is: outside, polling from `RealInt13`, in `SwapCommand`'s wait, polling
inside that wait, or out of the game (`"gone"`, or `"aborted"` if that was in the wait). `net[m][n]` is the set of packets on the way, at most
`MaxInFlight[m]` of them. `made` is a history of all commands.

| Action | Code |
|---|---|
| `SwapCommand` | `SwapCommand` up to its loop |
| `SwapReturn` | `SwapCommand` after its loop |
| `ReceivePackets`, `PollEnd` | `ReceivePackets` before and after its loop, `CheckResends` included |
| `ReceivePacket`, `DiscardPacket` | `ReceivePacket` on a good and on a damaged packet |
| `AbortPoll` | the assertion in `ReceivePackets` fails: the driver has named a node that the game does not have |
| `ClockTick` | `time(NULL)` moves on |
| `LosePacket` | the network |
| `Quit` | Sopwith ends |

A delivered packet may stay in `net` (a duplicate), and any packet of `net` may be
delivered next (reordering). The driver is trusted to name the node a packet came from, or
one that is out of range, which the code asserts it is not: that ends the game on this
machine (`AbortPoll`), for the machines of `MayQuit`.

### FakeDisk and Game

`FakeDisk` has the statics of `fakedisk.c` per machine, the three interrupt vectors,
and the contents of the data sector without its byte layout. `WriteData` is split
where `SwapCommand` waits: `WriteDataSwap` gives the command to the pipeline,
`WriteDataReturn` takes the tic's commands. The test for `SwapCommand` returning
false is left out because it never does (see the finding below).

Sopwith is not in the repository. `Game` models it from `notes.txt` and from the
comments of `fakedisk.c`: opening the drive, its own int 13h, the semaphore, joining,
then one write per tic with `updated()` before and after. These definitions are
marked external in `PROJECT.json`. `OtherAccess` adds accesses to other sectors or
to several at once, at any time.

A machine that ends early just ends: only keys are exchanged, so that Sopwith's last
write, with its state set to finished, is one more tic to the disk.

### Wire and Crc32

`Wire` has the one buffer through which a machine sends and receives. `SendPacket`
overwrites the front of it, `NetGetPacket` lets the driver overwrite as much as arrived,
and `ReceivePacket` reads `num_cmds` commands; whatever lies behind is older. Nothing
compares `num_cmds` with the length received: that the commands read are those sent rests
on `SendPacket`'s `datalength` and on the checksum that covers both. `start`, `ack` and
`player` are one abstract field, and the checksum is ideal. The driver may deliver a
packet again, with a field changed or its end cut off; a packet shorter than the header
may leave the old header in place.

`Crc32` is the real one, bit by bit: bytes and words are sets of bits, the table is that
of the source in halves of 16 bits. The low byte of `start` runs through all values, so
that each entry of the table is used, and one packet of each length suffers every change
of a byte, every pair of flipped bits and every cut. A run of `CrcSpec` either follows one
such packet or is a run of `Wire`.

Two assumptions of `Crc32` are not about the code's surroundings: they are computations,
which TLC does at the start of the run and on which the proofs build.
`TableAssumption` compares the 256 constants of the table with what the polynomial makes of
them. `Effect[d][b]` is what adding `b` to a byte with `d - 1` others behind it changes in the
result; `EffectAssumption` says of these 42 times 256 words, in the 28 bits that a packet
carries, that none is zero but for the zero byte, that none of a single bit has just one bit,
and that no two single bits of different bytes have the same.

### Startup

One action per statement of `main()`; the first, the call of `ParseCommandLine`, is all of
`Flags`, and `Parse` is its return. What the driver says is arbitrary. A failed `assert`
ends the program at once, without the functions that `atexit` was given. A far pointer is a
segment and an offset, and an offset does not carry into the segment. A driver may keep its
structure anywhere below 1 MB; `NetGetHandle` looks at four bytes of it. `SopwithEnds` is
also the end that the assertion in `ReceivePackets` makes (`Protocol`'s `AbortPoll`): it
happens in a disk interrupt, so that DOS ends Sopwith, whose process it is, and `main()` goes
on behind `spawnv`.

### IsrStack, Irq and UserInt

`IsrStack` follows disk interrupts through `Int13` (`CopyIp`, `SWITCH_ISR_STACK`, `Poll`,
`RealInt13`, `RESTORE_ISR_STACK`, then `ChainInt13` or `LeaveInt13`) and through `Int25` and
`Int26`, which stay on the caller's stack (`DirectSwap` is the way of a command written by int
26h into `protocol.c`; then `PopAndReturn` or `ChainDirect`). `calls` is the stack of calls
that have not returned. The handler that was there before may call disk interrupts itself, as
DOS's int 25h does. `TimerTick` may come between any two steps and resume the coroutine in
which Sopwith plays the game; until the coroutine sleeps again (`DkTick`) the foreground waits
with its calls where they were. Both threads may call any disk interrupt with any request.
The old handlers and Sopwith are external, from `notes.txt`.

`Int13` does not survive a call that comes while it is itself at work: its statics would be
the other call's. Nothing in the code prevents that; Sopwith does, in whose foreground there is
no disk access while there is a coroutine. The history variable `torn` says that the coroutine
was resumed within `Int13`'s own part, and the properties are stated for as long as it was not.
Being resumed anywhere else, in an old handler or in `Int25` and `Int26`, is covered as far as
stacks and answers go; what a second entry into `protocol.c` in the middle of `SwapCommand`
would do to the windows is not followed.

`DiskInterrupts` begins where Sopwith opens the drive: the first int 25h finds
`applied_patches` false and applies the patches, all of `MemPatch`, before it looks at the
request. There is no coroutine yet. Afterwards it goes on as `IsrStack`, and Sopwith's memory is
followed no further.

`Irq` and `UserInt` model programs that run one another, as DOS does it: only the last
program hooks or gives back, while an interrupt may call into any. In `Irq` each program
inherits a copy of the environment with its `CHAIN_IRQ` variables. `HookIRQ` and
`RestoreIRQ` are one step each, because interrupts are off in the part that matters
(`_disable`) and the environment is not read by handlers. In `UserInt` a driver takes the
first free vector of the users' or, on command, any (`force_vector`); those of hardware
interrupts, which are `Irq`'s, are left out, as no driver is told to take one. A program's number
is also its PSP and stands for its handler; handlers may call one another, and each keeps
the PSP it has interrupted. Imaginot uses only the stack switch of this library; the rest
is there for the drivers that share it.

### MemPatch

One action is one turn of one of the two loops of `ApplyPatch`; `todo` is the list of
patches `ApplyPatches` still has to apply. The segment has one byte more than is
searched, as in the code (0xffff of 0x10000). `before` remembers the memory the current
patch started from. That `i` stays within 16 bits follows from `TypeOK`.

### Flags and Squash

`Flags` runs the passes of `ParseCommandLine` one after the other over `args`, one
action per turn of a loop: the expansion of response files, the move of the program's
name, the sort, `StripAPIPointers` and the loop of `DoParseArgs`. The list is
overwritten in place with the same two indices as in the code. An element of `args`
stands for a pointer: it says where the string came from (typed, baked in, the k-th
word of the file that one of these names), so that equal strings are told apart where
the code compares addresses. Strings are known by the sets they are in. How a number is
read is left out, as are the table of flags (a constant here) and the help text. The case `FLAG_API_POINTER` of `DoParseArgs` has
no action: no such flag is left when it runs, which `StripPointer` and `StripAbort`
see to. `StripAbort` stands for the failed assertion and for `strtol(NULL)`.

The properties have a few corner cases in common. A flag that lacks its value takes the
next argument for it, once the program's name has been moved away between the two:
`Dangling` says that the last flag of the list lacks its value, `Swallowed` that a certain
argument was taken for one. So a driver's flag behind such a flag is not heard
(`PointersFound`); and a program whose name is a number, behind a driver's flag that
was itself taken for a value, is read as that flag's address (`CalleeFirst`). It is
assumed that no flag is named by a number; those that the program registers are words.

`Squash` measures a line, cuts it from its end and writes the file, for several calls
in a row by one program. What the other side makes of the line is left to
`ResponseFile` (`ReadBack`). A failing `fopen` is not noticed by the code; what follows is
undefined, and the model stops there (`CannotOpen`). A disk that fills up while the file is
written is not modelled. Imaginot does not call it; it is part of the library all the same.

`ResponseFile` reads a text character by character into the buffer that grows by `Chunk`
(64 in the code). The program first may read a text that somebody wrote by hand; later the
program that `Squash` has run reads what was written for it, spelled out. A store outside
the buffer is undefined: the model stops there, in `"corrupt"`. What `fgetc` returns at the
end of a file is assumed to be no character, and arguments not to be empty.

## What is checked

| Run | Instance | Shows |
|---|---|---|
| `protocol_reorder` | 2 machines, 2 commands, 2 tics, pipeline of 1, packets of machine 0 reordered | types; every tic runs with what was made for it; no hole; nothing taken back; `Lockstep` is implemented |
| `protocol_live` | fair; 3 tics, pipeline of 1; machine 1 may leave | every tic is run unless somebody leaves; windows hold at most two pipelines; nothing is forgotten early, so that one packet each way always repairs what was lost |
| `protocol_hang` | fair; machine 1 may leave | **violated**: `SwapCommand` returns or the game ends in it |
| `game` | fair; 3 machines, 2 tics, machine 1 may leave | same game; right start; vectors; everybody plays every tic unless somebody leaves |
| `diskinterrupts` | fair; every memory of 9 bytes of 2 values, patches of 4 and 3 bytes; calls 3 deep, of both threads | within bounds; the first occurrence and nothing else is replaced; the search ends. Then: one static stack and static variables suffice, and each call is answered once, unless the coroutine is resumed within `Int13` |
| `flags` | every line of 3 of 7 strings, with and without a driver's address, every pair of 5 baked-in strings; every driver, 3 addresses | nothing is lost or disordered; the named program is run; addresses and own flags are found; the vectors are given back on every way out |
| `flags_response` | lines of 2 | **violated**: response files are transparent |
| `startup_handle` | lines of 1; the same addresses | **violated**: the handle leads to all of the driver's structure |
| `squash` | every line of up to 6 arguments, limit of 20 characters, 2 calls; every text of 6 characters, growth of 5 | the line fits; what was squashed is read back whole; the words of any file are read whole and in order |
| `response_chunk` | the same | **violated**: reading stays within the buffer |
| `irq` | 3 programs, 1 line, masked or not at first, 3 vectors, 2 of them for users, free or not | one acknowledgement per interrupt; all who share a line are called; vectors and masks are given back; vectors lead to their drivers; DOS knows the right process |
| `wire` | windows of 2, 2 commands, 2 headers, 1 packet on the way; byte by byte, 256 packets each of 0, 4 and 16 commands, one of each length damaged | the checksum stays within the packet; accepted packets are read as they were meant; it is CRC-32; a changed byte, two flipped bits, a cut are noticed |

Bounds. `MaxTic` ends the game. Three tics of a pipeline of one are more than can be in
a window at once, so windows have been filled, emptied and moved. Longer pipelines, with
their first tics that nobody made a command for, and made-up players are left to the
theorems, which are for every `DELAY` and with or without such players. Two packets in flight in one direction are enough for one to overtake
another; a stale one can be any of the earlier packets because a packet may stay for
ever. Three machines in `Protocol` are out of TLC's reach; the machines' windows are
pairwise, and the theorems cover any number. `Game` has three because a middle player
takes turns differently from the first and the last one. `Cmd` has two values where a
property compares commands and one elsewhere. The patches of `diskinterrupts` overlap
themselves and each other, unlike the real ones, because that is what a search can get
wrong. Three typed and two baked-in arguments are enough for a flag, its value and a
program's name to meet in every order with an argument of the other list on each side.
In `wire` a window of two has packets shorter than, as long as and longer than the one
whose remains are in the buffer, and the theorems cover every size. The packets that are
followed byte by byte have the real sizes. The addresses of `flags` are the lowest of a
segment, one inside, and the first whose structure does not end with the segment. Three calls
inside one another allow a call from the old handler of a call from the coroutine. Three
programs are enough for a line to be shared, given back and hooked anew above a program
that still uses it; lines do not affect one another, and the theorems cover all eight. In
`squash` words shorter than, as long as and longer than the buffer meet, the longest flag is longer than the file's name and the shortest is shorter,
so lines end up on both sides of the limit.

Deadlock is checked in the runs where the clock keeps ticking (`Protocol`) and where
interrupts keep coming (`DiskInterrupts`, `UserInt`); a `Game` ends when everybody has left, the
other programs end when they are through, and a packet that is followed byte by byte ends
with its check.

Fairness. `Protocol`: the clock advances, code that can go on does, Sopwith keeps
calling, and the network is fair-lossy: if a machine keeps sending again to one that
is still there, packets keep arriving. Arrival is of the last copy of a packet, so
that an endless row of duplicates is not taken for progress. `Game`: each machine's
Sopwith takes its next step when it can; that `SwapCommand` returns when all commands
exist is what `protocol_live` shows. `DiskInterrupts`: Sopwith opens the drive, and the search goes on.

### The disagreements found

`protocol.h` and `fakedisk.c` say that `SwapCommand` returns false when commands of
other players are missing, so that Sopwith's write fails and it tries again. The
code waits in a loop instead; the only `return false` needs `maketic - gametic` to
reach `MAX_DELAY`, and it is always `DELAY`. `protocol_hang` shows what follows: after
a player has left, the other machine never leaves the interrupt handler.

`lib/flag.c` says that response files are expanded transparently. But the program to
run is looked for in `argv` before the expansion. When a flag for that program is baked
in and its name is in a response file, the name is not moved in front of the flag, and
the parser stops with "Unknown flag" (`flags_response`). The same words on the command
line are accepted: without a response file the property holds on the same instance.

`ReadResponseFile` takes an argument to be "a sequence of non-space characters", but its
buffer has no room for the terminator of one whose length is a multiple of 64 and that is
the longest so far (`response_chunk`).

`NetGetHandle` turns the driver's address into a pointer, "performing appropriate checks",
which are of the id at the front of the structure. When the structure lies across a multiple
of 64 KB, as one at 655279 does by a byte of its longest packet, the pointer's offset wraps
around, and the game starts all the same (`startup_handle`). A driver that keeps the structure
early in its data segment does not get there, but where it is loaded decides.

The comment in `lib/ints.h` says that an ISR should begin with `SwitchStack`, since pointers to
data on the stack do not resolve while SS is the caller's. `Int25` and `Int26` do without. For
`Int25` this does no harm. But a write of the data sector by int 26h, in the game, goes through
`WriteSector`, `WriteData` and `SwapCommand` to `NetSendPacket`, which passes a pointer to
its local `regs`, on that stack: in `IsrStack` this is `DirectSwap`, after which `OwnStack`
finds the caller's stack in use. What such a pointer then leads to is not modelled. Sopwith
writes its commands by int 13h, which does switch.

Other small differences between texts and code: `README.md` mentions a hook of int 21h
that the code does not have; the comment in `mempatch.c` gives 1608 for an ox that the
bytes put at 1970; `fakedisk.c` says 7 files where it makes 8.

## What is proved

By TLAPS, for every value of the constants that meets the assumptions
(`2 * DELAY <= MAX_DELAY`; at least two machines; 0 is a command):

* `ProtocolProofs`: `TypeCorrect`, `Synchronised` (`RanWhatWasMade`), `Fits`
  (`WindowsFit`), `Remembered` (`NothingForgotten`), `NeverStuck`, `Gapless` (`NoHole`), `Together`
  (`BoundedSkew`), `NothingTakenBack` (`NeverTakenBack`) and `Refinement`
  (`ImplementsLockstep`).
* `GameProofs`: `TypeCorrect`, `Same` (`SameGame`), `Start` (`SameStart`), `Vectors`
  (`VectorsRight`), for any number of machines, with or without made-up players.
* `MemPatchProofs`: `TypeCorrect` and `Right` (`PatchesRight`), for any memory and any
  two patches of any length of at least one byte.
* `WireProofs`: `TypeCorrect` and `Meant` (`ReadAsMeant`), for windows of up to 249
  commands, which is what fits into `doomcom`'s data; `CrcWire`, that these hold in
  `CrcSpec` too; `CrcRight` (`Right`), for every packet that `SendPacket` makes;
  `OneByteNoticed` and `TwoBitsNoticed`, for any packet of up to 16 commands with a right
  checksum, whatever its bytes are; and from these `CrcNoticed`, which is `Noticed` except
  for cuts that leave a header.
* `StartupProofs`: `HooksRight` (`HooksFollowSopwith`), for anything a driver may say; `TypeCorrect`, `AllAccounted` (`NothingLost`), `InTheirOrder`
  (`OrderKept`), `RightProgram` (`CalleeFirst`), `FlagsHeard` (`OwnFlagsHeard`) and
  `PointersHeard` (`PointersFound`), for every command line, every table of flags, any
  response files and anything baked in.
* `SquashProofs`: `Fits` (`LineFits`), `SameArguments` (`ReadBack`) and `AllWords`
  (`WordsRead`), for arguments and texts of any length, any limit of the line and any
  growth of the buffer.
* `IsrStackProofs`: `Own` (`OwnStack`) and `Answers` (`AnsweredOnce`), for any depth of
  calls, with the timer at any moment but within `Int13`'s own part; `ImplementsIsrStack`, by
  which both hold in `DiskInterrupts` too.
* `IntsProofs`: for `Irq`, `TypeCorrect`, `Acknowledged` (`AckedOnce`), `Exclusive`
  (`HardwareToOurselves`), `Restored` (`GivenBack`), `Heard` (`EveryoneHears`), for any
  number of programs and any of the eight lines; for `UserInt`, `ImplementsIrq`, by which
  all of these hold in it too (`SharedAsBefore`), `UserTypeCorrect`, `RightProcess` (`PspRight`), `AlwaysAnswered` (`Answered`),
  `AllGivenBack` (`VectorsGivenBack`), for any number of programs and vectors.

The argument for `Protocol`. None of the properties is inductive. The invariant `Inv`
of `ProtocolProofs` says: `maketic = gametic + DELAY`; a machine's history of commands
has length `gametic + DELAY`, one less outside `SwapCommand`; a send window holds
exactly the end of the history from the last acknowledged tic on; a receive window
starts at `gametic` and holds what the history holds there; every packet in flight
repeats a stretch of its sender's history, starts no later than its receiver's window
ends and acknowledges no more than its sender has received. The last is stable
because ends and starts only grow, which is why a packet may be as old as it likes.
The bounds follow: a receiver that has run tic t has everybody's commands up to t, so
its acknowledgement lags by at most one pipeline, and a window by two. The start
needs a case of its own: a machine's own receive window begins empty and jumps to
`DELAY` commands at the first `SwapCommand`, over zeroed slots.

`NeverStuck` is what safety can say of progress. `AfterExchange(m, n)` is what m has of n's
commands once a packet of m has reached n and a packet of n has come back. By the invariant
the acknowledgement moves n's window to exactly the first command that m lacks, so that n's
packet is not too old for m, and there is room for all of it: m then has everything n has made
(`NothingForgotten`). When all machines are in `SwapCommand`, each has made `DELAY` commands
beyond its own tic, so the one that is furthest behind lacks no command that does not exist,
and two packets per pair let it go on. That these packets are sent and arrive is the part
that needs fairness (`GameGoesOn`).

The argument for `Game`. `SameGame` speaks only of tics already played; the
invariant adds what a machine holds between its swap and its tic (the buffer's keys
are the log entries of the tic it has just run, and its wait is over, so it never reads
again and never loses them), how long the logs are (no log is shorter than any game, so
an entry once played can no longer change), and what each Sopwith knows at each point
of the start: nothing, an invitation in which exactly the players before it are
present, or the complete game. The player number follows from the invitation: the
lowest number that is not taken is the machine's own. The vectors need the old ones to
be remembered as long as they are hooked.

The argument for `MemPatch` is the classic one for a naive search. While it searches,
the last `match_len` bytes equal the beginning of the old bytes and no earlier place
holds them all; a mismatch rules out one more place, so stepping back by `match_len`
and going on one further misses nothing. At the end of the memory a partial match is too
short to be a whole one. While it copies, the memory is the old one with the first `j`
bytes at the place found replaced.

The argument for `Wire`. Every packet on the way is some `Filled` buffer cut at its
`datalength`, and its checksum determines length, header, number and the commands covered.
If what is in the buffer has a matching checksum, then it has the length and the number
of the packet it came from, hence as many commands within its length as it says, and
these are the ones sent. Nothing is said of the bytes behind.

The argument for `Crc32` is that of linear codes. Shifting and the step of the division
(`OneBit`) distribute over exclusive or; so do eight of them (`Eight`). A word is its low byte
and the rest: the rest is only shifted, and the low byte gives its entry of the table
(`TableAssumption`), so the loop's body is eight steps of the division (`AddByteEight`), which
is `Right`. Therefore what is added to a byte is added, as the following bytes transform it,
to the result, whatever the packet holds (`CrcChanged`, by induction over the bytes that
follow). The same is plain for the bytes of the checksum field itself. So a change adds its
`Trace` to the difference between the checksum that a packet has and the one it should
have (`ResidueChanged`), and damage is noticed if the traces do not add up to zero, which
`EffectAssumption` says of one byte and of two bits.

The argument for `Irq`. The programs that have hooked a line form a chain from its vector
through their `old_isr` down to the first, which is the only one that is not chained; the
others were started while `CHAIN_IRQ` was set, and it is set in a program's environment
exactly if somebody at or below it in the chain holds the line. The invariant states this
for neighbours: whoever is on the line and not the lowest is chained and remembers the next
lower one. An interrupt walks down the chain, and `heard` is at every moment the part above
the running handler. The mask needs that the first hooker remembered the boot mask and all
others found the line open.

The argument for `UserInt` is the same for vectors, with one difference: a program takes a
vector that another has only if it was told to (`OnlyForced`), since a vector in a chain is
never free. The calls of service routines form a stack in which each routine remembers the
one below it (`GoesBack`); programs start and end only while the stack is empty.

The argument for `IsrStack`. As long as the coroutine was not resumed within `Int13`, a call
that is not the running one waits outside of `Int13`'s own part: in an old handler, or
interrupted in `Int25` or `Int26` (`Waiting`). Such a call has left `isr_stack_space` or has
never been there, so the slot at its top and the statics `ip_copy` and `chain` are always
those of the one call that may be in `Int13`, and nobody needs them after another call has
begun (`Statics`). What a call still needs is its stack, and that is in its record or, for the
foreground while the coroutine runs, in `fg` (`Stacks`).

The argument for `Startup` is short: `main()` passes its statements in order, the vectors
are taken only after everything that can end the program has been passed, and each way out from
there goes through the functions that `atexit` was given (`Hooks`).

The argument for `Flags` is in three layers, each resting on those before. A pass that
keeps what it has read in front of what it has not is described by one list, `Current`: the
`w - 1` arguments kept, then the unread ones from `i` on. A turn that keeps an argument
leaves it as it is, a turn that takes arguments removes them from it. (1) `Complete`: at each
pass `Current` and what was set aside or used are together the given list, each argument
once; the pointers are told apart by where they came from, and while response files are
expanded every name not yet reached occurs once. (2) `Passes`: while sorting, the part kept
consists of this program's flags with their values and the part set aside of the other
program's arguments in their order; afterwards some place `q` splits the list into these
two, the program's name being at `q` if it was found. Neither removing a pointer flag
with its value nor reading flags moves that place into the middle of a pair, which is why the
parser stops exactly at the name. (3) `Found`: a driver's flag and its address, neighbours on
the command line, stay neighbours: an expansion does not come between them, as the
second does not begin with `@`; the sort moves them together unless the flag
is taken for a value; and stripping meets the flag before its value.

The argument for `Squash` and `ResponseFile`. While the line is cut, `len` is the length
of what stays, of one argument more, and of the file's name; so the test that ends the loop is
about the very line that is left. What is cut off is in the file in its order, since the first
part of the line and the file make up what was asked for. The text of the file is laid out
word by word (`Layout`), and the reader is at all times between two words of it or inside one
with its beginning in the buffer (`Copying`). For texts by hand, `Reading` counts
the beginnings of words passed so far and has the buffer hold what follows the last one.

The functions that are defined by recursion here (`IdentifyCallee`, `LineLength`,
`Printed`, `Crc32`, `Effect`) are unfolded a step at a time; where a fact is needed for every
length, it is shown by contradiction at the least number for which it fails, whose existence
is the library's theorem on well-founded relations.

`BoundedSkew`, the type invariants of `Game`, `Irq` and `UserInt` are only proved; no run
repeats them.

Only model-checked: liveness (`GameGoesOn`, `EverybodyPlays`, `Terminates`), which
TLAPS does not handle under fairness; and one case of `Noticed`, a packet that has lost its
end but not its header. Whether a shorter packet happens to have the checksum at its front
depends on what is in it: among all packets there are such that do, and that none of those
followed by the run does is a computation on their bytes, which TLC does. The other properties
of the passing runs are each stated by a theorem.

## Not modelled, and what is left

Not modelled: `lib/log.c` (output, the keyboard, DOS's idle call: nothing reads its state
back); `lib/dos.c` (memory routines that nothing here calls); the bytes of the boot sector
and the directory, since what Sopwith makes of them is not in the repository; register
conventions; the driver binaries in `dist/`; the build scripts. In `lib/flag.c`, the
registration of flags and the help text. Machines started with different `-fakeplayers` or
`-nomempatch` flags are not modelled: the code cannot notice, and the games differ from the
start. Sopwith's last write, with its state set to finished, is to the disk one more
tic before the end, which `Game` has.

What is left, if the code grows: a model of `lib/log.c` should something come to depend on
it; proofs of the liveness properties, once a prover for them is at hand; and changes of more
than two bits in different bytes, for which the tables of `EffectAssumption` would become
large.
