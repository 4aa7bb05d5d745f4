# OpenSCM in TLA+

OpenSCM is a small scripting tool chain in C with C++ hosts: a preprocessor and
compiler turn SCML scripts into bytecode, a virtual machine runs it,
and hosts (a game loop, a GTA plugin, a debugger, hot reload) embed the VM and
give it native functions. This directory holds TLA+ modules of the program,
configurations that check them with TLC, and theorems about them that the TLA+
proof system (TLAPS) has checked. File names and line numbers refer to the
repository's sources (paths below are relative to its root).

## 1. Inventory

### The parts, their state and their operations

| Part | State | Operations | Interacts with |
|---|---|---|---|
| VM core (`vm/vm.c`) | program, `pc`, `halted`, call frames with locals, globals, event registry, ring of queued events | `load_file`, `step`, `run`/`update`, `bind_event`, `trigger_event`, `clear_events`, `set_*` | natives call out; hosts call in between two steps |
| VM heap (`vm/vm.c`) | numbered objects, spans, pins, the console | ALLOC, FREE, STORE, PIN, FILL, RENDER and others | instructions and natives hold references |
| Decoder (`vm/vm.c`) | byte position | fetch, operands, labels and strings of a file | must agree with the compiler |
| Host loop, `SCML_GameRuntime` (`runtime/game_runtime.hpp`, `cpp/scml_vm.hpp`) | the VM, an entity list | init, start, tick | triggers, then updates the VM |
| Runtime modules (`runtime/scml_runtime_modules.c`) | one registry per process: slots with backends and a selection | register module or backend, select, unregister, dispatch | VMs keep pointers to its slots |
| Built-in modules (`g_builtin`, same file) | one state per process: keys, wheel, window, rendering context, socket | poll, create, destroy, open, close | SDL, the operating system; shared by all scripts |
| Hot reload (`hotreload/`) | last write time | watch, poll | reads what the compiler writes; loads into the VM |
| Debugger (`debugger/`) | breakpoints | add, step, continue | reads labels and `pc` of the VM |
| Compiler and linker (`compiler/compiler.c`) | statement list, labels, output | two passes, write | output is read by the VM and by hot reload |
| SCMR builder (`compiler/scmr.c`) | records | build, write | stand-alone |
| Preprocessor and parser (`parser/`) | macros, conditional stack, included files, statements | preprocess, parse | lexer, opcode registry |
| Lexer (`lexer/`) | position in a line | next token | parser |
| Opcode registry (`opcode/`) | table | lookup by name, code or opcode | parser, VM |
| Driver (`main.c`) | none of its own | compile, run, debug | everything above |
| GTA host, CLEO plugin (`GTA Integration/`) | handle maps, scripts | natives, script life cycle | one VM per script |
| Graphics, editor, VS Code extension | windows, documents | drawing, editing | peripheral |
| `stscm/` and samples | none | macros and data | input of the preprocessor |

### What is hard in this code

The VM is single threaded and there are no locks. The difficulty is in *orders of
calls*: events triggered by scripts and hosts while other events are half
served, handlers that fail, reloads that keep old state, tables at their limits,
results nobody looks at, addresses and indices that outlive what they
point at, and state that all scripts of a process share. The one
place where processes meet is the output file: the compiler rewrites it in
place while a hot reloader polls it.

| Part | What makes it correct |
|---|---|
| VM core | A queued event is neither lost, nor duplicated, nor overtaken; all handlers of it start once, in bind order; a failing handler costs nothing but itself; the ring owns just its live slots; a handler starts outside calls |
| Host loop | Whatever the script does, ticks go on being handled |
| Runtime modules | A call reaches the module it names and the backend selected last; registering never disturbs others |
| Built-in modules | Input is told once and in order, no key gets stuck, a context does not outlive its window, no descriptor of the host is closed |
| VM heap | A reference reaches its own object or none, an index a cell of it or none; a span holds bytes; a dirty rendering equals a full one |
| Decoder, compiler | The decoder reads back what the compiler was given; no part of a program loads; decoding goes forward from any byte |
| Hot reload | The last version written is eventually the one that runs, if a poll can tell it from the one before; handlers of the old code are not started in the new one |
| Debugger | `continue` runs over no breakpoint |
| Preprocessor, parser | Of each conditional one branch is read; a source gets the headers it includes |
| Opcode registry | Parser and VM find the same bounds for an instruction |
| GTA host | A native's host pointer is valid as long as its VM |

`PROJECT.json` lists, line by line, the hazards behind this table and the
properties that cover them.

## 2. Modules

| Module | Contents |
|---|---|
| `EventDelivery` | abstract: a bounded first-in first-out queue of activations |
| `ScmlVM` | the VM: every API call and every kind of step |
| `EventHistory` | `ScmlVM` observed: what became of each trigger |
| `GameLoop` | `ScmlVM` driven by the two game hosts |
| `HotReload` | `GameLoop`'s VM, a host that polls and triggers the tick, a compiler process |
| `Debugger` | breakpoints, steps and continue on top of `ScmlVM` |
| `DevSession` | `HotReload` and `Debugger` on one VM |
| `ObjectStore` | abstract: objects named by references that are never reused |
| `Heap` | the VM's heap, spans and the console they are drawn on |
| `RuntimeModules` | the module registry and the VMs' tables |
| `Natives` | the state of the built-in modules |
| `Opcodes` | the opcode table and its lookups (no state) |
| `Bytecode` | the file format, from the compiler's and from the VM's side (no state) |
| `Preprocessor` | one source line per step, over every choice of lines |
| `Toolchain` | `Preprocessor`, parser, compiler and linker, and the output file |
| `Lists` | sums over a sequence and selections from it (no state) |
| `ListTheorems` | lemmas about sums, selections and concatenations, and an induction on intervals |
| `ScmlVM_proof`, `EventHistory_proof` | theorems about the VM and what becomes of triggers |
| `DevSession_proof` | theorems about `GameLoop`, `HotReload`, `Debugger` and `DevSession` |
| `RuntimeModules_proof`, `Natives_proof`, `Heap_proof`, `Toolchain_proof` | theorems about the module in the name |
| `MC...` | instances for TLC: sample scripts, source lines, symmetry |

### ScmlVM

The variables bear the names of the fields of `SCML_VM`. `events` maps a name
to the addresses bound to it; `event_queue`, `event_head` and `event_tail` are
the ring. A slot holds an *activation*: the event and the index of the handler
that is next. `rc` is what the last step returned.

One action is one call of the C API. `scml_vm_step` is split by what it finds:

- `AtEnd` (halted, or `pc` past the code): `dispatch_next_event` starts a
  handler (`StepDispatch`) or the VM rests (`StepIdle`). Dropping an activation
  without a handler also ends the call, as in the code: the next one waits for
  another step.
- An instruction: `StepHalt`, `StepEndThread` (which dispatches too),
  `StepReturn`, `StepCall`, `StepNative`, `StepStore`, `StepJump`, `StepBind`,
  `StepTrigger`, `StepFail`, `StepTruncated`; each with its error returns.
- The rest of the API: `LoadFile`, `BindEvent`, `TriggerEvent`, `ClearEvents`,
  `SetVariable`. A refused call changes nothing and is no action.

`PopAndContinue` keeps the order of the code: the oldest activation leaves
its slot first, then the continuation is offered to the queue, and the refusal
that `dispatch_next_event` ignores is an outcome of the model. That it
cannot happen is shown, not assumed (`ImplementsDelivery`, `NothingLost`).

Abstractions: an instruction takes one address; `nop`, `store` and `compute`
each stand for a family of instructions with the same effect on this state,
and `fail` for every error found in operands. So the program counter after
an error is that of the next instruction, whereas a failed decode in the code
leaves it inside the instruction; that part is in `Bytecode`. A native
function is external: it returns a value or fails. Natives that call back
into the VM's API during the step are not modelled, nor is `malloc` failing.

`EventDelivery` is what this machinery promises its users, without ring,
wrap-around or refusals. `ScmlVM` implements it under the mapping `q <- QueueSeq`
(the live slots, the oldest first), `bound <-` numbers of handlers.

### EventHistory

Adds history variables: `owner` gives for each slot the trigger its activation
came from, `log` the handlers started, `dropped` and `cleared` the triggers that
ended otherwise. They are computed from the ring's old and new contents, and
restrain the VM in nothing but two bounds: the host neither triggers nor loads
once `MaxTriggers` triggers were accepted, and loads at most `MaxLoads` times.
The script's own triggers come on top: at most three in these instances, which
is why `EventuallySettled` speaks of triggers up to `MaxTriggers + 3`.

### GameLoop

`LoopSpec` is the loop of `README.md` and `examples/gameplay_embed.cpp`:
trigger, then update regardless of the result. `RuntimeSpec` is
`SCML_GameRuntime`, whose `triggerEvent(..) && update()` skips the update when
the queue is full. `update` (`scml_vm_run`) is a sequence of steps until one
does not return 1. These two are run for the defects they show (`frames` and
`game_runtime`); what holds of the loop is checked in `HotReload`, which is the
same loop with a poll in it.

### HotReload, Debugger, DevSession

`HotReload` is the loop of the repository's README with a poll before each tick.
`poll` is three actions, one per system call (`exists`, `last_write_time`, the
load), because the compiler is another process: it opens the file (which
empties it), fills and closes it, removes it after an error, or dies, between
any two of them. `phase` is where the host stands. If the file disappears
between `exists` and `last_write_time`, the exception of the latter is caught by
nobody: `terminated`. The file is a program or one of `Partial` and `Absent`;
that a prefix of a program does not load is what `Toolchain` shows.

The clock of the file system is coarse. `Written`, the truncation by `fopen` as
well as the flush by `fclose`, changes the time stamp or leaves it as it was;
for a small file the latter is the usual case. Two histories say what poll could
have noticed: `fresh`, that the last write changed the stamp, and `behind`,
that it has changed since a version was last loaded. What the README of the
repository promises, a reload whenever the time stamp changes, is
`ChangedFileReloads`, and it is false (run `stale_stamp`): poll remembers the
stamp of an empty file, and the complete file may have the same one. What is
true is `LastVersionServes`: a complete file whose last write changed the
stamp is loaded and goes on handling ticks. `TicksHandled` says, of whichever
version runs, that neither a flooded queue nor failing handlers stop the ticks
while a handler is bound.

`Debugger` has one action for each turn of the loop in `continue`, so that
`BreakpointsStop` can look at the state between two turns. A label breakpoint is
resolved once, in the program loaded then, as in the code. `DevSession` lets a
host run frames itself or leave them to the debugger, as the editor does.

### Heap

One action per instruction on objects, with operands that may be negative, too
large, stale or made up, converted as C converts them (`AsRef`, `AsSize`,
`AsByte`). `next_ref` counts modulo `RefLimit`, and `calloc` may fail.
`Slots` are reused from the front, as in `heap_alloc_typed`. The console is a
function from places to bytes; the cursor movements of the two renderers are
abstracted to the places they write. `Changed` is the set of places in
the runs the dirty renderer finds. `answer` is the number an instruction puts
in its variable, and `request` what the script meant by its operands: both are
histories on which nothing later depends. That the variable cannot be
created when a table is full is the part of `set_var` which `ScmlVM` models.

`ObjectStore` is what the repository's README promises ("garbage-safe heap object
references"), without slots and counter: a reference names one object from its
creation to its end and nothing before or after, and an instruction writes and
reads only objects and cells that its operands name. The cells are named by
the script's integers, before any conversion: that `(size_t)` makes of
a negative index an index behind every object is thus part of what is shown. Both
loads answer with what they read, and allocations with the new reference.
`Heap` implements the store while the counter has not wrapped (`MaxAllocs < RefLimit`); with `RefLimit = 2` in
`MCHeap.cfg` TLC finds two objects behind one reference.

### Opcodes, Bytecode, Preprocessor, Toolchain

`Opcodes` is the table, row by row, with the lookups' first-row rule: rows that
share an opcode (`CALL` and `GOSUB`, `ALLOC` and `HEAP_ALLOC`) make parser
and VM see different ones. `Bytecode` gives the bytes the compiler writes
and what the VM makes of any bytes.

`Preprocessor` reads one line per step. Headers are fixed texts; a source is
*any* sequence of the lines the instance offers, chosen while it is read, so that
every interleaving of includes, definitions, conditionals and macros within the
bound is met. A line is a record of a directive and its tokens. `Names` stands
for all words, names, paths and strings, and `Spelling` gives the bytes of each:
nothing but what is written to the file looks into a name. `text` is the
output, whose lines are what the parser numbers. The stack of files is the
recursion of `preprocess_text`; `StackMax` is the process's stack, the only limit
on include cycles. A file that has been read with `#pragma once` is empty from then on,
be it a header or a source that is compiled again. A source of which no line
is put out leaves the parser with no text at all, not with an empty one (`out`).
`chosen`, `included` and `expanded` are history variables.

`Toolchain` goes on with the parser (`ParseLine`: labels, assignments,
instructions, native calls), the first pass (`Layout`) and the second, which
writes the output one statement, then one table, at a time (or not at all, when it
cannot be opened): between any two of
these steps `output` is what another process finds on disk. Statements of all
sources are linked into one program.

Left out: block comments, `#warning`, `#line` and the predefined words, the
operators `#` and `##`, macro names inside string literals and references, the
lexer's work on characters, and the limits on the length of lines and names.

### RuntimeModules

`registry` is the sequence of slots in use; `modules[vm]` maps a module's name
to the index of the slot its `user_data` points at. Slots move down on removal and
the pointers do not, so an index can come to mean another module, or dangle.
`RegisterBackend` registers with the VM only when the slot is new, and
leaves an empty slot behind when the VM's table is full. `RenewVM` is the
destruction of a VM followed by the creation of another. Function tables and
arguments are not modelled; `install_builtin` is a fixed sequence of
registrations and selections.

### Natives

The state of `g_builtin` in a build with SDL2 on a POSIX system: SDL's queue and
what `poll_events` makes of it, the window and the rendering context, the
socket. There is one such state per process, so any order of calls is
the calls of several scripts. What the player does, and what other parts
of the process do with descriptors, are external actions. Fields that are only
written, drawing, and the content of messages are left out. `held` and `unread`
say what a script should be told; they are ghosts of the player's side.

### Faults

Definitions marked `fault` are not part of the specification. Each is a
plausible mistake in the definition that follows it; `PROJECT.json` says
which property finds the mistake when it takes that definition's place.

## 3. Runs

Passing runs:

| Run | What it explores | What it shows |
|---|---|---|
| `vm` (`MCScmlVM.cfg`) | one script with two events, a subroutine and more handlers than the table holds, one that fails at every kind of instruction; any API call between any two steps, reloads included | `TypeOK`, `RingOwned`, `StartedStaysRunnable`, the refinement `ImplementsDelivery`, `FailedStepSkips` |
| `history` (`MCEventHistory.cfg`) | two host triggers next to the script's, failing handlers, an event without handlers, two loads, clears, under fairness of the VM's steps | `NothingLost`, `OneActivationPerTrigger`, `HandlersInOrder`, `FirstComeFirstServed`, `EventuallySettled` |
| `dev_session` (`MCDevSession.cfg`) | two versions of a script, one that floods the queue and one with a handler that fails; two compilations that succeed, fail or die, polls and a debugger in between | `HandlersOfThisVersion`, `BreakpointsStop`, `LastVersionServes`, `TicksHandled` |
| `heap` (`MCHeap.cfg`) | objects and spans in two slots, three allocations, every operand in and out of range | the refinement `ImplementsObjectStore`, `DirtyIsFull`, `HeapTypeOK` |
| `toolchain` (`MCToolchain.cfg`) | sources of up to four lines in all, with five kinds of header; one-line sources for every row of the opcode table | `OneBranchSelected`, `NoPartialProgram`, `ProgramReadBack`, `DecoderAdvances` |
| `registry` (`MCRuntimeModules.cfg`) | two VMs, three modules, three backends, every table one short | `NamesUnique`, `SelectionStable`, `RoutesKept` |
| `natives` (`MCNatives.cfg`) | two keys that share an entry, a wheel, a window, three descriptors; calls and events in any order | `WheelConserved`, `NoStuckKeys`, `ContextHasWindow`, `HostFilesKept` |

Each module's type invariant (`TypeOK`, `HistTypeOK`, `SessionTypeOK`, which
contains those of `HotReload` and `Debugger`, `HeapTypeOK`, `ToolTypeOK`, `RegistryTypeOK`, `NativesTypeOK`)
is checked in its run.

Runs in which TLC finds the violation of what the documentation says (see
"findings" in `PROJECT.json`):

| Run | Statement refuted | Because |
|---|---|---|
| `game_runtime` | the host goes on updating | `tick` skips the update once a script has flooded the queue, for ever |
| `stale_stamp` | a changed file is reloaded | poll remembers the time stamp of a file that the compiler has opened but not yet filled |
| `frames` | handlers start outside calls | a thread that ends in a subroutine leaves its frame to the next handler |
| `unregister` | calls reach the module they name | slots move, VMs' pointers stay |
| `headers` | a source gets the headers it includes | the list of `#pragma once` paths survives from one source to the next |

Met while modelling, in the model as the code has it, without a run of their own:

- a return value is lost without an error when the table of globals is full
  (`README.md:102` says it is written to `$RETVAL`);
- a module that was made known with `register_module` alone is known to no VM, and
  `register_backend` does not tell it later;
- line numbers count the lines left after preprocessing, whereas `README.md:119`
  speaks of source lines;
- the mnemonic `ADD` is spelled in hexadecimal digits and therefore taken for the number
  0ADDh, which is no opcode (`HexNames`); `+=`, which does not look its name
  up that way, works;
- a macro that is never closed swallows the rest of its file;
- a source without a line of output (all of it directives, or listed again after
  its `#pragma once`) makes `scml_parse_file` call `strtok_r` with two null
  pointers: the compiler crashes, or finds no line, depending on the library;
- `#if F` is true for any defined `F`, were it `0`;
- `window.destroy` leaves `gpu_context_alive` set, and a second
  `net.open_socket` loses the first descriptor without closing it.

### Bounds

- `SCML_EVENT_QUEUE_MAX = 3`, a ring of two usable slots: the smallest in which
  an activation and a continuation share the queue, it is full with one of each,
  and head and tail wrap at different times. The `game_runtime` run uses 5, so that
  the flooding script needs several ticks to fill it.
- Two handlers per event, so that there is a continuation, and fewer than the
  `vm` script asks for, so that a BIND is refused. Two events; in the history
  run a third can be triggered, but finds the registry full or no handler.
- One or two frames, one or two variables per table: CALL is refused, a
  store finds its table full, a local hides a global.
- `MaxTriggers = 2` and `MaxLoads = 2` in `EventHistory`: with the script's own, up
  to five triggers pass a ring of two.
- `DevSession`: `MaxCompiles = 2`, so that a compilation can follow one that
  failed, died or was loaded; two versions that bind the same event at different
  addresses, one of which is no handler in the other. The old one announces two
  events nobody handles per tick, which fills the ring of two and refuses the
  tick; of the two handlers of the new one, one fails. Two breakpoints. One
  compilation is enough for `stale_stamp`.
- `Heap`: two slots for three allocations, so that a slot is reused while the old
  reference is around; `RefLimit = 4` leaves one reference unissued. Spans of up to
  two bytes with `ByteLimit = 2`, indices from -1 to one past the end, a
  console of two rows and columns with shapes that fit, do not fit and have no
  column. States that differ in `request` and `answer` alone are explored once
  (`VIEW Machine`): the next instruction depends on neither, and TLC checks
  the step properties on every transition, not just on those to new states.
- `Toolchain`: four lines over one or two sources (two in the `headers` run, where
  two includes suffice). A conditional with two branches and a statement needs
  four, and headers add their own lines. `CondMax = 2`, `OnceMax = 2`, `StackMax =
  3` are reached. `TextMax = 2` makes one string too long. The table rows are
  tried by name and by code with one operand too few, the least, the most, and one
  too many.
- `Natives`: `KEYS_MAX = 4` with scancodes 1 and 5, which share an entry;
  `MaxEvents = 2` events in SDL's queue; the wheel one notch either way,
  `MaxUnread = 1`. Three descriptors, the first of which is the host's, so
  that a descriptor is reused and they run out.
- `RuntimeModules`: two slots, two backends, two places per VM for three names
  of each kind. The `unregister` run has room for all three on one VM; two would
  do for a wrong route. Symmetry over VMs, modules and the backends
  other than the default is sound here: all properties of that run are
  invariants or action properties and treat these values alike.

Deadlock is checked in all runs but `toolchain` and `headers`, where a compilation
ends, and `dev_session` and `stale_stamp`, where the host may be terminated or wait for a
file that never comes.

### Fairness

`FairHistSpec` asks for weak fairness of the VM's steps alone. It stands for a host
that drives the VM as the README's loop, hot reload and the debugger do: it steps
until the VM rests or fails, and comes back. `main.c` does not, since it runs a script
once, and `SCML_GameRuntime` does not once it has stalled (`game_runtime`); for
these `EventuallySettled` says nothing. API calls are not fair. Loads are bounded, because a host
that did nothing but reload would put `pc` back to 0 for ever. `GameLoop`, `HotReload` and
`DevSession` ask for weak fairness of the host as a whole (with the debugger where it
has taken over): a game calls its tick each frame, and a run that has begun
goes on. Nothing is assumed of the compiler, which may stop with the file half
written, nor of the player in `Natives`, which has no liveness property.

## 4. Proofs

All theorems hold for every value of the constants that meets the named
assumptions of the modules. None of them is more than the code gives: limits are
natural numbers (a ring has at least one slot, an event at least one handler, a
module at least one backend; `TextMax` fits in 16 bits), programs are sequences of instructions, markers
such as `NoItem` or `Absent` are no programs. Five are worth knowing:
`DebuggerAssumption` says that labels stand at addresses, `ConsoleAssumption`
that what is rendered fits the console, `IndexAssumption` that an index is
narrower than `size_t` (an `int32_t` on a 64 bit machine), `TextsAssumption` that sources are made
of the words in `Names`, and `SpellingAssumption` that a word is a sequence of
bytes. TLC evaluates them in the runs.

| Module | Theorem | States |
|---|---|---|
| `ScmlVM_proof` | `TypeCorrect`, `RingIsOwned`, `StartedIsRunnable` | `TypeOK`, `RingOwned`, `StartedStaysRunnable` |
| | `DeliveryIsImplemented` | `Spec => ImplementsDelivery`, a refinement |
| | `FailedStepIsSkipped` | `FailedStepSkips`, an action property |
| `EventHistory_proof` | `HistoryUsesVM` | `HistSpec => Spec` |
| | `HistTypeCorrect`, `TriggersNeverFork`, `NoTriggerIsLost` | `HistTypeOK`, `OneActivationPerTrigger`, `NothingLost` |
| | `HandlersStartInOrder`, `TriggersAreServedInOrder` | `HandlersInOrder`, `FirstComeFirstServed` |
| `DevSession_proof` | `LoopUsesVM`, `RuntimeUsesVM`, `SessionUsesVM` | the hosts' specifications imply that of the VM |
| | `LoopTypeCorrect`, `SessionTypeCorrect` | `GameTypeOK`, `SessionTypeOK` |
| | `HandlersBelongToCode`, `ContinueStopsAtBreakpoints` | `HandlersOfThisVersion`, `BreakpointsStop` |
| `RuntimeModules_proof` | `RegistryTypeCorrect`, `NamesAreUnique` | `RegistryTypeOK`, `NamesUnique` |
| | `SelectionIsStable`, `RoutesAreKept` | `SelectionStable`, `RoutesKept`, action properties |
| `Natives_proof` | `NativesTypeCorrect`, `WheelIsConserved`, `NoKeyIsStuck` | `NativesTypeOK`, `WheelConserved`, `NoStuckKeys` |
| | `ContextsHaveWindows`, `HostFilesAreKept` | `ContextHasWindow`, `HostFilesKept` |
| `Heap_proof` | `HeapTypeCorrect` | `HeapTypeOK` |
| | `HeapImplementsObjectStore`, `DirtyRenderingIsFull` | `ImplementsObjectStore`, `DirtyIsFull`, if `MaxAllocs < RefLimit` |
| `Toolchain_proof` | `ToolTypeCorrect`, `OneBranchIsSelected`, `DecoderGoesForward` | `ToolTypeOK`, `OneBranchSelected`, `DecoderAdvances` |
| | `PartialProgramsAreRefused` | `[](Representable => NoPartialProgram)` |
| | `ProgramIsReadBack` | `[](Addressable => ProgramReadBack)` |

The lemmas about sequences these rest on are in `ListTheorems`. `GameTypeOK` is proved
only, no run checks it.

*The VM.* `TypeOK` is split into what the control flow needs (`ThreadType`,
`FramesType`) and what the events need (`EventsType`, `QueueType`); each action
disturbs few of them. `RingOwned` is not inductive without them, as a free slot
is recognised by its content, which needs the types of the slots; together they
are `RingInv`, which is. `StartedStaysRunnable` needs `RingInv` (the activation
served is a real one) and that bindings only grow until `ClearEvents` empties
the ring with them. The content of the ring, `QueueSeq`, depends on modular
arithmetic on head and tail; the lemmas on content establish once what the ring
operations do to it: queueing appends, popping takes the tail, and popping with
a continuation does both, which is where it is proved that the slot just freed
makes room for the continuation. With these, each action maps to `Bind`,
`Trigger`, `Finish`, `Continue`, `Clear` or a stutter.

*Triggers.* The inductive invariant `HistInv` relates three things: which slot
stands for which trigger (`QueueHistory`: one slot each, slots in the order of
the ring hold fresh triggers in the order they were accepted, and the index in
a slot is the number of handlers in the log for its trigger), and the log
(`LogHistory`). None of the four properties is inductive alone: that the next
handler is the next one in order needs the link between slot and log, and that
no older trigger is overtaken needs the order of the slots.

*Hosts.* Every step of a host is a step of the VM or leaves the VM alone, so that
what is proved of `Spec` is had for the loop and for a session. Beyond that,
`SessionInv` adds: while a continue of the debugger is under way the host does
nothing, between two of its steps the VM is not at a breakpoint (`DebugInv`),
and from the moment poll has cleared the events until the load nothing runs
(`HandlersInv`), without which handlers of the old version could be bound again.

*Registry and built-in modules.* `RegistryInv` adds the uniqueness of backends
to that of names and bounds the VMs' tables. For `Natives`, the properties speak of an
empty queue of SDL's; their inductive forms speak of any queue: the counter
plus the motion still queued is what no script was told of, and the keys that
would be set after the queue is played are held (`InputInv`). `SocketInv` says that
a descriptor taken for a socket is one of the kernel's sockets.

*Heap.* `HeapInv` bounds objects, bytes and counters; `Distinct` says that
live objects have different references that were all issued before, and that the
counter has not wrapped, which is what `MaxAllocs < RefLimit` is for: without it
the refinement is false, as TLC shows for `RefLimit = 2`. `SizesInv` says that no
object is larger than what some allocation asked for: with `IndexAssumption` it
follows that an index that passes the bounds check after its conversion is the one
the script meant (`IndexIsMeant`), and `Distinct` gives the same for references
(`FoundIsNamed`). The refinement then maps each instruction to `Create`,
`Destroy`, `Update`, `Read` or `Refuse`.

*Tool chain.* `ToolInv` types the preprocessor's stacks (`PreInv`), the
statements and the output. Two of its parts are stronger than what the runs
check. `OneBranchSelected` is not inductive as it stands: an `else` needs to know
that a branch inside skipped text is itself not active (`active => parent` in
`Branches`). And the parser's result is typed as `Accepted`, statements whose
operand count fits in the byte it is written in and lies within the bounds the VM
puts on it (`Understood`), from which the type of every piece of the output
follows. The second half is a fact about the table: parser and VM may find
different rows for one opcode, but the row the VM finds is the first and the
widest of them (`RowIsUnderstood`).

For `NoPartialProgram` the output itself has to be known. `ImageInv` says what a
loader reads from what has been written so far: the three sizes in the header,
the place where the file ends, from the sums of the sizes of statements and of
label entries, and the length field of each label written. The loader
takes the sizes from the header and walks the label table by those length
fields; hence on any prefix it either finds the file too short or arrives at the
sums of the first pass, which lie behind the end of the prefix
(`ReadLabelsEnd`, `CutOffIsRefused`). The hypothesis `Representable` is that the
size of the code and the numbers of instructions and labels are below 2^32: the
header holds 32 bits, and a larger program would be written with sizes that
wrap. The model's instances are far below it, so that the run shows the property
without the hypothesis.

`ProgramIsReadBack` is the round trip of a whole program. `ContentInv` is the
invariant it needs: everything written so far, instruction, line entry or label
entry, stands where the sums of the first pass put it. It is kept because
the second pass appends each piece at the end of what precedes it, which by
`ImageInv` is that place, and appending moves nothing. From there:

- the loader cuts the file where the three tables begin, so that a statement's
  bytes stand in the loaded code at its address, and walking the two tables entry
  by entry gives the line entries and the labels back (`LabelsReadBack`,
  `ImageIsRead`);
- one operand, then one statement, is decoded to what was written: tags, the little
  endian numbers with their signs, and strings with their length fields;
- the decoder goes forward from the end of one statement to the next, so that, by
  induction on the number of statements decoded, the k-th instruction it meets is
  the k-th statement with code (`MeetsInOrder`, `DecodedIsCode`), at the address
  the first pass gave it;
- labels are the statements without code: which instruction follows a label is
  a matter of counting places before it, for which `SelectCounts` links
  selections from the program and numbers of places.

The hypothesis `Addressable` is that the code has fewer than 2^31 bytes, because
addresses are written and read as signed 32 bit numbers, and that counts and
line numbers fit in 32 bits. The instances are far below it.

`DecoderGoesForward` is independent of what was compiled: it holds for the code of
every file that loads, because each operand the decoder accepts lies within the
code and is at least one byte long.

*Recursive functions.* Sums, `FlattenSeq`, the decoder and the loader fold over
sequences. What such a fold computes is proved from its recursive equation by
induction on an interval; the induction is a lemma about sets (`IntervalInduction`
in `ListTheorems`), which needs no operator parameter, and the existence of the
recursive function is proved the same way (`RecursionExists`).

*Only model-checked:*

- `EventuallySettled`, `TicksHandled` and `LastVersionServes`, which hold under
  fairness, and the refuted `KeepsUpdating` and `ChangedFileReloads`: liveness is out of this prover's reach.
- The refuted safety properties, of course, for which TLC has counterexamples.

## 5. What is not modelled, and the plan

What could follow:

1. `Heap`: cells of four bytes written and read one byte at a time. A cell is one
   number in the model, as no instruction reads an integer's bytes apart.
2. `ScmlVM`: the value stack with its limit.
3. The liveness properties, with a prover that handles `ENABLED`.

Not modelled, and why:

- The value stack and the instructions that only compute on variables: one
  instruction each without effect on the state other instructions
  depend on, `compute` and `nop` in `ScmlVM`.
- `ARRAY_LEN`, which reads the size of an object, and the scan for runs in the dirty
  renderer, of which `Heap` has the result only.
- The scan of the lexer over characters: a loop without state that
  outlives the token. `Preprocessor` starts from its classes of tokens.
- The SCMR builder: a short sequential writer of a format nothing in the
  repository reads.
- The driver's argument handling; its use of the VM is a path of `ScmlVM`'s API.
- The built-in modules without state (files, console, system, threads, audio).
- The GTA host and the CLEO plugin: a skeleton outside the build whose natives
  are stubs. Its hazard, natives that keep the address of a host object that is
  moved, is listed in `PROJECT.json`.
- The graphics window, the visual editor and the VS Code extension: input and
  output without state others depend on; the sample scripts, which are data.
