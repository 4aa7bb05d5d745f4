------------------------------- MODULE Natives -------------------------------
(***************************************************************************)
(* The state behind the built-in modules input, window, gpu and net        *)
(* (g_builtin in src/runtime/scml_runtime_modules.c), in a build with SDL2 *)
(* on a POSIX system.  There is one such state per process: every action   *)
(* but those of the environment is a call that some script makes, and the  *)
(* calls of all scripts mix freely.                                        *)
(*                                                                         *)
(* Left out: fields that no call reads, what is drawn or sent, and the     *)
(* calls that only answer from the state.                                  *)
(***************************************************************************)
EXTENDS Integers, SequencesExt, FiniteSetsExt, Lists

CONSTANTS
    Scancodes,      \* the keys of the keyboard
    KEYS_MAX,       \* size of key_down
    Turns,          \* how far the wheel moves in one event
    MaxEvents,      \* the system holds back so many events
    MaxUnread,      \* and so much motion of the wheel
    Descriptors     \* the file descriptors of the process

ASSUME KeysAssumption == Scancodes \subseteq Nat /\ KEYS_MAX \in Nat \ {0}
ASSUME TurnsAssumption == Turns \subseteq Int
ASSUME BoundsAssumption == MaxEvents \in Nat
ASSUME DescriptorsAssumption == Descriptors \subseteq Nat /\ 0 \in Descriptors

VARIABLES
    sdl_events,         \* SDL's queue
    held,               \* scancodes of the keys that are held down
    unread,             \* motion of the wheel that no script was told of
    key_down,           \* the entries of key_down that are set
    mouse_wheel,
    close_requested,
    video,              \* SDL_INIT_VIDEO was initialised
    window,             \* g_builtin.window exists
    glctx,              \* g_builtin.glctx exists
    gpu_context_alive,
    owner,              \* descriptor -> "free", "host" or "socket"
    socket_open,
    socket_fd

inputVars  == <<sdl_events, held, unread, key_down, mouse_wheel>>
screenVars == <<video, window, glctx, gpu_context_alive>>
netVars    == <<owner, socket_open, socket_fd>>
vars       == <<inputVars, close_requested, screenVars, netVars>>

Event ==
         [type : {"quit"}]
    \cup [type : {"wheel"}, y : Turns]
    \cup [type : {"keydown", "keyup"}, scancode : Scancodes]

-----------------------------------------------------------------------------
(* input.                                                                  *)

\* The system reports something the player did.
Report(event) ==
    /\ video /\ Len(sdl_events) < MaxEvents
    /\ sdl_events' = Append(sdl_events, event)
    /\ UNCHANGED <<key_down, mouse_wheel, close_requested, screenVars, netVars>>

PressKey(k) ==
    /\ k \notin held /\ held' = held \cup {k}
    /\ Report([type |-> "keydown", scancode |-> k])
    /\ UNCHANGED unread

ReleaseKey(k) ==
    /\ k \in held /\ held' = held \ {k}
    /\ Report([type |-> "keyup", scancode |-> k])
    /\ UNCHANGED unread

TurnWheel(y) ==
    /\ unread' = unread + y /\ unread' \in -MaxUnread .. MaxUnread
    /\ Report([type |-> "wheel", y |-> y])
    /\ UNCHANGED held

AskToQuit == Report([type |-> "quit"]) /\ UNCHANGED <<held, unread>>

Sets(event, key)   == event.type = "keydown" /\ event.scancode % KEYS_MAX = key
Clears(event, key) == event.type = "keyup" /\ event.scancode % KEYS_MAX = key

\* Fault: the scancode is not masked.
KeysAfterUnmasked(set, events) ==
    {key \in set \cup Scancodes :
        \/ key \in set /\ [type |-> "keyup", scancode |-> key] \notin Range(events)
        \/ \E i \in DOMAIN events :
              /\ events[i] = [type |-> "keydown", scancode |-> key]
              /\ \A j \in i + 1 .. Len(events) :
                     events[j] # [type |-> "keyup", scancode |-> key]}

\* Fault: the releases are played before the presses.
KeysAfterReleases(set, events) ==
    {key \in 0 .. KEYS_MAX - 1 :
        \/ key \in set /\ \A j \in DOMAIN events : ~Clears(events[j], key)
        \/ \E i \in DOMAIN events : Sets(events[i], key)}

\* key_down after the events, played in order on the entries set before: an
\* entry is set if nothing cleared it since it was.
KeysAfter(set, events) ==
    {key \in 0 .. KEYS_MAX - 1 :
        \/ key \in set /\ \A j \in DOMAIN events : ~Clears(events[j], key)
        \/ \E i \in DOMAIN events :
              /\ Sets(events[i], key)
              /\ \A j \in i + 1 .. Len(events) : ~Clears(events[j], key)}

MotionOf(event) == IF event.type = "wheel" THEN event.y ELSE 0

\* Fault: the last motion replaces those before it.
LastTurn(events) ==
    LET wheel == {n \in DOMAIN events : events[n].type = "wheel"}
    IN  IF wheel = {} THEN 0 ELSE events[Max(wheel)].y

TurnOf(events) == SumSeq([n \in 1 .. Len(events) |-> MotionOf(events[n])])

\* input.poll_events, window.poll_events and all else bound to the same
\* function: the whole queue is played.
PollEvents ==
    /\ sdl_events' = <<>>
    /\ key_down' = KeysAfter(key_down, sdl_events)
    /\ mouse_wheel' = mouse_wheel + TurnOf(sdl_events)
    /\ close_requested' = (close_requested \/ [type |-> "quit"] \in Range(sdl_events))
    /\ UNCHANGED <<held, unread, screenVars, netVars>>

\* input.get_mouse_wheel: the motion since the last call, by any script.
GetMouseWheel ==
    /\ unread' = unread - mouse_wheel
    /\ mouse_wheel' = 0
    /\ UNCHANGED <<sdl_events, held, key_down, close_requested, screenVars, netVars>>

-----------------------------------------------------------------------------
(* window and gpu.                                                         *)

\* window.create: SDL may fail to start or to make the window.
CreateWindow ==
    /\ close_requested' = FALSE
    /\ \/ video' = TRUE /\ window' = TRUE
       \/ ~video /\ UNCHANGED <<video, window>>
       \/ ~window /\ video' = TRUE /\ UNCHANGED window
    /\ UNCHANGED <<inputVars, glctx, gpu_context_alive, netVars>>

KeepContext == UNCHANGED glctx                                       \* fault

DeleteContext == glctx' = FALSE

\* window.destroy.  gpu_context_alive is left as it was.
DestroyWindow ==
    /\ DeleteContext
    /\ window' = FALSE
    /\ UNCHANGED <<inputVars, close_requested, video, gpu_context_alive, netVars>>

\* gpu.create_context: without a window it succeeds and makes none.
CreateContext ==
    /\ \/ gpu_context_alive' = TRUE /\ glctx' = (window \/ glctx)
       \/ window /\ ~glctx /\ UNCHANGED <<gpu_context_alive, glctx>>
    /\ UNCHANGED <<inputVars, close_requested, video, window, netVars>>

DestroyContext ==
    /\ DeleteContext
    /\ gpu_context_alive' = FALSE
    /\ UNCHANGED <<inputVars, close_requested, video, window, netVars>>

-----------------------------------------------------------------------------
(* net.  A POSIX system hands out the lowest free descriptor, to the       *)
(* sockets of scripts and to every other file of the process.              *)

Free == {fd \in Descriptors : owner[fd] = "free"}

Take(fd, by) == owner' = [owner EXCEPT ![fd] = by]

HostOpens ==
    /\ Free # {}
    /\ Take(Min(Free), "host")
    /\ UNCHANGED <<inputVars, close_requested, screenVars, socket_open, socket_fd>>

HostCloses(fd) ==
    /\ owner[fd] = "host"
    /\ Take(fd, "free")
    /\ UNCHANGED <<inputVars, close_requested, screenVars, socket_open, socket_fd>>

\* net.open_socket overwrites the descriptor, be it in use or be there none.
OpenSocket ==
    /\ IF Free = {}
       THEN socket_fd' = -1 /\ UNCHANGED <<owner, socket_open>>
       ELSE /\ socket_fd' = Min(Free)
            /\ Take(socket_fd', "socket")
            /\ socket_open' = TRUE
    /\ UNCHANGED <<inputVars, close_requested, screenVars>>

HasDescriptor == socket_fd >= 0                                      \* fault

HasSocket == socket_open /\ socket_fd >= 0

CloseSocket ==
    /\ IF HasSocket THEN Take(socket_fd, "free") ELSE UNCHANGED owner
    /\ socket_fd' = -1 /\ socket_open' = FALSE
    /\ UNCHANGED <<inputVars, close_requested, screenVars>>

-----------------------------------------------------------------------------

Init ==
    /\ sdl_events = <<>> /\ held = {} /\ unread = 0
    /\ key_down = {} /\ mouse_wheel = 0 /\ close_requested = FALSE
    /\ video = FALSE /\ window = FALSE /\ glctx = FALSE /\ gpu_context_alive = FALSE
    /\ owner = [fd \in Descriptors |-> IF fd = 0 THEN "host" ELSE "free"]
    /\ socket_open = FALSE /\ socket_fd = 0

Player ==
    \/ \E k \in Scancodes : PressKey(k) \/ ReleaseKey(k)
    \/ \E y \in Turns : TurnWheel(y)
    \/ AskToQuit

ScriptCall ==
    \/ PollEvents \/ GetMouseWheel
    \/ CreateWindow \/ DestroyWindow \/ CreateContext \/ DestroyContext
    \/ OpenSocket \/ CloseSocket

Next ==
    \/ Player
    \/ ScriptCall
    \/ HostOpens
    \/ \E fd \in Descriptors : HostCloses(fd)

Spec == Init /\ [][Next]_vars

-----------------------------------------------------------------------------
(* Properties.                                                             *)

(* The types of g_builtin and of its environment.                          *)
NativesTypeOK ==
    /\ sdl_events \in Seq(Event) /\ Len(sdl_events) <= MaxEvents
    /\ held \subseteq Scancodes
    /\ unread \in Int
    /\ key_down \subseteq 0 .. KEYS_MAX - 1
    /\ mouse_wheel \in Int
    /\ {close_requested, video, window, glctx, gpu_context_alive, socket_open}
           \subseteq BOOLEAN
    /\ owner \in [Descriptors -> {"free", "host", "socket"}]
    /\ socket_fd \in Descriptors \cup {-1}

(* Every motion of the wheel is told to scripts exactly once, whoever      *)
(* polls and whoever asks: once the queue has been played, the counter     *)
(* holds what no script was told of.                                       *)
WheelConserved == sdl_events = <<>> => mouse_wheel = unread

(* No key gets stuck: once the queue has been played, an entry that is set *)
(* belongs to a key that is held, although several scancodes share it.     *)
NoStuckKeys == sdl_events = <<>> => key_down \subseteq {k % KEYS_MAX : k \in held}

(* A rendering context never outlives the window it was made for, in       *)
(* whatever order the scripts that share them create and destroy them.     *)
ContextHasWindow == glctx => window /\ gpu_context_alive

(* Scripts close sockets of scripts and nothing else: a descriptor that    *)
(* was closed and reused by the host, or never opened, is left alone.      *)
HostFilesKept ==
    [][ScriptCall => \A fd \in Descriptors : owner[fd] = "host" => owner'[fd] = "host"]_vars

=============================================================================
