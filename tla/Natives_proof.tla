---------------------------- MODULE Natives_proof ----------------------------
(***************************************************************************)
(* Proofs about Natives: the state behind the built-in modules, for every  *)
(* keyboard, wheel, queue and number of descriptors.                       *)
(***************************************************************************)
EXTENDS Natives, ListTheorems

-----------------------------------------------------------------------------
(* The sum of the motions in the queue.                                    *)

LEMMA MotionType == \A event \in Event : MotionOf(event) \in Int
<1>1. \A event \in [type : {"wheel"}, y : Turns] : event.y \in Turns
  OBVIOUS
<1>2. \A event \in Event : event.type = "wheel" => event.y \in Turns
  <2>1. \A event \in [type : {"quit"}] : event.type # "wheel"
    OBVIOUS
  <2>2. \A event \in [type : {"keydown", "keyup"}, scancode : Scancodes] : event.type # "wheel"
    OBVIOUS
  <2>. QED  BY <1>1, <2>1, <2>2 DEF Event
<1>3. ASSUME NEW event \in Event PROVE MotionOf(event) \in Int
  <2>1. CASE event.type = "wheel"
    BY <1>2, <2>1, TurnsAssumption DEF MotionOf
  <2>2. CASE event.type # "wheel"
    BY <2>2 DEF MotionOf
  <2>. QED  BY <2>1, <2>2
<1>. QED  BY <1>3

\* The motions of the events of a queue.
Motions(q) == [n \in 1 .. Len(q) |-> MotionOf(q[n])]

LEMMA MotionsType ==
    ASSUME NEW q \in Seq(Event)
    PROVE  Motions(q) \in Seq(Int)
<1>1. Len(q) \in Nat /\ \A n \in 1 .. Len(q) : MotionOf(q[n]) \in Int
  BY ElementOfSeq, MotionType
<1>. QED  BY <1>1, IsASeq DEF Motions

LEMMA TurnOfType ==
    ASSUME NEW q \in Seq(Event)
    PROVE  TurnOf(q) \in Int
BY MotionsType, SumType DEF TurnOf, Motions

LEMMA TurnOfEmpty == TurnOf(<<>>) = 0
<1>1. [n \in 1 .. Len(<<>>) |-> MotionOf(<<>>[n])] = <<>>
  OBVIOUS
<1>. QED  BY <1>1, SumEmpty DEF TurnOf

LEMMA TurnOfAppend ==
    ASSUME NEW q \in Seq(Event), NEW event \in Event
    PROVE  TurnOf(Append(q, event)) = TurnOf(q) + MotionOf(event)
<1>. DEFINE r == Append(q, event)
            L == Len(q)
<1>1. L \in Nat /\ r \in Seq(Event) /\ Len(r) = L + 1 /\ r[L + 1] = event
      /\ \A n \in 1 .. L : r[n] = q[n]
  BY AppendProperties
<1>2. MotionOf(event) \in Int /\ Motions(q) \in Seq(Int) /\ Len(Motions(q)) = L
  BY <1>1, MotionType, MotionsType DEF Motions
<1>. HIDE DEF r
<1>3. Motions(r) = Append(Motions(q), MotionOf(event))
  <2>1. \A n \in 1 .. L + 1 : n = L + 1 \/ n \in 1 .. L
    BY <1>1
  <2>2. \A n \in 1 .. L + 1 :
           MotionOf(r[n]) = Append(Motions(q), MotionOf(event))[n]
    BY <1>1, <1>2, <2>1 DEF Motions
  <2>. QED  BY <1>1, <1>2, <2>2 DEF Motions
<1>4. TurnOf(r) = SumSeq(Append(Motions(q), MotionOf(event)))
  BY <1>3, Zenon DEF TurnOf, Motions
<1>5. TurnOf(q) = SumSeq(Motions(q))
  BY Zenon DEF TurnOf, Motions
<1>. QED  BY <1>2, <1>4, <1>5, SumAppend DEF r

-----------------------------------------------------------------------------
(* The entries of key_down once the queue has been played.                 *)

LEMMA KeysAfterAppend ==
    ASSUME NEW set, NEW q \in Seq(Event), NEW event \in Event,
           NEW key \in KeysAfter(set, Append(q, event))
    PROVE  Sets(event, key) \/ (key \in KeysAfter(set, q) /\ ~Clears(event, key))
<1>. DEFINE r == Append(q, event)
<1>1. Len(q) \in Nat /\ Len(r) = Len(q) + 1 /\ r[Len(q) + 1] = event
      /\ \A n \in 1 .. Len(q) : r[n] = q[n]
  BY AppendProperties
<1>2. DOMAIN q = 1 .. Len(q) /\ DOMAIN r = 1 .. Len(q) + 1
  BY <1>1, LenProperties, AppendProperties
<1>. HIDE DEF r
<1>3. key \in 0 .. KEYS_MAX - 1
      /\ \/ key \in set /\ \A j \in DOMAIN r : ~Clears(r[j], key)
         \/ \E i \in DOMAIN r : Sets(r[i], key) /\ \A j \in i + 1 .. Len(r) : ~Clears(r[j], key)
  BY DEF KeysAfter, r
<1>4. CASE key \in set /\ \A j \in DOMAIN r : ~Clears(r[j], key)
  <2>1. \A j \in DOMAIN q : ~Clears(q[j], key)
    BY <1>1, <1>2, <1>4
  <2>2. ~Clears(event, key)
    BY <1>1, <1>2, <1>4
  <2>. QED  BY <1>3, <1>4, <2>1, <2>2 DEF KeysAfter
<1>5. CASE \E i \in DOMAIN r : Sets(r[i], key) /\ \A j \in i + 1 .. Len(r) : ~Clears(r[j], key)
  <2>1. PICK i \in DOMAIN r : Sets(r[i], key) /\ \A j \in i + 1 .. Len(r) : ~Clears(r[j], key)
    BY <1>5
  <2>2. CASE i = Len(q) + 1
    BY <1>1, <2>1, <2>2
  <2>3. CASE i # Len(q) + 1
    <3>1. i \in DOMAIN q /\ Sets(q[i], key)
      BY <1>1, <1>2, <2>1, <2>3
    <3>2. \A j \in i + 1 .. Len(q) : ~Clears(q[j], key)
      BY <1>1, <1>2, <2>1, <3>1
    <3>3. ~Clears(event, key)
      BY <1>1, <1>2, <2>1, <3>1
    <3>. QED  BY <1>3, <3>1, <3>2, <3>3 DEF KeysAfter
  <2>. QED  BY <2>2, <2>3
<1>. QED  BY <1>3, <1>4, <1>5

-----------------------------------------------------------------------------
(* The inductive invariant.                                                *)

HeldKeys == {k % KEYS_MAX : k \in held}

\* What is still in the queue is accounted for.
InputInv ==
    /\ mouse_wheel + TurnOf(sdl_events) = unread
    /\ KeysAfter(key_down, sdl_events) \subseteq HeldKeys

\* An open socket is a socket of the kernel.
SocketInv == HasSocket => socket_fd \in Descriptors /\ owner[socket_fd] = "socket"

NativesInv == NativesTypeOK /\ InputInv /\ ContextHasWindow /\ SocketInv

-----------------------------------------------------------------------------
(* Initially.                                                              *)

LEMMA KeysAfterNothing == ASSUME NEW set PROVE KeysAfter(set, <<>>) \subseteq set
<1>1. DOMAIN <<>> = {}
  OBVIOUS
<1>. QED  BY <1>1 DEF KeysAfter

LEMMA NativesInitInv == Init => NativesInv
<1>. SUFFICES ASSUME Init PROVE NativesInv
  OBVIOUS
<1>1. NativesTypeOK
  BY DescriptorsAssumption, KeysAssumption DEF Init, NativesTypeOK
<1>2. InputInv
  BY TurnOfEmpty, KeysAfterNothing DEF Init, InputInv, HeldKeys
<1>3. ContextHasWindow /\ SocketInv
  BY DEF Init, ContextHasWindow, SocketInv, HasSocket
<1>. QED  BY <1>1, <1>2, <1>3 DEF NativesInv

-----------------------------------------------------------------------------
(* Input: one lemma for all that the player does.                          *)

LEMMA ReportKeepsTypes ==
    ASSUME NativesTypeOK, NEW event \in Event, Report(event)
    PROVE  /\ sdl_events' \in Seq(Event) /\ Len(sdl_events') <= MaxEvents
           /\ TurnOf(sdl_events') = TurnOf(sdl_events) + MotionOf(event)
<1>1. sdl_events \in Seq(Event) /\ sdl_events' = Append(sdl_events, event)
      /\ Len(sdl_events) < MaxEvents
  BY DEF NativesTypeOK, Report
<1>2. Len(sdl_events) \in Nat /\ Len(sdl_events') = Len(sdl_events) + 1
      /\ sdl_events' \in Seq(Event)
  BY <1>1, AppendProperties
<1>. QED  BY <1>1, <1>2, TurnOfAppend, BoundsAssumption

LEMMA PressKeyInv ==
    ASSUME NativesInv, NEW k \in Scancodes, PressKey(k)
    PROVE  NativesInv'
<1>. DEFINE event == [type |-> "keydown", scancode |-> k]
<1>1. event \in Event /\ MotionOf(event) = 0
      /\ \A key : Sets(event, key) => key = k % KEYS_MAX
  BY DEF Event, MotionOf, Sets
<1>. HIDE DEF event
<1>2. Report(event) /\ held' = held \cup {k} /\ UNCHANGED unread
  BY DEF PressKey, event
<1>3. sdl_events \in Seq(Event) /\ sdl_events' = Append(sdl_events, event)
  BY <1>2 DEF NativesInv, NativesTypeOK, Report
<1>4. NativesTypeOK'
  <2>1. sdl_events' \in Seq(Event) /\ Len(sdl_events') <= MaxEvents
    BY <1>1, <1>2, ReportKeepsTypes DEF NativesInv
  <2>. QED
    BY <1>2, <2>1 DEF NativesInv, NativesTypeOK, Report, screenVars, netVars
<1>5. InputInv'
  <2>1. TurnOf(sdl_events') = TurnOf(sdl_events) + 0
    BY <1>1, <1>2, ReportKeepsTypes DEF NativesInv
  <2>2. TurnOf(sdl_events) \in Int
    BY <1>3, TurnOfType
  <2>3. (mouse_wheel + TurnOf(sdl_events) = unread)'
    BY <1>2, <2>1, <2>2 DEF NativesInv, InputInv, Report
  <2>4. ASSUME NEW key \in KeysAfter(key_down, sdl_events') PROVE key \in HeldKeys'
    <3>1. key = k % KEYS_MAX \/ key \in KeysAfter(key_down, sdl_events)
      BY <1>1, <1>3, <2>4, KeysAfterAppend
    <3>. QED  BY <1>2, <3>1 DEF NativesInv, InputInv, HeldKeys
  <2>5. key_down' = key_down
    BY <1>2 DEF Report
  <2>. QED  BY <2>3, <2>4, <2>5 DEF InputInv
<1>6. (ContextHasWindow /\ SocketInv)'
  BY <1>2 DEF NativesInv, ContextHasWindow, SocketInv, HasSocket, Report, screenVars, netVars
<1>. QED  BY <1>4, <1>5, <1>6 DEF NativesInv

LEMMA ReleaseKeyInv ==
    ASSUME NativesInv, NEW k \in Scancodes, ReleaseKey(k)
    PROVE  NativesInv'
<1>. DEFINE event == [type |-> "keyup", scancode |-> k]
<1>1. event \in Event /\ MotionOf(event) = 0
      /\ \A key : ~Sets(event, key) /\ (~Clears(event, key) => key # k % KEYS_MAX)
  BY DEF Event, MotionOf, Sets, Clears
<1>. HIDE DEF event
<1>2. Report(event) /\ held' = held \ {k} /\ UNCHANGED unread
  BY DEF ReleaseKey, event
<1>3. sdl_events \in Seq(Event) /\ sdl_events' = Append(sdl_events, event)
  BY <1>2 DEF NativesInv, NativesTypeOK, Report
<1>4. NativesTypeOK'
  <2>1. sdl_events' \in Seq(Event) /\ Len(sdl_events') <= MaxEvents
    BY <1>1, <1>2, ReportKeepsTypes DEF NativesInv
  <2>. QED
    BY <1>2, <2>1 DEF NativesInv, NativesTypeOK, Report, screenVars, netVars
<1>5. InputInv'
  <2>1. TurnOf(sdl_events') = TurnOf(sdl_events) + 0
    BY <1>1, <1>2, ReportKeepsTypes DEF NativesInv
  <2>2. TurnOf(sdl_events) \in Int
    BY <1>3, TurnOfType
  <2>3. (mouse_wheel + TurnOf(sdl_events) = unread)'
    BY <1>2, <2>1, <2>2 DEF NativesInv, InputInv, Report
  <2>4. ASSUME NEW key \in KeysAfter(key_down, sdl_events') PROVE key \in HeldKeys'
    <3>1. key # k % KEYS_MAX /\ key \in KeysAfter(key_down, sdl_events)
      BY <1>1, <1>3, <2>4, KeysAfterAppend
    <3>. QED  BY <1>2, <3>1 DEF NativesInv, InputInv, HeldKeys
  <2>5. key_down' = key_down
    BY <1>2 DEF Report
  <2>. QED  BY <2>3, <2>4, <2>5 DEF InputInv
<1>6. (ContextHasWindow /\ SocketInv)'
  BY <1>2 DEF NativesInv, ContextHasWindow, SocketInv, HasSocket, Report, screenVars, netVars
<1>. QED  BY <1>4, <1>5, <1>6 DEF NativesInv

\* An event that is of no key leaves the keys alone.
LEMMA NoKeyInv ==
    ASSUME NativesInv, NEW event \in Event, Report(event),
           event.type \notin {"keydown", "keyup"},
           UNCHANGED held, unread' = unread + MotionOf(event)
    PROVE  NativesInv'
<1>1. sdl_events \in Seq(Event) /\ sdl_events' = Append(sdl_events, event)
  BY DEF NativesInv, NativesTypeOK, Report
<1>2. MotionOf(event) \in Int
  BY MotionType
<1>3. NativesTypeOK'
  <2>1. sdl_events' \in Seq(Event) /\ Len(sdl_events') <= MaxEvents
    BY ReportKeepsTypes DEF NativesInv
  <2>2. unread' \in Int
    BY <1>2 DEF NativesInv, NativesTypeOK
  <2>. QED
    BY <2>1, <2>2 DEF NativesInv, NativesTypeOK, Report, screenVars, netVars
<1>4. InputInv'
  <2>1. TurnOf(sdl_events') = TurnOf(sdl_events) + MotionOf(event)
    BY ReportKeepsTypes DEF NativesInv
  <2>2. TurnOf(sdl_events) \in Int
    BY <1>1, TurnOfType
  <2>3. (mouse_wheel + TurnOf(sdl_events) = unread)'
    BY <1>2, <2>1, <2>2 DEF NativesInv, NativesTypeOK, InputInv, Report
  <2>4. ASSUME NEW key \in KeysAfter(key_down, sdl_events') PROVE key \in HeldKeys'
    <3>1. key \in KeysAfter(key_down, sdl_events)
      BY <1>1, <2>4, KeysAfterAppend DEF Sets
    <3>. QED  BY <3>1 DEF NativesInv, InputInv, HeldKeys
  <2>5. key_down' = key_down
    BY DEF Report
  <2>. QED  BY <2>3, <2>4, <2>5 DEF InputInv
<1>5. (ContextHasWindow /\ SocketInv)'
  BY DEF NativesInv, ContextHasWindow, SocketInv, HasSocket, Report, screenVars, netVars
<1>. QED  BY <1>3, <1>4, <1>5 DEF NativesInv

LEMMA PlayerInv == ASSUME NativesInv, Player PROVE NativesInv'
<1>1. ASSUME NEW y \in Turns, TurnWheel(y) PROVE NativesInv'
  <2>. DEFINE event == [type |-> "wheel", y |-> y]
  <2>1. event \in Event /\ MotionOf(event) = y /\ event.type \notin {"keydown", "keyup"}
    BY DEF Event, MotionOf
  <2>2. Report(event) /\ UNCHANGED held /\ unread' = unread + y
    BY <1>1 DEF TurnWheel
  <2>. HIDE DEF event
  <2>. QED  BY <2>1, <2>2, NoKeyInv
<1>2. ASSUME AskToQuit PROVE NativesInv'
  <2>. DEFINE event == [type |-> "quit"]
  <2>1. event \in Event /\ MotionOf(event) = 0 /\ event.type \notin {"keydown", "keyup"}
    BY DEF Event, MotionOf
  <2>2. Report(event) /\ UNCHANGED <<held, unread>>
    BY <1>2 DEF AskToQuit
  <2>3. unread' = unread + MotionOf(event)
    BY <2>1, <2>2 DEF NativesInv, NativesTypeOK
  <2>. HIDE DEF event
  <2>. QED  BY <2>1, <2>2, <2>3, NoKeyInv
<1>. QED  BY <1>1, <1>2, PressKeyInv, ReleaseKeyInv DEF Player

LEMMA PollEventsInv == ASSUME NativesInv, PollEvents PROVE NativesInv'
<1>1. TurnOf(sdl_events) \in Int
  BY TurnOfType DEF NativesInv, NativesTypeOK
<1>2. NativesTypeOK'
  <2>1. <<>> \in Seq(Event) /\ Len(<<>>) <= MaxEvents
    BY BoundsAssumption
  <2>2. KeysAfter(key_down, sdl_events) \subseteq 0 .. KEYS_MAX - 1
    BY DEF KeysAfter
  <2>3. close_requested' \in BOOLEAN
    BY DEF PollEvents
  <2>. QED
    BY <1>1, <2>1, <2>2, <2>3
    DEF PollEvents, NativesInv, NativesTypeOK, screenVars, netVars
<1>3. InputInv'
  BY <1>1, TurnOfEmpty, KeysAfterNothing
  DEF PollEvents, NativesInv, NativesTypeOK, InputInv, HeldKeys
<1>4. (ContextHasWindow /\ SocketInv)'
  BY DEF PollEvents, NativesInv, ContextHasWindow, SocketInv, HasSocket, screenVars, netVars
<1>. QED  BY <1>2, <1>3, <1>4 DEF NativesInv

LEMMA GetMouseWheelInv == ASSUME NativesInv, GetMouseWheel PROVE NativesInv'
<1>1. TurnOf(sdl_events) \in Int
  BY TurnOfType DEF NativesInv, NativesTypeOK
<1>2. NativesTypeOK'
  BY DEF GetMouseWheel, NativesInv, NativesTypeOK, screenVars, netVars
<1>3. InputInv'
  BY <1>1 DEF GetMouseWheel, NativesInv, NativesTypeOK, InputInv, HeldKeys
<1>4. (ContextHasWindow /\ SocketInv)'
  BY DEF GetMouseWheel, NativesInv, ContextHasWindow, SocketInv, HasSocket, screenVars, netVars
<1>. QED  BY <1>2, <1>3, <1>4 DEF NativesInv

-----------------------------------------------------------------------------
(* window and gpu.                                                         *)

LEMMA ScreenInv ==
    ASSUME NativesInv, CreateWindow \/ DestroyWindow \/ CreateContext \/ DestroyContext
    PROVE  NativesInv'
<1>1. NativesTypeOK'
  BY DEF NativesInv, NativesTypeOK, CreateWindow, DestroyWindow, CreateContext,
         DestroyContext, DeleteContext, inputVars, netVars
<1>2. InputInv'
  BY DEF NativesInv, InputInv, HeldKeys, CreateWindow, DestroyWindow, CreateContext,
         DestroyContext, inputVars
<1>3. ContextHasWindow'
  BY DEF NativesInv, NativesTypeOK, ContextHasWindow, CreateWindow, DestroyWindow,
         CreateContext, DestroyContext, DeleteContext
<1>4. SocketInv'
  BY DEF NativesInv, SocketInv, HasSocket, CreateWindow, DestroyWindow, CreateContext,
         DestroyContext, netVars
<1>. QED  BY <1>1, <1>2, <1>3, <1>4 DEF NativesInv

-----------------------------------------------------------------------------
(* net: a free descriptor is no socket's.                                  *)

LEMMA NetKeepsRest ==
    ASSUME NativesInv, UNCHANGED <<inputVars, close_requested, screenVars>>,
           owner' \in [Descriptors -> {"free", "host", "socket"}],
           socket_open' \in BOOLEAN, socket_fd' \in Descriptors \cup {-1},
           SocketInv'
    PROVE  NativesInv'
<1>1. NativesTypeOK'
  BY DEF NativesInv, NativesTypeOK, inputVars, screenVars
<1>2. InputInv' /\ ContextHasWindow'
  BY DEF NativesInv, InputInv, HeldKeys, ContextHasWindow, inputVars, screenVars
<1>. QED  BY <1>1, <1>2 DEF NativesInv

LEMMA LowestIsFree == Free # {} => Min(Free) \in Free /\ Min(Free) \in Descriptors
<1>1. Free \in SUBSET Nat /\ Free \subseteq Descriptors
  BY DescriptorsAssumption DEF Free
<1>. QED  BY <1>1, MinIsLowest

LEMMA HostInv ==
    ASSUME NativesInv, HostOpens \/ \E fd \in Descriptors : HostCloses(fd)
    PROVE  NativesInv'
<1>1. PICK fd \in Descriptors, by \in {"host", "free"} :
         Take(fd, by) /\ owner[fd] # "socket"
         /\ UNCHANGED <<inputVars, close_requested, screenVars, socket_open, socket_fd>>
  BY LowestIsFree DEF HostOpens, HostCloses, Free
<1>2. owner' \in [Descriptors -> {"free", "host", "socket"}]
  BY <1>1 DEF Take, NativesInv, NativesTypeOK
<1>3. SocketInv'
  BY <1>1 DEF Take, NativesInv, NativesTypeOK, SocketInv, HasSocket
<1>. QED  BY <1>1, <1>2, <1>3, NetKeepsRest DEF NativesInv, NativesTypeOK

LEMMA OpenSocketInv == ASSUME NativesInv, OpenSocket PROVE NativesInv'
<1>1. CASE Free = {}
  BY <1>1, NetKeepsRest
  DEF OpenSocket, NativesInv, NativesTypeOK, SocketInv, HasSocket
<1>2. CASE Free # {}
  <2>1. PICK fd \in Descriptors : /\ Take(fd, "socket") /\ socket_fd' = fd
                                  /\ socket_open' = TRUE
                                  /\ UNCHANGED <<inputVars, close_requested, screenVars>>
    BY <1>2, LowestIsFree DEF OpenSocket
  <2>2. owner' \in [Descriptors -> {"free", "host", "socket"}] /\ owner'[fd] = "socket"
    BY <2>1 DEF Take, NativesInv, NativesTypeOK
  <2>. QED  BY <2>1, <2>2, NetKeepsRest DEF SocketInv
<1>. QED  BY <1>1, <1>2

LEMMA CloseSocketInv == ASSUME NativesInv, CloseSocket PROVE NativesInv'
<1>1. owner' \in [Descriptors -> {"free", "host", "socket"}]
  BY DEF CloseSocket, Take, NativesInv, NativesTypeOK
<1>2. SocketInv'
  BY DEF CloseSocket, SocketInv, HasSocket
<1>. QED  BY <1>1, <1>2, NetKeepsRest DEF CloseSocket

-----------------------------------------------------------------------------

LEMMA NativesNextInv == NativesInv /\ [Next]_vars => NativesInv'
<1>. SUFFICES ASSUME NativesInv, [Next]_vars PROVE NativesInv'
  OBVIOUS
<1>1. CASE Player
  BY <1>1, PlayerInv
<1>2. CASE ScriptCall
  BY <1>2, PollEventsInv, GetMouseWheelInv, ScreenInv, OpenSocketInv, CloseSocketInv
  DEF ScriptCall
<1>3. CASE HostOpens \/ \E fd \in Descriptors : HostCloses(fd)
  BY <1>3, HostInv
<1>4. CASE UNCHANGED vars
  BY <1>4 DEF vars, inputVars, screenVars, netVars, NativesInv, NativesTypeOK, InputInv,
              HeldKeys, ContextHasWindow, SocketInv, HasSocket
<1>. QED  BY <1>1, <1>2, <1>3, <1>4 DEF Next

LEMMA NativesInvariant == Spec => []NativesInv
BY NativesInitInv, NativesNextInv, PTL DEF Spec

(* The state behind the built-in modules is well typed: key_down is indexed *)
(* within its size whatever scancodes the keyboard has.                    *)
THEOREM NativesTypeCorrect == Spec => []NativesTypeOK
<1>1. NativesInv => NativesTypeOK
  BY DEF NativesInv
<1>. QED  BY <1>1, NativesInvariant, PTL

(* Scripts are told every motion of the wheel exactly once.                *)
THEOREM WheelIsConserved == Spec => []WheelConserved
<1>1. NativesInv => WheelConserved
  BY TurnOfEmpty DEF NativesInv, NativesTypeOK, InputInv, WheelConserved
<1>. QED  BY <1>1, NativesInvariant, PTL

(* No entry of key_down outlives the keys that share it.                   *)
THEOREM NoKeyIsStuck == Spec => []NoStuckKeys
<1>1. ASSUME NativesTypeOK, sdl_events = <<>> PROVE key_down \subseteq KeysAfter(key_down, sdl_events)
  BY <1>1 DEF NativesTypeOK, KeysAfter
<1>2. NativesInv => NoStuckKeys
  BY <1>1 DEF NativesInv, InputInv, HeldKeys, NoStuckKeys
<1>. QED  BY <1>2, NativesInvariant, PTL

(* A rendering context never outlives its window.                          *)
THEOREM ContextsHaveWindows == Spec => []ContextHasWindow
<1>1. NativesInv => ContextHasWindow
  BY DEF NativesInv
<1>. QED  BY <1>1, NativesInvariant, PTL

(* Scripts leave the descriptors of the host alone.                        *)
THEOREM HostFilesAreKept == Spec => HostFilesKept
<1>1. ASSUME NativesInv, ScriptCall, NEW fd \in Descriptors, owner[fd] = "host"
      PROVE  owner'[fd] = "host"
  <2>1. CASE OpenSocket
    BY <1>1, <2>1, LowestIsFree DEF OpenSocket, Take, Free, NativesInv, NativesTypeOK
  <2>2. CASE CloseSocket
    BY <1>1, <2>2 DEF CloseSocket, Take, NativesInv, NativesTypeOK, SocketInv
  <2>3. CASE UNCHANGED owner
    BY <1>1, <2>3
  <2>. QED
    BY <1>1, <2>1, <2>2, <2>3
    DEF ScriptCall, PollEvents, GetMouseWheel, CreateWindow, DestroyWindow, CreateContext,
        DestroyContext, netVars
<1>2. NativesInv /\ [Next]_vars
      => [ScriptCall => \A fd \in Descriptors : owner[fd] = "host" => owner'[fd] = "host"]_vars
  BY <1>1
<1>. QED  BY <1>2, NativesInvariant, PTL DEF Spec, HostFilesKept

=============================================================================
