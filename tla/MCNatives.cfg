\* Two keys that share an entry of key_down, three descriptors.
CONSTANTS
    Scancodes = {1, 5}
    KEYS_MAX = 4
    Turns <- MCTurns
    MaxEvents = 2
    MaxUnread = 1
    Descriptors = {0, 1, 2}
SPECIFICATION Spec
INVARIANTS NativesTypeOK WheelConserved NoStuckKeys ContextHasWindow
PROPERTY HostFilesKept
