---------------------------- MODULE RuntimeModules ----------------------------
(***************************************************************************)
(* The runtime module registry (src/runtime/scml_runtime_modules.c) and    *)
(* the module table of each VM (scml_vm_register_module in src/vm/vm.c).   *)
(*                                                                         *)
(* There is one registry per process.  A VM reaches a registered module    *)
(* through a pointer to its slot, which the registry hands to the VM when  *)
(* it creates the slot; slots move when another module is unregistered.    *)
(* A pointer past the last slot in use is dangling.                        *)
(*                                                                         *)
(* Function tables and arguments are left out: what matters is which       *)
(* module and which backend a call reaches.                                *)
(***************************************************************************)
EXTENDS SequencesExt

CONSTANTS
    VMs,
    ModuleNames,
    BackendNames,
    DEFAULT,                      \* the backend name "default"
    SCML_RUNTIME_MODULES_MAX,
    SCML_RUNTIME_BACKENDS_MAX,
    SCML_NATIVE_MODULES_MAX

ASSUME DefaultAssumption == DEFAULT \in BackendNames
ASSUME LimitsAssumption ==
    /\ SCML_RUNTIME_MODULES_MAX \in Nat
    /\ SCML_RUNTIME_BACKENDS_MAX \in Nat \ {0}
    /\ SCML_NATIVE_MODULES_MAX \in Nat

VARIABLES
    registry,  \* the slots in use
    modules,   \* VM -> module name -> slot
    ok         \* what the last call returned

vars == <<registry, modules, ok>>

Slot == [name     : ModuleNames,
         backends : Seq(BackendNames),
         active   : Nat]

\* A VM without modules.
NoModules == [m \in {} |-> 0]

Init ==
    /\ registry = <<>>
    /\ modules = [vm \in VMs |-> NoModules]
    /\ ok = TRUE

-----------------------------------------------------------------------------
(* runtime_find.                                                           *)

MissesLast(m) == \E i \in 1 .. Len(registry) - 1 : registry[i].name = m  \* fault

Registered(m) == \E i \in DOMAIN registry : registry[i].name = m

Find(m) ==
    CHOOSE i \in DOMAIN registry :
        /\ registry[i].name = m
        /\ \A j \in 1 .. i - 1 : registry[j].name # m

RegistryFull == Len(registry) >= SCML_RUNTIME_MODULES_MAX

(* scml_vm_register_module: a VM's table takes the pointer to the slot.    *)

AlwaysRoom(vm, m) == TRUE                                            \* fault

CanAttach(vm, m) ==
    \/ m \in DOMAIN modules[vm]
    \/ Cardinality(DOMAIN modules[vm]) < SCML_NATIVE_MODULES_MAX

Attached(table, m, slot) ==
    [n \in DOMAIN table \cup {m} |-> IF n = m THEN slot ELSE table[n]]

AttachBefore(vm, m, slot) ==                                         \* fault
    modules' = [modules EXCEPT ![vm] = Attached(@, m, slot - 1)]

Attach(vm, m, slot) == modules' = [modules EXCEPT ![vm] = Attached(@, m, slot)]

Detached(table, m) == [n \in DOMAIN table \ {m} |-> table[n]]

-----------------------------------------------------------------------------
(* The registry's API.  Each operation runs to its end.                    *)

Position(s, b) == CHOOSE i \in DOMAIN s : s[i] = b

Refuse == ok' = FALSE /\ UNCHANGED <<registry, modules>>

SelectsNew(i, b) ==                                                  \* fault
    registry' = [registry EXCEPT
                     ![i] = [name     |-> registry[i].name,
                             backends |-> Append(registry[i].backends, b),
                             active   |-> Len(registry[i].backends) + 1]]

AddBackend(i, b) ==
    registry' = [registry EXCEPT
                     ![i] = [name     |-> registry[i].name,
                             backends |-> Append(registry[i].backends, b),
                             active   |-> registry[i].active]]

\* One more backend, or new functions for a known one.
RegisterKnown(m, b) ==
    LET i == Find(m) IN
    /\ Registered(m)
    /\ \/ /\ Contains(registry[i].backends, b)
          /\ ok' = TRUE /\ UNCHANGED registry
       \/ /\ ~Contains(registry[i].backends, b)
          /\ Len(registry[i].backends) < SCML_RUNTIME_BACKENDS_MAX
          /\ AddBackend(i, b) /\ ok' = TRUE
       \/ /\ ~Contains(registry[i].backends, b)
          /\ Len(registry[i].backends) >= SCML_RUNTIME_BACKENDS_MAX
          /\ ok' = FALSE /\ UNCHANGED registry
    /\ UNCHANGED modules

\* Only now is the VM told.  When its table is full the slot stays, empty.
RegisterNew(vm, m, b) ==
    /\ ~Registered(m)
    /\ \/ RegistryFull /\ Refuse
       \/ /\ ~RegistryFull /\ CanAttach(vm, m)
          /\ registry' = Append(registry, [name |-> m, backends |-> <<b>>, active |-> 1])
          /\ Attach(vm, m, Len(registry) + 1)
          /\ ok' = TRUE
       \/ /\ ~RegistryFull /\ ~CanAttach(vm, m)
          /\ registry' = Append(registry, [name |-> m, backends |-> <<>>, active |-> 1])
          /\ ok' = FALSE /\ UNCHANGED modules

RegisterBackend(vm, m, b) == RegisterKnown(m, b) \/ RegisterNew(vm, m, b)

\* The module loses its backends and its selection to one default backend.
\* A new slot is not made known to the VM.
RegisterModule(vm, m) ==
    LET fresh == [name |-> m, backends |-> <<DEFAULT>>, active |-> 1] IN
    \/ /\ Registered(m)
       /\ registry' = [registry EXCEPT ![Find(m)] = fresh]
       /\ ok' = TRUE /\ UNCHANGED modules
    \/ /\ ~Registered(m) /\ ~RegistryFull
       /\ registry' = Append(registry, fresh)
       /\ ok' = TRUE /\ UNCHANGED modules
    \/ ~Registered(m) /\ RegistryFull /\ Refuse

SelectBackend(m, b) ==
    \/ /\ Registered(m) /\ Contains(registry[Find(m)].backends, b)
       /\ registry' = [registry EXCEPT ![Find(m)] =
                          [name     |-> m,
                           backends |-> registry[Find(m)].backends,
                           active   |-> Position(registry[Find(m)].backends, b)]]
       /\ ok' = TRUE /\ UNCHANGED modules
    \/ ~(Registered(m) /\ Contains(registry[Find(m)].backends, b)) /\ Refuse

\* The slots after the module's move down by one; the VMs' pointers do not.
UnregisterModule(vm, m) ==
    \/ /\ Registered(m)
       /\ registry' = RemoveAt(registry, Find(m))
       /\ modules' = [modules EXCEPT ![vm] = Detached(@, m)]
       /\ ok' = (m \in DOMAIN modules[vm])
    \/ ~Registered(m) /\ Refuse

\* scml_vm_destroy followed by scml_vm_create; the registry stays.
RenewVM(vm) ==
    /\ modules' = [modules EXCEPT ![vm] = NoModules]
    /\ UNCHANGED <<registry, ok>>

Next ==
    \/ \E vm \in VMs, m \in ModuleNames :
           \/ \E b \in BackendNames : RegisterBackend(vm, m, b)
           \/ RegisterModule(vm, m)
           \/ UnregisterModule(vm, m)
    \/ \E m \in ModuleNames, b \in BackendNames : SelectBackend(m, b)
    \/ \E vm \in VMs : RenewVM(vm)

Spec == Init /\ [][Next]_vars

-----------------------------------------------------------------------------
(* What a call module.function reaches.                                    *)

\* scml_vm_call_native finds m in the VM's table; the slot it points to is
\* in use and is that of m.
Routed(vm, m) ==
    /\ m \in DOMAIN modules[vm]
    /\ modules[vm][m] \in DOMAIN registry
    /\ registry[modules[vm][m]].name = m

\* runtime_dispatch finds a backend there.
Served(vm, m) ==
    /\ Routed(vm, m)
    /\ registry[modules[vm][m]].active \in DOMAIN registry[modules[vm][m]].backends

ActiveBackend(m) == registry[Find(m)].backends[registry[Find(m)].active]

-----------------------------------------------------------------------------
(* Properties.                                                             *)

(* The types of the registry and of the VMs' tables, and their limits.     *)
RegistryTypeOK ==
    /\ registry \in Seq(Slot)
    /\ Len(registry) <= SCML_RUNTIME_MODULES_MAX
    /\ \A i \in DOMAIN registry : Len(registry[i].backends) <= SCML_RUNTIME_BACKENDS_MAX
    /\ DOMAIN modules = VMs
    /\ \A vm \in VMs :
           /\ DOMAIN modules[vm] \subseteq ModuleNames
           /\ \A m \in DOMAIN modules[vm] : modules[vm][m] \in Nat \ {0}
           /\ Cardinality(DOMAIN modules[vm]) <= SCML_NATIVE_MODULES_MAX
    /\ ok \in BOOLEAN

(* No name has two slots and no slot lists a backend twice, whatever the   *)
(* order of registrations by several VMs, failures and removals: what      *)
(* runtime_find returns first is all there is.                             *)
NamesUnique ==
    /\ \A i, j \in DOMAIN registry : registry[i].name = registry[j].name => i = j
    /\ \A i \in DOMAIN registry : IsInjective(registry[i].backends)

(* The selected backend of a module that stays registered changes only     *)
(* when it is selected or its module is registered again: registering      *)
(* backends for it, or removing another module, never switches it.         *)
SelectionStable ==
    [][\A m \in ModuleNames :
           /\ Registered(m) /\ Registered(m)'
           /\ registry[Find(m)].backends # <<>>
           /\ ~ \E vm \in VMs : RegisterModule(vm, m)
           /\ ~ \E b \in BackendNames : SelectBackend(m, b)
           => ActiveBackend(m)' = ActiveBackend(m)]_vars

(* Until some module is unregistered, a VM that was given a module reaches *)
(* this very module with a backend selected: registrations by other VMs,   *)
(* failed ones included, and reselection never break a route.              *)
RoutesKept ==
    [][\A vm \in VMs, m \in ModuleNames :
           /\ Served(vm, m) \/ m \notin DOMAIN modules[vm]
           /\ m \in DOMAIN modules'[vm]
           /\ ~ \E v \in VMs, n \in ModuleNames : UnregisterModule(v, n) /\ Registered(n)
           => Served(vm, m)']_vars

(* No call reaches another module than the one it names: "call_module(     *)
(* module.function, args...) through VM CALL_NATIVE" (README.md).  False   *)
(* after a removal: the other modules' slots moved, the pointers did not.  *)
CallsReachTheirModule ==
    \A vm \in VMs : \A m \in DOMAIN modules[vm] :
        modules[vm][m] \in DOMAIN registry => Routed(vm, m)

=============================================================================
