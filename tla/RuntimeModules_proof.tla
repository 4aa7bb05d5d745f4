-------------------------- MODULE RuntimeModules_proof --------------------------
(***************************************************************************)
(* Proofs about RuntimeModules for any number of VMs, names and slots.     *)
(***************************************************************************)
EXTENDS RuntimeModules, SequenceTheorems, FiniteSetTheorems, TLAPS

-----------------------------------------------------------------------------
(* The inductive invariant.                                                *)

(* What a slot holds: no backend twice, no more of them than fit, and a    *)
(* selection that is one of them or, as long as there is none, the first.  *)
SlotInv(s) ==
    /\ s \in Slot
    /\ Len(s.backends) <= SCML_RUNTIME_BACKENDS_MAX
    /\ IsInjective(s.backends)
    /\ s.active \in 1 .. Len(s.backends) \/ s.active = 1

SlotsInv ==
    /\ registry \in Seq(Slot)
    /\ Len(registry) <= SCML_RUNTIME_MODULES_MAX
    /\ \A i \in DOMAIN registry : SlotInv(registry[i])
    /\ \A i, j \in DOMAIN registry : registry[i].name = registry[j].name => i = j

TableInv(table) ==
    /\ DOMAIN table \subseteq ModuleNames /\ IsFiniteSet(DOMAIN table)
    /\ \A m \in DOMAIN table : table[m] \in Nat \ {0}
    /\ Cardinality(DOMAIN table) <= SCML_NATIVE_MODULES_MAX

TablesInv ==
    /\ DOMAIN modules = VMs /\ modules = [vm \in VMs |-> modules[vm]]
    /\ \A vm \in VMs : TableInv(modules[vm])

RegistryInv == SlotsInv /\ TablesInv /\ ok \in BOOLEAN

LEMMA RegistryInvImplies == RegistryInv => RegistryTypeOK /\ NamesUnique
BY DEF RegistryInv, SlotsInv, SlotInv, TablesInv, TableInv, RegistryTypeOK, NamesUnique

-----------------------------------------------------------------------------
(* runtime_find.                                                           *)

FirstNamed(slots, m) ==
    CHOOSE i \in DOMAIN slots :
        slots[i].name = m /\ \A j \in 1 .. i - 1 : slots[j].name # m

LEMMA FindIsFirst ==
    ASSUME NEW m
    PROVE  Find(m) = FirstNamed(registry, m) /\ Find(m)' = FirstNamed(registry', m)
BY DEF Find, FirstNamed

(* Where names are unique, what the search returns first is all there is.  *)
LEMMA FirstIsOnly ==
    ASSUME NEW slots \in Seq(Slot), NEW i \in DOMAIN slots,
           \A j, k \in DOMAIN slots : slots[j].name = slots[k].name => j = k
    PROVE  FirstNamed(slots, slots[i].name) = i
<1>1. \A j \in 1 .. i - 1 : j \in DOMAIN slots /\ j # i
  OBVIOUS
<1>. QED  BY <1>1 DEF FirstNamed

LEMMA FoundSlot ==
    ASSUME SlotsInv, NEW m, Registered(m)
    PROVE  Find(m) \in DOMAIN registry /\ registry[Find(m)].name = m
<1>1. PICK i \in DOMAIN registry : registry[i].name = m
  BY DEF Registered
<1>. QED  BY <1>1, FindIsFirst, FirstIsOnly DEF SlotsInv

-----------------------------------------------------------------------------
(* The three ways in which the sequence of slots changes.                  *)

LEMMA ReplaceSlot ==
    ASSUME SlotsInv, NEW i \in DOMAIN registry, NEW s, SlotInv(s),
           s.name = registry[i].name, registry' = [registry EXCEPT ![i] = s]
    PROVE  SlotsInv'
<1>1. /\ registry' \in Seq(Slot) /\ Len(registry') = Len(registry)
      /\ DOMAIN registry' = DOMAIN registry
      /\ \A j \in DOMAIN registry : registry'[j] = IF j = i THEN s ELSE registry[j]
  BY DEF SlotsInv, SlotInv
<1>. QED  BY <1>1 DEF SlotsInv

LEMMA AppendSlot ==
    ASSUME SlotsInv, NEW s, SlotInv(s), ~Registered(s.name), ~RegistryFull,
           registry' = Append(registry, s)
    PROVE  SlotsInv'
<1>1. /\ registry' \in Seq(Slot) /\ Len(registry') = Len(registry) + 1
      /\ DOMAIN registry' = DOMAIN registry \cup {Len(registry) + 1}
      /\ \A j \in DOMAIN registry : registry'[j] = registry[j]
      /\ registry'[Len(registry) + 1] = s
  BY DEF SlotsInv, SlotInv
<1>2. Len(registry') <= SCML_RUNTIME_MODULES_MAX
  BY <1>1, LimitsAssumption DEF RegistryFull, SlotsInv
<1>. QED  BY <1>1, <1>2 DEF SlotsInv, Registered

(* RemoveAt takes one element out, and those behind it move up by one.     *)
LEMMA RemoveAtProperties ==
    ASSUME NEW S, NEW s \in Seq(S), NEW i \in 1 .. Len(s)
    PROVE  /\ RemoveAt(s, i) \in Seq(S)
           /\ Len(RemoveAt(s, i)) = Len(s) - 1
           /\ \A j \in 1 .. Len(s) - 1 :
                 RemoveAt(s, i)[j] = IF j < i THEN s[j] ELSE s[j + 1]
<1>. DEFINE front == SubSeq(s, 1, i - 1)
            back  == SubSeq(s, i + 1, Len(s))
<1>1. /\ front \in Seq(S) /\ Len(front) = i - 1
      /\ \A j \in 1 .. i - 1 : front[j] = s[j]
  OBVIOUS
<1>2. /\ back \in Seq(S) /\ Len(back) = Len(s) - i
      /\ \A j \in 1 .. Len(s) - i : back[j] = s[j + i]
  <2>1. \A j \in i + 1 .. Len(s) : s[j] \in S
    OBVIOUS
  <2>. QED  BY <2>1, SubSeqProperties
<1>3. RemoveAt(s, i) = front \o back
  BY DEF RemoveAt
<1>. HIDE DEF front, back
<1>4. /\ front \o back \in Seq(S) /\ Len(front \o back) = Len(front) + Len(back)
      /\ \A j \in 1 .. Len(front) + Len(back) :
            (front \o back)[j] = IF j <= Len(front) THEN front[j] ELSE back[j - Len(front)]
  BY <1>1, <1>2, ConcatProperties
<1>5. Len(front) + Len(back) = Len(s) - 1
  BY <1>1, <1>2
<1>6. ASSUME NEW j \in 1 .. Len(s) - 1
      PROVE  (front \o back)[j] = IF j < i THEN s[j] ELSE s[j + 1]
  <2>. /\ i \in Int /\ j \in Int /\ Len(s) \in Nat
       /\ 1 <= i /\ i <= Len(s) /\ 1 <= j /\ j <= Len(s) - 1
    OBVIOUS
  <2>1. CASE j < i
    BY <1>1, <1>4, <1>5, <2>1
  <2>2. CASE j >= i
    <3>1. (front \o back)[j] = back[j - (i - 1)]
      BY <1>1, <1>4, <1>5, <2>2
    <3>2. j - (i - 1) \in 1 .. Len(s) - i
      BY <2>2
    <3>3. back[j - (i - 1)] = s[(j - (i - 1)) + i]
      BY <3>2, <1>2
    <3>. QED  BY <3>1, <3>3, <2>2
  <2>3. j < i \/ j >= i
    OBVIOUS
  <2>. QED  BY <2>1, <2>2, <2>3, Zenon
<1>. QED  BY <1>3, <1>4, <1>5, <1>6

LEMMA RemoveSlot ==
    ASSUME SlotsInv, NEW i \in DOMAIN registry, registry' = RemoveAt(registry, i)
    PROVE  SlotsInv'
<1>1. i \in 1 .. Len(registry) /\ registry \in Seq(Slot)
  BY DEF SlotsInv
<1>2. /\ registry' \in Seq(Slot) /\ Len(registry') = Len(registry) - 1
      /\ DOMAIN registry' = 1 .. Len(registry) - 1
      /\ \A j \in 1 .. Len(registry) - 1 :
            registry'[j] = IF j < i THEN registry[j] ELSE registry[j + 1]
  <2>1. RemoveAt(registry, i) \in Seq(Slot) /\ Len(RemoveAt(registry, i)) = Len(registry) - 1
    BY <1>1, RemoveAtProperties
  <2>2. \A j \in 1 .. Len(registry) - 1 :
            RemoveAt(registry, i)[j] = IF j < i THEN registry[j] ELSE registry[j + 1]
    BY <1>1, RemoveAtProperties
  <2>. QED  BY <2>1, <2>2
<1>3. ASSUME NEW j \in DOMAIN registry'
      PROVE  \E k \in DOMAIN registry :
                /\ registry'[j] = registry[k]
                /\ k = IF j < i THEN j ELSE j + 1
  BY <1>1, <1>2
<1>4. \A j \in DOMAIN registry' : SlotInv(registry'[j])
  BY <1>3 DEF SlotsInv
<1>5. ASSUME NEW j \in DOMAIN registry', NEW k \in DOMAIN registry',
             registry'[j].name = registry'[k].name
      PROVE  j = k
  BY <1>2, <1>3, <1>5 DEF SlotsInv
<1>6. Len(registry') <= SCML_RUNTIME_MODULES_MAX
  BY <1>2, LimitsAssumption DEF SlotsInv
<1>. QED  BY <1>2, <1>4, <1>5, <1>6 DEF SlotsInv

-----------------------------------------------------------------------------
(* The operations.                                                         *)

(* Adding a backend that is not in the list yet, and fits.                 *)
LEMMA WithBackend ==
    ASSUME NEW s, SlotInv(s), NEW b \in BackendNames, ~Contains(s.backends, b),
           Len(s.backends) < SCML_RUNTIME_BACKENDS_MAX
    PROVE  SlotInv([name |-> s.name, backends |-> Append(s.backends, b), active |-> s.active])
<1>. DEFINE list == Append(s.backends, b)
<1>1. s.backends \in Seq(BackendNames) /\ s.name \in ModuleNames /\ s.active \in Nat
  BY DEF SlotInv, Slot
<1>2. /\ list \in Seq(BackendNames) /\ Len(list) = Len(s.backends) + 1
      /\ DOMAIN list = 1 .. Len(s.backends) + 1
      /\ \A i \in 1 .. Len(s.backends) : list[i] = s.backends[i]
      /\ list[Len(s.backends) + 1] = b
  BY <1>1
<1>3. IsInjective(list)
  <2>1. \A i \in 1 .. Len(s.backends) : s.backends[i] # b
    BY DEF Contains
  <2>2. \A i, j \in 1 .. Len(s.backends) : s.backends[i] = s.backends[j] => i = j
    BY <1>1 DEF SlotInv, IsInjective
  <2>3. \A i \in DOMAIN list : i \in 1 .. Len(s.backends) \/ i = Len(s.backends) + 1
    BY <1>1, <1>2
  <2>. QED  BY <1>2, <2>1, <2>2, <2>3 DEF IsInjective
<1>4. s.active \in 1 .. Len(list) \/ s.active = 1
  BY <1>1, <1>2 DEF SlotInv
<1>5. Len(list) <= SCML_RUNTIME_BACKENDS_MAX
  BY <1>1, <1>2, LimitsAssumption
<1>. QED  BY <1>1, <1>2, <1>3, <1>4, <1>5 DEF SlotInv, Slot

(* A slot with one backend, or none, and the selection on the first.       *)
LEMMA FreshSlot ==
    ASSUME NEW m \in ModuleNames, NEW b \in BackendNames
    PROVE  /\ SlotInv([name |-> m, backends |-> <<b>>, active |-> 1])
           /\ SlotInv([name |-> m, backends |-> <<>>, active |-> 1])
<1>1. <<b>> \in Seq(BackendNames) /\ Len(<<b>>) = 1 /\ IsInjective(<<b>>)
  BY DEF IsInjective
<1>2. <<>> \in Seq(BackendNames) /\ Len(<<>>) = 0 /\ IsInjective(<<>>)
  BY DEF IsInjective
<1>. QED  BY <1>1, <1>2, LimitsAssumption DEF SlotInv, Slot

(* Selecting a backend that is in the list.                                *)
LEMMA WithSelection ==
    ASSUME NEW s, SlotInv(s), NEW b \in BackendNames, Contains(s.backends, b)
    PROVE  SlotInv([name |-> s.name, backends |-> s.backends,
                    active |-> Position(s.backends, b)])
<1>1. s.backends \in Seq(BackendNames) /\ s.name \in ModuleNames
  BY DEF SlotInv, Slot
<1>2. Position(s.backends, b) \in 1 .. Len(s.backends)
  BY <1>1 DEF Position, Contains
<1>. QED  BY <1>1, <1>2 DEF SlotInv, Slot

LEMMA AttachTables ==
    ASSUME TablesInv, NEW vm \in VMs, NEW m \in ModuleNames, CanAttach(vm, m),
           NEW slot \in Nat \ {0}, Attach(vm, m, slot)
    PROVE  TablesInv'
<1>. DEFINE table == Attached(modules[vm], m, slot)
<1>1. TableInv(modules[vm])
  BY DEF TablesInv
<1>2. /\ DOMAIN table = DOMAIN modules[vm] \cup {m}
      /\ \A n \in DOMAIN table : table[n] = IF n = m THEN slot ELSE modules[vm][n]
  BY DEF Attached
<1>3. IsFiniteSet(DOMAIN table) /\ Cardinality(DOMAIN table) <= SCML_NATIVE_MODULES_MAX
  <2>1. /\ IsFiniteSet(DOMAIN modules[vm])
        /\ Cardinality(DOMAIN modules[vm]) <= SCML_NATIVE_MODULES_MAX
    BY <1>1 DEF TableInv
  <2>2. Cardinality(DOMAIN modules[vm]) \in Nat
    BY <2>1, FS_CardinalityType
  <2>3. m \notin DOMAIN modules[vm] => Cardinality(DOMAIN modules[vm]) < SCML_NATIVE_MODULES_MAX
    BY DEF CanAttach
  <2>4. /\ IsFiniteSet(DOMAIN modules[vm] \cup {m})
        /\ Cardinality(DOMAIN modules[vm] \cup {m}) =
              IF m \in DOMAIN modules[vm] THEN Cardinality(DOMAIN modules[vm])
              ELSE Cardinality(DOMAIN modules[vm]) + 1
    BY <2>1, FS_AddElement
  <2>5. Cardinality(DOMAIN modules[vm] \cup {m}) <= SCML_NATIVE_MODULES_MAX
    BY <2>1, <2>2, <2>3, <2>4, LimitsAssumption
  <2>. QED  BY <1>2, <2>4, <2>5
<1>4. TableInv(table)
  BY <1>1, <1>2, <1>3 DEF TableInv
<1>5. modules' = [v \in VMs |-> IF v = vm THEN table ELSE modules[v]]
  BY DEF Attach, TablesInv
<1>. QED  BY <1>4, <1>5 DEF TablesInv

LEMMA RegisterKnownInv ==
    ASSUME RegistryInv, NEW m \in ModuleNames, NEW b \in BackendNames, RegisterKnown(m, b)
    PROVE  RegistryInv'
<1>. DEFINE i == Find(m)
<1>1. i \in DOMAIN registry /\ SlotInv(registry[i])
  BY FoundSlot DEF RegisterKnown, RegistryInv, SlotsInv
<1>2. TablesInv' /\ ok' \in BOOLEAN
  BY DEF RegisterKnown, RegistryInv, TablesInv
<1>3. CASE UNCHANGED registry
  BY <1>2, <1>3 DEF RegistryInv, SlotsInv
<1>4. CASE /\ ~Contains(registry[i].backends, b)
           /\ Len(registry[i].backends) < SCML_RUNTIME_BACKENDS_MAX
           /\ AddBackend(i, b)
  BY <1>1, <1>2, <1>4, WithBackend, ReplaceSlot DEF AddBackend, RegistryInv
<1>. QED  BY <1>3, <1>4 DEF RegisterKnown

LEMMA RegisterNewInv ==
    ASSUME RegistryInv, NEW vm \in VMs, NEW m \in ModuleNames, NEW b \in BackendNames,
           RegisterNew(vm, m, b)
    PROVE  RegistryInv'
<1>1. CASE Refuse
  BY <1>1 DEF Refuse, RegistryInv, SlotsInv, TablesInv
<1>2. CASE /\ ~RegistryFull /\ CanAttach(vm, m) /\ Attach(vm, m, Len(registry) + 1)
           /\ registry' = Append(registry, [name |-> m, backends |-> <<b>>, active |-> 1])
           /\ ok' = TRUE
  <2>1. Len(registry) + 1 \in Nat \ {0}
    BY DEF RegistryInv, SlotsInv
  <2>2. TablesInv'
    BY <1>2, <2>1, AttachTables DEF RegistryInv
  <2>3. SlotsInv'
    BY <1>2, FreshSlot, AppendSlot DEF RegisterNew, RegistryInv
  <2>. QED  BY <1>2, <2>2, <2>3 DEF RegistryInv
<1>3. CASE /\ ~RegistryFull /\ ok' = FALSE /\ UNCHANGED modules
           /\ registry' = Append(registry, [name |-> m, backends |-> <<>>, active |-> 1])
  <2>1. SlotsInv'
    BY <1>3, FreshSlot, AppendSlot DEF RegisterNew, RegistryInv
  <2>. QED  BY <1>3, <2>1 DEF RegistryInv, TablesInv
<1>. QED  BY <1>1, <1>2, <1>3 DEF RegisterNew

LEMMA RegisterModuleInv ==
    ASSUME RegistryInv, NEW vm \in VMs, NEW m \in ModuleNames, RegisterModule(vm, m)
    PROVE  RegistryInv'
<1>. DEFINE fresh == [name |-> m, backends |-> <<DEFAULT>>, active |-> 1]
<1>1. SlotInv(fresh)
  BY FreshSlot, DefaultAssumption
<1>. QED
  <2>1. CASE /\ Registered(m) /\ registry' = [registry EXCEPT ![Find(m)] = fresh]
             /\ ok' = TRUE /\ UNCHANGED modules
    <3>1. SlotsInv'
      BY <1>1, <2>1, FoundSlot, ReplaceSlot DEF RegistryInv
    <3>. QED  BY <2>1, <3>1 DEF RegistryInv, TablesInv
  <2>2. CASE /\ ~Registered(m) /\ ~RegistryFull /\ registry' = Append(registry, fresh)
             /\ ok' = TRUE /\ UNCHANGED modules
    <3>1. SlotsInv'
      BY <1>1, <2>2, AppendSlot DEF RegistryInv
    <3>. QED  BY <2>2, <3>1 DEF RegistryInv, TablesInv
  <2>3. CASE Refuse
    BY <2>3 DEF Refuse, RegistryInv, SlotsInv, TablesInv
  <2>. QED  BY <2>1, <2>2, <2>3 DEF RegisterModule

LEMMA SelectBackendInv ==
    ASSUME RegistryInv, NEW m \in ModuleNames, NEW b \in BackendNames, SelectBackend(m, b)
    PROVE  RegistryInv'
<1>1. CASE Refuse
  BY <1>1 DEF Refuse, RegistryInv, SlotsInv, TablesInv
<1>2. CASE ~Refuse
  <2>1. /\ Registered(m) /\ Contains(registry[Find(m)].backends, b)
        /\ registry' = [registry EXCEPT ![Find(m)] =
                          [name |-> m, backends |-> registry[Find(m)].backends,
                           active |-> Position(registry[Find(m)].backends, b)]]
        /\ ok' = TRUE /\ UNCHANGED modules
    BY <1>2 DEF SelectBackend
  <2>2. /\ Find(m) \in DOMAIN registry /\ registry[Find(m)].name = m
        /\ SlotInv(registry[Find(m)])
    BY <2>1, FoundSlot DEF RegistryInv, SlotsInv
  <2>3. SlotsInv'
    BY <2>1, <2>2, WithSelection, ReplaceSlot DEF RegistryInv
  <2>. QED  BY <2>1, <2>3 DEF RegistryInv, TablesInv
<1>. QED  BY <1>1, <1>2

(* Taking a module out of a VM's table.                                    *)
LEMMA DetachedInv ==
    ASSUME NEW table, TableInv(table), NEW m
    PROVE  TableInv(Detached(table, m))
<1>1. /\ DOMAIN Detached(table, m) = DOMAIN table \ {m}
      /\ \A n \in DOMAIN table \ {m} : Detached(table, m)[n] = table[n]
  BY DEF Detached
<1>2. DOMAIN table \ {m} \in SUBSET DOMAIN table /\ IsFiniteSet(DOMAIN table)
  BY DEF TableInv
<1>3. /\ IsFiniteSet(DOMAIN table \ {m})
      /\ Cardinality(DOMAIN table \ {m}) <= Cardinality(DOMAIN table)
  BY <1>2, FS_Subset
<1>4. Cardinality(DOMAIN table \ {m}) \in Nat /\ Cardinality(DOMAIN table) \in Nat
  BY <1>2, <1>3, FS_CardinalityType
<1>. QED  BY <1>1, <1>3, <1>4, LimitsAssumption DEF TableInv

LEMMA UnregisterModuleInv ==
    ASSUME RegistryInv, NEW vm \in VMs, NEW m \in ModuleNames, UnregisterModule(vm, m)
    PROVE  RegistryInv'
<1>1. CASE Refuse
  BY <1>1 DEF Refuse, RegistryInv, SlotsInv, TablesInv
<1>2. CASE ~Refuse
  <2>1. SlotsInv'
    BY <1>2, FoundSlot, RemoveSlot DEF UnregisterModule, RegistryInv
  <2>2. modules' = [v \in VMs |-> IF v = vm THEN Detached(modules[v], m) ELSE modules[v]]
    BY <1>2 DEF UnregisterModule, RegistryInv, TablesInv
  <2>3. TablesInv'
    BY <2>2, DetachedInv DEF TablesInv, RegistryInv
  <2>4. ok' = (m \in DOMAIN modules[vm])
    BY <1>2, Zenon DEF UnregisterModule
  <2>5. ok' \in BOOLEAN
    BY <2>4, SMT
  <2>. QED  BY <2>1, <2>3, <2>5 DEF RegistryInv
<1>. QED  BY <1>1, <1>2

LEMMA RenewVMInv ==
    ASSUME RegistryInv, NEW vm \in VMs, RenewVM(vm)
    PROVE  RegistryInv'
<1>1. TableInv(NoModules)
  BY FS_EmptySet, LimitsAssumption DEF TableInv, NoModules
<1>2. modules' = [v \in VMs |-> IF v = vm THEN NoModules ELSE modules[v]]
  BY DEF RenewVM, RegistryInv, TablesInv
<1>3. TablesInv'
  BY <1>1, <1>2 DEF RegistryInv, TablesInv
<1>. QED  BY <1>3 DEF RenewVM, RegistryInv, SlotsInv

LEMMA RegistryInvInit == Init => RegistryInv
<1>1. TableInv(NoModules)
  BY FS_EmptySet, LimitsAssumption DEF TableInv, NoModules
<1>. QED  BY <1>1, LimitsAssumption DEF Init, RegistryInv, SlotsInv, TablesInv

LEMMA RegistryInvNext == RegistryInv /\ [Next]_vars => RegistryInv'
<1>. SUFFICES ASSUME RegistryInv, [Next]_vars PROVE RegistryInv'
  OBVIOUS
<1>1. CASE UNCHANGED vars
  BY <1>1 DEF vars, RegistryInv, SlotsInv, TablesInv
<1>2. CASE Next
  BY <1>2, RegisterKnownInv, RegisterNewInv, RegisterModuleInv, SelectBackendInv,
     UnregisterModuleInv, RenewVMInv DEF Next, RegisterBackend
<1>. QED  BY <1>1, <1>2

LEMMA RegistryInvAlways == Spec => []RegistryInv
BY RegistryInvInit, RegistryInvNext, PTL DEF Spec

(* The registry and the tables of the VMs keep their types and limits,     *)
(* whatever the limits are and however many VMs share the registry.        *)
THEOREM RegistryTypeCorrect == Spec => []RegistryTypeOK
BY RegistryInvAlways, RegistryInvImplies, PTL

(* No module name ever has two slots, and no slot lists a backend twice,   *)
(* so that what runtime_find returns first is all there is.                *)
THEOREM NamesAreUnique == Spec => []NamesUnique
BY RegistryInvAlways, RegistryInvImplies, PTL

-----------------------------------------------------------------------------
(* The selected backend.                                                   *)

(* What the search for m finds after a step, if the slot named m had a     *)
(* backend and kept its selection, wherever it is now.                     *)
LEMMA SameBackend ==
    ASSUME SlotsInv, SlotsInv', NEW m,
           NEW i \in DOMAIN registry, NEW j \in DOMAIN registry',
           registry[i].name = m, registry'[j].name = m,
           registry[i].backends # <<>>, registry'[j].active = registry[i].active,
           \/ registry'[j].backends = registry[i].backends
           \/ \E b : registry'[j].backends = Append(registry[i].backends, b)
    PROVE  ActiveBackend(m)' = ActiveBackend(m)
<1>1. Find(m) = i
  BY FindIsFirst, FirstIsOnly DEF SlotsInv
<1>2. Find(m)' = j
  BY FindIsFirst, FirstIsOnly DEF SlotsInv
<1>3. registry[i].backends \in Seq(BackendNames) /\ SlotInv(registry[i])
  BY DEF SlotsInv, SlotInv, Slot
<1>4. registry[i].active \in 1 .. Len(registry[i].backends)
  BY <1>3, EmptySeq DEF SlotInv
<1>5. registry'[j].backends[registry[i].active] = registry[i].backends[registry[i].active]
  BY <1>3, <1>4
<1>. QED  BY <1>1, <1>2, <1>5 DEF ActiveBackend

(* What a step may do to the slot of a module that is neither selected nor *)
(* registered again.                                                       *)
SelectionKept(m) ==
    \A i \in DOMAIN registry, j \in DOMAIN registry' :
        registry[i].name = m /\ registry'[j].name = m =>
            /\ registry'[j].active = registry[i].active
            /\ \/ registry'[j].backends = registry[i].backends
               \/ \E b : registry'[j].backends = Append(registry[i].backends, b)

LEMMA UnchangedKeepsSelection ==
    ASSUME RegistryInv, UNCHANGED registry, NEW m
    PROVE  SelectionKept(m)
BY DEF SelectionKept, RegistryInv, SlotsInv

LEMMA RegisterBackendKeepsSelection ==
    ASSUME RegistryInv, NEW vm \in VMs, NEW n \in ModuleNames, NEW b \in BackendNames,
           RegisterBackend(vm, n, b), NEW m
    PROVE  SelectionKept(m)
<1>1. CASE UNCHANGED registry
  BY <1>1, UnchangedKeepsSelection
<1>2. CASE Registered(n) /\ AddBackend(Find(n), b)
  <2>1. Find(n) \in DOMAIN registry /\ registry[Find(n)].name = n
    BY <1>2, FoundSlot DEF RegistryInv
  <2>2. /\ DOMAIN registry' = DOMAIN registry
        /\ \A i \in DOMAIN registry \ {Find(n)} : registry'[i] = registry[i]
        /\ registry'[Find(n)].name = n
        /\ registry'[Find(n)].active = registry[Find(n)].active
        /\ registry'[Find(n)].backends = Append(registry[Find(n)].backends, b)
    BY <1>2, <2>1 DEF AddBackend
  <2>3. ASSUME NEW i \in DOMAIN registry, NEW j \in DOMAIN registry',
               registry[i].name = m, registry'[j].name = m
        PROVE  i = j
    <3>1. registry[j].name = m
      BY <2>1, <2>2, <2>3
    <3>. QED  BY <2>2, <2>3, <3>1 DEF RegistryInv, SlotsInv
  <2>. QED  BY <2>2, <2>3 DEF SelectionKept
<1>3. ASSUME NEW fresh, ~Registered(n), registry' = Append(registry, fresh), fresh.name = n
      PROVE  SelectionKept(m)
  <2>1. /\ DOMAIN registry' = DOMAIN registry \cup {Len(registry) + 1}
        /\ \A i \in DOMAIN registry : registry'[i] = registry[i]
        /\ registry'[Len(registry) + 1].name = n
    BY <1>3 DEF RegistryInv, SlotsInv
  <2>. QED  BY <1>3, <2>1 DEF SelectionKept, Registered, RegistryInv, SlotsInv
<1>4. CASE RegisterKnown(n, b)
  BY <1>1, <1>2, <1>4 DEF RegisterKnown
<1>5. CASE RegisterNew(vm, n, b)
  BY <1>1, <1>3, <1>5 DEF RegisterNew, Refuse
<1>. QED  BY <1>4, <1>5 DEF RegisterBackend

LEMMA RegisterModuleKeepsSelection ==
    ASSUME RegistryInv, NEW vm \in VMs, NEW n \in ModuleNames, RegisterModule(vm, n),
           NEW m, m # n
    PROVE  SelectionKept(m)
<1>1. CASE UNCHANGED registry
  BY <1>1, UnchangedKeepsSelection
<1>2. ASSUME NEW fresh, Registered(n), registry' = [registry EXCEPT ![Find(n)] = fresh],
             fresh.name = n
      PROVE  SelectionKept(m)
  <2>1. Find(n) \in DOMAIN registry /\ registry[Find(n)].name = n
    BY <1>2, FoundSlot DEF RegistryInv
  <2>. QED  BY <1>2, <2>1 DEF SelectionKept, RegistryInv, SlotsInv
<1>3. ASSUME NEW fresh, ~Registered(n), registry' = Append(registry, fresh), fresh.name = n
      PROVE  SelectionKept(m)
  <2>1. /\ DOMAIN registry' = DOMAIN registry \cup {Len(registry) + 1}
        /\ \A i \in DOMAIN registry : registry'[i] = registry[i]
        /\ registry'[Len(registry) + 1].name = n
    BY <1>3 DEF RegistryInv, SlotsInv
  <2>. QED  BY <1>3, <2>1 DEF SelectionKept, Registered, RegistryInv, SlotsInv
<1>. QED  BY <1>1, <1>2, <1>3 DEF RegisterModule, Refuse

LEMMA SelectBackendKeepsSelection ==
    ASSUME RegistryInv, NEW n \in ModuleNames, NEW b \in BackendNames,
           SelectBackend(n, b), NEW m, m # n
    PROVE  SelectionKept(m)
<1>1. CASE UNCHANGED registry
  BY <1>1, UnchangedKeepsSelection
<1>2. ASSUME NEW slot, Registered(n), registry' = [registry EXCEPT ![Find(n)] = slot],
             slot.name = n
      PROVE  SelectionKept(m)
  <2>1. Find(n) \in DOMAIN registry /\ registry[Find(n)].name = n
    BY <1>2, FoundSlot DEF RegistryInv
  <2>. QED  BY <1>2, <2>1 DEF SelectionKept, RegistryInv, SlotsInv
<1>3. CASE /\ Registered(n)
           /\ registry' = [registry EXCEPT ![Find(n)] =
                 [name |-> n, backends |-> registry[Find(n)].backends,
                  active |-> Position(registry[Find(n)].backends, b)]]
  <2>. DEFINE slot == [name |-> n, backends |-> registry[Find(n)].backends,
                       active |-> Position(registry[Find(n)].backends, b)]
  <2>1. slot.name = n /\ registry' = [registry EXCEPT ![Find(n)] = slot]
    BY <1>3
  <2>. HIDE DEF slot
  <2>. QED  BY <1>2, <1>3, <2>1
<1>. QED  BY <1>1, <1>3 DEF SelectBackend, Refuse

(* A removal moves slots; it changes none of them.                         *)
LEMMA UnregisterKeepsSelection ==
    ASSUME RegistryInv, NEW vm \in VMs, NEW n \in ModuleNames, UnregisterModule(vm, n),
           NEW m
    PROVE  SelectionKept(m)
<1>1. CASE UNCHANGED registry
  BY <1>1, UnchangedKeepsSelection
<1>2. CASE Registered(n) /\ registry' = RemoveAt(registry, Find(n))
  <2>. DEFINE k == Find(n)
  <2>1. k \in 1 .. Len(registry) /\ registry \in Seq(Slot)
    BY <1>2, FoundSlot DEF RegistryInv, SlotsInv
  <2>. HIDE DEF k
  <2>2. RemoveAt(registry, k) \in Seq(Slot) /\ Len(RemoveAt(registry, k)) = Len(registry) - 1
    BY <2>1, RemoveAtProperties
  <2>3. \A j \in 1 .. Len(registry) - 1 :
            RemoveAt(registry, k)[j] = IF j < k THEN registry[j] ELSE registry[j + 1]
    BY <2>1, RemoveAtProperties
  <2>4. \A j \in DOMAIN registry' : \E i \in DOMAIN registry : registry'[j] = registry[i]
    BY <1>2, <2>1, <2>2, <2>3 DEF k
  <2>. QED  BY <2>4 DEF SelectionKept, RegistryInv, SlotsInv
<1>. QED  BY <1>1, <1>2 DEF UnregisterModule, Refuse

LEMMA SelectionStableStep ==
    ASSUME RegistryInv, RegistryInv', [Next]_vars, NEW m \in ModuleNames,
           Registered(m), Registered(m)', registry[Find(m)].backends # <<>>,
           ~ \E vm \in VMs : RegisterModule(vm, m),
           ~ \E b \in BackendNames : SelectBackend(m, b)
    PROVE  ActiveBackend(m)' = ActiveBackend(m)
<1>1. SelectionKept(m)
  BY UnchangedKeepsSelection, RegisterBackendKeepsSelection, RegisterModuleKeepsSelection,
     SelectBackendKeepsSelection, UnregisterKeepsSelection DEF Next, vars, RenewVM
<1>2. Find(m) \in DOMAIN registry /\ registry[Find(m)].name = m
  BY FoundSlot DEF RegistryInv
<1>3. PICK j \in DOMAIN registry' : registry'[j].name = m
  BY DEF Registered
<1>. QED  BY <1>1, <1>2, <1>3, SameBackend DEF SelectionKept, RegistryInv

(* The backend a module's calls reach changes only when a script or host   *)
(* selects one or registers the module again: no registration, failure or  *)
(* removal of other modules, in whatever order, switches it.               *)
THEOREM SelectionIsStable == Spec => SelectionStable
<1>1. RegistryInv /\ RegistryInv' /\ [Next]_vars =>
        [\A m \in ModuleNames :
           /\ Registered(m) /\ Registered(m)'
           /\ registry[Find(m)].backends # <<>>
           /\ ~ \E vm \in VMs : RegisterModule(vm, m)
           /\ ~ \E b \in BackendNames : SelectBackend(m, b)
           => ActiveBackend(m)' = ActiveBackend(m)]_vars
  BY SelectionStableStep
<1>. QED  BY <1>1, RegistryInvAlways, PTL DEF Spec, SelectionStable

-----------------------------------------------------------------------------
(* Routes.                                                                 *)

\* Slots stay where they are, keep their names, and those with a selected
\* backend still have one.
SlotsStay ==
    \A i \in DOMAIN registry :
        /\ i \in DOMAIN registry' /\ registry'[i].name = registry[i].name
        /\ registry[i].active \in DOMAIN registry[i].backends =>
              registry'[i].active \in DOMAIN registry'[i].backends

LEMMA UnchangedSlotsStay == UNCHANGED registry => SlotsStay
BY DEF SlotsStay

LEMMA AppendSlotsStay ==
    ASSUME RegistryInv, NEW s, registry' = Append(registry, s)
    PROVE  SlotsStay
BY DEF RegistryInv, SlotsInv, SlotsStay

LEMMA ReplacedSlotsStay ==
    ASSUME RegistryInv, NEW n, Registered(n), NEW s, s.name = n,
           registry' = [registry EXCEPT ![Find(n)] = s],
           registry[Find(n)].active \in DOMAIN registry[Find(n)].backends
              => s.active \in DOMAIN s.backends
    PROVE  SlotsStay
<1>1. Find(n) \in DOMAIN registry /\ registry[Find(n)].name = n
  BY FoundSlot DEF RegistryInv
<1>. QED  BY <1>1 DEF SlotsStay

LEMMA RegistrationsStay ==
    ASSUME RegistryInv, NEW vm \in VMs, NEW n \in ModuleNames, NEW b \in BackendNames,
           RegisterBackend(vm, n, b)
    PROVE  SlotsStay
<1>1. CASE UNCHANGED registry
  BY <1>1, UnchangedSlotsStay
<1>2. CASE Registered(n) /\ AddBackend(Find(n), b)
  <2>1. Find(n) \in DOMAIN registry /\ registry[Find(n)].name = n
    BY <1>2, FoundSlot DEF RegistryInv
  <2>2. registry[Find(n)].backends \in Seq(BackendNames)
    BY <2>1 DEF RegistryInv, SlotsInv, SlotInv, Slot
  <2>3. DOMAIN registry[Find(n)].backends \subseteq DOMAIN Append(registry[Find(n)].backends, b)
    BY <2>2
  <2>. DEFINE slot == [name     |-> registry[Find(n)].name,
                       backends |-> Append(registry[Find(n)].backends, b),
                       active   |-> registry[Find(n)].active]
  <2>4. /\ registry' = [registry EXCEPT ![Find(n)] = slot] /\ slot.name = n
        /\ slot.backends = Append(registry[Find(n)].backends, b)
        /\ slot.active = registry[Find(n)].active
    BY <1>2, <2>1 DEF AddBackend
  <2>. HIDE DEF slot
  <2>. QED  BY <1>2, <2>3, <2>4, ReplacedSlotsStay
<1>. QED  BY <1>1, <1>2, AppendSlotsStay
          DEF RegisterBackend, RegisterKnown, RegisterNew, Refuse

LEMMA ReregistrationStays ==
    ASSUME RegistryInv, NEW vm \in VMs, NEW n \in ModuleNames, RegisterModule(vm, n)
    PROVE  SlotsStay
<1>. DEFINE fresh == [name |-> n, backends |-> <<DEFAULT>>, active |-> 1]
<1>1. fresh.name = n /\ fresh.active \in DOMAIN fresh.backends
  OBVIOUS
<1>. QED  BY <1>1, UnchangedSlotsStay, AppendSlotsStay, ReplacedSlotsStay
          DEF RegisterModule, Refuse

LEMMA ReselectionStays ==
    ASSUME RegistryInv, NEW n \in ModuleNames, NEW b \in BackendNames, SelectBackend(n, b)
    PROVE  SlotsStay
<1>. DEFINE list == registry[Find(n)].backends
<1>1. CASE UNCHANGED registry
  BY <1>1, UnchangedSlotsStay
<1>2. CASE /\ Registered(n) /\ Contains(list, b)
           /\ registry' = [registry EXCEPT ![Find(n)] =
                 [name |-> n, backends |-> list, active |-> Position(list, b)]]
  <2>1. list \in Seq(BackendNames)
    BY <1>2, FoundSlot DEF RegistryInv, SlotsInv, SlotInv, Slot
  <2>2. Position(list, b) \in DOMAIN list
    BY <1>2, <2>1 DEF Position, Contains
  <2>. DEFINE slot == [name |-> n, backends |-> list, active |-> Position(list, b)]
  <2>3. /\ registry' = [registry EXCEPT ![Find(n)] = slot] /\ slot.name = n
        /\ slot.backends = list /\ slot.active = Position(list, b)
    BY <1>2
  <2>. HIDE DEF slot, list
  <2>. QED  BY <1>2, <2>2, <2>3, ReplacedSlotsStay DEF list
<1>. QED  BY <1>1, <1>2 DEF SelectBackend, Refuse

(* A VM learns of a slot only when the slot is new, and with a backend.    *)
LEMMA TablesLearnNewSlots ==
    ASSUME RegistryInv, Next, NEW vm \in VMs, NEW m \in DOMAIN modules'[vm]
    PROVE  \/ m \in DOMAIN modules[vm] /\ modules'[vm][m] = modules[vm][m]
           \/ ~Registered(m) /\ Served(vm, m)'
<1>1. CASE UNCHANGED modules
  BY <1>1
<1>2. ASSUME NEW v \in VMs, NEW n \in ModuleNames, NEW b \in BackendNames, ~Registered(n),
             registry' = Append(registry, [name |-> n, backends |-> <<b>>, active |-> 1]),
             Attach(v, n, Len(registry) + 1)
      PROVE  \/ m \in DOMAIN modules[vm] /\ modules'[vm][m] = modules[vm][m]
             \/ ~Registered(m) /\ Served(vm, m)'
  <2>1. /\ vm # v => modules'[vm] = modules[vm]
        /\ vm = v => modules'[vm] = Attached(modules[v], n, Len(registry) + 1)
    BY <1>2 DEF Attach, RegistryInv, TablesInv
  <2>2. CASE vm = v /\ m = n
    <3>1. modules'[vm][m] = Len(registry) + 1
      BY <2>1, <2>2 DEF Attached
    <3>2. /\ Len(registry) + 1 \in DOMAIN registry'
          /\ registry'[Len(registry) + 1] = [name |-> n, backends |-> <<b>>, active |-> 1]
      BY <1>2 DEF RegistryInv, SlotsInv
    <3>. QED  BY <1>2, <2>2, <3>1, <3>2 DEF Served, Routed
  <2>. QED  BY <2>1, <2>2 DEF Attached
<1>3. ASSUME NEW v \in VMs, NEW n \in ModuleNames,
             modules' = [modules EXCEPT ![v] = Detached(@, n)]
      PROVE  m \in DOMAIN modules[vm] /\ modules'[vm][m] = modules[vm][m]
  BY <1>3 DEF Detached, RegistryInv, TablesInv
<1>4. ASSUME NEW v \in VMs, RenewVM(v)
      PROVE  m \in DOMAIN modules[vm] /\ modules'[vm][m] = modules[vm][m]
  BY <1>4 DEF RenewVM, NoModules, RegistryInv, TablesInv
<1>5. CASE \E v \in VMs, n \in ModuleNames, b \in BackendNames : RegisterBackend(v, n, b)
  BY <1>1, <1>2, <1>5 DEF RegisterBackend, RegisterKnown, RegisterNew, Refuse
<1>6. CASE \E v \in VMs, n \in ModuleNames : RegisterModule(v, n)
  BY <1>1, <1>6 DEF RegisterModule, Refuse
<1>7. CASE \E v \in VMs, n \in ModuleNames : UnregisterModule(v, n)
  BY <1>1, <1>3, <1>7 DEF UnregisterModule, Refuse
<1>8. CASE \E n \in ModuleNames, b \in BackendNames : SelectBackend(n, b)
  BY <1>1, <1>8 DEF SelectBackend, Refuse
<1>. QED  BY <1>4, <1>5, <1>6, <1>7, <1>8 DEF Next

LEMMA RoutesKeptStep ==
    ASSUME RegistryInv, Next, NEW vm \in VMs, NEW m \in ModuleNames,
           Served(vm, m) \/ m \notin DOMAIN modules[vm], m \in DOMAIN modules'[vm],
           ~ \E v \in VMs, n \in ModuleNames : UnregisterModule(v, n) /\ Registered(n)
    PROVE  Served(vm, m)'
<1>1. SlotsStay
  BY UnchangedSlotsStay, RegistrationsStay, ReregistrationStays, ReselectionStays
     DEF Next, RenewVM, UnregisterModule, Refuse
<1>2. CASE m \in DOMAIN modules[vm] /\ modules'[vm][m] = modules[vm][m]
  BY <1>1, <1>2 DEF Served, Routed, SlotsStay
<1>. QED  BY <1>2, TablesLearnNewSlots

(* Until a module is removed, a VM that was given a module reaches that    *)
(* very module with a backend selected, whatever else is registered,       *)
(* refused or selected, by any number of VMs.                              *)
THEOREM RoutesAreKept == Spec => RoutesKept
<1>1. RegistryInv /\ [Next]_vars =>
        [\A vm \in VMs, m \in ModuleNames :
           /\ Served(vm, m) \/ m \notin DOMAIN modules[vm]
           /\ m \in DOMAIN modules'[vm]
           /\ ~ \E v \in VMs, n \in ModuleNames : UnregisterModule(v, n) /\ Registered(n)
           => Served(vm, m)']_vars
  BY RoutesKeptStep
<1>. QED  BY <1>1, RegistryInvAlways, PTL DEF Spec, RoutesKept

=============================================================================
