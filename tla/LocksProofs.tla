----------------------------- MODULE LocksProofs -----------------------------
(***************************************************************************)
(* Proofs about module AdvisoryLock for any number of calls, processes,    *)
(* names and slots, and, in the second part, about module Quota, whose     *)
(* actors run under such a lock or should, for any number of sites,        *)
(* schedulers, requests, failures and crashes.                             *)
(***************************************************************************)
EXTENDS AdvisoryLock, Quota, FiniteSetTheorems, TLAPS

(* The set of calls that hold a slot of a process is finite.               *)
LEMMA SlotsFinite == \A i \in Instance : IsFiniteSet(Slots(i))
  <1> TAKE i \in Instance
  <1>1. Slots(i) \in SUBSET Call
    BY DEF Slots
  <1> QED BY <1>1, ConstantsAssumption, FS_Subset

LEMMA InitIInv == Init => IInv
  <1> SUFFICES ASSUME Init PROVE IInv
    OBVIOUS
  <1>1. TypeOK
    BY ConstantsAssumption DEF Init, TypeOK, Pc
  <1>2. SlotsExact
    <2> SUFFICES ASSUME NEW i \in Instance
                 PROVE active[i] = Cardinality(Slots(i)) /\ active[i] <= SlotLimit
      BY DEF SlotsExact
    <2>1. Slots(i) = {}
      BY DEF Init, Slots
    <2>2. active[i] = 0 /\ 0 <= SlotLimit
      BY ConstantsAssumption DEF Init
    <2> QED BY <2>1, <2>2, FS_EmptySet
  <1>3. HolderLive
    BY DEF Init, HolderLive
  <1>4. ContextSound
    BY DEF Init, ContextSound, FreshSound, BeforeSound, TokenSound, ExtentSound
  <1>5. BypassCovered
    BY DEF Init, BypassCovered
  <1> QED BY <1>1, <1>2, <1>3, <1>4, <1>5 DEF IInv

(* Type correctness is preserved by every step.                            *)
LEMMA NextType == TypeOK /\ SlotsExact /\ [Next]_vars => TypeOK'
  <1> SUFFICES ASSUME TypeOK, SlotsExact, [Next]_vars PROVE TypeOK'
    OBVIOUS
  <1> USE DEF TypeOK, Pc, Goto
  <1>1. ASSUME NEW c \in Call, Start(c) PROVE TypeOK'
    BY <1>1 DEF Start
  <1>2. ASSUME NEW c \in Call, Bypass(c) PROVE TypeOK'
    BY <1>2 DEF Bypass
  <1>3. ASSUME NEW c \in Call, Refuse(c) PROVE TypeOK'
    BY <1>3 DEF Refuse
  <1>4. ASSUME NEW c \in Call, Admit(c) PROVE TypeOK'
    <2>1. Inst[c] \in Instance
      BY ConstantsAssumption
    <2>2. active' \in [Instance -> Nat]
      BY <1>4, <2>1 DEF Admit
    <2> QED BY <1>4, <2>2 DEF Admit
  <1>5. ASSUME NEW c \in Call, Acquire(c) PROVE TypeOK'
    BY <1>5 DEF Acquire
  <1>6. ASSUME NEW c \in Call, pc[c] \in {"trying", "releasing"}, FreeSlot(c)
        PROVE active' \in [Instance -> Nat]
    <2>1. Inst[c] \in Instance
      BY ConstantsAssumption
    <2>2. c \in Slots(Inst[c])
      BY <1>6 DEF Slots
    <2>3. Cardinality(Slots(Inst[c])) # 0
      BY <2>1, <2>2, SlotsFinite, FS_EmptySet
    <2>4. active[Inst[c]] \in Nat \ {0}
      BY <2>1, <2>3 DEF SlotsExact
    <2>5. active[Inst[c]] - 1 \in Nat
      BY <2>4
    <2> HIDE DEF Pc, Goto
    <2> QED BY <1>6, <2>1, <2>5, Zenon DEF FreeSlot
  <1>7. ASSUME NEW c \in Call, FailTry(c) PROVE TypeOK'
    BY <1>7, <1>6 DEF FailTry
  <1>8. ASSUME NEW c \in Call, FailConnect(c) PROVE TypeOK'
    BY <1>8, <1>6 DEF FailConnect
  <1>9. ASSUME NEW c \in Call, EndCallback(c) PROVE TypeOK'
    BY <1>9 DEF EndCallback
  <1>10. ASSUME NEW c \in Call, EndBypass(c) PROVE TypeOK'
    BY <1>10 DEF EndBypass
  <1>11. ASSUME NEW c \in Call, Unlock(c) PROVE TypeOK'
    BY <1>11 DEF Unlock
  <1>12. ASSUME NEW c \in Call, Release(c) PROVE TypeOK'
    BY <1>12, <1>6 DEF Release
  <1>13. ASSUME NEW p \in Call PROVE ContextIn(p) \in [Key -> Call \cup {None}]
    BY DEF ContextIn
  <1>14. ASSUME NEW p \in Call, NEW c \in Call, Nest(p, c) PROVE TypeOK'
    BY <1>13, <1>14 DEF Nest
  <1>15. ASSUME NEW p \in Call, NEW c \in Call, Detach(p, c) PROVE TypeOK'
    BY <1>13, <1>15 DEF Detach
  <1>16. ASSUME NEW i \in Instance, Crash(i) PROVE TypeOK'
    BY <1>16 DEF Crash
  <1>17. CASE UNCHANGED vars
    BY <1>17 DEF vars
  <1> QED
    BY <1>1, <1>2, <1>3, <1>4, <1>5, <1>7, <1>8, <1>9, <1>10, <1>11, <1>12,
       <1>14, <1>15, <1>16, <1>17 DEF Next, Step

(* A step moves at most the slots it says: the counter stays exact.        *)
LEMMA NextSlots == TypeOK /\ SlotsExact /\ [Next]_vars => SlotsExact'
  <1> SUFFICES ASSUME TypeOK, SlotsExact, [Next]_vars,
                      NEW i \in Instance
               PROVE (active[i] = Cardinality(Slots(i)) /\ active[i] <= SlotLimit)'
    BY DEF SlotsExact
  <1> DEFINE Held == {"trying", "inside", "leaving", "releasing"}
  <1>0. /\ active[i] = Cardinality(Slots(i)) /\ active[i] <= SlotLimit
        /\ IsFiniteSet(Slots(i)) /\ active[i] \in Nat /\ SlotLimit \in Nat
    BY SlotsFinite, ConstantsAssumption DEF SlotsExact, TypeOK
  <1>1. ASSUME Slots(i)' = Slots(i), active'[i] = active[i]
        PROVE (active[i] = Cardinality(Slots(i)) /\ active[i] <= SlotLimit)'
    BY <1>0, <1>1
  <1>2. ASSUME NEW c \in Call, pc[c] \in Held, pc' = [pc EXCEPT ![c] = "done"], FreeSlot(c)
        PROVE (active[i] = Cardinality(Slots(i)) /\ active[i] <= SlotLimit)'
    <2>1. CASE Inst[c] = i
      <3>1. Slots(i)' = Slots(i) \ {c} /\ c \in Slots(i)
        BY <1>2, <2>1 DEF Slots, TypeOK
      <3>2. active'[i] = active[i] - 1
        BY <1>2, <2>1 DEF FreeSlot, TypeOK
      <3>3. Cardinality(Slots(i) \ {c}) = active[i] - 1
        BY <3>1, <1>0, FS_RemoveElement
      <3> QED BY <3>1, <3>2, <3>3, <1>0
    <2>2. CASE Inst[c] # i
      <3>1. Slots(i)' = Slots(i)
        BY <1>2, <2>2 DEF Slots, TypeOK
      <3>2. active'[i] = active[i]
        BY <1>2, <2>2 DEF FreeSlot, TypeOK
      <3> QED BY <3>1, <3>2, <1>1
    <2> QED BY <2>1, <2>2
  <1>3. ASSUME NEW c \in Call, Admit(c)
        PROVE (active[i] = Cardinality(Slots(i)) /\ active[i] <= SlotLimit)'
    <2>1. CASE Inst[c] = i
      <3>1. Slots(i)' = Slots(i) \cup {c} /\ c \notin Slots(i)
        BY <1>3, <2>1 DEF Admit, Due, Goto, Slots, TypeOK
      <3>2. active'[i] = active[i] + 1 /\ active[i] < SlotLimit
        BY <1>3, <2>1 DEF Admit, TypeOK
      <3>3. Cardinality(Slots(i) \cup {c}) = active[i] + 1
        BY <3>1, <1>0, FS_AddElement
      <3> QED BY <3>1, <3>2, <3>3, <1>0
    <2>2. CASE Inst[c] # i
      <3>1. Slots(i)' = Slots(i)
        BY <1>3, <2>2 DEF Admit, Goto, Slots, TypeOK
      <3>2. active'[i] = active[i]
        BY <1>3, <2>2 DEF Admit, TypeOK
      <3> QED BY <3>1, <3>2, <1>1
    <2> QED BY <2>1, <2>2
  <1>4. ASSUME NEW c \in Call, NEW q, pc' = [pc EXCEPT ![c] = q], active' = active,
               pc[c] \in Held <=> q \in Held
        PROVE (active[i] = Cardinality(Slots(i)) /\ active[i] <= SlotLimit)'
    <2>1. Slots(i)' = Slots(i)
      BY <1>4 DEF Slots, TypeOK
    <2> QED BY <2>1, <1>4, <1>1
  <1>5. ASSUME NEW c \in Call, Start(c) \/ Step(c) \/ FailConnect(c)
        PROVE (active[i] = Cardinality(Slots(i)) /\ active[i] <= SlotLimit)'
    <2>1. CASE Start(c) \/ Bypass(c) \/ Refuse(c) \/ EndBypass(c)
      BY <2>1, <1>4 DEF Start, Bypass, Refuse, EndBypass, Due, Goto
    <2>2. CASE Acquire(c) \/ EndCallback(c) \/ Unlock(c)
      BY <2>2, <1>4 DEF Acquire, EndCallback, Unlock, Goto
    <2>3. CASE FailTry(c) \/ FailConnect(c) \/ Release(c)
      BY <2>3, <1>2 DEF FailTry, FailConnect, Release, Goto
    <2> QED BY <1>5, <2>1, <2>2, <2>3, <1>3 DEF Step
  <1>6. ASSUME NEW p \in Call, NEW c \in Call, Nest(p, c) \/ Detach(p, c)
        PROVE (active[i] = Cardinality(Slots(i)) /\ active[i] <= SlotLimit)'
    BY <1>6, <1>4 DEF Nest, Detach, Goto
  <1>7. ASSUME NEW j \in Instance, Crash(j)
        PROVE (active[i] = Cardinality(Slots(i)) /\ active[i] <= SlotLimit)'
    <2>1. CASE i = j
      <3>1. Slots(i)' = {}
        BY <1>7, <2>1 DEF Crash, Slots, TypeOK
      <3>2. active'[i] = 0
        BY <1>7, <2>1 DEF Crash, TypeOK
      <3>3. Cardinality(Slots(i)') = 0 /\ 0 <= SlotLimit
        BY <3>1, <1>0, FS_EmptySet
      <3> QED BY <3>2, <3>3
    <2>2. CASE i # j
      <3>1. Slots(i)' = Slots(i) /\ active'[i] = active[i]
        BY <1>7, <2>2 DEF Crash, Slots, TypeOK
      <3> QED BY <3>1, <1>1
    <2> QED BY <2>1, <2>2
  <1>8. CASE UNCHANGED vars
    BY <1>8, <1>1 DEF vars, Slots
  <1> QED BY <1>5, <1>6, <1>7, <1>8 DEF Next

(* The lock table stays in step with the calls.                            *)
LEMMA NextHolder == TypeOK /\ HolderLive /\ [Next]_vars => HolderLive'
  <1> SUFFICES ASSUME TypeOK, HolderLive, [Next]_vars PROVE HolderLive'
    OBVIOUS
  <1> USE DEF HolderLive, TypeOK
  <1>1. ASSUME NEW c \in Call, Acquire(c) PROVE HolderLive'
    BY <1>1, ConstantsAssumption DEF Acquire, Goto
  <1>2. ASSUME NEW c \in Call, EndCallback(c) PROVE HolderLive'
    BY <1>2 DEF EndCallback, Goto
  <1>3. ASSUME NEW c \in Call, Unlock(c) PROVE HolderLive'
    BY <1>3, ConstantsAssumption DEF Unlock, Goto
  <1>4. ASSUME NEW c \in Call, NEW q \in {"started", "trying", "bypass", "done"},
               pc[c] \notin {"inside", "leaving"},
               pc' = [pc EXCEPT ![c] = q], UNCHANGED <<key, holder>>
        PROVE HolderLive'
    BY <1>4
  <1>5. ASSUME NEW c \in Call,
               Start(c) \/ Bypass(c) \/ Refuse(c) \/ Admit(c) \/ FailTry(c)
               \/ FailConnect(c) \/ EndBypass(c) \/ Release(c)
        PROVE HolderLive'
    BY <1>5, <1>4
       DEF Start, Bypass, Refuse, Admit, FailTry, FailConnect, EndBypass, Release, Due, Goto
  <1>6. ASSUME NEW p \in Call, NEW c \in Call, Nest(p, c) \/ Detach(p, c)
        PROVE HolderLive'
    BY <1>6, <1>4 DEF Nest, Detach, Goto
  <1>7. ASSUME NEW i \in Instance, Crash(i) PROVE HolderLive'
    <2>1. ASSUME NEW c \in Call, pc'[c] \in {"inside", "leaving"}
          PROVE holder'[key'[c]] = c
      BY <1>7, <2>1, ConstantsAssumption DEF Crash
    <2>2. ASSUME NEW k \in Key, holder'[k] # None
          PROVE key'[holder'[k]] = k /\ pc'[holder'[k]] \in {"inside", "leaving"}
      BY <1>7, <2>2, ConstantsAssumption DEF Crash
    <2> QED BY <2>1, <2>2
  <1>8. CASE UNCHANGED vars
    BY <1>8 DEF vars
  <1> QED BY <1>1, <1>2, <1>3, <1>5, <1>6, <1>7, <1>8 DEF Next, Step

(* The contexts stay sound: what a call sees is awaited or has returned.   *)
LEMMA NextContext == TypeOK /\ ContextSound /\ [Next]_vars => ContextSound'
  <1> SUFFICES ASSUME TypeOK, ContextSound, [Next]_vars PROVE ContextSound'
    OBVIOUS
  <1> USE DEF TypeOK, Running
  <1>0. ASSUME NEW c \in Call
        PROVE FreshSound(c) /\ BeforeSound(c) /\ TokenSound(c) /\ ExtentSound(c)
    BY DEF ContextSound
  <1>1. ASSUME NEW d \in Call, NEW q \in Pc \ {"new"},
               pc[d] = "started" => \A p \in before[d] : pc[p] = "done",
               pc[d] \notin {"new", "done"},
               Running(d) => Finished(d) /\ q \in {"leaving", "done"},
               pc' = [pc EXCEPT ![d] = q], UNCHANGED <<key, locks, extent, before>>
        PROVE ContextSound'
    <2> SUFFICES ASSUME NEW c \in Call
                 PROVE (FreshSound(c) /\ BeforeSound(c) /\ TokenSound(c) /\ ExtentSound(c))'
      BY DEF ContextSound
    <2>1. FreshSound(c)'
      BY <1>0, <1>1 DEF FreshSound
    <2>2. BeforeSound(c)'
      BY <1>0, <1>1 DEF BeforeSound
    <2>3. TokenSound(c)'
      BY <1>0, <1>1 DEF TokenSound
    <2>4. ExtentSound(c)'
      BY <1>0, <1>1 DEF ExtentSound, Finished
    <2> QED BY <2>1, <2>2, <2>3, <2>4
  <1>2. ASSUME NEW c \in Call, Step(c) \/ FailConnect(c)
        PROVE ContextSound'
    <2>1. CASE Bypass(c) \/ Refuse(c) \/ Admit(c)
      BY <2>1, <1>1 DEF Bypass, Refuse, Admit, Due, Goto, Pc
    <2>2. CASE Acquire(c) \/ FailTry(c) \/ FailConnect(c) \/ Unlock(c) \/ Release(c)
      BY <2>2, <1>1 DEF Acquire, FailTry, FailConnect, Unlock, Release, Goto, Pc
    <2>3. CASE EndCallback(c) \/ EndBypass(c)
      BY <2>3, <1>1 DEF EndCallback, EndBypass, Goto, Pc
    <2> QED BY <1>2, <2>1, <2>2, <2>3 DEF Step
  <1>3. ASSUME NEW d \in Call, pc[d] = "new", pc' = [pc EXCEPT ![d] = "started"],
               UNCHANGED key,
               \A c \in Call \ {d} : /\ locks'[c] = locks[c] /\ extent'[c] = extent[c]
                                     /\ before'[c] = before[c],
               BeforeSound(d)', TokenSound(d)', ExtentSound(d)'
        PROVE ContextSound'
    <2> SUFFICES ASSUME NEW c \in Call
                 PROVE (FreshSound(c) /\ BeforeSound(c) /\ TokenSound(c) /\ ExtentSound(c))'
      BY DEF ContextSound
    <2>1. FreshSound(c)'
      BY <1>0, <1>3 DEF FreshSound
    <2>2. BeforeSound(c)'
      BY <1>0, <1>3 DEF BeforeSound
    <2>3. TokenSound(c)'
      BY <1>0, <1>3 DEF TokenSound
    <2>4. ExtentSound(c)'
      BY <1>0, <1>3 DEF ExtentSound
    <2> QED BY <2>1, <2>2, <2>3, <2>4
  <1>4. ASSUME NEW c \in Call, Start(c) PROVE ContextSound'
    <2>1. BeforeSound(c)' /\ TokenSound(c)' /\ ExtentSound(c)'
      BY <1>0, <1>4 DEF Start, Goto, FreshSound, BeforeSound, TokenSound, ExtentSound
    <2> QED BY <1>3, <1>4, <2>1 DEF Start, Goto
  <1>5. ASSUME NEW p \in Call, Running(p), NEW k \in Key, ContextIn(p)[k] # None
        PROVE LET o == ContextIn(p)[k] IN
              /\ o \in Call /\ key[o] = k
              /\ o \in extent[p] \cup {p} \/ pc[o] = "done"
    BY <1>0, <1>5 DEF ContextIn, TokenSound, BeforeSound
  <1>6. ASSUME NEW p \in Call, NEW c \in Call, Nest(p, c) PROVE ContextSound'
    <2>1. p # c /\ ContextIn(p) \in [Key -> Call \cup {None}]
      BY <1>6 DEF Nest, ContextIn
    <2>2. /\ pc' = [pc EXCEPT ![c] = "started"] /\ pc[c] = "new" /\ locks'[c] = ContextIn(p)
          /\ extent'[c] = extent[p] \cup {p} /\ UNCHANGED <<key, before>>
          /\ Running(p) /\ Inst[c] = Inst[p] /\ before[c] = {}
          /\ \A d \in Call \ {c} : locks'[d] = locks[d] /\ extent'[d] = extent[d]
      BY <1>0, <1>6 DEF Nest, Goto, FreshSound
    <2>3. TokenSound(c)'
      BY <2>1, <2>2, <1>5 DEF TokenSound
    <2>4. ExtentSound(c)'
      BY <2>1, <2>2, <1>0 DEF ExtentSound
    <2>5. BeforeSound(c)'
      BY <2>2 DEF BeforeSound
    <2> QED BY <2>2, <2>3, <2>4, <2>5, <1>3
  <1>7. ASSUME NEW p \in Call, NEW c \in Call, Detach(p, c) PROVE ContextSound'
    <2>1. p # c /\ ContextIn(p) \in [Key -> Call \cup {None}]
      BY <1>7 DEF Detach, ContextIn
    <2>2. /\ pc' = [pc EXCEPT ![c] = "started"] /\ pc[c] = "new" /\ locks'[c] = ContextIn(p)
          /\ before'[c] = extent[p] \cup {p} /\ UNCHANGED <<key, extent>>
          /\ Running(p) /\ Inst[c] = Inst[p] /\ extent[c] = {}
          /\ \A d \in Call \ {c} : locks'[d] = locks[d] /\ before'[d] = before[d]
      BY <1>0, <1>7 DEF Detach, Goto, FreshSound
    <2>3. TokenSound(c)'
      BY <2>1, <2>2, <1>5 DEF TokenSound
    <2>4. ExtentSound(c)'
      BY <2>2 DEF ExtentSound
    <2>5. BeforeSound(c)'
      BY <2>1, <2>2, <1>0 DEF BeforeSound, ExtentSound
    <2> QED BY <2>2, <2>3, <2>4, <2>5, <1>3
  <1>8. ASSUME NEW i \in Instance, Crash(i) PROVE ContextSound'
    <2> SUFFICES ASSUME NEW c \in Call
                 PROVE (FreshSound(c) /\ BeforeSound(c) /\ TokenSound(c) /\ ExtentSound(c))'
      BY DEF ContextSound
    <2>1. UNCHANGED <<key, locks, extent, before>>
          /\ \A d \in Call : pc'[d] = IF Inst[d] = i /\ pc[d] # "new" THEN "done" ELSE pc[d]
      BY <1>8 DEF Crash
    <2>2. FreshSound(c)'
      BY <1>0, <2>1 DEF FreshSound
    <2>3. BeforeSound(c)'
      BY <1>0, <2>1 DEF BeforeSound
    <2>4. TokenSound(c)'
      BY <1>0, <2>1 DEF TokenSound
    <2>5. ASSUME NEW p \in extent[c]
          PROVE Inst[p] = Inst[c] /\ pc'[p] # "new" /\ (pc'[c] # "done" => Running(p)')
      <3>1. Inst[p] = Inst[c] /\ pc[p] # "new" /\ p \in Call
        BY <1>0, <2>5 DEF ExtentSound
      <3>2. pc'[c] # "done" => pc'[c] = pc[c] /\ (pc[c] # "new" => Inst[c] # i)
        BY <2>1
      <3>3. pc[c] # "new"
        BY <1>0, <2>5 DEF FreshSound
      <3>4. pc[c] # "done" => Running(p)
        BY <1>0, <2>5 DEF ExtentSound
      <3> QED BY <2>1, <3>1, <3>2, <3>3, <3>4
    <2>6. ExtentSound(c)'
      BY <2>1, <2>5 DEF ExtentSound
    <2> QED BY <2>2, <2>3, <2>4, <2>6
  <1>9. CASE UNCHANGED vars
    BY <1>9 DEF vars, ContextSound, FreshSound, BeforeSound, TokenSound, ExtentSound
  <1> QED BY <1>2, <1>4, <1>6, <1>7, <1>8, <1>9 DEF Next

(* A bypassing call stays under a lock that its own caller holds.          *)
LEMMA NextBypass ==
  TypeOK /\ ContextSound /\ BypassCovered /\ [Next]_vars => BypassCovered'
  <1> SUFFICES ASSUME TypeOK, ContextSound, BypassCovered, [Next]_vars,
                      NEW c \in Call, pc'[c] = "bypass"
               PROVE LET o == locks'[c][key'[c]]
                     IN o \in extent'[c] /\ pc'[o] = "inside" /\ key'[o] = key'[c]
    BY DEF BypassCovered
  <1> DEFINE o == locks[c][key[c]]
  <1> USE DEF TypeOK
  <1>1. ASSUME NEW p \in Call, NEW d \in Call, Nest(p, d) \/ Detach(p, d)
        PROVE c # d /\ pc[c] = "bypass" /\ pc' = [pc EXCEPT ![d] = "started"]
              /\ pc[d] = "new" /\ locks'[c] = locks[c] /\ extent'[c] = extent[c]
              /\ key' = key
    BY <1>1 DEF Nest, Detach, Goto
  <1>2. CASE \E p, d \in Call : Nest(p, d) \/ Detach(p, d)
    <2>1. PICK p \in Call, d \in Call : Nest(p, d) \/ Detach(p, d)
      BY <1>2
    <2>2. o \in extent[c] /\ pc[o] = "inside" /\ key[o] = key[c] /\ o \in Call
      BY <1>1, <2>1 DEF BypassCovered
    <2> QED BY <1>1, <2>1, <2>2
  <1>3. ASSUME UNCHANGED <<key, locks, extent>>, pc[c] = "bypass",
               pc'[o] = pc[o]
        PROVE o \in extent'[c] /\ pc'[o] = "inside" /\ key'[o] = key'[c]
    BY <1>3 DEF BypassCovered
  <1>4. ASSUME NEW d \in Call, Bypass(d)
        PROVE LET oo == locks'[c][key'[c]]
              IN oo \in extent'[c] /\ pc'[oo] = "inside" /\ key'[oo] = key'[c]
    <2>1. CASE d = c
      <3>1. o \in Call /\ pc[o] = "inside" /\ o # c
        BY <1>4, <2>1, ConstantsAssumption DEF Bypass, Due, Reenters, TokenActive
      <3>2. o \in extent[c] /\ key[o] = key[c]
        <4>1. key[c] \in Key /\ o # None /\ TokenSound(c)
          BY <3>1, ConstantsAssumption DEF ContextSound
        <4>2. \A p \in before[c] : pc[p] = "done"
          BY <1>4, <2>1 DEF Bypass, Due
        <4>3. key[o] = key[c] /\ (o \in extent[c] \cup before[c] \/ pc[o] = "done")
          BY <4>1 DEF TokenSound
        <4> QED BY <3>1, <4>2, <4>3
      <3> QED BY <1>4, <2>1, <3>1, <3>2 DEF Bypass, Goto
    <2>2. CASE d # c
      <3>1. pc[c] = "bypass"
        BY <1>4, <2>2 DEF Bypass, Goto
      <3>2. pc[o] = "inside" /\ o \in Call /\ pc[d] = "started"
        BY <1>4, <3>1 DEF BypassCovered, Bypass, Due
      <3>3. pc'[o] = pc[o] /\ UNCHANGED <<key, locks, extent>>
        BY <1>4, <3>2 DEF Bypass, Goto
      <3> QED BY <1>3, <3>1, <3>3
    <2> QED BY <2>1, <2>2
  <1>5. ASSUME NEW d \in Call, NEW q \in Pc \ {"bypass"}, pc' = [pc EXCEPT ![d] = q],
               UNCHANGED <<key, locks, extent>>,
               pc[d] # "inside" \/ Finished(d)
        PROVE LET oo == locks'[c][key'[c]]
              IN oo \in extent'[c] /\ pc'[oo] = "inside" /\ key'[oo] = key'[c]
    <2>1. c # d /\ pc[c] = "bypass"
      BY <1>5
    <2>2. o \in extent[c] /\ pc[o] = "inside" /\ o \in Call
      BY <2>1 DEF BypassCovered
    <2>3. o # d
      BY <1>5, <2>1, <2>2 DEF Finished
    <2> QED BY <1>3, <1>5, <2>1, <2>2, <2>3
  <1>6. ASSUME NEW d \in Call, Start(d) \/ Step(d) \/ FailConnect(d)
        PROVE LET oo == locks'[c][key'[c]]
              IN oo \in extent'[c] /\ pc'[oo] = "inside" /\ key'[oo] = key'[c]
    <2>1. CASE Start(d) \/ Refuse(d) \/ Admit(d)
      BY <2>1, <1>5 DEF Start, Refuse, Admit, Due, Goto, Pc
    <2>2. CASE Acquire(d) \/ FailTry(d) \/ FailConnect(d) \/ Unlock(d) \/ Release(d)
      BY <2>2, <1>5 DEF Acquire, FailTry, FailConnect, Unlock, Release, Goto, Pc
    <2>3. CASE EndCallback(d) \/ EndBypass(d)
      BY <2>3, <1>5 DEF EndCallback, EndBypass, Goto, Pc
    <2> QED BY <1>4, <1>6, <2>1, <2>2, <2>3 DEF Step
  <1>7. ASSUME NEW i \in Instance, Crash(i)
        PROVE LET oo == locks'[c][key'[c]]
              IN oo \in extent'[c] /\ pc'[oo] = "inside" /\ key'[oo] = key'[c]
    <2>1. pc[c] = "bypass" /\ Inst[c] # i /\ UNCHANGED <<key, locks, extent>>
      BY <1>7 DEF Crash
    <2>2. o \in extent[c] /\ pc[o] = "inside" /\ o \in Call
      BY <2>1 DEF BypassCovered
    <2>3. Inst[o] = Inst[c]
      BY <2>2 DEF ContextSound, ExtentSound
    <2>4. pc'[o] = pc[o]
      BY <1>7, <2>1, <2>2, <2>3 DEF Crash
    <2> QED BY <1>3, <2>1, <2>4
  <1>8. CASE UNCHANGED vars
    BY <1>8, <1>3 DEF vars
  <1> QED BY <1>2, <1>6, <1>7, <1>8 DEF Next

(* The inductive invariant holds in every reachable state.                 *)
THEOREM Invariance == Spec => []IInv
  <1>1. Init => IInv
    BY InitIInv
  <1>2. IInv /\ [Next]_vars => IInv'
    BY NextType, NextSlots, NextHolder, NextContext, NextBypass DEF IInv
  <1> QED BY <1>1, <1>2, PTL DEF Spec

(* The variables of the lock service keep their types.                     *)
THEOREM TypeCorrect == Spec => []TypeOK
  <1>1. IInv => TypeOK
    BY DEF IInv
  <1> QED BY <1>1, Invariance, PTL

(* No process leaks or oversteps its lock slots, whichever way calls end.  *)
THEOREM SlotsNeverLeak == Spec => []SlotsExact
  <1>1. IInv => SlotsExact
    BY DEF IInv
  <1> QED BY <1>1, Invariance, PTL

(* A name that is held is held by a live call that will give it back, and  *)
(* a reentrant call runs under the lock of a call that waits for it.       *)
THEOREM HoldersStaySound == Spec => []HoldersSound
  <1>1. IInv => HoldersSound
    BY DEF IInv, HoldersSound
  <1> QED BY <1>1, Invariance, PTL

(* Callbacks under one name are always covered by one lock: reentrancy     *)
(* never lets a call in beside a foreign owner.                            *)
THEOREM Exclusion == Spec => []MutualExclusion
  <1>1. IInv => MutualExclusion
    <2> SUFFICES ASSUME IInv, NEW c \in Call, NEW d \in Call,
                        Running(c), Running(d), key[c] = key[d]
                 PROVE OwnerOf(c) = OwnerOf(d)
      BY DEF MutualExclusion
    <2>1. ASSUME NEW x \in Call, Running(x)
          PROVE holder[key[x]] = OwnerOf(x)
      BY <2>1 DEF IInv, TypeOK, HolderLive, BypassCovered, OwnerOf, Running
    <2> QED BY <2>1
  <1> QED BY <1>1, Invariance, PTL

(* The advisory locks implement the abstract mutex.                        *)
THEOREM ImplementsMutex == Spec => MutexSpec
  <1>1. Init => M!Init
    BY DEF Init, M!Init, OwnerMap
  <1>2. IInv /\ [Next]_vars => [M!Next]_OwnerMap
    <2> SUFFICES ASSUME IInv, [Next]_vars PROVE [M!Next]_OwnerMap
      OBVIOUS
    <2> USE DEF IInv, TypeOK, HolderLive
    <2>1. ASSUME NEW c \in Call, Acquire(c) PROVE M!Enter(c, key[c])
      BY <2>1, ConstantsAssumption DEF Acquire, Goto, M!Enter, OwnerMap
    <2>2. ASSUME NEW c \in Call, EndCallback(c) PROVE M!Leave(c, key[c])
      BY <2>2, ConstantsAssumption DEF EndCallback, Goto, M!Leave, OwnerMap
    <2>3. ASSUME NEW c \in Call, Unlock(c) PROVE UNCHANGED OwnerMap
      BY <2>3, ConstantsAssumption DEF Unlock, Goto, OwnerMap
    <2>4. ASSUME NEW c \in Call, NEW q \in {"started", "trying", "bypass", "done"},
                 pc[c] # "inside", pc' = [pc EXCEPT ![c] = q], UNCHANGED holder
          PROVE UNCHANGED OwnerMap
      BY <2>4 DEF OwnerMap
    <2>5. ASSUME NEW c \in Call,
                 Start(c) \/ Bypass(c) \/ Refuse(c) \/ Admit(c) \/ FailTry(c)
                 \/ FailConnect(c) \/ EndBypass(c) \/ Release(c)
          PROVE UNCHANGED OwnerMap
      BY <2>5, <2>4
         DEF Start, Bypass, Refuse, Admit, FailTry, FailConnect, EndBypass, Release, Due, Goto
    <2>6. ASSUME NEW p \in Call, NEW c \in Call, Nest(p, c) \/ Detach(p, c)
          PROVE UNCHANGED OwnerMap
      BY <2>6, <2>4 DEF Nest, Detach, Goto
    <2>7. ASSUME NEW i \in Instance, Crash(i)
          PROVE M!Drop({c \in Call : Inst[c] = i})
      BY <2>7, ConstantsAssumption DEF Crash, M!Drop, OwnerMap
    <2>8. CASE UNCHANGED vars
      BY <2>8 DEF vars, OwnerMap
    <2> QED
      BY <2>1, <2>2, <2>3, <2>5, <2>6, <2>7, <2>8 DEF Next, Step, M!Next
  <1> QED BY <1>1, <1>2, Invariance, PTL DEF Spec, MutexSpec, M!Spec

-----------------------------------------------------------------------------
(* Module Quota.                                                           *)
(* Whoever does more than to suspend holds the lock.                       *)
Locked(a) ==
  act[a].pc # "idle" /\ act[a].job \notin {Nothing, "suspend"} => lock = a

(* What an actor works on, and who may release a site.                     *)
Busied(a) ==
  /\ act[a].pc = "idle" => act[a] = Idle
  /\ act[a].pc \in {"cdn", "db", "row"} => act[a].job # Nothing /\ act[a].site \in Site
  /\ act[a].pc = "next" => Enforcing(a)
  /\ act[a].job = "release" => a \in Request

(* What is about to turn a site on, and is no release, has a site that is  *)
(* not held.                                                               *)
Unheld(a) ==
  act[a].pc \in {"cdn", "db"} /\ act[a].job \in {"on", "compat_on", "restore"}
    => act[a].site \notin held

Good(a) == Locked(a) /\ Busied(a) /\ Unheld(a)

(* The inductive invariant.                                                *)
QuotaInv == QuotaTypeOK /\ \A a \in Actor : Good(a)

LEMMA InitQuota == QuotaInit => QuotaInv
  <1> SUFFICES ASSUME QuotaInit PROVE QuotaInv
    OBVIOUS
  <1>1. QuotaTypeOK
    <2>1. Idle \in [pc : {"idle", "cdn", "db", "row", "enforce", "next"},
                    job : AllJobs \cup {"suspend", "restore", Nothing},
                    site : Site \cup {Nothing}, todo : SUBSET Site]
      BY DEF Idle
    <2>2. jobs \in 0..MaxJobs /\ faults \in 0..MaxFaults
      BY QuotaAssumption DEF QuotaInit
    <2> QED BY <2>1, <2>2 DEF QuotaInit, QuotaTypeOK
  <1>2. ASSUME NEW a \in Actor PROVE Good(a)
    <2>1. act[a] = Idle
      BY DEF QuotaInit
    <2> QED BY <2>1, QuotaAssumption
            DEF Good, Locked, Busied, Unheld, Idle, AllJobs
  <1> QED BY <1>1, <1>2 DEF QuotaInv

(* Every step leaves every variable in its type.                           *)
LEMMA NextQuotaType == QuotaInv /\ [QuotaNext]_quotaVars => QuotaTypeOK'
  <1> SUFFICES ASSUME QuotaInv, [QuotaNext]_quotaVars PROVE QuotaTypeOK'
    OBVIOUS
  <1> USE QuotaAssumption DEF QuotaInv, QuotaTypeOK, Idle, AllJobs
  <1>1. CASE OverChanges
    BY <1>1 DEF OverChanges
  <1>2. CASE ProcessDies
    BY <1>2 DEF ProcessDies
  <1>3. ASSUME NEW a \in Scheduler, Tick(a) PROVE QuotaTypeOK'
    BY <1>3 DEF Tick, Actor
  <1>4. ASSUME NEW a \in Request, NEW job \in Jobs, NEW s \in Site, StartJob(a, job, s)
        PROVE QuotaTypeOK'
    BY <1>4 DEF StartJob, Actor
  <1>5. ASSUME NEW a \in Actor, ChooseSuspend(a) PROVE QuotaTypeOK'
    BY <1>5 DEF ChooseSuspend
  <1>6. ASSUME NEW a \in Actor, ChooseRestore(a) PROVE QuotaTypeOK'
    BY <1>6 DEF ChooseRestore, MayEnter
  <1>7. ASSUME NEW a \in Actor, Busy(a) PROVE QuotaTypeOK'
    BY <1>7 DEF Busy, MayEnter
  <1>8. ASSUME NEW a \in Actor, NEW s \in Site, TakeSite(a, s) PROVE QuotaTypeOK'
    BY <1>8 DEF TakeSite
  <1>9. ASSUME NEW a \in Actor, EnforceDone(a) PROVE QuotaTypeOK'
    BY <1>9 DEF EnforceDone, Finish
  <1>10. ASSUME NEW a \in Actor, CdnOk(a) PROVE QuotaTypeOK'
    BY <1>10 DEF CdnOk, Good, Busied, Set
  <1>11. ASSUME NEW a \in Actor, CdnFails(a) PROVE QuotaTypeOK'
    BY <1>11 DEF CdnFails, Good, Busied, Set, Finish
  <1>12. ASSUME NEW a \in Actor, WriteSite(a) PROVE QuotaTypeOK'
    BY <1>12 DEF WriteSite, Good, Busied, Set
  <1>13. ASSUME NEW a \in Actor, WriteRow(a) PROVE QuotaTypeOK'
    BY <1>13 DEF WriteRow, Good, Busied, Set, Finish
  <1>14. CASE UNCHANGED quotaVars
    BY <1>14 DEF quotaVars
  <1> QED
    BY <1>1, <1>2, <1>3, <1>4, <1>5, <1>6, <1>7, <1>8, <1>9, <1>10, <1>11,
       <1>12, <1>13, <1>14 DEF QuotaNext, GoOn

(* The others are as good as they were: the lock stays with its holder or  *)
(* with nobody who needs it, and a site becomes held only when nobody      *)
(* holds the lock.                                                         *)
LEMMA OthersGood ==
  ASSUME QuotaInv, NEW a \in Actor, NEW b \in Actor, b # a,
         act'[b] = act[b],
         lock' = lock \/ lock \in {Nothing, a},
         held' \subseteq held \/ lock = Nothing
  PROVE  Good(b)'
  <1>1. Good(b)
    BY DEF QuotaInv
  <1>2. lock = b => lock' = b
    BY QuotaAssumption DEF QuotaInv, QuotaTypeOK
  <1>3. CASE held' \subseteq held
    BY <1>1, <1>2, <1>3 DEF Good, Locked, Busied, Unheld, Enforcing
  <1>4. CASE lock = Nothing
    BY <1>1, <1>2, <1>4, QuotaAssumption DEF Good, Locked, Busied, Unheld, Enforcing, AllJobs
  <1> QED BY <1>3, <1>4

LEMMA IdleGood == ASSUME NEW a \in Actor, act'[a] = Idle PROVE Good(a)'
  BY QuotaAssumption DEF Idle, Good, Locked, Busied, Unheld, AllJobs

(* Every step leaves the actors good: the one that takes it, and, by       *)
(* OthersGood, the others.                                                 *)
LEMMA NextGood == QuotaInv /\ [QuotaNext]_quotaVars => \A b \in Actor : Good(b)'
  <1> SUFFICES ASSUME QuotaInv, [QuotaNext]_quotaVars, NEW b \in Actor PROVE Good(b)'
    OBVIOUS
  <1> USE QuotaAssumption DEF Idle
  <1>0. QuotaTypeOK /\ Good(b)
    BY DEF QuotaInv
  <1>a. ASSUME NEW a \in Actor, a # b, act'[b] = act[b],
               lock' = lock \/ lock \in {Nothing, a},
               held' \subseteq held \/ lock = Nothing
        PROVE  Good(b)'
    BY <1>a, OthersGood
  <1>1. CASE OverChanges
    BY <1>0, <1>1 DEF OverChanges, Good, Locked, Busied, Unheld, Enforcing
  <1>2. CASE ProcessDies
    BY <1>2 DEF ProcessDies, Good, Locked, Busied, Unheld, Enforcing, AllJobs
  <1>3. ASSUME NEW a \in Scheduler, Tick(a) PROVE Good(b)'
    <2>1. CASE a = b
      BY <1>0, <1>3, <2>1 DEF Tick, QuotaTypeOK, Actor, AllJobs, Good, Locked, Busied, Unheld, Enforcing
    <2>2. CASE a # b
      BY <1>3, <2>2, <1>a DEF Tick, Actor
    <2> QED BY <2>1, <2>2
  <1>4. ASSUME NEW a \in Request, NEW job \in Jobs, NEW s \in Site, StartJob(a, job, s)
        PROVE Good(b)'
    <2>1. CASE a = b
      <3>1. act'[b] = [pc |-> "cdn", job |-> job, site |-> s, todo |-> {}] /\ lock' = b
        BY <1>0, <1>4, <2>1 DEF StartJob, QuotaTypeOK
      <3>2. job \in AllJobs /\ b \in Request
        BY <2>1
      <3>3. Unheld(b)'
        BY <1>4, <3>1 DEF StartJob, Allowed, Unheld
      <3> QED BY <3>1, <3>2, <3>3 DEF Good, Locked, Busied, AllJobs
    <2>2. CASE a # b
      BY <1>4, <2>2, <1>a DEF StartJob, Actor
    <2> QED BY <2>1, <2>2
  <1>5. ASSUME NEW a \in Actor, ChooseSuspend(a) PROVE Good(b)'
    <2>1. CASE a = b
      BY <1>0, <1>5, <2>1 DEF ChooseSuspend, QuotaTypeOK, Good, Locked, Busied, Unheld, Enforcing
    <2>2. CASE a # b
      BY <1>5, <2>2, <1>a DEF ChooseSuspend
    <2> QED BY <2>1, <2>2
  <1>6. ASSUME NEW a \in Actor, ChooseRestore(a) PROVE Good(b)'
    <2>1. CASE a = b
      BY <1>0, <1>6, <2>1
         DEF ChooseRestore, MayEnter, QuotaTypeOK, Good, Locked, Busied, Unheld, Enforcing
    <2>2. CASE a # b
      BY <1>6, <2>2, <1>a DEF ChooseRestore
    <2> QED BY <2>1, <2>2
  <1>7. ASSUME NEW a \in Actor, Busy(a) PROVE Good(b)'
    <2>1. CASE a = b
      BY <1>0, <1>7, <2>1 DEF Busy, QuotaTypeOK, Good, Locked, Busied, Unheld, Enforcing, AllJobs
    <2>2. CASE a # b
      BY <1>7, <2>2, <1>a DEF Busy
    <2> QED BY <2>1, <2>2
  <1>8. ASSUME NEW a \in Actor, NEW s \in Site, TakeSite(a, s) PROVE Good(b)'
    <2>1. CASE a = b
      BY <1>0, <1>8, <2>1
         DEF TakeSite, Withheld, QuotaTypeOK, Good, Locked, Busied, Unheld, Enforcing, AllJobs
    <2>2. CASE a # b
      BY <1>0, <1>8, <2>2, <1>a DEF TakeSite, QuotaTypeOK
    <2> QED BY <2>1, <2>2
  <1>9. ASSUME NEW a \in Actor, EnforceDone(a) PROVE Good(b)'
    <2>1. CASE a = b
      BY <1>0, <1>9, <2>1
         DEF EnforceDone, Finish, QuotaTypeOK, Good, Locked, Busied, Unheld, Enforcing, AllJobs
    <2>2. CASE a # b
      BY <1>0, <1>9, <2>2, <1>a DEF EnforceDone, Finish, QuotaTypeOK
    <2> QED BY <2>1, <2>2
  <1>10. ASSUME NEW a \in Actor, CdnOk(a) PROVE Good(b)'
    <2>1. CASE a = b
      BY <1>0, <1>10, <2>1 DEF CdnOk, QuotaTypeOK, Good, Locked, Busied, Unheld, Enforcing
    <2>2. CASE a # b
      BY <1>0, <1>10, <2>2, <1>a DEF CdnOk, QuotaTypeOK
    <2> QED BY <2>1, <2>2
  <1>11. ASSUME NEW a \in Actor, CdnFails(a) PROVE Good(b)'
    <2>1. CASE a = b
      <3>1. CASE Enforcing(a)
        BY <1>0, <1>11, <2>1, <3>1 DEF CdnFails, QuotaTypeOK, Good, Locked, Busied, Unheld, Enforcing
      <3>2. CASE ~Enforcing(a)
        <4>1. act'[b] = Idle
          BY <1>0, <1>11, <2>1, <3>2 DEF CdnFails, Finish, QuotaTypeOK
        <4> QED BY <4>1, IdleGood
      <3> QED BY <3>1, <3>2
    <2>2. CASE a # b
      BY <1>0, <1>11, <2>2, <1>a DEF CdnFails, Finish, QuotaTypeOK
    <2> QED BY <2>1, <2>2
  <1>12. ASSUME NEW a \in Actor, WriteSite(a) PROVE Good(b)'
    <2>1. CASE a = b
      BY <1>0, <1>12, <2>1 DEF WriteSite, QuotaTypeOK, Good, Locked, Busied, Unheld, Enforcing
    <2>2. CASE a # b
      BY <1>0, <1>12, <2>2, <1>a DEF WriteSite, QuotaTypeOK
    <2> QED BY <2>1, <2>2
  <1>13. ASSUME NEW a \in Actor, WriteRow(a) PROVE Good(b)'
    <2>1. CASE a = b
      <3>1. CASE act[a].job \in {"isolate", "release"}
        <4>1. act'[b] = Idle
          BY <1>0, <1>13, <2>1, <3>1 DEF WriteRow, Finish, QuotaTypeOK
        <4> QED BY <4>1, IdleGood
      <3>2. CASE act[a].job \notin {"isolate", "release"}
        BY <1>0, <1>13, <2>1, <3>2
           DEF WriteRow, QuotaTypeOK, Good, Locked, Busied, Unheld, Enforcing, AllJobs
      <3> QED BY <3>1, <3>2
    <2>2. CASE a # b
      BY <1>0, <1>13, <2>2, <1>a DEF WriteRow, Finish, QuotaTypeOK
    <2> QED BY <2>1, <2>2
  <1>14. CASE UNCHANGED quotaVars
    BY <1>0, <1>14 DEF quotaVars, Good, Locked, Busied, Unheld, Enforcing
  <1> QED
    BY <1>1, <1>2, <1>3, <1>4, <1>5, <1>6, <1>7, <1>8, <1>9, <1>10, <1>11,
       <1>12, <1>13, <1>14 DEF QuotaNext, GoOn

-----------------------------------------------------------------------------
(* The invariant holds of every behaviour: whoever turns a site on holds   *)
(* the customer's lock, and works on a site that is not isolated.          *)
THEOREM QuotaInvariance == QuotaSpec => []QuotaInv
  <1>1. QuotaInit => QuotaInv
    BY InitQuota
  <1>2. QuotaInv /\ [QuotaNext]_quotaVars => QuotaInv'
    BY NextQuotaType, NextGood DEF QuotaInv
  <1> QED BY <1>1, <1>2, PTL DEF QuotaSpec

(* A step that turns on a held site, at the CDN or in the database, is a   *)
(* step of a request that releases this very site.                         *)
LEMMA OnlyReleaseTurnsOn ==
  ASSUME QuotaInv, QuotaNext, NEW s \in Site, s \in held,
         s \in up' \ up \/ s \in enabled' \ enabled
  PROVE  \E a \in Request : act[a].job = "release" /\ act[a].site = s
  <1>1. \A a \in Actor : Good(a)
    BY DEF QuotaInv
  <1>2. PICK a \in Actor : CdnOk(a) \/ CdnFails(a) \/ WriteSite(a)
    <2>1. up' # up \/ enabled' # enabled
      OBVIOUS
    <2>2. ~OverChanges /\ ~ProcessDies
      BY <2>1 DEF OverChanges, ProcessDies
    <2>3. \A a \in Scheduler : ~Tick(a)
      BY <2>1 DEF Tick
    <2>4. \A a \in Request, job \in Jobs, t \in Site : ~StartJob(a, job, t)
      BY <2>1 DEF StartJob
    <2>5. \A a \in Actor : /\ ~ChooseSuspend(a) /\ ~ChooseRestore(a) /\ ~Busy(a)
                           /\ ~EnforceDone(a) /\ ~WriteRow(a)
                           /\ \A t \in Site : ~TakeSite(a, t)
      BY <2>1 DEF ChooseSuspend, ChooseRestore, Busy, EnforceDone, WriteRow, TakeSite
    <2> QED BY <2>2, <2>3, <2>4, <2>5 DEF QuotaNext, GoOn
  <1>3. /\ act[a].pc \in {"cdn", "db"} /\ act[a].site = s /\ Turns(act[a].job)
    BY <1>2 DEF CdnOk, CdnFails, WriteSite, Set
  <1>4. act[a].job = "release"
    BY <1>1, <1>3 DEF Good, Unheld, Turns
  <1> QED BY <1>1, <1>3, <1>4 DEF Good, Busied

(* An isolated site comes back by its release and by nothing else, however *)
(* the scheduler, PUTs, failures and crashes interleave                    *)
(* (site-inspection.js:62-75, billing.js:453, app.js:782).                 *)
THEOREM HoldsStand == QuotaSpec => HoldsSound
  <1>1. QuotaInv => QuotaTypeOK
    BY DEF QuotaInv
  <1>2. QuotaInv /\ [QuotaNext]_quotaVars =>
          [\A s \in Site : s \in held /\ (s \in up' \ up \/ s \in enabled' \ enabled) =>
             \E a \in Request : act[a].job = "release" /\ act[a].site = s]_quotaVars
    BY OnlyReleaseTurnsOn
  <1> QED BY <1>1, <1>2, QuotaInvariance, PTL DEF QuotaSpec, HoldsSound, HeldOnlyReleased
=============================================================================
