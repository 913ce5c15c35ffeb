------------------------- MODULE SettingsRebootProof --------------------------
(***************************************************************************)
(* Proofs about what a restart finds in the storages of Settings: after a   *)
(* save that ended, and after a reset in the middle of one.                 *)
(***************************************************************************)
EXTENDS SettingsProof

\* A step of save_bin or save_text leaves the file that would be loaded from
\* its storage as it was, empties a binary one, or leaves one that holds the map.
FileStep ==
    \/ /\ Main(files', dump.i) = Main(files, dump.i)
       /\ Order[dump.i] = "text" /\ dump.st \in {"open", "write"}
       /\ dump'.st \in {"write", "remove"} /\ dump'.i = dump.i
    \/ /\ Main(files', dump.i) = Torn /\ Order[dump.i] = "bin"
       /\ dump'.st = "write" /\ dump'.i = dump.i
    \/ /\ InFile(dump.i, Main(files', dump.i), map)
       /\ \/ dump.st = "remove" /\ dump'.st = "rename" /\ dump'.i = dump.i
          \/ dump.st = "rename" /\ dump'.st = "open" /\ dump'.i = dump.i + 1
          \/ Order[dump.i] = "bin" /\ dump'.st = "open" /\ dump'.i = dump.i + 1

LEMMA StepMain ==
    ASSUME IInv, Work, GoodMap(map),
           BinOpen \/ BinWrite \/ TextOpen \/ TextWrite \/ TextRemove \/ TextRename
    PROVE  /\ dump.i \in Storages /\ dump.i <= nstore /\ ~Unlocked
           /\ UNCHANGED <<map, wrpend, nstore, armed, saved>>
           /\ \A j \in Storages : j # dump.i => Main(files', j) = Main(files, j)
           /\ FileStep
<1>1. /\ dump.st \in SaveSteps /\ dump.i \in 1 .. nstore /\ dump.i \in Storages
      /\ dump.i <= nstore /\ ~Unlocked
  BY SaveStepWrites, OrderFacts DEF IInv, Control, Storages, SaveSteps, Unlocked
<1>2. PICK main, bak, st : Writes(main, bak, st)
  BY SaveStepWrites, Zenon
<1>3. /\ UNCHANGED <<map, wrpend, nstore, armed, saved>>
      /\ \A j \in Storages : j # dump.i => Main(files', j) = Main(files, j)
  <2>1. /\ files' = WithFile(dump.i, [main |-> main, bak |-> bak])
        /\ UNCHANGED <<map, wrpend, nstore, armed, saved>>
    BY <1>2, Zenon DEF Writes, SaveStep
  <2> QED BY <1>1, <2>1, MainWritten
<1>4. ASSUME NEW a, NEW b, NEW s, SaveStep(a, b, s)
      PROVE  /\ Main(files', dump.i) = IF Order[dump.i] = "text" /\ a = Absent /\ b # Absent
                                       THEN b ELSE a
             /\ dump'.st = s /\ dump'.i = IF s = "open" THEN dump.i + 1 ELSE dump.i
  <2>1. /\ files' = WithFile(dump.i, [main |-> a, bak |-> b])
        /\ dump' = [st |-> s, i |-> IF s = "open" THEN dump.i + 1 ELSE dump.i]
    BY <1>4 DEF SaveStep
  <2>2. dump'.st = s /\ dump'.i = IF s = "open" THEN dump.i + 1 ELSE dump.i
    BY <2>1, Zenon
  <2> QED BY <1>1, <2>1, <2>2, MainWritten
<1> SUFFICES FileStep
  BY <1>1, <1>3, Zenon
<1>5. CASE BinOpen
  <2>1. Order[dump.i] = "bin" /\ File # Absent
    BY <1>1, <1>5 DEF BinOpen, Saving, Work, BinThere, File
  <2>2. SaveStep(Torn, Backup, "write")
    BY <1>5, <2>1, Zenon DEF BinOpen
  <2>3. Main(files', dump.i) = Torn /\ dump'.st = "write" /\ dump'.i = dump.i
    BY <1>4, <2>1, <2>2
  <2> QED BY <2>1, <2>3, Zenon DEF FileStep
<1>6. CASE BinWrite
  <2>1. Order[dump.i] = "bin" /\ SaveStep(Intact(Saved(map)), Backup, "open")
    BY <1>6, Zenon DEF BinWrite, Saving
  <2>2. /\ Main(files', dump.i) = Intact(Saved(map))
        /\ dump'.st = "open" /\ dump'.i = dump.i + 1
    BY <1>4, <2>1
  <2>3. InFile(dump.i, Main(files', dump.i), map)
    BY <1>1, <2>1, <2>2, InWritten, Zenon
  <2> QED BY <2>1, <2>2, <2>3, Zenon DEF FileStep
<1>7. CASE TextOpen \/ TextWrite
  <2>1. Order[dump.i] = "text" /\ dump.st \in {"open", "write"}
    BY <1>7, Zenon DEF TextOpen, TextWrite, Saving
  <2>2. File # Absent
    BY <1>1, <2>1, Zenon DEF IInv, TextFiles, File
  <2>3. \E b, s : SaveStep(File, b, s) /\ s \in {"write", "remove"}
    BY <1>7, Zenon DEF TextOpen, TextWrite
  <2>4. Main(files', dump.i) = File /\ dump'.st \in {"write", "remove"} /\ dump'.i = dump.i
    BY <1>4, <2>2, <2>3
  <2>5. Main(files, dump.i) = File
    BY <2>2, Zenon DEF Main, Restored, File
  <2> QED BY <2>1, <2>4, <2>5, Zenon DEF FileStep
<1>8. CASE TextRemove \/ TextRename
  <2>1. Order[dump.i] = "text" /\ Backup = Intact(Lines(map))
    BY <1>1, <1>8 DEF TextRemove, TextRename, Saving, Work, Progress
  <2>2. Backup # Absent
    BY <2>1, Present
  <2>3. \/ dump.st = "remove" /\ SaveStep(Absent, Backup, "rename")
        \/ dump.st = "rename" /\ SaveStep(Backup, Absent, "open")
    BY <1>8 DEF TextRemove, TextRename, Saving
  <2>4. /\ Main(files', dump.i) = Backup
        /\ \/ dump.st = "remove" /\ dump'.st = "rename" /\ dump'.i = dump.i
           \/ dump.st = "rename" /\ dump'.st = "open" /\ dump'.i = dump.i + 1
    BY <1>4, <2>1, <2>2, <2>3
  <2>5. InFile(dump.i, Main(files', dump.i), map)
    BY <1>1, <2>1, <2>4, InWritten, Zenon
  <2> QED BY <2>4, <2>5, Zenon DEF FileStep
<1> QED BY <1>5, <1>6, <1>7, <1>8, Zenon

-----------------------------------------------------------------------------
(* Reboots.                                                                *)

\* While nothing is pending the first storage gives the map and the others add
\* nothing to it; within a save this needs a first storage that is replaced
\* as a whole.
Settled ==
    ~wrpend /\ nstore >= 1 /\ (Unlocked \/ Order[1] = "text") =>
      /\ LoadFrom(files, EmptyMap, 1) = map
      /\ \A j \in Storages : j <= nstore => LoadFrom(files, map, j) = map

\* Everything that is known of a state.
Known == IInv /\ Typing /\ Fresh /\ Good /\ Work /\ Settled

LEMMA KnownStep ==
    ASSUME Known, BinOpen \/ BinWrite \/ TextOpen \/ TextWrite \/ TextRemove \/ TextRename
    PROVE  /\ GoodMap(map) /\ dump.i \in Nat /\ dump.i >= 1
           /\ dump.i \in Storages /\ dump.i <= nstore /\ ~Unlocked
           /\ UNCHANGED <<map, wrpend, nstore, armed, saved>>
           /\ \A j \in Storages : j # dump.i => Main(files', j) = Main(files, j)
           /\ FileStep
<1>1. IInv /\ Work /\ GoodMap(map)
  BY Zenon DEF Known, Typing, Good, GoodMap
<1>2. dump.i \in Storages
  BY <1>1, StepMain, Zenon
<1>3. dump.i \in Nat /\ dump.i >= 1
  BY <1>2, OrderFacts DEF Storages
<1> QED BY <1>1, <1>3, StepMain, Zenon

LEMMA SetStorageSettled ==
    ASSUME Known, settings_setstorage
    PROVE  Settled'
<1> SUFFICES ASSUME ~wrpend'
             PROVE  /\ LoadFrom(files', EmptyMap, 1) = map'
                    /\ \A j \in Storages : j <= nstore' => LoadFrom(files', map', j) = map'
  BY Zenon DEF Settled
<1>1. PICK n \in Storages : n = nstore + 1
  BY OrderFacts DEF settings_setstorage, Configured, Storages, Known, IInv, Control
<1>2. /\ nstore' = n /\ Unlocked /\ map' = LoadFrom(files, map, n)
      /\ \A j \in Storages : files'[j] = files[j] \/ files'[j] = Restored(j, files[j])
  BY <1>1, Zenon DEF settings_setstorage, WithFile
<1>3. 1 \in Storages /\ nstore \in Nat
  BY OrderFacts DEF Storages, Known, IInv, Control
<1>4. \A j \in Storages : \A m : LoadFrom(files', m, j) = LoadFrom(files, m, j)
  BY <1>2, LoadSame
<1>5. CASE nstore = 0
  <2>1. n = 1 /\ map = EmptyMap
    BY <1>1, <1>5 DEF Known, Fresh
  <2>2. map' = LoadFrom(files, EmptyMap, 1)
    BY <1>2, <2>1, Zenon
  <2>3. LoadFrom(files, map', 1) = map'
    BY <1>3, <2>2, LoadTwice, Zenon DEF Known, Good
  <2>4. \A j \in Storages : j <= nstore' => j = 1
    BY <1>2, <2>1 DEF Storages
  <2> QED BY <1>3, <1>4, <2>2, <2>3, <2>4, Zenon
<1>6. CASE nstore # 0
  <2>1. n > 1 /\ nstore >= 1
    BY <1>1, <1>3, <1>6
  <2>2. NoSave /\ map' = hash
    <3>1. ~Save
      BY Zenon DEF Save
    <3> QED BY <1>1, <2>1, <3>1, Zenon DEF settings_setstorage
  <2>3. map' = map /\ wrpend' = wrpend
    BY <2>2, Zenon DEF Known, IInv, NoSave
  <2>4. /\ LoadFrom(files, EmptyMap, 1) = map
        /\ \A j \in Storages : j <= nstore => LoadFrom(files, map, j) = map
    BY <1>2, <2>1, <2>3, Zenon DEF Known, Settled
  <2>5. ASSUME NEW j \in Storages, j <= nstore' PROVE LoadFrom(files, map, j) = map
    <3>1. j = n \/ j <= nstore
      BY <1>1, <1>2, <1>3, <2>5 DEF Storages
    <3>2. LoadFrom(files, map, n) = map
      BY <1>2, <2>3, Zenon
    <3> QED BY <2>4, <3>1, <3>2, Zenon
  <2> QED BY <1>3, <1>4, <2>3, <2>4, <2>5, Zenon
<1> QED BY <1>5, <1>6, Zenon

\* A step that keeps the map, and changes no file other than by restoring it.
LEMMA SameSettled ==
    ASSUME Known, UNCHANGED <<map, nstore>>, wrpend' = wrpend, Unlocked' => Unlocked,
           \A j \in Storages : files'[j] = files[j] \/ files'[j] = Restored(j, files[j])
    PROVE  Settled'
<1> SUFFICES ASSUME ~wrpend', nstore' >= 1, Unlocked' \/ Order[1] = "text"
             PROVE  /\ LoadFrom(files', EmptyMap, 1) = map'
                    /\ \A j \in Storages : j <= nstore' => LoadFrom(files', map', j) = map'
  BY Zenon DEF Settled
<1>1. \A j \in Storages : \A m : LoadFrom(files', m, j) = LoadFrom(files, m, j)
  BY LoadSame
<1>2. /\ LoadFrom(files, EmptyMap, 1) = map
      /\ \A j \in Storages : j <= nstore => LoadFrom(files, map, j) = map
  BY Zenon DEF Known, Settled
<1>3. 1 \in Storages
  BY OrderFacts DEF Storages
<1> QED BY <1>1, <1>2, <1>3, Zenon

LEMMA SaveSettled ==
    ASSUME Known, BinOpen \/ BinWrite \/ TextOpen \/ TextWrite \/ TextRemove \/ TextRename
    PROVE  Settled'
<1>0. GoodMap(map) /\ Shape(map) /\ 1 \in Storages
  BY OrderFacts DEF Known, Typing, Good, GoodMap, Storages
<1>a. /\ dump.i \in Storages /\ dump.i <= nstore /\ ~Unlocked
      /\ UNCHANGED <<map, wrpend, nstore>>
      /\ \A j \in Storages : j # dump.i => Main(files', j) = Main(files, j)
  BY KnownStep, Zenon
<1>b. FileStep
  BY KnownStep, Zenon
<1>c. \/ Main(files', dump.i) = Main(files, dump.i)
      \/ Main(files', dump.i) = Torn /\ Order[dump.i] = "bin"
      \/ InFile(dump.i, Main(files', dump.i), map)
  BY <1>b, Zenon DEF FileStep
<1>1. /\ dump.i \in Storages /\ dump.i <= nstore /\ ~Unlocked
      /\ UNCHANGED <<map, wrpend, nstore>>
      /\ \A j \in Storages : j # dump.i => Main(files', j) = Main(files, j)
      /\ \/ Main(files', dump.i) = Main(files, dump.i)
         \/ Main(files', dump.i) = Torn /\ Order[dump.i] = "bin"
         \/ InFile(dump.i, Main(files', dump.i), map)
  BY <1>a, <1>c, Zenon
<1>2. ~Unlocked'
  <2>1. dump'.st \in {"write", "remove", "rename", "open"}
    BY <1>b, Zenon DEF FileStep
  <2> QED BY <2>1, Zenon DEF Unlocked
<1> SUFFICES ASSUME ~wrpend', nstore' >= 1, Order[1] = "text"
             PROVE  /\ LoadFrom(files', EmptyMap, 1) = map'
                    /\ \A j \in Storages : j <= nstore' => LoadFrom(files', map', j) = map'
  BY <1>2, Zenon DEF Settled
<1>3. /\ LoadFrom(files, EmptyMap, 1) = map
      /\ \A j \in Storages : j <= nstore => LoadFrom(files, map, j) = map
  BY <1>1, Zenon DEF Known, Settled
<1>4. ASSUME NEW j \in Storages, Main(files', j) = Main(files, j)
      PROVE  \A m : LoadFrom(files', m, j) = LoadFrom(files, m, j)
  BY <1>4, LoadMain, ZenonT(60)
<1>5. ASSUME NEW j \in Storages, j <= nstore PROVE LoadFrom(files', map, j) = map
  <2>1. CASE Main(files', j) = Main(files, j)
    BY <1>3, <1>4, <1>5, <2>1, Zenon
  <2>2. CASE j = dump.i /\ Main(files', j) = Torn
    <3>1. Main(files', j).st # "intact"
      BY <2>2 DEF Torn
    <3> QED BY <3>1, LoadFromIs, Zenon
  <2>3. CASE InFile(j, Main(files', j), map)
    BY <1>0, <2>3, LoadFromHeld
  <2> QED BY <1>1, <2>1, <2>2, <2>3, Zenon
<1>6. LoadFrom(files', EmptyMap, 1) = map
  <2>1. CASE Main(files', 1) = Main(files, 1)
    BY <1>0, <1>3, <1>4, <2>1, Zenon
  <2>2. CASE InFile(1, Main(files', 1), map)
    BY <1>0, <2>2, LoadFromHeld
  <2>3. dump.i = 1 => Order[dump.i] # "bin"
    BY Zenon
  <2> QED BY <1>0, <1>1, <2>1, <2>2, <2>3, Zenon
<1> QED BY <1>1, <1>5, <1>6, Zenon

LEMMA CallSettled ==
    ASSUME Known, NEW t \in Threads,
           \/ settings_clear(t)
           \/ \E k, s : settings_create(t, k, s) \/ settings_set(t, k, s)
           \/ \E w : settings_sync(t, w)
    PROVE  Settled'
<1> DEFINE Effect ==
      \/ wrpend' = TRUE
      \/ /\ UNCHANGED <<map, nstore>> /\ wrpend' = wrpend /\ dump' = dump
         /\ \A j \in Storages : files'[j] = files[j] \/ files'[j] = Restored(j, files[j])
<1>1. ASSUME settings_clear(t) PROVE Effect
  BY <1>1 DEF settings_clear, Save
<1>2. ASSUME NEW k, NEW s, settings_create(t, k, s) PROVE Effect
  BY <1>2, Zenon DEF settings_create, Save
<1>3. ASSUME NEW k, NEW s, settings_set(t, k, s) PROVE Effect
  <2>1. CASE map' # hash
    BY <1>3, <2>1, Zenon DEF settings_set, Save
  <2>2. CASE map' = hash
    BY <1>3, <2>2, Zenon DEF settings_set, NoSave, Known, IInv
  <2> QED BY <2>1, <2>2, Zenon
<1>4. ASSUME NEW w, settings_sync(t, w) PROVE Effect
  <2>1. (map' = map \/ Save) /\ (Save \/ NoSave) /\ nstore' = nstore
    BY <1>4, SyncMap, Zenon DEF Known, settings_sync
  <2>2. \A j \in Storages : files'[j] = Restored(j, files[j])
    BY <1>4, Zenon DEF settings_sync
  <2> QED BY <2>1, <2>2, Zenon DEF Save, NoSave
<1>5. Effect
  <2> HIDE DEF Effect
  <2> QED BY <1>1, <1>2, <1>3, <1>4, Zenon
<1>6. CASE wrpend' = TRUE
  BY <1>6 DEF Settled
<1>7. CASE wrpend' # TRUE
  <2>1. Unlocked' => Unlocked
    BY Zenon, <1>5, <1>7 DEF Unlocked
  <2> QED BY <1>5, <1>7, <2>1, SameSettled, Zenon
<1> QED BY <1>6, <1>7, Zenon

LEMMA EndSettled == ASSUME Known, DumpEnd PROVE Settled'
<1>1. /\ dump.st \in SaveSteps /\ dump.i > nstore /\ UNCHANGED <<map, nstore, files>>
      /\ nstore \in Nat /\ dump.i \in Int
  BY OrderFacts DEF DumpEnd, SaveSteps, Known, IInv, Control, Typing, Rest
<1>2. ASSUME NEW j \in Storages, j <= nstore
      PROVE  LoadFrom(files, map, j) = map /\ LoadFrom(files, EmptyMap, j) = map
  <2>1. j < dump.i
    BY <1>1, <1>2 DEF Storages
  <2>2. InFile(j, Main(files, j), map)
    BY <1>1, <1>2, <2>1 DEF Known, Work, Progress
  <2> QED BY <2>2, LoadFromHeld, Zenon DEF Known, Typing
<1>3. 1 \in Storages
  BY OrderFacts DEF Storages
<1> QED BY <1>1, <1>2, <1>3 DEF Settled

LEMMA InitSettled == Init => Settled
BY DEF Init, Settled

LEMMA NextSettled == Known /\ [Next]_vars => Settled'
<1> SUFFICES ASSUME Known, [Next]_vars PROVE Settled'
  BY Zenon
<1>1. CASE settings_setstorage
  BY <1>1, SetStorageSettled, Zenon
<1>2. CASE Change
  BY <1>2, CallSettled, Zenon DEF Change
<1>3. CASE \/ TimerFires \/ DumpLock \/ UNCHANGED vars
           \/ \E t \in Threads : settings_notify(t) \/ WaitDone(t) \/ TakeSignal(t)
  <2> DEFINE Effect == /\ UNCHANGED <<map, nstore, files>> /\ wrpend' = wrpend
                       /\ dump' = dump \/ dump.st \in {"idle", "wait"}
  <2>1. ASSUME TimerFires \/ DumpLock PROVE Effect
    BY <2>1, Dumps DEF TimerFires, DumpLock
  <2>2. ASSUME UNCHANGED vars PROVE Effect
    BY <2>2, Zenon DEF vars
  <2>3. ASSUME NEW t \in Threads, settings_notify(t) \/ WaitDone(t) \/ TakeSignal(t)
        PROVE  Effect
    BY <2>3, Zenon DEF settings_notify, WaitDone, TakeSignal
  <2>4. Effect
    <3> HIDE DEF Effect
    <3> QED BY <1>3, <2>1, <2>2, <2>3, Zenon
  <2>5. Unlocked' => Unlocked
    BY <2>4, Zenon DEF Unlocked
  <2> QED BY <2>4, <2>5, SameSettled, Zenon
<1>4. CASE BinOpen \/ BinWrite \/ TextOpen \/ TextWrite \/ TextRemove \/ TextRename
  BY <1>4, SaveSettled, Zenon
<1>5. CASE DumpEnd
  BY <1>5, EndSettled, Zenon
<1>6. CASE Reset
  BY <1>6 DEF Reset, Settled
<1> QED BY <1>1, <1>2, <1>3, <1>4, <1>5, <1>6, Zenon DEF Next, Dump

LEMMA InitKnown == Init => Known
BY InitIInv, InitTyping, InitGood, InitWork, InitSettled DEF Known, Init, Fresh

LEMMA NextKnown == ASSUME TextFaithful PROVE Known /\ [Next]_vars => Known'
<1> SUFFICES ASSUME Known, [Next]_vars PROVE Known'
  BY Zenon
<1>1. IInv' /\ Typing' /\ Fresh'
  BY NextIInv, NextTyping, FreshStep, Zenon DEF Known
<1>2. Good' /\ Work'
  BY NextGood, NextWork, Zenon DEF Known
<1>3. Settled'
  BY NextSettled, Zenon
<1> QED BY <1>1, <1>2, <1>3, Zenon DEF Known

\* With values that a text file gives back, a reboot changes no setting once
\* nothing is pending, for any storages: always if the first one is a text
\* storage or saves are not cached, and otherwise unless dump_cache, started
\* by a timer that was set again, is rewriting what was saved already.
THEOREM RebootKeepsSettings ==
    ASSUME TextFaithful
    PROVE  Spec => [](Unlocked \/ Order[1] = "text" \/ ~Cached => RebootKeeps)
<1>1. Known => (Unlocked \/ Order[1] = "text" \/ ~Cached => RebootKeeps)
  <2> SUFFICES ASSUME Known, Unlocked \/ Order[1] = "text" \/ ~Cached, Configured, ~wrpend
               PROVE  Boot = Settings(map)
    BY Zenon DEF RebootKeeps
  <2>1. Unlocked \/ Order[1] = "text"
    BY Zenon DEF Known, Work, Direct
  <2>2. nstore = Len(Order) /\ nstore \in Nat /\ nstore >= 1
    BY OrderFacts, Zenon DEF Configured
  <2>3. /\ LoadFrom(files, EmptyMap, 1) = map
        /\ \A j \in Storages : j <= nstore => LoadFrom(files, map, j) = map
    BY <2>1, <2>2, Zenon DEF Known, Settled
  <2>4. \A j \in 1 .. nstore : LoadFrom(files, map, j) = map
    BY <2>2, <2>3 DEF Storages
  <2>5. Load(files, EmptyMap, nstore) = map
    BY <2>2, <2>3, <2>4, LoadSettled
  <2> QED BY <2>2, <2>5, Zenon DEF Boot
<1> QED BY <1>1, InitKnown, NextKnown, PTL DEF Spec

\* The case in which the property needs no condition on the state.
THEOREM RebootKeepsAll ==
    ASSUME TextFaithful, Order[1] = "text" \/ ~Cached
    PROVE  Spec => []RebootKeeps
<1>1. (Unlocked \/ Order[1] = "text" \/ ~Cached => RebootKeeps) => RebootKeeps
  BY Zenon
<1> QED BY <1>1, RebootKeepsSettings, PTL

-----------------------------------------------------------------------------
(* What settings_get returns.                                              *)

Asked == nstore >= 1 => asked = Settings(map)

LEMMA SettingsIs == ASSUME NEW m PROVE Settings(m) = [k \in Keys |-> Settings(m)[k]]
BY Zenon DEF Settings

LEMMA AskedStep ==
    ASSUME ~Cached, Known, Asked, [Next]_vars
    PROVE  Asked'
<1>0. nstore \in Nat
  BY OrderFacts DEF Known, IInv, Control
<1>1. CASE settings_setstorage
  BY <1>1, Zenon DEF settings_setstorage, Asked
<1>2. ASSUME NEW t \in Threads, settings_clear(t) PROVE Asked'
  <2>1. Settings(EmptyMap) = [k \in Keys |-> None]
    BY SettingsIs, EmptyShape
  <2> QED BY <1>2, <2>1 DEF settings_clear, Asked
<1>3. ASSUME NEW t \in Threads, NEW k \in Keys, NEW s \in Inputs,
             settings_create(t, k, s) \/ settings_set(t, k, s)
      PROVE  Asked'
  <2>1. /\ Settings(map')[k] = SetVal(s)
        /\ \A x \in Keys : x # k => Settings(map')[x] = Settings(map)[x]
    BY <1>3, StoredSetting, Zenon DEF Known, Typing
  <2>2. asked' = [asked EXCEPT ![k] = SetVal(s)]
    BY <1>3, StoredOne, Zenon
  <2>3. Configured /\ nstore' = nstore
    BY <1>3, Zenon DEF settings_create, settings_set
  <2>4. asked = Settings(map)
    BY <2>3, OrderFacts, Zenon DEF Configured, Asked
  <2>5. PICK f, g : f = Settings(map) /\ g = Settings(map')
    BY Zenon
  <2>6. f = [x \in Keys |-> f[x]] /\ g = [x \in Keys |-> g[x]]
    BY <2>5, SettingsIs, Zenon
  <2>7. g = [f EXCEPT ![k] = SetVal(s)]
    BY <2>1, <2>5, <2>6
  <2> QED BY <2>2, <2>4, <2>5, <2>7 DEF Asked
<1>4. ASSUME NEW t \in Threads, NEW w \in BOOLEAN, settings_sync(t, w) PROVE Asked'
  <2>1. /\ Unlocked /\ Configured /\ nstore' = nstore /\ asked' = asked
        /\ map' = Load(files, map, nstore)
    BY <1>4, Zenon DEF settings_sync
  <2>2. ~wrpend
    BY <2>1, Zenon DEF Known, Work, Direct
  <2>3. nstore >= 1 /\ nstore = Len(Order)
    BY <2>1, OrderFacts, Zenon DEF Configured
  <2>4. /\ LoadFrom(files, EmptyMap, 1) = map
        /\ \A j \in Storages : j <= nstore => LoadFrom(files, map, j) = map
    BY <2>1, <2>2, <2>3, Zenon DEF Known, Settled
  <2>5. \A j \in 1 .. nstore : LoadFrom(files, map, j) = map
    BY <2>3, <2>4 DEF Storages
  <2>6. Load(files, map, nstore) = map
    BY <1>0, <2>3, <2>4, <2>5, LoadSettled
  <2> QED BY <2>1, <2>6 DEF Asked
<1>5. CASE Reset
  BY <1>5 DEF Reset, Asked
<1>6. CASE \/ TimerFires \/ Dump \/ UNCHANGED vars
           \/ \E t \in Threads : settings_notify(t) \/ WaitDone(t) \/ TakeSignal(t)
  <2>1. UNCHANGED <<map, nstore, asked>>
    BY <1>6, MapKept, Zenon
  <2> QED BY <2>1, Zenon DEF Asked
<1> QED BY <1>1, <1>2, <1>3, <1>4, <1>5, <1>6, Zenon DEF Next, Change

\* If saves are not cached, settings_get gives back what was stored last, for
\* any storages, also after resets and synchronisation: a settings_sync finds
\* the storages settled, so it loads nothing that was not stored.
THEOREM GetReturnsLastSet ==
    ASSUME TextFaithful, ~Cached
    PROVE  Spec => []GetReturnsSet
<1>1. Init => Known /\ Asked
  BY InitKnown DEF Init, Asked
<1>2. Known /\ Asked /\ [Next]_vars => (Known /\ Asked)'
  BY NextKnown, AskedStep, Zenon
<1>3. Known /\ Asked => GetReturnsSet
  <2> SUFFICES ASSUME Known, Asked, Configured, NEW k \in Keys, asked[k] # None
               PROVE  Get(map, k, asked[k].type) = [ret |-> "OK", val |-> asked[k].val]
    BY Zenon DEF GetReturnsSet
  <2>1. asked = Settings(map)
    BY OrderFacts, Zenon DEF Configured, Asked
  <2>2. Settings(map)[k] # None /\ Shape(map)
    BY <2>1, Zenon DEF Known, Typing
  <2>3. Get(map, k, Settings(map)[k].type) = [ret |-> "OK", val |-> Settings(map)[k].val]
    BY <2>2, GetSame, Zenon
  <2> QED BY <2>1, <2>3, Zenon
<1> QED BY <1>1, <1>2, <1>3, PTL DEF Spec

-----------------------------------------------------------------------------
(* Resets within a save.                                                   *)

\* No file that would be loaded has been touched by the save: there is none, or
\* the first storage, a text storage, is at its backup.
Early  == Unlocked \/ (dump.i = 1 /\ dump.st \in {"open", "write", "remove"})
Before == Early => Boot = saved

LEMMA BootSame ==
    ASSUME \A i \in Storages : \A p : LoadFrom(files', p, i) = LoadFrom(files, p, i)
    PROVE  Boot' = Boot
<1>1. Len(Order) \in Nat /\ 1 .. Len(Order) = Storages
  BY OrderFacts, Zenon DEF Storages
<1>2. \A i \in 1 .. Len(Order) : \A p : LoadFrom(files', p, i) = LoadFrom(files, p, i)
  BY <1>1, Zenon
<1>3. PICK gs : gs = files'
  BY Zenon
<1>4. PICK n \in Nat : n = Len(Order)
  BY <1>1, Zenon
<1>5. \A i \in 1 .. n : \A p : LoadFrom(gs, p, i) = LoadFrom(files, p, i)
  BY <1>2, <1>3, <1>4
<1>6. Load(gs, EmptyMap, n) = Load(files, EmptyMap, n)
  BY <1>5, LoadAllSame
<1> QED BY <1>3, <1>4, <1>6 DEF Boot

\* The files of all storages hold map m, and so does the first boot's.
LEMMA BootHeld ==
    ASSUME NEW m, Shape(m), \A i \in Storages : InFile(i, Main(files, i), m)
    PROVE  Boot = Settings(m)
<1>1. /\ Len(Order) \in Nat /\ Len(Order) >= 1 /\ 1 .. Len(Order) = Storages /\ 1 \in Storages
  BY OrderFacts DEF Storages
<1>2. \A i \in Storages : LoadFrom(files, EmptyMap, i) = m /\ LoadFrom(files, m, i) = m
  BY LoadFromHeld, Zenon
<1>3. Load(files, EmptyMap, Len(Order)) = m
  BY <1>1, <1>2, LoadSettled, Zenon
<1> QED BY <1>3, Zenon DEF Boot

LEMMA InitBefore == Init => Before
<1> SUFFICES ASSUME Init PROVE Boot = saved
  BY Zenon DEF Before
<1>1. ASSUME NEW i \in Storages PROVE LoadFrom(files, EmptyMap, i) = EmptyMap
  <2>1. /\ files[i].main = IF Order[i] = "bin" THEN Torn ELSE Intact(<< >>)
        /\ files[i].bak = Absent
    BY <1>1, Zenon DEF Init
  <2>2. Main(files, i) = files[i].main
    BY <2>1, Zenon DEF Main, Restored
  <2>3. CASE Order[i] = "bin"
    <3>1. Main(files, i).st # "intact"
      BY <2>1, <2>2, <2>3 DEF Torn
    <3> QED BY <3>1, LoadFromIs
  <2>4. CASE Order[i] # "bin"
    <3>1. Main(files, i).st = "intact" /\ Main(files, i).data = << >>
      BY <2>1, <2>2, <2>4 DEF Intact
    <3>2. Holds(Contents(i, Main(files, i)), EmptyMap)
      BY <2>4, <3>1, HoldsNothing DEF Contents
    <3> QED BY <3>1, <3>2, LoadFromHeld, EmptyShape, Zenon DEF InFile
  <2> QED BY <2>3, <2>4
<1>2. /\ Len(Order) \in Nat /\ Len(Order) >= 1 /\ 1 .. Len(Order) = Storages /\ 1 \in Storages
  BY OrderFacts DEF Storages
<1>3. Load(files, EmptyMap, Len(Order)) = EmptyMap
  BY <1>1, <1>2, LoadSettled
<1>4. Settings(EmptyMap) = [k \in Keys |-> None]
  BY EmptyShape, SettingsIs, Zenon
<1> QED BY <1>3, <1>4, Zenon DEF Boot, Init

\* Every step but those of a save that has the mutex keeps what a boot finds.
LEMMA QuietStep ==
    ASSUME \/ settings_setstorage \/ Change \/ TimerFires \/ DumpLock \/ UNCHANGED vars
           \/ \E t \in Threads : settings_notify(t) \/ WaitDone(t) \/ TakeSignal(t)
    PROVE  /\ saved' = saved /\ Boot' = Boot /\ (dump' = dump \/ Unlocked)
           /\ \A i \in Storages : \A p : LoadFrom(files', p, i) = LoadFrom(files, p, i)
<1> DEFINE Effect ==
      /\ saved' = saved /\ (dump' = dump \/ Unlocked)
      /\ \A j \in Storages : files'[j] = files[j] \/ files'[j] = Restored(j, files[j])
<1>1. ASSUME settings_setstorage PROVE Effect
  BY <1>1, Zenon DEF settings_setstorage, WithFile
<1>2. ASSUME NEW t \in Threads, settings_clear(t) PROVE Effect
  BY <1>2, Zenon DEF settings_clear
<1>3. ASSUME NEW t \in Threads, NEW k, NEW s, settings_create(t, k, s) \/ settings_set(t, k, s)
      PROVE  Effect
  BY <1>3, Zenon DEF settings_create, settings_set
<1>4. ASSUME NEW t \in Threads, NEW w, settings_sync(t, w) PROVE Effect
  BY <1>4, Zenon DEF settings_sync
<1>5. ASSUME TimerFires \/ DumpLock PROVE Effect
  BY <1>5, Dumps DEF TimerFires, DumpLock, Unlocked
<1>6. ASSUME UNCHANGED vars PROVE Effect
  BY <1>6, Zenon DEF vars
<1>7. ASSUME NEW t \in Threads, settings_notify(t) \/ WaitDone(t) \/ TakeSignal(t)
      PROVE  Effect
  BY <1>7, Zenon DEF settings_notify, WaitDone, TakeSignal
<1>8. Effect
  <2> HIDE DEF Effect
  <2> QED BY <1>1, <1>2, <1>3, <1>4, <1>5, <1>6, <1>7, Zenon DEF Change
<1>9. \A i \in Storages : \A p : LoadFrom(files', p, i) = LoadFrom(files, p, i)
  BY <1>8, LoadSame
<1> QED BY <1>8, <1>9, BootSame, Zenon

LEMMA BeforeStep ==
    ASSUME Order[1] = "text", Len(Order) <= 2, Known, Before, [Next]_vars
    PROVE  Before'
<1>1. CASE \/ settings_setstorage \/ Change \/ TimerFires \/ DumpLock \/ UNCHANGED vars
           \/ \E t \in Threads : settings_notify(t) \/ WaitDone(t) \/ TakeSignal(t)
  <2>1. saved' = saved /\ Boot' = Boot /\ (dump' = dump \/ Unlocked)
    BY <1>1, QuietStep, Zenon
  <2>2. Early' => Early
    BY <2>1, Zenon DEF Early, Unlocked
  <2> QED BY <2>1, <2>2, Zenon DEF Before
<1>2. CASE BinOpen \/ BinWrite \/ TextOpen \/ TextWrite \/ TextRemove \/ TextRename
  <2> SUFFICES ASSUME Early' PROVE Boot' = saved'
    BY Zenon DEF Before
  <2>0. GoodMap(map) /\ dump.i \in Nat /\ dump.i >= 1 /\ FileStep
    BY <1>2, KnownStep, Zenon
  <2>1. /\ saved' = saved /\ \A j \in Storages : j # dump.i => Main(files', j) = Main(files, j)
        /\ \/ /\ Main(files', dump.i) = Main(files, dump.i)
              /\ dump.st \in {"open", "write"}
              /\ dump'.st \in {"write", "remove"} /\ dump'.i = dump.i
           \/ Order[dump.i] = "bin" /\ dump'.st = "write" /\ dump'.i = dump.i
           \/ dump'.st = "rename"
           \/ dump'.st = "open" /\ dump'.i = dump.i + 1
    <3>1. /\ saved' = saved
          /\ \A j \in Storages : j # dump.i => Main(files', j) = Main(files, j)
      BY <1>2, KnownStep, Zenon
    <3> QED BY <2>0, <3>1, Zenon DEF FileStep
  <2>2. dump'.i = 1 /\ dump'.st \in {"open", "write", "remove"}
    BY <2>1, Zenon DEF Early, Unlocked
  <2>3. Main(files', dump.i) = Main(files, dump.i) /\ Early
    BY <2>0, <2>1, <2>2 DEF Early
  <2>4. \A j \in Storages : Main(files', j) = Main(files, j)
    BY <2>1, <2>3, Zenon
  <2>5. \A j \in Storages : \A p : LoadFrom(files', p, j) = LoadFrom(files, p, j)
    BY <2>4, LoadMain
  <2>6. Boot' = Boot
    BY <2>5, BootSame, Zenon
  <2> QED BY <2>1, <2>3, <2>6 DEF Before
<1>3. CASE DumpEnd
  <2>1. /\ dump.st = "open" /\ dump.i > nstore /\ files' = files /\ saved' = Settings(map)
    BY <1>3 DEF DumpEnd
  <2>2. nstore = Len(Order) /\ dump.i \in Nat
    BY <2>1, OrderFacts DEF Known, Work, Active, Configured, Typing, Rest
  <2>3. \A i \in Storages : InFile(i, Main(files, i), map)
    BY <2>1, <2>2, OrderFacts DEF Known, Work, Progress, SaveSteps, Storages
  <2>4. Boot = Settings(map)
    BY <2>3, BootHeld, Zenon DEF Known, Typing
  <2>5. Boot' = Boot
    BY <2>1, Zenon DEF Boot
  <2> QED BY <2>1, <2>4, <2>5, Zenon DEF Before
<1>4. CASE Reset
  <2>1. saved' = Boot /\ files' = files
    BY <1>4, Zenon DEF Reset
  <2>2. Boot' = Boot
    BY <2>1, Zenon DEF Boot
  <2> QED BY <2>1, <2>2 DEF Before
<1> QED BY <1>1, <1>2, <1>3, <1>4, Zenon DEF Next, Dump

\* The first storage once its text file has been replaced.
LEMMA FirstHeld ==
    ASSUME Order[1] = "text", Known, ~Early
    PROVE  /\ ~Unlocked /\ dump.st \in SaveSteps /\ dump.i \in Nat /\ dump.i >= 1 /\ nstore >= 1
           /\ dump.i = 1 => dump.st = "rename"
           /\ InFile(1, Main(files, 1), map)
<1>1. ~Unlocked /\ dump.st \in SaveSteps /\ dump.st # "idle" /\ dump.i \in Nat
  BY OrderFacts DEF Early, Unlocked, SaveSteps, Known, Typing, Rest, Steps
<1>2. nstore >= 1 /\ dump.i >= 1
  BY <1>1, Zenon DEF Known, Work, Active, Progress
<1>3. dump.i = 1 => dump.st = "rename"
  BY <1>1, Zenon DEF Early, SaveSteps
<1>4. 1 \in Storages
  BY OrderFacts DEF Storages
<1>5. 1 < dump.i \/ (1 = dump.i /\ dump.st = "rename")
  BY <1>1, <1>2, <1>3
<1>6. InFile(1, Main(files, 1), map)
  BY <1>1, <1>2, <1>4, <1>5 DEF Known, Work, Progress
<1> QED BY <1>1, <1>2, <1>3, <1>6

\* With a text storage alone a reset leaves all settings of the last complete
\* save or all of those being saved, for any values that a text file gives back.
THEOREM TextSaveIsAtomic ==
    ASSUME TextFaithful, Order = <<"text">>
    PROVE  Spec => []SaveAtomic
<1>1. Order[1] = "text" /\ Len(Order) = 1 /\ Storages = {1}
  BY DEF Storages
<1>2. Init => Known /\ Before
  BY InitKnown, InitBefore, Zenon
<1>3. Known /\ Before /\ [Next]_vars => (Known /\ Before)'
  <2>1. Len(Order) <= 2
    BY <1>1
  <2> QED BY <1>1, <2>1, NextKnown, BeforeStep, Zenon
<1>4. Known /\ Before => SaveAtomic
  <2> SUFFICES ASSUME Known, Before PROVE SaveAtomic
    BY Zenon
  <2>1. CASE Early
    BY <2>1 DEF Before, SaveAtomic
  <2>2. CASE ~Early
    <3>1. ~Unlocked /\ InFile(1, Main(files, 1), map)
      BY <1>1, <2>2, FirstHeld, Zenon
    <3>2. \A i \in Storages : InFile(i, Main(files, i), map)
      BY <1>1, <3>1
    <3>3. Boot = Settings(map)
      BY <3>2, BootHeld, Zenon DEF Known, Typing
    <3> QED BY <3>1, <3>3 DEF SaveAtomic
  <2> QED BY <2>1, <2>2
<1> QED BY <1>2, <1>3, <1>4, PTL DEF Spec

\* While the binary storage, the second one, still has its old file, that file
\* has no setting that is not one of the last complete save.
Between == \/ dump.i = 1 /\ dump.st = "rename"
           \/ dump.i = 2 /\ dump.st = "open"
OldBin  == Between =>
             \A k \in Keys : LET b == Settings(LoadFrom(files, EmptyMap, 2))
                             IN  b[k] = None \/ b[k] = saved[k]

LEMMA BootTwo ==
    ASSUME Len(Order) = 2
    PROVE  Boot = Settings(LoadFrom(files, LoadFrom(files, EmptyMap, 1), 2))
<1> DEFINE f == Loads(files, EmptyMap, 2)
<1>1. f[0] = EmptyMap /\ \A i \in Nat : i < 2 => f[i + 1] = LoadFrom(files, f[i], i + 1)
  BY LoadsIs
<1> HIDE DEF f
<1>2. f[0 + 1] = LoadFrom(files, f[0], 0 + 1) /\ f[1 + 1] = LoadFrom(files, f[1], 1 + 1)
  BY <1>1
<1>3. f[2] = LoadFrom(files, LoadFrom(files, EmptyMap, 1), 2)
  BY <1>1, <1>2
<1> QED BY <1>3, Zenon DEF Boot, Load, f

\* What the second storage gives is laid over what the first one gave.
LEMMA LaidOver ==
    ASSUME Room, NEW fs, GoodFiles(fs), NEW i \in Storages, NEW m, Shape(m)
    PROVE  Lays(LoadFrom(fs, m, i), LoadFrom(fs, EmptyMap, i), m)
<1>1. CASE Main(fs, i).st # "intact"
  <2>1. LoadFrom(fs, m, i) = m /\ LoadFrom(fs, EmptyMap, i) = EmptyMap
    BY <1>1, LoadFromIs
  <2>2. Lays(m, EmptyMap, m)
    BY EmptyShape, Zenon DEF Lays
  <2> QED BY <2>1, <2>2
<1>2. CASE Main(fs, i).st = "intact"
  <2>1. PICK b : GoodMap(b) /\ InFile(i, Main(fs, i), b)
    BY <1>2, GoodRestored, Zenon DEF GoodFile, Main
  <2>2. PICK es : es = Contents(i, Main(fs, i))
    BY Zenon
  <2>3. Shape(b) /\ Holds(es, b)
    BY <2>1, <2>2, Zenon DEF GoodMap, InFile
  <2>4. LoadFrom(fs, m, i) = LoadBin(m, es)
    BY <1>2, <2>2, LoadFromIs
  <2>5. LoadFrom(fs, EmptyMap, i) = b
    BY <2>1, LoadFromHeld, Zenon DEF GoodMap
  <2>6. Lays(LoadBin(m, es), b, m)
    BY <2>3, Overlay, Zenon
  <2> QED BY <2>4, <2>5, <2>6
<1> QED BY <1>1, <1>2

LEMMA OldBinStep ==
    ASSUME Room, Order = <<"text", "bin">>, Known, Before, OldBin, [Next]_vars
    PROVE  OldBin'
<1>0. /\ Order[1] = "text" /\ Order[2] = "bin" /\ Len(Order) = 2
      /\ Storages = {1, 2} /\ 1 \in Storages /\ 2 \in Storages
  BY DEF Storages
<1> DEFINE Old == \A k \in Keys : LET b == Settings(LoadFrom(files, EmptyMap, 2))
                                  IN  b[k] = None \/ b[k] = saved[k]
<1>1. Early => Old
  <2> SUFFICES ASSUME Early PROVE Old
    BY Zenon
  <2> DEFINE m == LoadFrom(files, EmptyMap, 1)
             b == LoadFrom(files, EmptyMap, 2)
  <2>1. Boot = saved
    BY Zenon DEF Before
  <2>2. GoodMap(EmptyMap)
    BY EmptyShape, HoldsNothing, Zenon DEF GoodMap
  <2>3. Shape(m)
    BY <1>0, <2>2, LoadFromGood, Zenon DEF Known, Good, GoodMap
  <2> HIDE DEF m, b
  <2>4. Lays(LoadFrom(files, m, 2), b, m)
    BY <1>0, <2>3, LaidOver, Zenon DEF b, Known, Good
  <2>5. saved = Settings(LoadFrom(files, m, 2))
    BY <1>0, <2>1, BootTwo DEF m
  <2>6. \A k \in Keys : Settings(b)[k] = None \/ Settings(b)[k] = saved[k]
    BY <2>4, <2>5, Zenon DEF Lays
  <2> QED BY <2>6, Zenon DEF b
<1> HIDE DEF Old
<1>2. ASSUME Old, saved' = saved, LoadFrom(files', EmptyMap, 2) = LoadFrom(files, EmptyMap, 2)
      PROVE  OldBin'
  BY <1>2, Zenon DEF Old, OldBin
<1>3. Between => Old
  BY Zenon DEF OldBin, Old
<1>4. CASE \/ settings_setstorage \/ Change \/ TimerFires \/ DumpLock \/ UNCHANGED vars
           \/ \E t \in Threads : settings_notify(t) \/ WaitDone(t) \/ TakeSignal(t)
  <2>1. /\ saved' = saved /\ (dump' = dump \/ Unlocked)
        /\ LoadFrom(files', EmptyMap, 2) = LoadFrom(files, EmptyMap, 2)
    BY <1>0, <1>4, QuietStep, Zenon
  <2>2. Between' => Between \/ Early
    BY <2>1, Zenon DEF Between, Early, Unlocked
  <2>3. CASE Between'
    BY <1>1, <1>2, <1>3, <2>1, <2>2, <2>3, Zenon
  <2>4. CASE ~Between'
    BY <2>4, Zenon DEF OldBin
  <2> QED BY <2>3, <2>4
<1>5. CASE BinOpen \/ BinWrite \/ TextOpen \/ TextWrite \/ TextRemove \/ TextRename
  <2> SUFFICES ASSUME Between' PROVE OldBin'
    BY Zenon DEF OldBin
  <2>1. GoodMap(map) /\ dump.i \in Nat /\ dump.i >= 1 /\ FileStep
    BY <1>5, KnownStep, Zenon
  <2>2. /\ saved' = saved /\ \A j \in Storages : j # dump.i => Main(files', j) = Main(files, j)
        /\ \/ dump'.st \in {"write", "remove"}
           \/ dump.st = "remove" /\ dump'.st = "rename" /\ dump'.i = dump.i
           \/ dump.st = "rename" /\ dump'.st = "open" /\ dump'.i = dump.i + 1
           \/ Order[dump.i] = "bin" /\ dump'.st = "open" /\ dump'.i = dump.i + 1
    <3>1. /\ saved' = saved
          /\ \A j \in Storages : j # dump.i => Main(files', j) = Main(files, j)
      BY <1>5, KnownStep, Zenon
    <3> QED BY <2>1, <3>1, Zenon DEF FileStep
  <2>3. dump.i = 1 /\ dump.st \in {"remove", "rename"}
    BY <1>0, <2>1, <2>2 DEF Between
  <2>4. Old
    BY <1>1, <1>3, <2>3 DEF Early, Between
  <2>5. Main(files', 2) = Main(files, 2)
    BY <1>0, <2>2, <2>3
  <2>6. LoadFrom(files', EmptyMap, 2) = LoadFrom(files, EmptyMap, 2)
    BY <2>5, LoadMain
  <2> QED BY <1>2, <2>2, <2>4, <2>6
<1>6. CASE DumpEnd \/ Reset
  <2>1. dump' = NoDump
    BY <1>6, Zenon DEF DumpEnd, Reset
  <2>2. dump'.st = "idle"
    BY <2>1, Dumps, Zenon
  <2> QED BY <2>2, Zenon DEF OldBin, Between
<1> QED BY <1>4, <1>5, <1>6, Zenon DEF Next, Dump

\* With a text storage and a binary one behind it, and a map that has room for
\* all keys, a reset at any step of a save leaves of each setting the value of
\* the last complete save or the one being saved.
THEOREM CrashKeepsEachSetting ==
    ASSUME TextFaithful, Room, Order = <<"text", "bin">>
    PROVE  Spec => []CrashAtomic
<1>0. /\ Order[1] = "text" /\ Order[2] = "bin" /\ Len(Order) = 2 /\ Len(Order) <= 2
      /\ Storages = {1, 2} /\ 1 \in Storages /\ 2 \in Storages
  BY DEF Storages
<1>1. Init => Known /\ Before /\ OldBin
  <2>1. Init => OldBin
    BY Dumps DEF Init, OldBin, Between
  <2> QED BY <2>1, InitKnown, InitBefore, Zenon
<1>2. Known /\ Before /\ OldBin /\ [Next]_vars => (Known /\ Before /\ OldBin)'
  BY <1>0, NextKnown, BeforeStep, OldBinStep, Zenon
<1>3. Known /\ Before /\ OldBin => CrashAtomic
  <2> SUFFICES ASSUME Known, Before, OldBin, NEW k \in Keys
               PROVE  Boot[k] = saved[k] \/ (~Unlocked /\ Boot[k] = Settings(map)[k])
    BY Zenon DEF CrashAtomic
  <2>1. CASE Early
    BY <2>1, Zenon DEF Before
  <2>2. CASE ~Early
    <3>1. /\ ~Unlocked /\ dump.st \in SaveSteps /\ dump.i \in Nat /\ dump.i >= 1
          /\ dump.i = 1 => dump.st = "rename"
          /\ InFile(1, Main(files, 1), map)
      BY <1>0, <2>2, FirstHeld, Zenon
    <3>2. Shape(map)
      BY Zenon DEF Known, Typing
    <3>3. LoadFrom(files, EmptyMap, 1) = map
      BY <3>1, <3>2, LoadFromHeld, Zenon
    <3>4. Boot = Settings(LoadFrom(files, map, 2))
      BY <1>0, <3>3, BootTwo
    <3>5. CASE Between
      <4> DEFINE b == LoadFrom(files, EmptyMap, 2)
      <4>1. Settings(b)[k] = None \/ Settings(b)[k] = saved[k]
        BY <3>5, Zenon DEF OldBin
      <4>2. Lays(LoadFrom(files, map, 2), b, map)
        BY <1>0, <3>2, LaidOver, Zenon DEF Known, Good
      <4> HIDE DEF b
      <4> QED BY <3>1, <3>4, <4>1, <4>2 DEF Lays
    <3>6. CASE ~Between
      <4>1. LoadFrom(files, map, 2) = map
        <5>1. dump.i >= 2 /\ (dump.i = 2 => dump.st # "open")
          BY <3>1, <3>6 DEF Between
        <5>2. CASE dump.i = 2
          <6>1. dump.st = "write"
            BY <1>0, <3>1, <5>1, <5>2 DEF SaveSteps, Known, Work, Progress
          <6>2. files[2].main = Torn
            BY <1>0, <3>1, <5>2, <6>1 DEF Known, Work, Progress, File
          <6>3. Main(files, 2).st # "intact"
            BY <1>0, <6>2 DEF Main, Restored, Torn
          <6> QED BY <6>3, LoadFromIs, Zenon
        <5>3. CASE dump.i # 2
          <6>1. 2 < dump.i /\ nstore = 2
            BY <1>0, <3>1, <5>1, <5>3 DEF SaveSteps, Known, Work, Active, Configured
          <6>2. InFile(2, Main(files, 2), map)
            BY <1>0, <3>1, <6>1, Zenon DEF Known, Work, Progress
          <6> QED BY <3>2, <6>2, LoadFromHeld, Zenon
        <5> QED BY <5>2, <5>3, Zenon
      <4> QED BY <3>1, <3>4, <4>1
    <3> QED BY <3>5, <3>6
  <2> QED BY <2>1, <2>2, Zenon
<1> QED BY <1>1, <1>2, <1>3, PTL DEF Spec
=============================================================================
