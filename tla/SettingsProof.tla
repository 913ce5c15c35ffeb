---------------------------- MODULE SettingsProof ----------------------------
(***************************************************************************)
(* Proofs about Settings, for any keys, values, storages and threads.      *)
(***************************************************************************)
EXTENDS Settings, SettingsDataProof

\* The files of a text storage: a missing file has a backup, a file of a
\* configured storage is missing only within save_text, and before it is
\* removed the backup has been written.
TextFiles ==
    \A i \in Storages : Order[i] = "text" =>
      /\ files[i].main = Absent => files[i].bak # Absent
      /\ files[i].main = Absent /\ i <= nstore => dump.st = "rename" /\ dump.i = i
      /\ dump.i = i /\ dump.st \in {"remove", "rename"} => files[i].bak # Absent

Control == nstore \in 0 .. Len(Order) /\ NoForgottenSave

IInv == hash = map /\ Control /\ TextFiles

\* A present file differs from an absent one.
LEMMA Present == Torn # Absent /\ \A d : Intact(d) # Absent
BY Zenon DEF Torn, Intact, Absent

\* The three forms of dump.
LEMMA Dumps == /\ WaitDump # NoDump /\ StartDump # NoDump
               /\ WaitDump.st = "wait" /\ StartDump.st = "open" /\ NoDump.st = "idle"
BY Zenon DEF WaitDump, StartDump, NoDump

\* There are at least as many places for storages as storages.
LEMMA OrderFacts == /\ Len(Order) \in Nat /\ MaxStorages \in Nat
                    /\ Len(Order) >= 1 /\ Len(Order) <= MaxStorages
BY SettingsAssumption

\* Saving, or not, keeps a pending save from being forgotten.
LEMMA SaveControl ==
    ASSUME NoForgottenSave, Save \/ NoSave
    PROVE  NoForgottenSave'
<1>1. CASE Save
  BY Zenon, <1>1, Dumps DEF NoForgottenSave, Save
<1>2. CASE NoSave
  BY Zenon, <1>2 DEF NoForgottenSave, NoSave
<1> QED BY <1>1, <1>2, Zenon

\* Saving leaves dump_cache idle, waiting, or at its start.
LEMMA SaveDump ==
    ASSUME Unlocked, Save \/ NoSave
    PROVE  dump'.st \notin {"remove", "rename"}
BY Dumps, Zenon DEF Unlocked, Save, NoSave

\* The maps that loading the storages goes through.
LEMMA LoadsIs ==
    ASSUME NEW fs, NEW m, NEW n \in Nat
    PROVE  /\ Loads(fs, m, n)[0] = m
           /\ \A i \in Nat : i < n => Loads(fs, m, n)[i + 1] = LoadFrom(fs, Loads(fs, m, n)[i], i + 1)
<1> DEFINE Is(g, N) == g = [i \in 0 .. N |-> IF i = 0 THEN m ELSE LoadFrom(fs, g[i - 1], i)]
           S == {N \in Nat : \E g : Is(g, N)}
<1>1. 0 \in S
  <2> DEFINE g == [i \in 0 .. 0 |-> m]
  <2>1. Is(g, 0)
    OBVIOUS
  <2> HIDE DEF g, Is
  <2> QED BY <2>1, Zenon
<1>2. \A N \in Nat : N < n /\ N \in S => N + 1 \in S
  <2> HIDE DEF Is
  <2> SUFFICES ASSUME NEW N \in Nat, NEW g, Is(g, N) PROVE \E h : Is(h, N + 1)
    OBVIOUS
  <2> USE DEF Is
  <2> DEFINE h == [i \in 0 .. N + 1 |-> IF i <= N THEN g[i] ELSE LoadFrom(fs, g[N], N + 1)]
  <2>1. \A i \in 0 .. N : h[i] = g[i]
    OBVIOUS
  <2>2. \A i \in 0 .. N : g[i] = IF i = 0 THEN m ELSE LoadFrom(fs, g[i - 1], i)
    BY Zenon
  <2>3. \A i \in 0 .. N + 1 : h[i] = IF i = 0 THEN m ELSE LoadFrom(fs, h[i - 1], i)
    <3> SUFFICES ASSUME NEW i \in 0 .. N + 1
                 PROVE  h[i] = IF i = 0 THEN m ELSE LoadFrom(fs, h[i - 1], i)
      BY Zenon
    <3>1. CASE i = 0
      BY <3>1, <2>2
    <3>2. CASE i # 0 /\ i <= N
      <4>1. i \in 0 .. N /\ i - 1 \in 0 .. N
        BY <3>2
      <4> HIDE DEF h
      <4> QED BY <3>2, <4>1, <2>1, <2>2, Zenon
    <3>3. CASE i = N + 1
      <4>1. i - 1 = N /\ N \in 0 .. N /\ i # 0 /\ ~(i <= N)
        BY <3>3
      <4> QED BY <3>3, <4>1
    <3> QED BY <3>1, <3>2, <3>3
  <2>4. Is(h, N + 1)
    BY <2>3, Zenon
  <2> HIDE DEF h, Is
  <2> QED BY <2>4, Zenon
<1>3. n \in S
  <2> HIDE DEF S
  <2>1. \A i \in 0 .. n : i \in S
    BY <1>1, <1>2, UpTo, Zenon
  <2> QED BY <2>1
<1>4. \E g : Is(g, n)
  BY <1>3, Zenon
<1>5. Is(Loads(fs, m, n), n)
  BY <1>4, Zenon DEF Loads
<1> DEFINE f == Loads(fs, m, n)
<1>6. \A i \in 0 .. n : f[i] = IF i = 0 THEN m ELSE LoadFrom(fs, f[i - 1], i)
  BY <1>5, Zenon
<1> HIDE DEF f
<1>7. f[0] = m
  BY <1>6
<1>8. ASSUME NEW i \in Nat, i < n PROVE f[i + 1] = LoadFrom(fs, f[i], i + 1)
  <2>1. i + 1 \in 0 .. n /\ i + 1 # 0 /\ (i + 1) - 1 = i
    BY <1>8
  <2> QED BY <1>6, <2>1, Zenon
<1> QED BY <1>7, <1>8, Zenon DEF f

\* Nothing is loaded from storages that cannot be loaded.
LEMMA LoadNothing ==
    ASSUME NEW fs, NEW m, NEW n \in Nat, \A i \in 1 .. n : ~Loadable(fs, i)
    PROVE  Load(fs, m, n) = m
<1> DEFINE f == Loads(fs, m, n)
           S == {i \in Nat : f[i] = m}
<1>1. f[0] = m /\ \A i \in Nat : i < n => f[i + 1] = LoadFrom(fs, f[i], i + 1)
  BY LoadsIs
<1> HIDE DEF f
<1>2. 0 \in S
  BY <1>1, Zenon
<1>3. ASSUME NEW i \in Nat, i < n, i \in S PROVE i + 1 \in S
  <2>1. ~Loadable(fs, i + 1)
    BY <1>3
  <2>2. LoadFrom(fs, m, i + 1) = m
    BY <2>1, Zenon DEF LoadFrom
  <2> QED BY <1>1, <1>3, <2>2
<1> HIDE DEF S
<1>4. \A i \in 0 .. n : i \in S
  BY <1>2, <1>3, UpTo, Zenon
<1>5. n \in S
  BY <1>4
<1> QED BY <1>5, Zenon DEF S, f, Load

\* If all storages fail to load, as many as there can be, nothing is loaded.
LEMMA AllFailed ==
    ASSUME Configured, ~(Cardinality({i \in Storages : ~Loadable(files, i)}) < MaxStorages)
    PROVE  Load(files, map, nstore) = map
<1> DEFINE failed == {i \in Storages : ~Loadable(files, i)}
<1>0. 1 \in Int /\ Len(Order) \in Int /\ ~(1 > Len(Order))
      /\ Len(Order) - 1 + 1 = Len(Order)
  BY OrderFacts
<1>1. IsFiniteSet(Storages) /\ Cardinality(Storages) = Len(Order)
  BY Zenon, <1>0, FS_Interval DEF Storages
<1>2. failed \in SUBSET Storages
  BY Zenon
<1>3. /\ IsFiniteSet(failed) /\ Cardinality(failed) <= Cardinality(Storages)
      /\ Cardinality(Storages) = Cardinality(failed) => Storages = failed
  BY <1>1, <1>2, FS_Subset, Zenon
<1>4. Cardinality(failed) \in Nat
  BY <1>3, FS_CardinalityType, Zenon
<1>5. Storages = failed
  BY <1>1, <1>3, <1>4, OrderFacts
<1>6. nstore \in Nat /\ \A i \in 1 .. nstore : ~Loadable(files, i)
  BY <1>5, OrderFacts, Zenon DEF Configured, Storages
<1> QED BY <1>6, LoadNothing, Zenon

\* Steps that leave files, configuration and dump_cache alone.
LEMMA FilesSame ==
    ASSUME TextFiles, UNCHANGED <<files, nstore>>, dump' = dump
    PROVE  TextFiles'
BY Zenon DEF TextFiles

\* Calls that change no file.
LEMMA FilesSave ==
    ASSUME TextFiles, Unlocked, UNCHANGED <<files, nstore>>, Save \/ NoSave
    PROVE  TextFiles'
BY SaveDump, Zenon DEF TextFiles, Unlocked

\* Restoring a backup leaves a text storage with its file.
LEMMA RestoredFile ==
    ASSUME TextFiles, NEW i \in Storages, Order[i] = "text"
    PROVE  Restored(i, files[i]).main # Absent
BY Zenon DEF TextFiles, Restored

-----------------------------------------------------------------------------
(* One lemma for each action.                                              *)

\* Nothing is pending and all files exist.
LEMMA InitIInv == Init => IInv
<1> SUFFICES ASSUME Init PROVE IInv
  BY Zenon
<1>1. hash = map /\ Control
  BY OrderFacts DEF Init, Control, NoForgottenSave
<1>2. ASSUME NEW i \in Storages, Order[i] = "text"
      PROVE  files[i].main # Absent
  BY <1>2, Present, Zenon DEF Init
<1>3. dump.st = "idle"
  BY Dumps, Zenon DEF Init
<1> QED BY <1>1, <1>2, <1>3, Zenon DEF IInv, TextFiles

\* A storage is restored before it can be saved to.
LEMMA SetStorageIInv == ASSUME IInv, settings_setstorage PROVE IInv'
<1> DEFINE n == nstore + 1
<1>0. /\ Unlocked /\ n \in Storages /\ nstore' = n
      /\ files' = WithFile(n, Restored(n, files[n]))
      /\ Save \/ NoSave
      /\ hash' = map'
  BY OrderFacts DEF settings_setstorage, Configured, Storages, IInv, Control
<1>1. Control'
  BY <1>0, SaveControl DEF IInv, Control, Storages
<1>2. dump'.st \notin {"remove", "rename"}
  BY <1>0, SaveDump, Zenon
<1>3. ASSUME NEW i \in Storages, Order[i] = "text"
      PROVE  /\ files'[i].main = Absent => files'[i].bak # Absent
             /\ ~(files'[i].main = Absent /\ i <= nstore')
  <2>1. CASE i = n
    BY <1>0, <1>3, <2>1, RestoredFile DEF IInv, WithFile
  <2>2. CASE i # n
    BY <1>0, <1>3, <2>2 DEF IInv, TextFiles, WithFile, Storages, Unlocked, Control
  <2> QED BY <2>1, <2>2, Zenon
<1> QED BY <1>0, <1>1, <1>2, <1>3, Zenon DEF IInv, TextFiles

\* settings_sync loads nothing if it fails, and restores every backup.
LEMMA SyncIInv ==
    ASSUME IInv, NEW t, NEW wait_dump, settings_sync(t, wait_dump)
    PROVE  IInv'
<1>0. /\ Unlocked /\ Configured /\ nstore' = nstore
      /\ files' = [i \in Storages |-> Restored(i, files[i])]
      /\ map' = Load(files, map, nstore)
      /\ \/ hash' = map' /\ Save
         \/ hash' = hash /\ NoSave /\
              (map' = hash \/ ~(Cardinality({i \in Storages : ~Loadable(files, i)}) < MaxStorages))
  BY Zenon DEF settings_sync
<1>1. hash' = map'
  BY <1>0, AllFailed, Zenon DEF IInv
<1>2. Control'
  BY <1>0, SaveControl, Zenon DEF IInv, Control
<1>3. dump'.st \notin {"remove", "rename"}
  BY <1>0, SaveDump, Zenon
<1>4. \A i \in Storages : Order[i] = "text" => files'[i].main # Absent
  BY <1>0, RestoredFile, Zenon DEF IInv
<1> QED BY <1>1, <1>2, <1>3, <1>4, Zenon DEF IInv, TextFiles

\* The calls that touch no file.
LEMMA CallIInv ==
    ASSUME IInv, NEW t,
           \/ settings_clear(t) \/ settings_notify(t)
           \/ \E k, s : settings_create(t, k, s) \/ settings_set(t, k, s)
    PROVE  IInv'
<1> DEFINE Effect == /\ Unlocked /\ UNCHANGED <<files, nstore>>
                     /\ Save \/ NoSave
                     /\ hash' = map'
<1>1. ASSUME settings_clear(t) PROVE Effect
  BY <1>1, Zenon DEF settings_clear
<1>2. ASSUME settings_notify(t) PROVE Effect
  BY <1>2, Zenon DEF settings_notify, NoSave, IInv
<1>3. ASSUME NEW k, NEW s, settings_create(t, k, s)
      PROVE  Effect
  BY <1>3, Zenon DEF settings_create
<1>4. ASSUME NEW k, NEW s, settings_set(t, k, s)
      PROVE  Effect
  BY <1>4, Zenon DEF settings_set, IInv
<1>5. Effect
  <2> HIDE DEF Effect
  <2>1. CASE settings_clear(t) \/ settings_notify(t)
    BY <1>1, <1>2, <2>1, Zenon
  <2>2. CASE \E k, s : settings_create(t, k, s) \/ settings_set(t, k, s)
    <3>1. PICK k, s : settings_create(t, k, s) \/ settings_set(t, k, s)
      BY Zenon, <2>2
    <3> QED BY Zenon, <1>3, <1>4, <3>1
  <2> QED BY <2>1, <2>2, Zenon
<1>6. Control'
  BY <1>5, SaveControl, Zenon DEF IInv, Control
<1> QED BY <1>5, <1>6, FilesSave, Zenon DEF IInv

\* The ends of the polling loops and the handling of signals.
LEMMA ThreadIInv == ASSUME IInv, NEW t, WaitDone(t) \/ TakeSignal(t) PROVE IInv'
<1>0. UNCHANGED <<map, hash, wrpend, nstore, armed, dump, files>>
  BY Zenon DEF WaitDone, TakeSignal
<1> QED BY <1>0, FilesSame, Zenon DEF IInv, Control, NoForgottenSave

\* The timer hands the pending save to dump_cache.
LEMMA StartIInv == ASSUME IInv, TimerFires \/ DumpLock PROVE IInv'
<1>0. /\ UNCHANGED <<map, hash, wrpend, nstore, files>>
      /\ dump' \in {WaitDump, StartDump} /\ dump.st \in {"idle", "wait"}
  BY Dumps, Zenon DEF TimerFires, DumpLock
<1>1. Control'
  BY Zenon, <1>0, Dumps DEF IInv, Control, NoForgottenSave
<1>2. TextFiles'
  BY <1>0, Dumps, Zenon DEF IInv, TextFiles
<1> QED BY <1>0, <1>1, <1>2, Zenon DEF IInv

\* A step of save_bin leaves the text storages alone.
LEMMA BinIInv == ASSUME IInv, BinOpen \/ BinWrite PROVE IInv'
<1>0. /\ UNCHANGED <<map, hash, wrpend, nstore, armed>>
      /\ dump.i \in 1 .. nstore /\ Order[dump.i] = "bin"
      /\ dump.st \in {"open", "write"}
      /\ dump'.st \in {"open", "write"} /\ dump' # NoDump
      /\ \A j \in Storages : j # dump.i => files'[j] = files[j]
  BY Dumps DEF BinOpen, BinWrite, Saving, SaveStep, WithFile, NoDump
<1>1. Control'
  BY Zenon, <1>0 DEF IInv, Control, NoForgottenSave
<1>2. TextFiles'
  BY <1>0, Zenon DEF IInv, TextFiles
<1> QED BY <1>0, <1>1, <1>2, Zenon DEF IInv

\* The steps of save_text: the backup is complete before the file goes.
LEMMA TextIInv ==
    ASSUME IInv, TextOpen \/ TextWrite \/ TextRemove \/ TextRename
    PROVE  IInv'
<1>0. /\ UNCHANGED <<map, hash, wrpend, nstore, armed>>
      /\ dump.i \in 1 .. nstore /\ Order[dump.i] = "text" /\ nstore \in 0 .. Len(Order)
      /\ dump.st \in {"open", "write", "remove", "rename"}
      /\ dump'.st # "idle" /\ dump' # NoDump
      /\ \A j \in Storages : j # dump.i => files'[j] = files[j]
  BY Dumps DEF TextOpen, TextWrite, TextRemove, TextRename, Saving, SaveStep,
               WithFile, NoDump, IInv, Control
<1>1. Control'
  BY Zenon, <1>0 DEF IInv, Control, NoForgottenSave
<1>2. dump.i \in Storages /\ dump.i \in Int
  BY <1>0, OrderFacts DEF Storages
<1>3. /\ dump.st = "rename" \/ File # Absent
      /\ dump.st \in {"remove", "rename"} => Backup # Absent
  BY <1>0, <1>2 DEF IInv, TextFiles, File, Backup
<1>4. /\ files'[dump.i].main = Absent =>
            files'[dump.i].bak # Absent /\ dump'.st = "rename" /\ dump'.i = dump.i
      /\ dump'.st \in {"remove", "rename"} => dump'.i = dump.i /\ files'[dump.i].bak # Absent
  <2>1. CASE TextOpen
    BY <1>2, <1>3, <2>1, Present, Zenon DEF TextOpen, Saving, SaveStep, WithFile
  <2>2. CASE TextWrite
    BY <1>2, <1>3, <2>2, Present, Zenon DEF TextWrite, Saving, SaveStep, WithFile
  <2>3. CASE TextRemove
    BY <1>2, <1>3, <2>3, Zenon DEF TextRemove, Saving, SaveStep, WithFile
  <2>4. CASE TextRename
    BY <1>2, <1>3, <2>4, Zenon DEF TextRename, Saving, SaveStep, WithFile
  <2> QED BY <2>1, <2>2, <2>3, <2>4, Zenon
<1>5. TextFiles'
  BY <1>0, <1>4, Zenon DEF IInv, TextFiles
<1> QED BY <1>0, <1>1, <1>5, Zenon DEF IInv

\* The end of dump_cache and a reset.
LEMMA EndIInv == ASSUME IInv, DumpEnd \/ Reset PROVE IInv'
<1>0. /\ files' = files /\ dump' = NoDump /\ wrpend' = FALSE /\ hash' = map'
      /\ nstore' \in 0 .. Len(Order) /\ nstore' \in {0, nstore}
      /\ nstore' = nstore => dump.st = "open" \/ nstore = 0
  BY OrderFacts DEF DumpEnd, Reset, IInv, Control
<1>1. Control'
  BY <1>0, Zenon DEF Control, NoForgottenSave
<1>2. TextFiles'
  BY <1>0, Dumps, OrderFacts DEF IInv, TextFiles, Storages
<1> QED BY <1>0, <1>1, <1>2, Zenon DEF IInv

\* Every step keeps the inductive invariant.
LEMMA NextIInv == IInv /\ [Next]_vars => IInv'
<1> SUFFICES ASSUME IInv, [Next]_vars PROVE IInv'
  BY Zenon
<1>1. CASE settings_setstorage
  BY <1>1, SetStorageIInv, Zenon
<1>2. CASE Change
  BY <1>2, SyncIInv, CallIInv, Zenon DEF Change
<1>3. CASE \E t \in Threads : settings_notify(t) \/ WaitDone(t) \/ TakeSignal(t)
  BY <1>3, CallIInv, ThreadIInv, Zenon
<1>4. CASE TimerFires \/ Dump
  BY <1>4, StartIInv, BinIInv, TextIInv, EndIInv DEF Dump
<1>5. CASE Reset
  BY <1>5, EndIInv, Zenon
<1>6. CASE UNCHANGED vars
  BY <1>6, FilesSame, Zenon DEF vars, IInv, Control, NoForgottenSave
<1> QED BY <1>1, <1>2, <1>3, <1>4, <1>5, <1>6 DEF Next

-----------------------------------------------------------------------------

\* The inductive invariant holds throughout.
THEOREM Invariance == Spec => []IInv
BY InitIInv, NextIInv, PTL DEF Spec

\* The stored hash is that of the map whenever the mutex is free: every call
\* that changes the map updates it, and a settings_sync that fails has loaded
\* nothing.
THEOREM HashIsCurrent == Spec => []HashCurrent
<1>1. IInv => HashCurrent
  BY Zenon DEF IInv, HashCurrent
<1> QED BY <1>1, Invariance, PTL

\* A pending save always has a timer or dump_cache behind it.
THEOREM SaveIsComing == Spec => []NoForgottenSave
<1>1. IInv => NoForgottenSave
  BY Zenon DEF IInv, Control
<1> QED BY <1>1, Invariance, PTL

\* No reset within save_text, and no save after it, loses both the file and
\* its backup.
THEOREM TextIsKept == Spec => []TextKept
<1>1. IInv => TextKept
  BY Zenon DEF IInv, TextFiles, TextKept
<1> QED BY <1>1, Invariance, PTL

-----------------------------------------------------------------------------
(* Types, and the shape of the map.                                        *)

FileOf(i) == [st   : {"absent", "torn", "intact"},
              data : IF Order[i] = "bin" THEN Seq(Entries) ELSE Seq(Written)]
FilesOK(fs) == \A i \in Storages : fs[i].main \in FileOf(i) /\ fs[i].bak \in FileOf(i)

Rest ==
    /\ wrpend \in BOOLEAN /\ armed \in BOOLEAN
    /\ notify \in Seq(Threads) /\ Len(notify) <= MaxSignals
    /\ waiting \subseteq Threads /\ sig \subseteq Threads
    /\ dump.st \in Steps /\ dump.i \in 0 .. Len(Order) + 1

Typing == Shape(map) /\ FilesOK(files) /\ Rest

\* The kinds of files.
LEMMA FileKinds ==
    ASSUME NEW i \in Storages
    PROVE  /\ Absent \in FileOf(i) /\ Torn \in FileOf(i) /\ Intact(<< >>) \in FileOf(i)
           /\ Absent.st = "absent" /\ Torn.st = "torn"
           /\ \A m : Shape(m) => IF Order[i] = "bin" THEN Intact(Saved(m)) \in FileOf(i)
                                                     ELSE Intact(Lines(m)) \in FileOf(i)
<1>1. << >> \in Seq(Entries) /\ << >> \in Seq(Written)
  OBVIOUS
<1>2. ASSUME NEW m, Shape(m)
      PROVE  IF Order[i] = "bin" THEN Intact(Saved(m)) \in FileOf(i)
                                 ELSE Intact(Lines(m)) \in FileOf(i)
  <2>1. Saved(m) \in Seq(Entries) /\ Lines(m) \in Seq(Written)
    BY <1>2, SavedHolds, LinesHold, Zenon
  <2> QED BY <2>1, Zenon DEF Intact, FileOf
<1>3. /\ Absent \in FileOf(i) /\ Torn \in FileOf(i) /\ Intact(<< >>) \in FileOf(i)
      /\ Absent.st = "absent" /\ Torn.st = "torn"
  BY <1>1, Zenon DEF Absent, Torn, Intact, FileOf
<1> QED BY <1>2, <1>3, Zenon

LEMMA RestoredOK ==
    ASSUME NEW fs, FilesOK(fs), NEW i \in Storages
    PROVE  Restored(i, fs[i]).main \in FileOf(i) /\ Restored(i, fs[i]).bak \in FileOf(i)
<1>1. fs[i].main \in FileOf(i) /\ fs[i].bak \in FileOf(i) /\ Absent \in FileOf(i)
  BY FileKinds, Zenon DEF FilesOK
<1> QED BY <1>1, Zenon DEF Restored

\* Loading keeps the shape of the map.
LEMMA LoadFromShape ==
    ASSUME NEW fs, FilesOK(fs), NEW m, Shape(m), NEW i \in Storages
    PROVE  Shape(LoadFrom(fs, m, i))
<1> DEFINE d == Restored(i, fs[i]).main.data
<1>1. d \in IF Order[i] = "bin" THEN Seq(Entries) ELSE Seq(Written)
  BY RestoredOK, Zenon DEF FileOf
<1> HIDE DEF d
<1>2. CASE ~Loadable(fs, i)
  BY <1>2, Zenon DEF LoadFrom
<1>3. CASE Loadable(fs, i) /\ Order[i] = "bin"
  <2>1. IsFile(d)
    BY <1>1, <1>3 DEF IsFile
  <2>2. LoadFrom(fs, m, i) = LoadBin(m, d)
    BY <1>3, Zenon DEF LoadFrom, d
  <2> QED BY <2>1, <2>2, LoadBinShape, Zenon
<1>4. CASE Loadable(fs, i) /\ Order[i] # "bin"
  <2>1. d \in Seq(Written)
    BY <1>1, <1>4, Zenon
  <2>2. LoadFrom(fs, m, i) = LoadText(m, d)
    BY <1>4, Zenon DEF LoadFrom, d
  <2> QED BY <2>1, <2>2, LoadTextShape, Zenon
<1> QED BY <1>2, <1>3, <1>4, Zenon

LEMMA LoadShape ==
    ASSUME NEW fs, FilesOK(fs), NEW m, Shape(m), NEW n \in 0 .. Len(Order)
    PROVE  Shape(Load(fs, m, n))
<1> DEFINE f == Loads(fs, m, n)
           S == {i \in Nat : Shape(f[i])}
<1>0. n \in Nat
  BY OrderFacts
<1>1. f[0] = m /\ \A i \in Nat : i < n => f[i + 1] = LoadFrom(fs, f[i], i + 1)
  BY <1>0, LoadsIs
<1> HIDE DEF f
<1>2. 0 \in S
  BY <1>1, Zenon
<1>3. ASSUME NEW i \in Nat, i < n, i \in S PROVE i + 1 \in S
  <2>1. i + 1 \in Storages
    BY <1>0, <1>3, OrderFacts DEF Storages
  <2>2. Shape(f[i])
    BY <1>3, Zenon
  <2>3. Shape(LoadFrom(fs, f[i], i + 1))
    BY <2>1, <2>2, LoadFromShape, Zenon
  <2> QED BY <1>1, <1>3, <2>3
<1> HIDE DEF S
<1>4. \A i \in 0 .. n : i \in S
  BY <1>0, <1>2, <1>3, UpTo, Zenon
<1>5. n \in S
  BY <1>0, <1>4
<1> QED BY <1>5, Zenon DEF S, f, Load

\* What a setter accepts is a setting.
LEMMA SetValOK ==
    ASSUME NEW s \in Inputs, NEW old, SetRet(old, s) = "OK"
    PROVE  SetVal(s) \in Setting /\ s.val \notin BadStrings
<1>1. s \in Input /\ s.val \notin BadStrings
  BY SettingsAssumption, Zenon DEF SetRet
<1>2. ASSUME s.type = "BOOL" PROVE SetVal(s) \in Setting
  <2>1. s = [type |-> "BOOL", val |-> s.val]
    BY <1>1, <1>2, Zenon DEF Input
  <2>2. SetVal(s) = [type |-> "BOOL", val |-> Truth(s.val)]
    BY <1>2, <2>1, Zenon DEF SetVal
  <2>3. Truth(s.val) \in {0, 1}
    BY Zenon DEF Truth
  <2> QED BY <2>2, <2>3 DEF Setting
<1>3. ASSUME s.type # "BOOL" PROVE SetVal(s) \in Setting
  <2>1. SetVal(s) = s
    BY <1>3, Zenon DEF SetVal
  <2> QED BY <1>1, <1>3, <2>1, Zenon DEF Input, Setting
<1> QED BY <1>1, <1>2, <1>3, Zenon

-----------------------------------------------------------------------------

\* settings_create and settings_set store one entry where the search for its
\* key stops.
LEMMA StoredOne ==
    ASSUME NEW t, NEW k \in Keys, NEW s \in Inputs,
           settings_create(t, k, s) \/ settings_set(t, k, s)
    PROVE  /\ SetVal(s) \in Setting /\ s.val \notin BadStrings /\ Stops(map, k) # {}
           /\ map' = [map EXCEPT ![Slot(map, k)] = Entry(k, SetVal(s))]
           /\ asked' = [asked EXCEPT ![k] = SetVal(s)]
           /\ settings_create(t, k, s) => map[Slot(map, k)].key # k
           /\ settings_set(t, k, s) => Found(map, k)
<1>1. CASE settings_create(t, k, s)
  <2>1. /\ CreateMap(k, s) # map /\ map' = CreateMap(k, s)
        /\ asked' = [asked EXCEPT ![k] = SetVal(s)]
    BY <1>1, Zenon DEF settings_create
  <2>2. /\ Stops(map, k) # {} /\ map[Slot(map, k)].key # k /\ SetRet(s.type, s) = "OK"
        /\ map' = [map EXCEPT ![Slot(map, k)] = Entry(k, SetVal(s))]
    BY <2>1, Zenon DEF CreateMap, CreateRet
  <2>3. SetVal(s) \in Setting /\ s.val \notin BadStrings
    BY <2>2, SetValOK, Zenon
  <2>4. settings_set(t, k, s) => Found(map, k)
    BY Zenon DEF settings_set
  <2> QED BY <2>1, <2>2, <2>3, <2>4, Zenon
<1>2. CASE settings_set(t, k, s)
  <2>1. /\ Found(map, k) /\ SetRet(map[Slot(map, k)].type, s) = "OK"
        /\ map' = [map EXCEPT ![Slot(map, k)] = Entry(k, SetVal(s))]
        /\ asked' = [asked EXCEPT ![k] = SetVal(s)]
    BY <1>2, Zenon DEF settings_set
  <2>2. SetVal(s) \in Setting /\ s.val \notin BadStrings
    BY <2>1, SetValOK, Zenon
  <2>3. Stops(map, k) # {}
    BY <2>1, Zenon DEF Found
  <2>4. settings_create(t, k, s) => map[Slot(map, k)].key # k
    BY <2>3, Zenon DEF settings_create, CreateMap
  <2> QED BY <2>1, <2>2, <2>3, <2>4, Zenon
<1> QED BY <1>1, <1>2, Zenon

\* What that makes of the settings.
LEMMA StoredSetting ==
    ASSUME Shape(map), NEW t, NEW k \in Keys, NEW s \in Inputs,
           settings_create(t, k, s) \/ settings_set(t, k, s)
    PROVE  /\ Shape(map') /\ Settings(map')[k] = SetVal(s) /\ SetVal(s) \in Setting
           /\ map' = LoadEntry(map, Entry(k, SetVal(s))) /\ s.val \notin BadStrings
           /\ \A x \in Keys : x # k => Settings(map')[x] = Settings(map)[x]
<1>1. /\ SetVal(s) \in Setting /\ s.val \notin BadStrings /\ Stops(map, k) # {}
      /\ map' = [map EXCEPT ![Slot(map, k)] = Entry(k, SetVal(s))]
  BY StoredOne, Zenon
<1>2. Entry(k, SetVal(s)) \in Entries /\ Entry(k, SetVal(s)).key = k
      /\ Value(Entry(k, SetVal(s))) = SetVal(s)
  BY <1>1, EntryOf, Zenon
<1>3. PICK e \in Entries : e = Entry(k, SetVal(s))
  BY <1>2, Zenon
<1>4. e.key = k /\ Value(e) = SetVal(s) /\ Stops(map, e.key) # {}
  BY <1>1, <1>2, <1>3, Zenon
<1>5. LoadEntry(map, e) = [map EXCEPT ![Slot(map, e.key)] = e]
  BY <1>4, LoadEntryIs, Zenon
<1>6. map' = LoadEntry(map, e)
  BY <1>1, <1>3, <1>4, <1>5, Zenon
<1>7. /\ Shape(LoadEntry(map, e))
      /\ Settings(LoadEntry(map, e))[e.key] = Value(e)
      /\ \A x \in Keys : x # e.key => Settings(LoadEntry(map, e))[x] = Settings(map)[x]
  BY <1>4, LoadEntryIs, Zenon
<1>8. map' = LoadEntry(map, Entry(k, SetVal(s)))
  BY <1>3, <1>6, Zenon
<1> QED BY <1>1, <1>4, <1>6, <1>7, <1>8, Zenon

\* The steps that leave the map alone.
LEMMA MapKept ==
    ASSUME \/ TimerFires \/ Dump \/ UNCHANGED vars
           \/ \E t \in Threads : settings_notify(t) \/ WaitDone(t) \/ TakeSignal(t)
    PROVE  UNCHANGED <<map, hash, nstore, asked>>
<1>1. CASE TimerFires \/ UNCHANGED vars
  BY <1>1, Zenon DEF TimerFires, vars
<1>2. CASE DumpLock \/ DumpEnd
  BY <1>2, Zenon DEF DumpLock, DumpEnd
<1>3. CASE BinOpen \/ BinWrite
  BY <1>3, Zenon DEF BinOpen, BinWrite, SaveStep
<1>4. CASE TextOpen \/ TextWrite \/ TextRemove \/ TextRename
  BY <1>4, Zenon DEF TextOpen, TextWrite, TextRemove, TextRename, SaveStep
<1>5. CASE \E t \in Threads : settings_notify(t) \/ WaitDone(t) \/ TakeSignal(t)
  BY <1>5, Zenon DEF settings_notify, WaitDone, TakeSignal
<1> QED BY <1>1, <1>2, <1>3, <1>4, <1>5, Zenon DEF Dump

LEMMA ShapeStep ==
    ASSUME IInv, Shape(map), FilesOK(files), [Next]_vars
    PROVE  Shape(map')
<1>0. nstore \in 0 .. Len(Order)
  BY Zenon DEF IInv, Control
<1>1. CASE settings_setstorage
  <2>1. nstore + 1 \in Storages /\ map' = LoadFrom(files, map, nstore + 1)
    BY <1>0, <1>1, OrderFacts DEF settings_setstorage, Configured, Storages
  <2> QED BY <2>1, LoadFromShape, Zenon
<1>2. CASE Change
  <2>1. ASSUME NEW t \in Threads, settings_clear(t) PROVE Shape(map')
    BY <2>1, EmptyShape, Zenon DEF settings_clear
  <2>2. ASSUME NEW t \in Threads, NEW k \in Keys, NEW s \in Inputs,
               settings_create(t, k, s) \/ settings_set(t, k, s)
        PROVE  Shape(map')
    BY <2>2, StoredSetting, Zenon
  <2>3. ASSUME NEW t \in Threads, NEW w \in BOOLEAN, settings_sync(t, w)
        PROVE  Shape(map')
    <3>1. map' = Load(files, map, nstore)
      BY <2>3, Zenon DEF settings_sync
    <3> QED BY <1>0, <3>1, LoadShape, Zenon
  <2> QED BY <1>2, <2>1, <2>2, <2>3, Zenon DEF Change
<1>3. CASE Reset
  BY <1>3, EmptyShape, Zenon DEF Reset
<1>4. CASE \/ TimerFires \/ Dump \/ UNCHANGED vars
           \/ \E t \in Threads : settings_notify(t) \/ WaitDone(t) \/ TakeSignal(t)
  <2>1. map' = map
    BY <1>4, MapKept, Zenon
  <2> QED BY <2>1, Zenon
<1> QED BY <1>1, <1>2, <1>3, <1>4, Zenon DEF Next

\* Where a signal is sent and a save begun the types are kept.
LEMMA EmptyRest ==
    /\ << >> \in Seq(Threads) /\ Len(<< >>) <= MaxSignals
    /\ \A d : d = NoDump \/ d = WaitDump \/ d = StartDump =>
         d.st \in Steps /\ d.i \in 0 .. Len(Order) + 1
<1>1. << >> \in Seq(Threads) /\ Len(<< >>) <= MaxSignals
  BY SettingsAssumption
<1>2. /\ NoDump.st \in Steps /\ NoDump.i \in 0 .. Len(Order) + 1
      /\ WaitDump.st \in Steps /\ WaitDump.i \in 0 .. Len(Order) + 1
      /\ StartDump.st \in Steps /\ StartDump.i \in 0 .. Len(Order) + 1
  BY OrderFacts DEF NoDump, WaitDump, StartDump, Steps
<1> QED BY <1>1, <1>2, Zenon

LEMMA SaveOK ==
    ASSUME Rest, Save \/ NoSave
    PROVE  /\ dump'.st \in Steps /\ dump'.i \in 0 .. Len(Order) + 1
           /\ wrpend' \in BOOLEAN /\ armed' \in BOOLEAN
<1>1. StartDump.st \in Steps /\ StartDump.i \in 0 .. Len(Order) + 1
  BY OrderFacts DEF StartDump, Steps
<1>2. dump' = dump \/ dump' = StartDump
  BY Zenon DEF Save, NoSave
<1>3. wrpend' \in BOOLEAN /\ armed' \in BOOLEAN
  BY Zenon DEF Rest, Save, NoSave
<1> QED BY <1>1, <1>2, <1>3, Zenon DEF Rest

LEMMA RestSave ==
    ASSUME Rest, NEW t \in Threads, Save \/ NoSave, waiting' \subseteq Threads,
           sig' \subseteq sig \cup Range(notify),
           notify' = notify \/ (Len(notify) < MaxSignals /\ notify' = Append(notify, t))
    PROVE  Rest'
<1>1. notify' \in Seq(Threads) /\ Len(notify') <= MaxSignals
  <2>1. notify \in Seq(Threads) /\ Len(notify) <= MaxSignals /\ MaxSignals \in Nat
    BY SettingsAssumption, Zenon DEF Rest
  <2> QED BY <2>1
<1>2. sig' \subseteq Threads
  BY DEF Rest, Range
<1>3. /\ wrpend' \in BOOLEAN /\ armed' \in BOOLEAN
      /\ dump'.st \in Steps /\ dump'.i \in 0 .. Len(Order) + 1
  BY SaveOK, Zenon
<1> QED BY <1>1, <1>2, <1>3, Zenon DEF Rest

\* A step of dump_cache that writes to one configured storage.
SaveSteps == {"open", "write", "remove", "rename"}

Writes(main, bak, st) ==
    /\ SaveStep(main, bak, st) /\ st \in SaveSteps
    /\ \/ main \in {File, Backup, Absent, Torn}
       \/ main = Intact(Saved(map)) /\ Order[dump.i] = "bin"
    /\ \/ bak \in {Backup, Absent, Intact(<< >>)}
       \/ bak = Intact(Lines(map)) /\ Order[dump.i] = "text"

LEMMA SaveStepWrites ==
    ASSUME BinOpen \/ BinWrite \/ TextOpen \/ TextWrite \/ TextRemove \/ TextRename
    PROVE  /\ dump.st \in SaveSteps /\ dump.i \in 1 .. nstore
           /\ \E main, bak, st : Writes(main, bak, st)
<1> DEFINE At == dump.st \in SaveSteps /\ dump.i \in 1 .. nstore
<1>1. CASE BinOpen
  <2>1. At /\ (Writes(File, Backup, "open") \/ Writes(Torn, Backup, "write"))
    BY <1>1, Zenon DEF BinOpen, Saving, Writes, SaveSteps
  <2> QED BY <2>1, Zenon
<1>2. CASE BinWrite
  <2>1. At /\ Writes(Intact(Saved(map)), Backup, "open")
    BY <1>2, Zenon DEF BinWrite, Saving, Writes, SaveSteps
  <2> QED BY <2>1, Zenon
<1>3. CASE TextOpen
  <2>1. At /\ Writes(File, Intact(<< >>), "write")
    BY <1>3, Zenon DEF TextOpen, Saving, Writes, SaveSteps
  <2> QED BY <2>1, Zenon
<1>4. CASE TextWrite
  <2>1. At /\ Writes(File, Intact(Lines(map)), "remove")
    BY <1>4, Zenon DEF TextWrite, Saving, Writes, SaveSteps
  <2> QED BY <2>1, Zenon
<1>5. CASE TextRemove
  <2>1. At /\ Writes(Absent, Backup, "rename")
    BY <1>5, Zenon DEF TextRemove, Saving, Writes, SaveSteps
  <2> QED BY <2>1, Zenon
<1>6. CASE TextRename
  <2>1. At /\ Writes(Backup, Absent, "open")
    BY <1>6, Zenon DEF TextRename, Saving, Writes, SaveSteps
  <2> QED BY <2>1, Zenon
<1> QED BY <1>1, <1>2, <1>3, <1>4, <1>5, <1>6, Zenon

LEMMA SaveStepOK ==
    ASSUME IInv, Typing,
           BinOpen \/ BinWrite \/ TextOpen \/ TextWrite \/ TextRemove \/ TextRename
    PROVE  FilesOK(files') /\ Rest'
<1>1. dump.i \in Storages /\ dump.i \in Nat /\ dump.i <= Len(Order)
  BY SaveStepWrites, OrderFacts DEF IInv, Control, Storages
<1>2. PICK main, bak, st : Writes(main, bak, st)
  BY SaveStepWrites, Zenon
<1>3. /\ files' = WithFile(dump.i, [main |-> main, bak |-> bak])
      /\ dump' = [st |-> st, i |-> IF st = "open" THEN dump.i + 1 ELSE dump.i]
      /\ UNCHANGED <<wrpend, armed, notify, waiting, sig>>
  BY <1>2, Zenon DEF Writes, SaveStep
<1>4. File \in FileOf(dump.i) /\ Backup \in FileOf(dump.i)
  BY <1>1, Zenon DEF Typing, FilesOK, File, Backup
<1>5. main \in FileOf(dump.i) /\ bak \in FileOf(dump.i)
  <2>1. /\ Absent \in FileOf(dump.i) /\ Torn \in FileOf(dump.i) /\ Intact(<< >>) \in FileOf(dump.i)
        /\ IF Order[dump.i] = "bin" THEN Intact(Saved(map)) \in FileOf(dump.i)
                                    ELSE Intact(Lines(map)) \in FileOf(dump.i)
    BY <1>1, FileKinds, Zenon DEF Typing
  <2> HIDE DEF FileOf
  <2> QED BY <1>2, <1>4, <2>1 DEF Writes
<1>6. FilesOK(files')
  BY <1>1, <1>3, <1>5, Zenon DEF FilesOK, WithFile, Typing
<1>7. dump'.st = st /\ dump'.i \in {dump.i, dump.i + 1}
  BY <1>3, Zenon
<1>8. dump'.st \in Steps /\ dump'.i \in 0 .. Len(Order) + 1
  BY <1>1, <1>2, <1>7, OrderFacts DEF Steps, Writes, SaveSteps
<1> QED BY <1>3, <1>6, <1>8, Zenon DEF Typing, Rest

\* The other steps.
LEMMA CallOK ==
    ASSUME IInv, Typing, NEW t \in Threads,
           \/ settings_clear(t) \/ settings_notify(t) \/ WaitDone(t) \/ TakeSignal(t)
           \/ \E k, s : settings_create(t, k, s) \/ settings_set(t, k, s)
    PROVE  FilesOK(files') /\ Rest'
<1> DEFINE Effect ==
      /\ UNCHANGED files
      /\ Save \/ NoSave
      /\ waiting' = waiting \/ waiting' = waiting \cup {t} \/ waiting' = waiting \ {t}
      /\ sig' = sig \/ sig' = sig \ {t} \/ sig' = sig \cup Range(notify)
      /\ notify' = notify \/ (Len(notify) < MaxSignals /\ notify' = Append(notify, t))
<1>1. ASSUME settings_clear(t) PROVE Effect
  BY Zenon, <1>1 DEF settings_clear
<1>2. ASSUME settings_notify(t) PROVE Effect
  BY Zenon, <1>2 DEF settings_notify, NoSave
<1>3. ASSUME WaitDone(t) \/ TakeSignal(t) PROVE Effect
  BY Zenon, <1>3 DEF WaitDone, TakeSignal, NoSave
<1>4. ASSUME NEW k, NEW s, settings_create(t, k, s)
      PROVE  Effect
  BY Zenon, <1>4 DEF settings_create
<1>5. ASSUME NEW k, NEW s, settings_set(t, k, s)
      PROVE  Effect
  BY Zenon, <1>5 DEF settings_set, SigNotify
<1>6. Effect
  <2> HIDE DEF Effect
  <2> QED BY <1>1, <1>2, <1>3, <1>4, <1>5, Zenon
<1>7. FilesOK(files')
  BY <1>6, Zenon DEF Typing
<1>8. waiting' \subseteq Threads /\ sig' \subseteq sig \cup Range(notify)
  BY <1>6, Zenon DEF Typing, Rest
<1> QED BY <1>6, <1>7, <1>8, RestSave, Zenon DEF Typing

LEMMA SetStorageOK ==
    ASSUME IInv, Typing, settings_setstorage
    PROVE  FilesOK(files') /\ Rest'
<1>1. /\ nstore + 1 \in Storages
      /\ files' = WithFile(nstore + 1, Restored(nstore + 1, files[nstore + 1]))
      /\ Save \/ NoSave
      /\ UNCHANGED <<notify, waiting>>
      /\ sig' = sig \/ sig' = sig \cup Range(notify)
  BY OrderFacts DEF settings_setstorage, Configured, Storages, IInv, Control, SigNotify
<1>2. \A i \in Storages : files'[i] = files[i] \/ files'[i] = Restored(i, files[i])
  BY <1>1, Zenon DEF WithFile
<1>3. FilesOK(files')
  <2>1. \A i \in Storages : /\ files[i].main \in FileOf(i) /\ files[i].bak \in FileOf(i)
                            /\ Restored(i, files[i]).main \in FileOf(i)
                            /\ Restored(i, files[i]).bak \in FileOf(i)
    BY RestoredOK, Zenon DEF Typing, FilesOK
  <2> QED BY <1>2, <2>1, Zenon DEF FilesOK
<1>4. dump'.st \in Steps /\ dump'.i \in 0 .. Len(Order) + 1 /\ wrpend' \in BOOLEAN /\ armed' \in BOOLEAN
  BY <1>1, SaveOK, Zenon DEF Typing
<1>5. waiting' \subseteq Threads /\ sig' \subseteq Threads
  BY <1>1 DEF Typing, Rest, Range
<1> QED BY <1>1, <1>3, <1>4, <1>5, Zenon DEF Typing, Rest

LEMMA SyncOK ==
    ASSUME IInv, Typing, NEW t \in Threads, NEW wait_dump, settings_sync(t, wait_dump)
    PROVE  FilesOK(files') /\ Rest'
<1>1. /\ files' = [i \in Storages |-> Restored(i, files[i])]
      /\ Save \/ NoSave
      /\ notify' = notify
      /\ waiting' = waiting \/ waiting' = waiting \cup {t}
      /\ sig' = sig \/ sig' = sig \cup Range(notify)
  BY Zenon DEF settings_sync, SigNotify
<1>2. FilesOK(files')
  BY <1>1, RestoredOK, Zenon DEF Typing, FilesOK
<1>3. waiting' \subseteq Threads /\ sig' \subseteq sig \cup Range(notify)
  BY <1>1, Zenon DEF Typing, Rest
<1> QED BY <1>1, <1>2, <1>3, RestSave, Zenon DEF Typing

LEMMA InitTyping == Init => Typing
<1> SUFFICES ASSUME Init PROVE Typing
  BY Zenon
<1>1. Shape(map)
  BY EmptyShape, Zenon DEF Init
<1>2. FilesOK(files)
  <2>1. ASSUME NEW i \in Storages
        PROVE  /\ files[i].main = Torn \/ files[i].main = Intact(<< >>)
               /\ files[i].bak = Absent
    BY <2>1, Zenon DEF Init
  <2> QED BY <2>1, FileKinds, Zenon DEF FilesOK
<1>3. Rest
  BY EmptyRest, Zenon DEF Init, Rest
<1> QED BY <1>1, <1>2, <1>3, Zenon DEF Typing

LEMMA NextTyping == IInv /\ Typing /\ [Next]_vars => Typing'
<1> SUFFICES ASSUME IInv, Typing, [Next]_vars PROVE FilesOK(files') /\ Rest'
  BY ShapeStep, Zenon DEF Typing
<1>1. CASE settings_setstorage
  BY <1>1, SetStorageOK, Zenon
<1>2. CASE Change
  BY <1>2, SyncOK, CallOK, Zenon DEF Change
<1>3. CASE \E t \in Threads : settings_notify(t) \/ WaitDone(t) \/ TakeSignal(t)
  BY <1>3, CallOK, Zenon
<1>4. CASE BinOpen \/ BinWrite \/ TextOpen \/ TextWrite \/ TextRemove \/ TextRename
  BY <1>4, SaveStepOK, Zenon
<1>5. CASE TimerFires \/ DumpLock \/ DumpEnd
  <2>1. /\ UNCHANGED <<files, notify, waiting, sig>>
        /\ wrpend' = wrpend \/ wrpend' = FALSE
        /\ armed' = armed \/ armed' = FALSE
        /\ dump' = NoDump \/ dump' = WaitDump \/ dump' = StartDump
    BY <1>5, Zenon DEF TimerFires, DumpLock, DumpEnd
  <2>2. dump'.st \in Steps /\ dump'.i \in 0 .. Len(Order) + 1
    BY <2>1, EmptyRest, Zenon
  <2> QED BY <2>1, <2>2, Zenon DEF Typing, Rest
<1>6. CASE Reset
  <2>1. files' = files
    BY <1>6, Zenon DEF Reset
  <2>2. Rest'
    BY <1>6, EmptyRest, Zenon DEF Reset, Rest
  <2> QED BY <2>1, <2>2, Zenon DEF Typing
<1>7. CASE UNCHANGED vars
  BY <1>7, Zenon DEF vars, Typing, Rest
<1> QED BY <1>1, <1>2, <1>3, <1>4, <1>5, <1>6, <1>7, Zenon DEF Next, Dump

\* Every variable keeps its type, the files hold what save_bin and save_text
\* write, and the map keeps its shape: each key once, before the first empty
\* entry, whatever is loaded, stored, cleared and lost.
THEOREM TypeCorrect == Spec => []TypeOK
<1>1. IInv /\ Typing => TypeOK
  <2> SUFFICES ASSUME IInv, Typing PROVE TypeOK
    BY Zenon
  <2>1. ASSUME NEW i \in Index
        PROVE  \/ map[i] = EmptyEntry /\ \A j \in i .. MapSize - 1 : map[j] = EmptyEntry
               \/ /\ map[i].key \in Keys /\ [type |-> map[i].type, val |-> map[i].val] \in Setting
                  /\ \A j \in Index : map[j].key = map[i].key => j = i
    <3>1. CASE map[i] = EmptyEntry
      <4>1. \A j \in i .. MapSize - 1 : j \in Index /\ (j = i \/ i < j)
        BY MapAssumption DEF Index
      <4> QED BY <3>1, <4>1, Zenon DEF Typing, Shape
    <3>2. CASE map[i] # EmptyEntry
      <4>1. map[i] \in Entries /\ \A j \in Index : map[j].key = map[i].key => j = i
        BY <3>2, Zenon DEF Typing, Shape
      <4>2. map[i].key \in Keys /\ Value(map[i]) \in Setting
        BY <4>1, EntryParts, Zenon
      <4> QED BY <4>1, <4>2, Zenon DEF Value
    <3> QED BY <3>1, <3>2, Zenon
  <2>2. DOMAIN map = Index /\ DOMAIN hash = Index
    BY Zenon DEF Typing, Shape, IInv
  <2>3. Range(notify) \subseteq Threads
    BY DEF Typing, Rest, Range
  <2> QED BY <2>1, <2>2, <2>3, Zenon DEF TypeOK, Typing, Rest, IInv, Control
<1> QED BY <1>1, InitIInv, NextIInv, InitTyping, NextTyping, PTL DEF Spec

-----------------------------------------------------------------------------
(* Signals.                                                                *)

\* Before the first storage is configured there are no settings.
Fresh == nstore = 0 => map = EmptyMap

LEMMA FreshStep ==
    ASSUME IInv, Fresh, [Next]_vars
    PROVE  Fresh'
<1>1. CASE settings_setstorage
  <2>1. nstore' = nstore + 1 /\ nstore \in Nat
    BY <1>1, OrderFacts DEF settings_setstorage, IInv, Control
  <2>2. nstore' # 0
    BY <2>1
  <2> QED BY <2>2, Zenon DEF Fresh
<1>2. CASE Change
  <2>1. Configured /\ nstore' = nstore
    BY <1>2, Zenon DEF Change, settings_clear, settings_create, settings_set, settings_sync
  <2> QED BY <2>1, OrderFacts DEF Fresh, Configured
<1>3. CASE Reset
  BY <1>3, Zenon DEF Reset, Fresh
<1>4. CASE \/ TimerFires \/ Dump \/ UNCHANGED vars
           \/ \E t \in Threads : settings_notify(t) \/ WaitDone(t) \/ TakeSignal(t)
  <2>1. UNCHANGED <<map, nstore>>
    BY <1>4, MapKept, Zenon
  <2> QED BY <2>1, Zenon DEF Fresh
<1> QED BY <1>1, <1>2, <1>3, <1>4, Zenon DEF Next

\* settings_sync loads what it signals.
LEMMA SyncMap ==
    ASSUME IInv, NEW t, NEW w, settings_sync(t, w)
    PROVE  map' = map \/ (SigNotify /\ Save)
<1>1. /\ map' = Load(files, map, nstore) /\ Configured
      /\ \/ SigNotify /\ Save
         \/ map' = hash
         \/ ~(Cardinality({i \in Storages : ~Loadable(files, i)}) < MaxStorages)
  BY Zenon DEF settings_sync
<1> QED BY <1>1, AllFailed, Zenon DEF IInv

\* A key that settings_create adds was not there.
LEMMA CreatedNew ==
    ASSUME Shape(map), NEW t, NEW k \in Keys, NEW s \in Inputs, settings_create(t, k, s)
    PROVE  Settings(map)[k] = None
<1>1. Stops(map, k) # {} /\ map[Slot(map, k)].key # k
  BY StoredOne, Zenon
<1>2. \A i \in Index : map[i].key # k
  BY <1>1, SlotShape, Zenon
<1> QED BY <1>2, SettingsNone, Zenon

\* The settings a step may change without a signal are those it adds or
\* removes.
LEMMA SignalStep ==
    ASSUME IInv, Typing, Fresh, [Next]_vars, NEW k \in Keys,
           Settings(map)[k] # Settings(map')[k],
           Settings(map)[k] # None, Settings(map')[k] # None
    PROVE  SigNotify
<1>0. map' # map
  BY Zenon
<1>1. CASE settings_setstorage
  <2>1. nstore # 0
    BY EmptyShape, Zenon DEF Fresh
  <2>2. nstore + 1 > 1
    BY <2>1 DEF IInv, Control
  <2> QED BY <1>0, <1>1, <2>2 DEF settings_setstorage, IInv
<1>2. CASE Change
  <2>1. ASSUME NEW t \in Threads, settings_clear(t) PROVE FALSE
    BY <2>1, EmptyShape, Zenon DEF settings_clear
  <2>2. ASSUME NEW t \in Threads, NEW x \in Keys, NEW s \in Inputs, settings_create(t, x, s)
        PROVE  FALSE
    <3>1. /\ \A y \in Keys : y # x => Settings(map')[y] = Settings(map)[y]
          /\ Settings(map)[x] = None
      BY <2>2, StoredSetting, CreatedNew, Zenon DEF Typing
    <3> QED BY <3>1, Zenon
  <2>3. ASSUME NEW t \in Threads, NEW x \in Keys, NEW s \in Inputs, settings_set(t, x, s)
        PROVE  SigNotify
    BY <1>0, <2>3, Zenon DEF settings_set, IInv
  <2>4. ASSUME NEW t \in Threads, NEW w \in BOOLEAN, settings_sync(t, w)
        PROVE  SigNotify
    BY <1>0, <2>4, SyncMap, Zenon
  <2> QED BY <1>2, <2>1, <2>2, <2>3, <2>4, Zenon DEF Change
<1>3. CASE Reset
  BY <1>3, EmptyShape, Zenon DEF Reset
<1>4. CASE \/ TimerFires \/ Dump \/ UNCHANGED vars
           \/ \E t \in Threads : settings_notify(t) \/ WaitDone(t) \/ TakeSignal(t)
  BY <1>0, <1>4, MapKept, Zenon
<1> QED BY <1>1, <1>2, <1>3, <1>4, Zenon DEF Next

\* No step of any thread, of dump_cache or of a reset changes the value of a
\* setting without a signal to all registered threads: settings_set and the
\* loads send one whenever the map is not the one whose hash was stored, and
\* that hash is always the one of the map.
THEOREM ChangesAreNotified == Spec => NotifiedOnChange
<1>1. Init => IInv /\ Typing /\ Fresh
  BY InitIInv, InitTyping, Zenon DEF Init, Fresh
<1>2. IInv /\ Typing /\ Fresh /\ [Next]_vars => (IInv /\ Typing /\ Fresh)'
  BY NextIInv, NextTyping, FreshStep, Zenon
<1>3. IInv /\ Typing /\ Fresh /\ [Next]_vars =>
        [\A k \in Keys :
           LET old == Settings(map)[k]  new == Settings(map)'[k]
           IN  old # new /\ None \notin {old, new} => Range(notify) \subseteq sig']_vars
  <2> SUFFICES ASSUME IInv, Typing, Fresh, [Next]_vars, NEW k \in Keys,
                      Settings(map)[k] # Settings(map')[k],
                      Settings(map)[k] # None, Settings(map')[k] # None
               PROVE  Range(notify) \subseteq sig'
    BY Zenon
  <2>1. SigNotify
    BY SignalStep, Zenon
  <2> QED BY <2>1, Zenon DEF SigNotify
<1> QED BY <1>1, <1>2, <1>3, PTL DEF Spec, NotifiedOnChange

-----------------------------------------------------------------------------
(* What the files hold.                                                    *)

\* The text storage gives every value back that the application may store.
TextFaithful ==
    (\E i \in Storages : Order[i] = "text") =>
      \A s \in Inputs : s.val \notin BadStrings => Parse(Text(SetVal(s))) = SetVal(s)

\* The settings that every kind of storage in use keeps as they are.
Kept == {e \in Entries : (\E i \in Storages : Order[i] = "text") => ReadLine(Line(e)) = e}

\* The file of storage i that is loaded, and the settings read from a file.
Main(fs, i)     == Restored(i, fs[i]).main
Contents(i, f)  == IF Order[i] = "bin" THEN f.data ELSE Reads(f.data)
InFile(i, f, m) == f.st = "intact" /\ Holds(Contents(i, f), m)

\* A file that can be loaded was written from a map.
GoodMap(m)     == Shape(m) /\ Over(m, Kept)
GoodFile(i, f) == f.st = "intact" => \E m : GoodMap(m) /\ InFile(i, f, m)
GoodFiles(fs)  == \A i \in Storages : GoodFile(i, fs[i].main) /\ GoodFile(i, fs[i].bak)
Good           == Over(map, Kept) /\ GoodFiles(files)

LEMMA Kind == ASSUME NEW i \in Storages PROVE Order[i] = "bin" \/ Order[i] = "text"
BY SettingsAssumption DEF Storages

\* What save_bin and save_text write.
LEMMA InWritten ==
    ASSUME NEW i \in Storages, NEW m, GoodMap(m)
    PROVE  /\ Order[i] = "bin" => InFile(i, Intact(Saved(m)), m)
           /\ Order[i] = "text" => InFile(i, Intact(Lines(m)), m)
<1>0. \A d : Intact(d).st = "intact" /\ Intact(d).data = d
  BY Zenon DEF Intact
<1>1. ASSUME Order[i] = "bin" PROVE InFile(i, Intact(Saved(m)), m)
  <2>1. Holds(Saved(m), m)
    BY SavedHolds, Zenon DEF GoodMap
  <2> QED BY <1>0, <1>1, <2>1, Zenon DEF InFile, Contents
<1>2. ASSUME Order[i] = "text" PROVE InFile(i, Intact(Lines(m)), m)
  <2>1. Legible(m)
    BY <1>2, Zenon DEF GoodMap, Over, Kept, Legible
  <2>2. Holds(Reads(Lines(m)), m)
    BY <2>1, LinesHold, Zenon DEF GoodMap
  <2>3. Contents(i, Intact(Lines(m))) = Reads(Lines(m))
    BY <1>0, <1>2, Zenon DEF Contents
  <2> QED BY <1>0, <2>2, <2>3, Zenon DEF InFile
<1> QED BY <1>1, <1>2, Zenon

LEMMA GoodKinds ==
    ASSUME NEW i \in Storages
    PROVE  /\ GoodFile(i, Absent) /\ GoodFile(i, Torn) /\ GoodFile(i, Intact(<< >>))
           /\ \A m : GoodMap(m) => /\ Order[i] = "bin" => GoodFile(i, Intact(Saved(m)))
                                   /\ Order[i] = "text" => GoodFile(i, Intact(Lines(m)))
<1>1. Absent.st # "intact" /\ Torn.st # "intact" /\ Intact(<< >>).data = << >>
  BY Zenon DEF Absent, Torn, Intact
<1>2. GoodFile(i, Intact(<< >>))
  <2>1. Len(Contents(i, Intact(<< >>))) = 0
    BY <1>1, HoldsNothing, Zenon DEF Contents
  <2>2. GoodMap(EmptyMap) /\ Holds(Contents(i, Intact(<< >>)), EmptyMap)
    BY <2>1, HoldsNothing, EmptyShape, Zenon DEF GoodMap
  <2> QED BY <2>2, Zenon DEF GoodFile, InFile
<1> QED BY <1>1, <1>2, InWritten, Zenon DEF GoodFile

LEMMA GoodRestored ==
    ASSUME NEW fs, GoodFiles(fs), NEW i \in Storages
    PROVE  GoodFile(i, Restored(i, fs[i]).main) /\ GoodFile(i, Restored(i, fs[i]).bak)
<1>1. GoodFile(i, fs[i].main) /\ GoodFile(i, fs[i].bak) /\ GoodFile(i, Absent)
  BY GoodKinds, Zenon DEF GoodFiles
<1>2. CASE Restored(i, fs[i]) = fs[i]
  BY <1>1, <1>2, Zenon
<1>3. CASE Restored(i, fs[i]) = [main |-> fs[i].bak, bak |-> Absent]
  BY <1>1, <1>3
<1> QED BY <1>2, <1>3, Zenon DEF Restored

-----------------------------------------------------------------------------
(* Loading them.                                                           *)

LEMMA LoadFromIs ==
    ASSUME NEW fs, NEW m, NEW i
    PROVE  /\ Main(fs, i).st = "intact" =>
                LoadFrom(fs, m, i) = LoadBin(m, Contents(i, Main(fs, i)))
           /\ Main(fs, i).st # "intact" => LoadFrom(fs, m, i) = m
<1>1. LoadFrom(fs, m, i) = IF Main(fs, i).st # "intact" THEN m
                           ELSE IF Order[i] = "bin" THEN LoadBin(m, Main(fs, i).data)
                           ELSE LoadText(m, Main(fs, i).data)
  BY Zenon DEF LoadFrom, Loadable, Main
<1>2. LoadText(m, Main(fs, i).data) = LoadBin(m, Reads(Main(fs, i).data))
  BY Zenon DEF LoadText, Reads
<1> QED BY <1>1, <1>2, Zenon DEF Contents

\* A file that holds a map gives it back, loaded first or over the map itself.
LEMMA LoadFromHeld ==
    ASSUME NEW fs, NEW m, Shape(m), NEW i, InFile(i, Main(fs, i), m)
    PROVE  LoadFrom(fs, EmptyMap, i) = m /\ LoadFrom(fs, m, i) = m
<1>1. PICK es : es = Contents(i, Main(fs, i))
  BY Zenon
<1>2. Main(fs, i).st = "intact" /\ Holds(es, m)
  BY <1>1, Zenon DEF InFile
<1>3. LoadFrom(fs, EmptyMap, i) = LoadBin(EmptyMap, es) /\ LoadFrom(fs, m, i) = LoadBin(m, es)
  BY <1>1, <1>2, LoadFromIs
<1>4. LoadBin(EmptyMap, es) = m /\ LoadBin(m, es) = m
  BY <1>2, Reload, Zenon
<1> QED BY <1>3, <1>4, Zenon

LEMMA LoadFromGood ==
    ASSUME NEW fs, GoodFiles(fs), NEW m, GoodMap(m), NEW i \in Storages
    PROVE  GoodMap(LoadFrom(fs, m, i))
<1>1. CASE Main(fs, i).st # "intact"
  BY <1>1, LoadFromIs, Zenon
<1>2. CASE Main(fs, i).st = "intact"
  <2>1. PICK p : GoodMap(p) /\ InFile(i, Main(fs, i), p)
    BY <1>2, GoodRestored, Zenon DEF GoodFile, Main
  <2>2. PICK es : es = Contents(i, Main(fs, i))
    BY Zenon
  <2>3. IsFile(es) /\ \A n \in 1 .. Len(es) : es[n] \in Kept
    BY <2>1, <2>2, HoldsFile, Zenon DEF InFile, GoodMap
  <2>4. \A n \in 1 .. Len(es) : es[n] \in Kept \cup {None}
    BY <2>3
  <2>5. Shape(LoadBin(m, es)) /\ Over(LoadBin(m, es), Kept)
    BY <2>3, <2>4, LoadBinShape, LoadBinOver, Zenon DEF GoodMap
  <2> QED BY <1>2, <2>2, <2>5, LoadFromIs, Zenon DEF GoodMap
<1> QED BY <1>1, <1>2, Zenon

\* Loading a storage again, over what it gave, changes nothing.
LEMMA LoadTwice ==
    ASSUME NEW fs, GoodFiles(fs), NEW i \in Storages
    PROVE  LoadFrom(fs, LoadFrom(fs, EmptyMap, i), i) = LoadFrom(fs, EmptyMap, i)
<1>1. CASE Main(fs, i).st # "intact"
  BY <1>1, LoadFromIs, Zenon
<1>2. CASE Main(fs, i).st = "intact"
  <2>1. PICK p : GoodMap(p) /\ InFile(i, Main(fs, i), p)
    BY <1>2, GoodRestored, Zenon DEF GoodFile, Main
  <2> QED BY <2>1, LoadFromHeld, Zenon DEF GoodMap
<1> QED BY <1>1, <1>2, Zenon

\* What is loaded depends on that file only.
LEMMA LoadMain ==
    ASSUME NEW fs, NEW gs, NEW i, Main(gs, i) = Main(fs, i), NEW m
    PROVE  LoadFrom(gs, m, i) = LoadFrom(fs, m, i)
<1>1. CASE Main(fs, i).st = "intact"
  <2>1. LoadFrom(fs, m, i) = LoadBin(m, Contents(i, Main(fs, i)))
    BY <1>1, LoadFromIs, Zenon
  <2>2. LoadFrom(gs, m, i) = LoadBin(m, Contents(i, Main(gs, i)))
    BY <1>1, LoadFromIs
  <2> QED BY <2>1, <2>2, Zenon
<1>2. CASE Main(fs, i).st # "intact"
  BY <1>2, LoadFromIs
<1> QED BY <1>1, <1>2, Zenon

\* Restoring a backup does not change what is loaded.
LEMMA LoadSame ==
    ASSUME NEW fs, NEW gs, NEW i, gs[i] = fs[i] \/ gs[i] = Restored(i, fs[i]), NEW m
    PROVE  Main(gs, i) = Main(fs, i) /\ LoadFrom(gs, m, i) = LoadFrom(fs, m, i)
<1>1. Restored(i, Restored(i, fs[i])) = Restored(i, fs[i])
  <2>1. CASE Restored(i, fs[i]) = fs[i]
    BY <2>1, Zenon
  <2>2. CASE Restored(i, fs[i]) = [main |-> fs[i].bak, bak |-> Absent]
    <3>1. PICK f : f = Restored(i, fs[i])
      BY Zenon
    <3>2. f.bak = Absent
      BY <2>2, <3>1
    <3>3. Restored(i, f) = f
      BY <3>2, Zenon DEF Restored
    <3> QED BY <3>1, <3>3, Zenon
  <2> QED BY <2>1, <2>2, Zenon DEF Restored
<1>2. Main(gs, i) = Main(fs, i)
  BY <1>1, Zenon DEF Main
<1> QED BY <1>2, LoadMain

LEMMA LoadAllSame ==
    ASSUME NEW fs, NEW gs, NEW n \in Nat, NEW m,
           \A i \in 1 .. n : \A p : LoadFrom(gs, p, i) = LoadFrom(fs, p, i)
    PROVE  Load(gs, m, n) = Load(fs, m, n)
<1> DEFINE f == Loads(fs, m, n)
           g == Loads(gs, m, n)
           S == {i \in Nat : g[i] = f[i]}
<1>1. f[0] = m /\ \A i \in Nat : i < n => f[i + 1] = LoadFrom(fs, f[i], i + 1)
  BY LoadsIs
<1>2. g[0] = m /\ \A i \in Nat : i < n => g[i + 1] = LoadFrom(gs, g[i], i + 1)
  BY LoadsIs
<1> HIDE DEF f, g
<1>3. 0 \in S
  BY <1>1, <1>2
<1>4. ASSUME NEW i \in Nat, i < n, i \in S PROVE i + 1 \in S
  <2>1. i + 1 \in 1 .. n /\ g[i] = f[i]
    BY <1>4
  <2>2. LoadFrom(gs, g[i], i + 1) = LoadFrom(fs, f[i], i + 1)
    BY <2>1, Zenon
  <2> QED BY <1>1, <1>2, <1>4, <2>2
<1> HIDE DEF S
<1>5. \A i \in 0 .. n : i \in S
  BY <1>3, <1>4, UpTo, Zenon
<1>6. n \in S
  BY <1>5
<1> QED BY <1>6, Zenon DEF S, f, g, Load

\* If the first storage gives the map and the others add nothing to it, that
\* is what loading all of them gives.
LEMMA LoadSettled ==
    ASSUME NEW fs, NEW m, NEW n \in Nat, n >= 1, LoadFrom(fs, EmptyMap, 1) = m,
           \A i \in 1 .. n : LoadFrom(fs, m, i) = m
    PROVE  Load(fs, EmptyMap, n) = m /\ Load(fs, m, n) = m
<1> DEFINE f == Loads(fs, EmptyMap, n)
           g == Loads(fs, m, n)
           S == {i \in Nat : g[i] = m /\ (i = 0 \/ f[i] = m)}
<1>1. f[0] = EmptyMap /\ \A i \in Nat : i < n => f[i + 1] = LoadFrom(fs, f[i], i + 1)
  BY LoadsIs
<1>2. g[0] = m /\ \A i \in Nat : i < n => g[i + 1] = LoadFrom(fs, g[i], i + 1)
  BY LoadsIs
<1> HIDE DEF f, g
<1>3. 0 \in S
  BY <1>2, Zenon
<1>4. ASSUME NEW i \in Nat, i < n, i \in S PROVE i + 1 \in S
  <2>1. i + 1 \in 1 .. n /\ g[i] = m /\ (i = 0 \/ f[i] = m)
    BY <1>4
  <2>2. g[i + 1] = m
    BY <1>2, <1>4, <2>1, Zenon
  <2>3. CASE i = 0
    <3>1. f[1] = LoadFrom(fs, f[0], 1)
      BY <1>1, <1>4, <2>3
    <3> QED BY <1>1, <2>2, <2>3, <3>1
  <2>4. CASE i # 0
    BY <1>1, <1>4, <2>1, <2>2, <2>4
  <2> QED BY <2>3, <2>4
<1> HIDE DEF S
<1>5. \A i \in 0 .. n : i \in S
  BY <1>3, <1>4, UpTo, Zenon
<1>6. n \in S /\ n # 0
  BY <1>5
<1> QED BY <1>6, Zenon DEF S, f, g, Load

LEMMA LoadGood ==
    ASSUME NEW fs, GoodFiles(fs), NEW m, GoodMap(m), NEW n \in 0 .. Len(Order)
    PROVE  GoodMap(Load(fs, m, n))
<1> DEFINE f == Loads(fs, m, n)
           S == {i \in Nat : GoodMap(f[i])}
<1>0. n \in Nat
  BY OrderFacts
<1>1. f[0] = m /\ \A i \in Nat : i < n => f[i + 1] = LoadFrom(fs, f[i], i + 1)
  BY <1>0, LoadsIs
<1> HIDE DEF f
<1>2. 0 \in S
  BY <1>1, Zenon
<1>3. ASSUME NEW i \in Nat, i < n, i \in S PROVE i + 1 \in S
  <2>1. i + 1 \in Storages
    BY <1>0, <1>3, OrderFacts DEF Storages
  <2>2. GoodMap(f[i])
    BY <1>3, Zenon
  <2>3. GoodMap(LoadFrom(fs, f[i], i + 1))
    BY <2>1, <2>2, LoadFromGood, Zenon
  <2> QED BY <1>1, <1>3, <2>3
<1> HIDE DEF S
<1>4. \A i \in 0 .. n : i \in S
  BY <1>0, <1>2, <1>3, UpTo, Zenon
<1>5. n \in S
  BY <1>0, <1>4
<1> QED BY <1>5, Zenon DEF S, f, Load

-----------------------------------------------------------------------------

\* What the application stores is kept by every kind of storage in use.
LEMMA StoredKept ==
    ASSUME TextFaithful, NEW k \in Keys, NEW s \in Inputs,
           s.val \notin BadStrings, SetVal(s) \in Setting
    PROVE  Entry(k, SetVal(s)) \in Kept
<1> DEFINE v == SetVal(s)
           e == Entry(k, v)
<1>1. e \in Entries /\ e.key = k /\ v # None
  BY EntryOf, Zenon
<1>2. e.type = v.type /\ e.val = v.val
  BY Zenon DEF Entry
<1>3. ASSUME \E i \in Storages : Order[i] = "text" PROVE ReadLine(Line(e)) = e
  <2>1. Parse(Text(v)) = v
    BY <1>3, Zenon DEF TextFaithful
  <2>2. Text(e) = Text(v)
    <3> HIDE DEF e, v
    <3> QED BY <1>2, Zenon DEF Text
  <2>3. Line(e).key = k /\ Line(e).text = Text(e)
    BY <1>1, Zenon DEF Line
  <2>4. ReadLine(Line(e)) = Entry(k, v)
    BY <1>1, <2>1, <2>2, <2>3, Zenon DEF ReadLine
  <2> QED BY <2>4, Zenon
<1> QED BY <1>1, <1>3 DEF Kept

LEMMA OverStep ==
    ASSUME TextFaithful, IInv, Shape(map), Good, [Next]_vars
    PROVE  Over(map', Kept)
<1>0. nstore \in 0 .. Len(Order) /\ GoodMap(map) /\ GoodFiles(files)
  BY Zenon DEF IInv, Control, Good, GoodMap
<1>1. CASE settings_setstorage
  <2>1. nstore + 1 \in Storages /\ map' = LoadFrom(files, map, nstore + 1)
    BY <1>0, <1>1, OrderFacts DEF settings_setstorage, Configured, Storages
  <2>2. GoodMap(LoadFrom(files, map, nstore + 1))
    BY <1>0, <2>1, LoadFromGood, Zenon
  <2> QED BY <2>1, <2>2, Zenon DEF GoodMap
<1>2. CASE Change
  <2>1. ASSUME NEW t \in Threads, settings_clear(t) PROVE Over(map', Kept)
    BY <2>1, HoldsNothing, Zenon DEF settings_clear
  <2>2. ASSUME NEW t \in Threads, NEW k \in Keys, NEW s \in Inputs,
               settings_create(t, k, s) \/ settings_set(t, k, s)
        PROVE  Over(map', Kept)
    <3>1. /\ SetVal(s) \in Setting /\ map' = LoadEntry(map, Entry(k, SetVal(s)))
          /\ s.val \notin BadStrings
      BY <2>2, StoredSetting, Zenon
    <3>2. Entry(k, SetVal(s)) \in Kept
      BY <3>1, StoredKept, Zenon
    <3>3. /\ Entry(k, SetVal(s)) \in Kept \cup {None}
          /\ Entry(k, SetVal(s)) \in Entries \cup {None}
      BY <3>2, Zenon DEF Kept
    <3> QED BY <3>1, <3>3, LoadEntryOver, Zenon DEF Good
  <2>3. ASSUME NEW t \in Threads, NEW w \in BOOLEAN, settings_sync(t, w)
        PROVE  Over(map', Kept)
    <3>1. map' = Load(files, map, nstore)
      BY <2>3, Zenon DEF settings_sync
    <3>2. GoodMap(Load(files, map, nstore))
      BY <1>0, LoadGood, Zenon
    <3> QED BY <3>1, <3>2, Zenon DEF GoodMap
  <2> QED BY <1>2, <2>1, <2>2, <2>3, Zenon DEF Change
<1>3. CASE Reset
  BY <1>3, HoldsNothing, Zenon DEF Reset
<1>4. CASE \/ TimerFires \/ Dump \/ UNCHANGED vars
           \/ \E t \in Threads : settings_notify(t) \/ WaitDone(t) \/ TakeSignal(t)
  <2>1. map' = map
    BY <1>4, MapKept, Zenon
  <2> QED BY <2>1, Zenon DEF Good
<1> QED BY <1>1, <1>2, <1>3, <1>4 DEF Next

\* A file that is kept, restored or written is good.
LEMMA GoodFilesStep ==
    ASSUME IInv, Typing, Good, [Next]_vars
    PROVE  GoodFiles(files')
<1>0. nstore \in 0 .. Len(Order) /\ GoodMap(map) /\ GoodFiles(files)
  BY Zenon DEF IInv, Control, Good, GoodMap, Typing
<1>1. ASSUME \A i \in Storages : files'[i] = files[i] \/ files'[i] = Restored(i, files[i])
      PROVE  GoodFiles(files')
  <2>1. \A i \in Storages :
          /\ GoodFile(i, files[i].main) /\ GoodFile(i, files[i].bak)
          /\ GoodFile(i, Restored(i, files[i]).main) /\ GoodFile(i, Restored(i, files[i]).bak)
    BY <1>0, GoodRestored, Zenon DEF GoodFiles
  <2> QED BY <1>1, <2>1, Zenon DEF GoodFiles
<1>2. CASE settings_setstorage
  BY <1>1, <1>2, Zenon DEF settings_setstorage, WithFile
<1>3. CASE Change
  <2>1. ASSUME NEW t \in Threads, NEW w \in BOOLEAN, settings_sync(t, w)
        PROVE  GoodFiles(files')
    BY <1>1, <2>1, Zenon DEF settings_sync
  <2>2. CASE \E t \in Threads : settings_clear(t) \/
               \E k \in Keys, s \in Inputs : settings_create(t, k, s) \/ settings_set(t, k, s)
    <3>1. files' = files
      BY <2>2, Zenon DEF settings_clear, settings_create, settings_set
    <3> QED BY <1>1, <3>1, Zenon
  <2> QED BY <1>3, <2>1, <2>2, Zenon DEF Change
<1>4. CASE BinOpen \/ BinWrite \/ TextOpen \/ TextWrite \/ TextRemove \/ TextRename
  <2>1. dump.i \in Storages
    BY <1>0, <1>4, SaveStepWrites, OrderFacts DEF Storages
  <2>2. PICK main, bak, st : Writes(main, bak, st)
    BY <1>4, SaveStepWrites, Zenon
  <2>3. files' = WithFile(dump.i, [main |-> main, bak |-> bak])
    BY <2>2, Zenon DEF Writes, SaveStep
  <2>4. GoodFile(dump.i, File) /\ GoodFile(dump.i, Backup)
    BY <1>0, <2>1, Zenon DEF GoodFiles, File, Backup
  <2>5. /\ GoodFile(dump.i, Absent) /\ GoodFile(dump.i, Torn) /\ GoodFile(dump.i, Intact(<< >>))
        /\ Order[dump.i] = "bin" => GoodFile(dump.i, Intact(Saved(map)))
        /\ Order[dump.i] = "text" => GoodFile(dump.i, Intact(Lines(map)))
    BY <1>0, <2>1, GoodKinds, Zenon
  <2>6. GoodFile(dump.i, main) /\ GoodFile(dump.i, bak)
    BY <2>2, <2>4, <2>5, Zenon DEF Writes
  <2>7. ASSUME NEW j \in Storages
        PROVE  GoodFile(j, files'[j].main) /\ GoodFile(j, files'[j].bak)
    <3>1. CASE j = dump.i
      <4>1. files'[j].main = main /\ files'[j].bak = bak
        BY <2>3, <3>1 DEF WithFile
      <4> QED BY <2>6, <3>1, <4>1, Zenon
    <3>2. CASE j # dump.i
      <4>1. files'[j] = files[j]
        BY <2>3, <3>2, Zenon DEF WithFile
      <4> QED BY <1>0, <4>1, Zenon DEF GoodFiles
    <3> QED BY <3>1, <3>2, Zenon
  <2> QED BY <2>7, Zenon DEF GoodFiles
<1>5. CASE TimerFires \/ DumpLock \/ DumpEnd \/ Reset \/ UNCHANGED vars
  <2>1. files' = files
    BY <1>5, Zenon DEF TimerFires, DumpLock, DumpEnd, Reset, vars
  <2> QED BY <1>1, <2>1, Zenon
<1>6. CASE \E t \in Threads : settings_notify(t) \/ WaitDone(t) \/ TakeSignal(t)
  <2>1. files' = files
    BY <1>6, Zenon DEF settings_notify, WaitDone, TakeSignal
  <2> QED BY <1>1, <2>1, Zenon
<1> QED BY <1>2, <1>3, <1>4, <1>5, <1>6, Zenon DEF Next, Dump

LEMMA InitGood == Init => Good
<1> SUFFICES ASSUME Init PROVE Good
  BY Zenon
<1>1. Over(map, Kept)
  BY HoldsNothing, Zenon DEF Init
<1>2. ASSUME NEW i \in Storages
      PROVE  /\ files[i].main = Torn \/ files[i].main = Intact(<< >>)
             /\ files[i].bak = Absent
  BY <1>2, Zenon DEF Init
<1> QED BY <1>1, <1>2, GoodKinds, Zenon DEF Good, GoodFiles

LEMMA NextGood == ASSUME TextFaithful PROVE IInv /\ Typing /\ Good /\ [Next]_vars => Good'
BY OverStep, GoodFilesStep, Zenon DEF Good, Typing

-----------------------------------------------------------------------------
(* The progress of a save.                                                 *)

\* The storages that dump_cache is done with hold the map, and so does the
\* backup that is about to take the place of a text file; a binary file is empty
\* until it is written.
Progress ==
    dump.st \in SaveSteps =>
      /\ dump.i >= 1
      /\ \A i \in Storages : i <= nstore /\ (i < dump.i \/ (i = dump.i /\ dump.st = "rename")) =>
           InFile(i, Main(files, i), map)
      /\ dump.st \in {"remove", "rename"} =>
           Order[dump.i] = "text" /\ Backup = Intact(Lines(map))
      /\ dump.st = "write" /\ Order[dump.i] = "bin" => File = Torn

\* The file of a binary storage is never removed.
BinThere == \A i \in Storages : Order[i] = "bin" => files[i].main # Absent

\* A save is asked for by settings_setstorage from the second storage on, and
\* by the other calls once all storages are configured.
Active == wrpend \/ armed \/ dump.st # "idle" =>
            nstore >= 1 /\ (Len(Order) <= 2 => Configured)

\* Without cached saves the mutex is held from a change to the end of its save.
Direct == ~Cached => ~armed /\ dump.st # "wait" /\ (wrpend <=> ~Unlocked)

Work == Progress /\ BinThere /\ Active /\ Direct

LEMMA InitWork == Init => Work
<1> SUFFICES ASSUME Init PROVE Work
  BY Zenon
<1>1. dump.st = "idle" /\ wrpend = FALSE /\ armed = FALSE
  BY Dumps, Zenon DEF Init
<1>2. Progress
  BY <1>1, Zenon DEF Progress, SaveSteps
<1>3. BinThere
  BY Present, Zenon DEF Init, BinThere
<1> QED BY <1>1, <1>2, <1>3 DEF Work, Active, Direct, Unlocked

\* A call begins a save, or leaves things as they are.
LEMMA CallWork ==
    ASSUME Work, Unlocked, Save \/ NoSave, nstore' \in Nat, nstore \in Nat, nstore <= nstore',
           Configured => Configured',
           Save => nstore' >= 1 /\ (Len(Order) <= 2 => Configured'),
           BinThere'
    PROVE  Work'
<1>1. CASE Save
  <2>1. wrpend' = TRUE /\ (Cached => dump' = dump) /\ (~Cached => dump' = StartDump /\ armed' = armed)
    BY <1>1, Zenon DEF Save
  <2>2. StartDump.st = "open" /\ StartDump.i = 1
    BY Zenon DEF StartDump
  <2>3. Progress'
    <3>1. CASE Cached
      BY <2>1, <3>1, Zenon DEF Progress, Unlocked, SaveSteps
    <3>2. CASE ~Cached
      BY <2>1, <2>2, <3>2, OrderFacts DEF Progress, Storages
    <3> QED BY <3>1, <3>2, Zenon
  <2>4. Active'
    BY <1>1, Zenon DEF Active
  <2>5. Direct'
    BY <2>1, <2>2, Zenon DEF Direct, Work, Unlocked
  <2> QED BY <2>3, <2>4, <2>5, Zenon DEF Work
<1>2. CASE NoSave
  <2>1. UNCHANGED <<wrpend, armed, dump>>
    BY <1>2, Zenon DEF NoSave
  <2>2. Progress'
    BY <2>1, Zenon DEF Progress, Unlocked, SaveSteps
  <2>3. Active'
    <3>1. nstore >= 1 => nstore' >= 1
      OBVIOUS
    <3> QED BY <2>1, <3>1, Zenon DEF Active, Work
  <2>4. Direct'
    BY <2>1, Zenon DEF Direct, Work, Unlocked
  <2> QED BY <2>2, <2>3, <2>4, Zenon DEF Work
<1> QED BY <1>1, <1>2, Zenon

LEMMA SetStorageWork == ASSUME IInv, Work, settings_setstorage PROVE Work'
<1>1. /\ Unlocked /\ nstore \in Nat /\ nstore' = nstore + 1 /\ nstore' <= Len(Order)
      /\ files' = WithFile(nstore + 1, Restored(nstore + 1, files[nstore + 1]))
      /\ ~Configured
  BY OrderFacts DEF settings_setstorage, Configured, IInv, Control
<1>2. NoSave \/ (Save /\ nstore + 1 > 1)
  BY Zenon DEF settings_setstorage
<1>3. nstore' \in Nat /\ nstore <= nstore'
  BY <1>1
<1>4. nstore + 1 > 1 => nstore' >= 1 /\ (Len(Order) <= 2 => Configured')
  BY <1>1, OrderFacts DEF Configured
<1>5. \A i \in Storages : Order[i] = "bin" => files'[i] = files[i]
  BY <1>1, Zenon DEF WithFile, Restored
<1>6. BinThere'
  BY <1>5, Zenon DEF Work, BinThere
<1>7. CASE NoSave
  <2>1. Active'
    <3>1. UNCHANGED <<wrpend, armed, dump>>
      BY <1>7, Zenon DEF NoSave
    <3>2. nstore >= 1 => nstore' >= 1 /\ (Len(Order) <= 2 => Configured')
      BY <1>1, OrderFacts DEF Configured
    <3> QED BY <3>1, <3>2, Zenon DEF Active, Work
  <2>2. UNCHANGED <<wrpend, armed, dump>>
    BY <1>7, Zenon DEF NoSave
  <2>3. Progress'
    BY <1>1, <2>2, Zenon DEF Progress, Unlocked, SaveSteps
  <2>4. Direct'
    BY <2>2, Zenon DEF Direct, Work, Unlocked
  <2> QED BY <1>6, <2>1, <2>3, <2>4, Zenon DEF Work
<1>8. CASE Save /\ nstore + 1 > 1
  BY <1>1, <1>3, <1>4, <1>6, <1>8, CallWork, Zenon
<1> QED BY <1>2, <1>7, <1>8, Zenon

\* The other calls, made when all storages are configured.
LEMMA OtherCallWork ==
    ASSUME IInv, Work, NEW t \in Threads,
           \/ settings_clear(t) \/ settings_notify(t)
           \/ \E k, s : settings_create(t, k, s) \/ settings_set(t, k, s)
           \/ \E w : settings_sync(t, w)
    PROVE  Work'
<1> DEFINE Effect ==
      /\ Unlocked /\ Configured /\ nstore' = nstore
      /\ Save \/ NoSave
      /\ files' = files \/ files' = [i \in Storages |-> Restored(i, files[i])]
<1>1. ASSUME settings_clear(t) PROVE Effect
  BY Zenon, <1>1 DEF settings_clear
<1>2. ASSUME settings_notify(t) PROVE Effect
  BY Zenon, <1>2 DEF settings_notify, NoSave
<1>3. ASSUME NEW k, NEW s, settings_create(t, k, s) PROVE Effect
  BY Zenon, <1>3 DEF settings_create
<1>4. ASSUME NEW k, NEW s, settings_set(t, k, s) PROVE Effect
  BY Zenon, <1>4 DEF settings_set
<1>5. ASSUME NEW w, settings_sync(t, w) PROVE Effect
  BY Zenon, <1>5 DEF settings_sync
<1>6. Effect
  <2> HIDE DEF Effect
  <2> QED BY <1>1, <1>2, <1>3, <1>4, <1>5, Zenon
<1>7. nstore' \in Nat /\ nstore \in Nat /\ nstore <= nstore' /\ nstore' >= 1 /\ Configured'
  BY <1>6, OrderFacts DEF IInv, Control, Configured
<1>8. \A i \in Storages : Order[i] = "bin" => files'[i] = files[i]
  BY <1>6, Zenon DEF Restored
<1>9. BinThere'
  BY <1>8, Zenon DEF Work, BinThere
<1> QED BY <1>6, <1>7, <1>9, CallWork, Zenon

\* The files after a step of save_bin or save_text.
LEMMA MainWritten ==
    ASSUME NEW i \in Storages, NEW a, NEW b,
           files' = WithFile(i, [main |-> a, bak |-> b])
    PROVE  /\ files'[i].main = a /\ files'[i].bak = b
           /\ Main(files', i) = IF Order[i] = "text" /\ a = Absent /\ b # Absent THEN b ELSE a
           /\ \A j \in Storages : j # i => files'[j] = files[j] /\ Main(files', j) = Main(files, j)
<1>1. files'[i] = [main |-> a, bak |-> b]
  BY Zenon DEF WithFile
<1>2. files'[i].main = a /\ files'[i].bak = b
  BY <1>1
<1>3. Main(files', i) = IF Order[i] = "text" /\ a = Absent /\ b # Absent THEN b ELSE a
  <2>1. CASE Order[i] = "text" /\ a = Absent /\ b # Absent
    <3>1. Restored(i, files'[i]) = [main |-> b, bak |-> Absent]
      BY <1>2, <2>1, Zenon DEF Restored
    <3> QED BY <2>1, <3>1 DEF Main
  <2>2. CASE ~(Order[i] = "text" /\ a = Absent /\ b # Absent)
    <3>1. Restored(i, files'[i]) = files'[i]
      BY <1>2, <2>2, Zenon DEF Restored
    <3> QED BY <1>2, <2>2, <3>1 DEF Main
  <2> QED BY <2>1, <2>2, Zenon
<1>4. ASSUME NEW j \in Storages, j # i
      PROVE  files'[j] = files[j] /\ Main(files', j) = Main(files, j)
  <2>1. files'[j] = files[j]
    BY <1>4, Zenon DEF WithFile
  <2> QED BY <2>1, Zenon DEF Main
<1> QED BY <1>2, <1>3, <1>4, Zenon

LEMMA SaveWork ==
    ASSUME IInv, Work, dump.st \in SaveSteps, dump.i \in 1 .. nstore,
           NEW main, NEW bak, NEW st \in SaveSteps, SaveStep(main, bak, st),
           st \in {"open", "rename"} => InFile(dump.i, Main(files', dump.i), map),
           st \in {"remove", "rename"} => Order[dump.i] = "text" /\ bak = Intact(Lines(map)),
           Order[dump.i] = "bin" => main # Absent /\ (st = "write" => main = Torn)
    PROVE  Work'
<1>1. dump.i \in Storages /\ dump.i \in Nat /\ nstore \in Nat /\ dump.i >= 1
  BY OrderFacts DEF IInv, Control, Storages
<1>2. /\ files' = WithFile(dump.i, [main |-> main, bak |-> bak])
      /\ dump' = [st |-> st, i |-> IF st = "open" THEN dump.i + 1 ELSE dump.i]
      /\ UNCHANGED <<map, wrpend, nstore, armed>>
  BY Zenon DEF SaveStep
<1>3. /\ files'[dump.i].main = main /\ files'[dump.i].bak = bak
      /\ \A j \in Storages : j # dump.i => files'[j] = files[j] /\ Main(files', j) = Main(files, j)
  BY <1>1, <1>2, MainWritten
<1>4. dump'.st = st /\ dump'.i = IF st = "open" THEN dump.i + 1 ELSE dump.i
  BY <1>2, Zenon
<1>5. \A i \in Storages : i <= nstore /\ i < dump.i => InFile(i, Main(files, i), map)
  BY Zenon DEF Work, Progress
<1>6. ASSUME NEW i \in Storages, i <= nstore, i < dump'.i \/ (i = dump'.i /\ dump'.st = "rename")
      PROVE  InFile(i, Main(files', i), map)
  <2>1. CASE i = dump.i
    <3>1. st \in {"open", "rename"}
      BY <1>1, <1>4, <1>6, <2>1
    <3> QED BY <2>1, <3>1, Zenon
  <2>2. CASE i # dump.i
    <3>1. i < dump.i
      BY <1>1, <1>4, <1>6, <2>2 DEF Storages
    <3>2. Main(files', i) = Main(files, i)
      BY <1>3, <2>2, Zenon
    <3> QED BY <1>5, <1>6, <3>1, <3>2
  <2> QED BY <2>1, <2>2, Zenon
<1>7. Progress'
  <2>1. ASSUME dump'.st \in {"remove", "rename"}
        PROVE  Order[dump'.i] = "text" /\ Backup' = Intact(Lines(map))
    <3>1. dump'.i = dump.i /\ Order[dump.i] = "text" /\ bak = Intact(Lines(map))
      BY <1>4, <2>1
    <3> QED BY <1>3, <3>1 DEF Backup
  <2>2. ASSUME dump'.st = "write", Order[dump'.i] = "bin" PROVE File' = Torn
    <3>1. dump'.i = dump.i /\ main = Torn
      BY <1>4, <2>2, Zenon
    <3> QED BY <1>3, <3>1 DEF File
  <2>3. dump'.i >= 1
    BY <1>1, <1>4
  <2> QED BY <1>2, <1>6, <2>1, <2>2, <2>3 DEF Progress
<1>8. BinThere'
  BY <1>3, Zenon DEF Work, BinThere
<1>9. Active' /\ Direct'
  <2>1. dump.st # "idle" /\ dump.st # "wait" /\ dump'.st # "idle" /\ dump'.st # "wait"
    BY <1>4, Zenon DEF SaveSteps
  <2>2. Active'
    BY <1>2, <2>1, Zenon DEF Work, Active, Configured
  <2>3. ~Unlocked /\ ~Unlocked'
    BY <2>1, Zenon DEF Unlocked
  <2> QED BY <1>2, <2>1, <2>2, <2>3, Zenon DEF Work, Direct
<1> QED BY <1>7, <1>8, <1>9, Zenon DEF Work

LEMMA BinWork == ASSUME IInv, Work, GoodMap(map), BinOpen \/ BinWrite PROVE Work'
<1>1. /\ dump.st \in SaveSteps /\ dump.i \in 1 .. nstore /\ Order[dump.i] = "bin"
      /\ dump.i \in Storages
  BY OrderFacts DEF BinOpen, BinWrite, Saving, SaveSteps, IInv, Control, Storages
<1>2. Order[dump.i] # "text" /\ File # Absent
  BY <1>1, Zenon DEF Work, BinThere, File
<1>3. CASE BinOpen
  <2>1. SaveStep(Torn, Backup, "write")
    BY <1>2, <1>3 DEF BinOpen
  <2>2. "write" \in SaveSteps /\ "write" \notin {"open", "rename"} /\ "write" \notin {"remove", "rename"}
        /\ Torn # Absent
    BY Present, Zenon DEF SaveSteps
  <2> QED BY <1>1, <2>1, <2>2, SaveWork, Zenon
<1>4. CASE BinWrite
  <2>1. SaveStep(Intact(Saved(map)), Backup, "open")
    BY <1>4, Zenon DEF BinWrite
  <2>2. Main(files', dump.i) = Intact(Saved(map))
    <3>1. files' = WithFile(dump.i, [main |-> Intact(Saved(map)), bak |-> Backup])
      BY <2>1, Zenon DEF SaveStep
    <3> QED BY <1>1, <1>2, <3>1, MainWritten
  <2>3. InFile(dump.i, Main(files', dump.i), map)
    BY <1>1, <2>2, InWritten, Zenon
  <2>4. "open" \in SaveSteps /\ "open" # "write" /\ "open" \notin {"remove", "rename"}
        /\ Intact(Saved(map)) # Absent
    BY Present, Zenon DEF SaveSteps
  <2> QED BY <1>1, <2>1, <2>3, <2>4, SaveWork, Zenon
<1> QED BY <1>3, <1>4, Zenon

LEMMA TextWork ==
    ASSUME IInv, Work, GoodMap(map), TextOpen \/ TextWrite \/ TextRemove \/ TextRename
    PROVE  Work'
<1>1. /\ dump.st \in SaveSteps /\ dump.i \in 1 .. nstore /\ Order[dump.i] = "text"
      /\ dump.i \in Storages
  <2>1. dump.st \in SaveSteps /\ dump.i \in 1 .. nstore /\ Order[dump.i] = "text"
    <3>1. \E st \in SaveSteps : Saving("text", st)
      BY Zenon DEF TextOpen, TextWrite, TextRemove, TextRename, SaveSteps
    <3> QED BY <3>1, Zenon DEF Saving
  <2> QED BY <2>1, OrderFacts DEF IInv, Control, Storages
<1>2. Order[dump.i] # "bin"
  BY <1>1, Zenon
<1>3. CASE TextOpen
  <2>1. SaveStep(File, Intact(<< >>), "write")
    BY <1>3, Zenon DEF TextOpen
  <2>2. "write" \in SaveSteps /\ "write" \notin {"open", "rename"} /\ "write" \notin {"remove", "rename"}
    BY Zenon DEF SaveSteps
  <2> QED BY <1>1, <1>2, <2>1, <2>2, SaveWork, Zenon
<1>4. CASE TextWrite
  <2>1. SaveStep(File, Intact(Lines(map)), "remove")
    BY <1>4, Zenon DEF TextWrite
  <2>2. "remove" \in SaveSteps /\ "remove" \notin {"open", "rename"}
    BY Zenon DEF SaveSteps
  <2> QED BY <1>1, <1>2, <2>1, <2>2, SaveWork, Zenon
<1>5. CASE TextRemove
  <2>1. SaveStep(Absent, Backup, "rename") /\ Backup = Intact(Lines(map))
    BY <1>1, <1>5, Zenon DEF TextRemove, Saving, Work, Progress
  <2>2. Main(files', dump.i) = Backup
    <3>1. files' = WithFile(dump.i, [main |-> Absent, bak |-> Backup]) /\ Backup # Absent
      BY <2>1, Present, Zenon DEF SaveStep
    <3> QED BY <1>1, <3>1, MainWritten
  <2>3. InFile(dump.i, Main(files', dump.i), map)
    BY <1>1, <2>1, <2>2, InWritten, Zenon
  <2>4. "rename" \in SaveSteps
    BY Zenon DEF SaveSteps
  <2> QED BY <1>1, <1>2, <2>1, <2>3, <2>4, SaveWork, Zenon
<1>6. CASE TextRename
  <2>1. SaveStep(Backup, Absent, "open") /\ Backup = Intact(Lines(map))
    BY <1>1, <1>6, Zenon DEF TextRename, Saving, Work, Progress
  <2>2. Main(files', dump.i) = Backup
    <3>1. files' = WithFile(dump.i, [main |-> Backup, bak |-> Absent])
      BY <2>1, Zenon DEF SaveStep
    <3> QED BY <1>1, <3>1, MainWritten
  <2>3. InFile(dump.i, Main(files', dump.i), map)
    BY <1>1, <2>1, <2>2, InWritten, Zenon
  <2>4. "open" \in SaveSteps /\ "open" \notin {"remove", "rename"}
    BY Zenon DEF SaveSteps
  <2> QED BY <1>1, <1>2, <2>1, <2>3, <2>4, SaveWork, Zenon
<1> QED BY <1>3, <1>4, <1>5, <1>6

LEMMA OtherWork ==
    ASSUME IInv, Work, TimerFires \/ DumpLock \/ DumpEnd \/ Reset
    PROVE  Work'
<1>1. CASE TimerFires \/ DumpLock
  <2>1. /\ UNCHANGED <<map, nstore, files, wrpend>>
        /\ armed \/ dump.st = "wait"
        /\ dump' = WaitDump \/ dump' = StartDump
    BY <1>1, Zenon DEF TimerFires, DumpLock
  <2>2. WaitDump.st = "wait" /\ StartDump.st = "open" /\ StartDump.i = 1
    BY Zenon DEF WaitDump, StartDump
  <2>3. Progress'
    BY <2>1, <2>2 DEF Progress, SaveSteps, Storages
  <2>4. BinThere'
    BY <2>1, Zenon DEF Work, BinThere
  <2>5. armed \/ dump.st # "idle"
    BY <2>1, Zenon
  <2>6. Active' /\ Direct'
    BY <2>1, <2>5, Zenon DEF Work, Active, Direct, Configured
  <2> QED BY <2>3, <2>4, <2>6, Zenon DEF Work
<1>2. CASE DumpEnd \/ Reset
  <2>1. /\ dump' = NoDump /\ wrpend' = FALSE /\ files' = files
        /\ armed' = armed \/ armed' = FALSE
        /\ armed' => nstore' = nstore
    BY <1>2, Zenon DEF DumpEnd, Reset
  <2>2. dump'.st = "idle"
    BY <2>1, Dumps
  <2>3. Progress'
    BY <2>2, Zenon DEF Progress, SaveSteps
  <2>4. BinThere'
    BY <2>1, Zenon DEF Work, BinThere
  <2>5. Active'
    BY <2>1, <2>2, Zenon DEF Work, Active, Configured
  <2>6. Unlocked'
    BY <2>2, Zenon DEF Unlocked
  <2>7. Direct'
    <3>1. dump'.st # "wait"
      BY <2>2, Zenon
    <3> QED BY <2>1, <2>6, <3>1, Zenon DEF Work, Direct
  <2> QED BY <2>3, <2>4, <2>5, <2>7, Zenon DEF Work
<1> QED BY <1>1, <1>2, Zenon

LEMMA IdleWork ==
    ASSUME Work, UNCHANGED <<map, wrpend, nstore, armed, dump, files>>
    PROVE  Work'
<1>1. Progress'
  BY Zenon DEF Work, Progress, Backup, File
<1>2. BinThere'
  BY Zenon DEF Work, BinThere
<1>3. Active' /\ Direct'
  BY Zenon DEF Work, Active, Direct, Configured, Unlocked
<1> QED BY <1>1, <1>2, <1>3, Zenon DEF Work

LEMMA NextWork == IInv /\ Typing /\ Good /\ Work /\ [Next]_vars => Work'
<1> SUFFICES ASSUME IInv, Typing, Good, Work, [Next]_vars PROVE Work'
  BY Zenon
<1>0. GoodMap(map)
  BY Zenon DEF Typing, Good, GoodMap
<1>1. CASE settings_setstorage
  BY <1>1, SetStorageWork, Zenon
<1>2. CASE Change
  BY <1>2, OtherCallWork, Zenon DEF Change
<1>3. CASE \E t \in Threads : settings_notify(t) \/ WaitDone(t) \/ TakeSignal(t)
  <2>1. ASSUME NEW t \in Threads, WaitDone(t) \/ TakeSignal(t) PROVE Work'
    <3>1. UNCHANGED <<map, wrpend, nstore, armed, dump, files>>
      BY <2>1, Zenon DEF WaitDone, TakeSignal
    <3> QED BY <3>1, IdleWork, Zenon
  <2> QED BY <1>3, <2>1, OtherCallWork, Zenon
<1>4. CASE TimerFires \/ DumpLock \/ DumpEnd \/ Reset
  BY <1>4, OtherWork, Zenon
<1>5. CASE BinOpen \/ BinWrite \/ TextOpen \/ TextWrite \/ TextRemove \/ TextRename
  BY <1>0, <1>5, BinWork, TextWork, Zenon
<1>6. CASE UNCHANGED vars
  <2>1. UNCHANGED <<map, wrpend, nstore, armed, dump, files>>
    BY <1>6, Zenon DEF vars
  <2> QED BY <2>1, IdleWork, Zenon
<1> QED BY <1>1, <1>2, <1>3, <1>4, <1>5, <1>6, Zenon DEF Next, Dump

=============================================================================
