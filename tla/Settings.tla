------------------------------ MODULE Settings -------------------------------
(***************************************************************************)
(* system/settings: threads that create, set, clear and synchronise        *)
(* settings, the timer thread that saves them to the storages, and resets  *)
(* between any two steps of a save.                                        *)
(*                                                                         *)
(* The mutex is held across steps only by dump_cache; every other critical *)
(* section is one action, enabled while no save is in progress.  An        *)
(* application configures its storages before it creates settings, as      *)
(* system/settings/readme.md prescribes, and its files exist.              *)
(***************************************************************************)
EXTENDS SettingsData

CONSTANTS Threads,      \* threads of the application
          Order,        \* the kinds of its storages, in the order of setstorage
          MaxStorages,  \* CONFIG_SYSTEM_SETTINGS_MAX_STORAGES
          MaxSignals,   \* CONFIG_SYSTEM_SETTINGS_MAX_SIGNALS
          Cached,       \* CONFIG_SYSTEM_SETTINGS_CACHED_SAVES
          Inputs        \* the typed values it uses

ASSUME SettingsAssumption ==
    /\ Order \in Seq({"bin", "text"}) /\ Len(Order) \in 1 .. MaxStorages
    /\ MaxStorages \in Nat /\ MaxSignals \in Nat /\ Cached \in BOOLEAN /\ Inputs \subseteq Input

VARIABLES
  (* g_settings and map *)
  map,      \* the settings in memory
  hash,     \* the map whose hash g_settings.hash is
  wrpend,   \* a save is pending
  nstore,   \* storages configured so far
  notify,   \* the registered threads, in order
  (* threads *)
  armed,    \* the timer runs
  dump,     \* dump_cache: the step st of saving storage i
  waiting,  \* threads in the polling loop of settings_sync or settings_clear
  sig,      \* threads with a signal they have not handled
  (* the file system *)
  files,    \* for each storage the file and its backup
  (* history *)
  asked,    \* what the application last stored under each key
  saved     \* what the last complete save, or the last boot, had for each key

vars == <<map, hash, wrpend, nstore, notify, armed, dump, waiting, sig,
          files, asked, saved>>

Storages   == 1 .. Len(Order)
Absent     == [st |-> "absent", data |-> << >>]
Torn       == [st |-> "torn", data |-> << >>]
Intact(d)  == [st |-> "intact", data |-> d]
NoDump     == [st |-> "idle", i |-> 0]
WaitDump   == [st |-> "wait", i |-> 0]
StartDump  == [st |-> "open", i |-> 1]

\* Replacing the files of storage i.
WithFile(i, f) == [j \in Storages |-> IF j = i THEN f ELSE files[j]]

\* The mutex is free.
Unlocked   == dump.st \in {"idle", "wait"}
Configured == nstore = Len(Order)

-----------------------------------------------------------------------------
(* Loading.                                                                *)

\* Faulty variant: the backup is ignored.
RestoredNever(i, f) == f

\* load_text takes the backup for the file if the file is missing.
Restored(i, f) ==
    IF Order[i] = "text" /\ f.main = Absent /\ f.bak # Absent
    THEN [main |-> f.bak, bak |-> Absent] ELSE f

\* load, of storage i among the files fs.
Loadable(fs, i) == Restored(i, fs[i]).main.st = "intact"

LoadFrom(fs, m, i) ==
    LET d == Restored(i, fs[i]).main.data
    IN  IF ~Loadable(fs, i) THEN m
        ELSE IF Order[i] = "bin" THEN LoadBin(m, d) ELSE LoadText(m, d)

\* load, for the first n storages: each storage that can be loaded overrides
\* the ones before it.
Loads(fs, m, n) ==
    LET f[i \in 0 .. n] == IF i = 0 THEN m ELSE LoadFrom(fs, f[i - 1], i)
    IN  f
Load(fs, m, n) == Loads(fs, m, n)[n]

\* The settings an application would find after a reset now.
Boot == Settings(Load(files, EmptyMap, Len(Order)))

-----------------------------------------------------------------------------
(* The application's calls.                                                *)

\* Faulty variant: the pending flag is not set.
SaveNotPending ==
    IF Cached THEN armed' = TRUE /\ UNCHANGED <<dump, wrpend>>
              ELSE dump' = StartDump /\ UNCHANGED <<armed, wrpend>>

Save ==
    /\ wrpend' = TRUE
    /\ IF Cached THEN armed' = TRUE /\ UNCHANGED dump
                 ELSE dump' = StartDump /\ UNCHANGED armed
NoSave == UNCHANGED <<wrpend, armed, dump>>

SigNotify == sig' = sig \cup Range(notify)

settings_setstorage ==
    LET n == nstore + 1
    IN  /\ Unlocked /\ ~Configured
        /\ nstore' = n
        /\ map'   = LoadFrom(files, map, n)
        /\ files' = WithFile(n, Restored(n, files[n]))
        /\ IF n > 1 /\ (map' # hash \/ files'[n].main = Absent)
           THEN SigNotify /\ Save ELSE UNCHANGED sig /\ NoSave
        /\ hash'  = map'
        /\ asked' = Settings(map')
        /\ UNCHANGED <<notify, waiting, saved>>

\* Faulty variant: settings_sync sends no signals.
settings_syncSilent(t, wait_dump) ==
    /\ Unlocked /\ Configured /\ t \notin waiting
    /\ files' = [i \in Storages |-> Restored(i, files[i])]
    /\ map' = Load(files, map, nstore)
    /\ IF map' # hash THEN hash' = map' /\ Save ELSE UNCHANGED hash /\ NoSave
    /\ waiting' = IF wait_dump THEN waiting \cup {t} ELSE waiting
    /\ UNCHANGED <<nstore, notify, sig, asked, saved>>

\* settings_sync; with cached saves it may wait for the save.
settings_sync(t, wait_dump) ==
    /\ Unlocked /\ Configured /\ t \notin waiting
    /\ files' = [i \in Storages |-> Restored(i, files[i])]
    /\ map'  = Load(files, map, nstore)
    /\ LET failed == {i \in Storages : ~Loadable(files, i)}
           ok     == Cardinality(failed) < MaxStorages
       IN  /\ IF ok /\ map' # hash
              THEN hash' = map' /\ SigNotify /\ Save
              ELSE UNCHANGED <<hash, sig>> /\ NoSave
           /\ waiting' = IF ok /\ wait_dump /\ Cached THEN waiting \cup {t} ELSE waiting
    /\ UNCHANGED <<nstore, notify, asked, saved>>

\* settings_notify; a thread that finds the table full is not registered.
settings_notify(t) ==
    /\ Unlocked /\ Configured /\ t \notin waiting
    /\ Len(notify) < MaxSignals
    /\ notify' = Append(notify, t)
    /\ UNCHANGED <<map, hash, wrpend, nstore, armed, dump, waiting, sig, files, asked, saved>>

settings_clear(t) ==
    /\ Unlocked /\ Configured /\ t \notin waiting
    /\ map' = EmptyMap /\ hash' = EmptyMap
    /\ Save
    /\ waiting' = waiting \cup {t}
    /\ asked' = [k \in Keys |-> None]
    /\ UNCHANGED <<nstore, notify, sig, files, saved>>

\* What settings_create returns: a key that exists is left alone, a full map
\* gives no error, a new entry is of the type the setter expects.
CreateRet(k, s) ==
    IF Stops(map, k) = {} \/ map[Slot(map, k)].key = k THEN "OK"
    ELSE SetRet(s.type, s)
CreateMap(k, s) ==
    IF Stops(map, k) = {} \/ map[Slot(map, k)].key = k \/ CreateRet(k, s) # "OK"
    THEN map ELSE [map EXCEPT ![Slot(map, k)] = Entry(k, SetVal(s))]

settings_create(t, k, s) ==
    /\ Unlocked /\ Configured /\ t \notin waiting
    /\ CreateMap(k, s) # map
    /\ map' = CreateMap(k, s) /\ hash' = map'
    /\ Save
    /\ asked' = [asked EXCEPT ![k] = SetVal(s)]
    /\ UNCHANGED <<nstore, notify, waiting, sig, files, saved>>

\* Faulty variant: a changed setting is not saved.
settings_setUnsaved(t, k, s) ==
    /\ Unlocked /\ Configured /\ t \notin waiting
    /\ Found(map, k) /\ SetRet(map[Slot(map, k)].type, s) = "OK"
    /\ map' = [map EXCEPT ![Slot(map, k)] = Entry(k, SetVal(s))]
    /\ hash' = map' /\ SigNotify /\ NoSave
    /\ asked' = [asked EXCEPT ![k] = SetVal(s)]
    /\ UNCHANGED <<nstore, notify, waiting, files, saved>>

settings_set(t, k, s) ==
    /\ Unlocked /\ Configured /\ t \notin waiting
    /\ Found(map, k) /\ SetRet(map[Slot(map, k)].type, s) = "OK"
    /\ map' = [map EXCEPT ![Slot(map, k)] = Entry(k, SetVal(s))]
    /\ IF map' # hash THEN hash' = map' /\ SigNotify /\ Save
                      ELSE UNCHANGED <<hash, sig>> /\ NoSave
    /\ asked' = [asked EXCEPT ![k] = SetVal(s)]
    /\ UNCHANGED <<nstore, notify, waiting, files, saved>>

\* The end of the polling loops of settings_sync and settings_clear.
WaitDone(t) ==
    /\ t \in waiting /\ ~wrpend
    /\ waiting' = waiting \ {t}
    /\ UNCHANGED <<map, hash, wrpend, nstore, notify, armed, dump, sig, files, asked, saved>>

TakeSignal(t) ==
    /\ t \in sig
    /\ sig' = sig \ {t}
    /\ UNCHANGED <<map, hash, wrpend, nstore, notify, armed, dump, waiting, files, asked, saved>>

-----------------------------------------------------------------------------
(* The timer and dump_cache.                                               *)

\* The timer expires; its notification thread runs dump_cache.
TimerFires ==
    /\ armed /\ dump = NoDump
    /\ armed' = FALSE /\ dump' = WaitDump
    /\ UNCHANGED <<map, hash, wrpend, nstore, notify, waiting, sig, files, asked, saved>>

\* Faulty variant: the polling loops run with the mutex held.
DumpLockPolled ==
    /\ dump.st = "wait" /\ waiting = {}
    /\ dump' = StartDump
    /\ UNCHANGED <<map, hash, wrpend, nstore, notify, armed, waiting, sig, files, asked, saved>>

DumpLock ==
    /\ dump.st = "wait"
    /\ dump' = StartDump
    /\ UNCHANGED <<map, hash, wrpend, nstore, notify, armed, waiting, sig, files, asked, saved>>

\* One step of save_fn for storage dump.i, which leaves the given file and
\* backup; the next step is st, of the next storage if st is "open".
SaveStep(main, bak, st) ==
    /\ files' = WithFile(dump.i, [main |-> main, bak |-> bak])
    /\ dump'  = [st |-> st, i |-> IF st = "open" THEN dump.i + 1 ELSE dump.i]
    /\ UNCHANGED <<map, hash, wrpend, nstore, notify, armed, waiting, sig, asked, saved>>

File   == files[dump.i].main
Backup == files[dump.i].bak

Saving(kind, st) == dump.st = st /\ dump.i \in 1 .. nstore /\ Order[dump.i] = kind

\* save_bin truncates the file, if there is one, and writes it in place.
BinOpen ==
    /\ Saving("bin", "open")
    /\ IF File = Absent THEN SaveStep(File, Backup, "open")
                        ELSE SaveStep(Torn, Backup, "write")
BinWrite ==
    /\ Saving("bin", "write")
    /\ SaveStep(Intact(Saved(map)), Backup, "open")

\* Faulty variants: the text file is removed first, or written in place.
TextOpenRemoves ==
    /\ Saving("text", "open")
    /\ SaveStep(Absent, Intact(<< >>), "write")
TextOpenInPlace ==
    /\ Saving("text", "open")
    /\ SaveStep(Intact(<< >>), Intact(<< >>), "write")

\* save_text writes the backup and puts it in the place of the file.
TextOpen ==
    /\ Saving("text", "open")
    /\ SaveStep(File, Intact(<< >>), "write")
TextWrite ==
    /\ Saving("text", "write")
    /\ SaveStep(File, Intact(Lines(map)), "remove")
TextRemove ==
    /\ Saving("text", "remove")
    /\ SaveStep(Absent, Backup, "rename")
TextRename ==
    /\ Saving("text", "rename")
    /\ SaveStep(Backup, Absent, "open")

\* Faulty variant: the save stays pending.
DumpEndPending ==
    /\ dump.st = "open" /\ dump.i > nstore
    /\ dump' = NoDump
    /\ saved' = Settings(map)
    /\ UNCHANGED <<map, hash, wrpend, nstore, notify, armed, waiting, sig, files, asked>>

DumpEnd ==
    /\ dump.st = "open" /\ dump.i > nstore
    /\ dump' = NoDump /\ wrpend' = FALSE
    /\ saved' = Settings(map)
    /\ UNCHANGED <<map, hash, nstore, notify, armed, waiting, sig, files, asked>>

-----------------------------------------------------------------------------

\* settings_init at the first start: the application's files exist and hold
\* nothing.
Init ==
    /\ map = EmptyMap /\ hash = EmptyMap /\ wrpend = FALSE /\ nstore = 0
    /\ notify = << >> /\ armed = FALSE /\ dump = NoDump
    /\ waiting = {} /\ sig = {}
    /\ files = [i \in Storages |->
                  [main |-> IF Order[i] = "bin" THEN Torn ELSE Intact(<< >>),
                   bak |-> Absent]]
    /\ asked = [k \in Keys |-> None]
    /\ saved = [k \in Keys |-> None]

\* Power is lost at any time; settings_init runs again.
Reset ==
    /\ map' = EmptyMap /\ hash' = EmptyMap /\ wrpend' = FALSE /\ nstore' = 0
    /\ notify' = << >> /\ armed' = FALSE /\ dump' = NoDump
    /\ waiting' = {} /\ sig' = {}
    /\ saved' = Boot /\ asked' = Boot
    /\ UNCHANGED files

Change == \E t \in Threads :
    \/ settings_clear(t)
    \/ \E k \in Keys, s \in Inputs : settings_create(t, k, s) \/ settings_set(t, k, s)
    \/ \E wait_dump \in BOOLEAN : settings_sync(t, wait_dump)

Dump == \/ DumpLock \/ BinOpen \/ BinWrite
        \/ TextOpen \/ TextWrite \/ TextRemove \/ TextRename \/ DumpEnd

Next == \/ settings_setstorage
        \/ Change
        \/ \E t \in Threads : settings_notify(t) \/ WaitDone(t) \/ TakeSignal(t)
        \/ TimerFires
        \/ Dump
        \/ Reset

Spec == Init /\ [][Next]_vars

\* The timer expires when it is no longer set again, the thread that saves
\* gets the mutex and runs on, polling threads look again.
FairSpec == /\ Spec
            /\ WF_vars(TimerFires) /\ WF_vars(Dump)
            /\ \A t \in Threads : WF_vars(WaitDone(t))

-----------------------------------------------------------------------------
(* Properties.                                                             *)

Steps == {"idle", "wait", "open", "write", "remove", "rename"}

\* Every variable keeps its type, the map holds each key once, before its
\* first empty entry, and empty entries are zero: load_text, load_bin and
\* settings_create look no further than the first empty entry.
TypeOK ==
    /\ \A i \in Index :
         \/ map[i] = EmptyEntry /\ \A j \in i .. MapSize - 1 : map[j] = EmptyEntry
         \/ /\ map[i].key \in Keys /\ [type |-> map[i].type, val |-> map[i].val] \in Setting
            /\ \A j \in Index : map[j].key = map[i].key => j = i
    /\ DOMAIN map = Index /\ DOMAIN hash = Index
    /\ wrpend \in BOOLEAN /\ armed \in BOOLEAN
    /\ nstore \in 0 .. Len(Order) /\ Len(notify) <= MaxSignals
    /\ dump.st \in Steps /\ dump.i \in 0 .. Len(Order) + 1
    /\ Range(notify) \subseteq Threads /\ waiting \subseteq Threads /\ sig \subseteq Threads

\* g_settings.hash is the hash of the map whenever the mutex is free, so that
\* settings_hash tells a changed map from an unchanged one and no call mistakes
\* one for the other.
HashCurrent == Unlocked => hash = map

\* A pending save is never forgotten: while wrpend is set the timer runs or
\* dump_cache is about to save or saving.  Otherwise the polling loops of
\* settings_sync and settings_clear would never end.
NoForgottenSave == wrpend => armed \/ dump # NoDump

\* A text storage always has its file or a backup to restore, and save_text
\* rewrites the backup only while the file is there, also in a save that
\* follows a reset between remove and rename.
TextKept ==
    \A i \in Storages : Order[i] = "text" =>
      /\ files[i].main = Absent => files[i].bak # Absent
      /\ dump.i = i /\ i <= nstore /\ dump.st \in {"open", "write"} =>
           files[i].main # Absent

\* Once nothing is pending a reboot changes no setting, by whatever
\* interleaving of calls, saves and resets that state was reached.
RebootKeeps == Configured /\ ~wrpend => Boot = Settings(map)

\* A reset at any step of a save leaves of each setting the value of the last
\* complete save or the one that was being saved; outside a save nothing but
\* the last complete save is found.
CrashAtomic ==
    \A k \in Keys : \/ Boot[k] = saved[k]
                    \/ ~Unlocked /\ Boot[k] = Settings(map)[k]

\* With a text storage alone a reset leaves all settings of the last complete
\* save or all of the one in progress, never some of each.
SaveAtomic == Boot = saved \/ (~Unlocked /\ Boot = Settings(map))

\* A setting that the last boot or save had, and that was not cleared since,
\* is found after a reset.
StoredSurvives ==
    \A k \in Keys : saved[k] # None /\ Settings(map)[k] # None => Boot[k] # None

\* Whenever the value of a setting is changed by settings_set or by a load, a
\* signal is sent to all registered threads.
NotifiedOnChange ==
    [][\A k \in Keys :
         LET old == Settings(map)[k]  new == Settings(map)'[k]
         IN  old # new /\ None \notin {old, new} => Range(notify) \subseteq sig']_vars

\* settings_get returns what the application stored last, when asked for the
\* type it was stored with, in spite of saves, resets and synchronisation.
GetReturnsSet ==
    Configured /\ Unlocked =>
      \A k \in Keys : asked[k] # None =>
        Get(map, k, asked[k].type) = [ret |-> "OK", val |-> asked[k].val]

\* When the application makes no more changes and there are no more resets,
\* everything gets saved, and settings_sync and settings_clear return.
Quiet == <>[][~(Change \/ settings_setstorage \/ Reset)]_vars
EventuallySaved == Quiet => <>[](~wrpend /\ waiting = {})
=============================================================================
