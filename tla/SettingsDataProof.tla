------------------------- MODULE SettingsDataProof --------------------------
(***************************************************************************)
(* Proofs about the map of the settings and what loading a file makes of   *)
(* it, for any keys, values and size of the map.                           *)
(***************************************************************************)
EXTENDS SettingsData, FiniteSetTheorems, WellFoundedInduction, TLAPS

\* A setting in the map, without its key.
Value(e) == [type |-> e.type, val |-> e.val]

Entries == {Entry(k, s) : k \in Keys, s \in Setting}

\* A map as the code keeps it: the settings come before the empty entries, and
\* no key occurs twice.
Shape(m) ==
    /\ m \in [Index -> Entries \cup {EmptyEntry}]
    /\ \A i, j \in Index : i < j /\ m[i] = EmptyEntry => m[j] = EmptyEntry
    /\ \A i, j \in Index : m[i] \in Entries /\ m[i].key = m[j].key => i = j

-----------------------------------------------------------------------------
(* Induction                                                                 *)

\* Every set of numbers has a least member, which Min gives.
LEMMA Least ==
    ASSUME NEW S \in SUBSET Nat, S # {}
    PROVE  Min(S) \in S /\ \A n \in S : Min(S) <= n
<1> DEFINE R == {s \in Nat \X Nat : s[1] < s[2]}
<1>1. IsWellFoundedOn(R, Nat)
  BY NatLessThanWellFounded, Zenon DEF OpToRel
<1>2. \A k, n \in S : k < n => <<k, n>> \in R
  BY Zenon
<1> HIDE DEF R
<1>3. \E n \in S : \A k \in S : <<k, n>> \notin R
  BY <1>1, WFMin, Zenon
<1>4. \E n \in S : \A k \in S : ~(k < n)
  BY <1>2, <1>3, Zenon
<1>5. \A k, n \in S : ~(k < n) => n <= k
  OBVIOUS
<1>6. \E n \in S : \A k \in S : n <= k
  BY <1>4, <1>5, Zenon
<1> QED BY <1>6, Zenon DEF Min

\* Induction up to N, for a set.
LEMMA UpTo ==
    ASSUME NEW N \in Nat, NEW S, 0 \in S,
           \A n \in Nat : n < N /\ n \in S => n + 1 \in S
    PROVE  \A n \in 0 .. N : n \in S
<1> SUFFICES ASSUME \E n \in 0 .. N : n \notin S PROVE FALSE
  BY Zenon
<1> DEFINE T == {n \in 0 .. N : n \notin S}
<1>1. T \in SUBSET Nat /\ T # {}
  OBVIOUS
<1>2. Min(T) \in T /\ \A n \in T : Min(T) <= n
  BY <1>1, Least, Zenon
<1>3. PICK k \in T : \A n \in T : k <= n
  BY <1>2, Zenon
<1>4. k # 0
  BY <1>3, Zenon
<1>5. k - 1 \in 0 .. N /\ k - 1 < N /\ ~(k <= k - 1) /\ k = (k - 1) + 1 /\ k - 1 \in Nat
  BY <1>4
<1>6. k - 1 \in S
  BY <1>3, <1>5, Zenon
<1> QED BY <1>5, <1>6, Zenon

\* The maps that loading a file goes through.
LEMMA LoadingIs ==
    ASSUME NEW m, NEW es, Len(es) \in Nat
    PROVE  Loading(m, es) =
             [n \in 0 .. Len(es) |-> IF n = 0 THEN m ELSE LoadEntry(Loading(m, es)[n - 1], es[n])]
<1> DEFINE Is(g, N) == g = [n \in 0 .. N |-> IF n = 0 THEN m ELSE LoadEntry(g[n - 1], es[n])]
           S == {N \in Nat : \E g : Is(g, N)}
<1>1. 0 \in S
  <2> DEFINE g == [n \in 0 .. 0 |-> m]
  <2>1. Is(g, 0)
    OBVIOUS
  <2> HIDE DEF g, Is
  <2> QED BY <2>1, Zenon
<1>2. \A N \in Nat : N < Len(es) /\ N \in S => N + 1 \in S
  <2> HIDE DEF Is
  <2> SUFFICES ASSUME NEW N \in Nat, NEW g, Is(g, N) PROVE \E h : Is(h, N + 1)
    OBVIOUS
  <2> USE DEF Is
  <2> DEFINE h == [n \in 0 .. N + 1 |-> IF n <= N THEN g[n] ELSE LoadEntry(g[N], es[N + 1])]
  <2>1. \A n \in 0 .. N : h[n] = g[n]
    OBVIOUS
  <2>2. \A n \in 0 .. N : g[n] = IF n = 0 THEN m ELSE LoadEntry(g[n - 1], es[n])
    BY Zenon
  <2>3. \A n \in 0 .. N + 1 : h[n] = IF n = 0 THEN m ELSE LoadEntry(h[n - 1], es[n])
    <3> SUFFICES ASSUME NEW n \in 0 .. N + 1
                 PROVE  h[n] = IF n = 0 THEN m ELSE LoadEntry(h[n - 1], es[n])
      BY Zenon
    <3>1. CASE n = 0
      BY <3>1, <2>2
    <3>2. CASE n # 0 /\ n <= N
      <4>1. n \in 0 .. N /\ n - 1 \in 0 .. N
        BY <3>2
      <4> HIDE DEF h
      <4> QED BY <3>2, <4>1, <2>1, <2>2, Zenon
    <3>3. CASE n = N + 1
      <4>1. n - 1 = N /\ N \in 0 .. N /\ n # 0 /\ ~(n <= N)
        BY <3>3
      <4> QED BY <3>3, <4>1
    <3> QED BY <3>1, <3>2, <3>3
  <2>4. Is(h, N + 1)
    BY <2>3, Zenon
  <2> HIDE DEF h, Is
  <2> QED BY <2>4, Zenon
<1>3. Len(es) \in S
  <2> HIDE DEF S
  <2>1. \A n \in 0 .. Len(es) : n \in S
    BY <1>1, <1>2, UpTo, Zenon
  <2> QED BY <2>1
<1>4. \E g : Is(g, Len(es))
  BY <1>3, Zenon
<1> QED BY <1>4, Zenon DEF Loading

-----------------------------------------------------------------------------
(* Searching the map                                                         *)

\* An entry is a key of the application and a typed value, and is not empty.
LEMMA EntryParts ==
    ASSUME NEW e \in Entries
    PROVE  /\ e.key \in Keys /\ e.type \in Types
           /\ Value(e) \in Setting
           /\ e \in [key : Keys, type : Types, val : Int \cup Strings \cup Addrs]
           /\ e = [key |-> e.key, type |-> e.type, val |-> e.val]
<1>1. PICK k \in Keys, s \in Setting : e = Entry(k, s)
  BY DEF Entries
<1>2. /\ s = [type |-> s.type, val |-> s.val] /\ s.type \in Types
      /\ s.val \in Int \cup Strings \cup Addrs
  BY DEF Setting, Types
<1> QED BY <1>1, <1>2, Zenon DEF Entry, Value

LEMMA EntryOf ==
    ASSUME NEW k \in Keys, NEW s \in Setting
    PROVE  /\ Entry(k, s) \in Entries /\ Entry(k, s).key = k /\ s # None
           /\ Value(Entry(k, s)) = s
<1>1. s = [type |-> s.type, val |-> s.val]
  BY Zenon DEF Setting
<1>2. Entry(k, s) \in Entries
  BY DEF Entries
<1> QED BY <1>1, <1>2, MapAssumption, Zenon DEF Entry, Value

LEMMA EntryFacts ==
    /\ \A e \in Entries :
         e.key \in Keys /\ e.key # NoKey /\ e.type # "EMPTY" /\ e # EmptyEntry /\ e # None
    /\ EmptyEntry.type = "EMPTY" /\ EmptyEntry.key = NoKey /\ NoKey \notin Keys
<1>1. \A t \in Types : t # "EMPTY"
  BY Zenon DEF Types
<1>2. EmptyEntry.type = "EMPTY" /\ EmptyEntry.key = NoKey
  BY Zenon DEF EmptyEntry
<1>3. NoKey \notin Keys /\ None \notin [key : Keys, type : Types, val : Int \cup Strings \cup Addrs]
  BY MapAssumption, Zenon
<1>4. ASSUME NEW e \in Entries
      PROVE  /\ e.key \in Keys /\ e.type \in Types
             /\ e \in [key : Keys, type : Types, val : Int \cup Strings \cup Addrs]
  BY EntryParts, Zenon
<1> QED BY <1>1, <1>2, <1>3, <1>4, Zenon

\* Where a search stops.
LEMMA SlotIs ==
    ASSUME NEW m, NEW k, Stops(m, k) # {}
    PROVE  /\ Slot(m, k) \in Stops(m, k) /\ Slot(m, k) \in Index
           /\ \A i \in Stops(m, k) : Slot(m, k) <= i
<1>1. Stops(m, k) \in SUBSET Nat /\ Stops(m, k) \subseteq Index
  BY MapAssumption DEF Stops, Index
<1> QED BY <1>1, Least, Zenon DEF Slot

LEMMA StopsIn ==
    ASSUME NEW m, Shape(m), NEW k \in Keys, NEW i \in Index
    PROVE  /\ i \in Stops(m, k) <=> m[i] = EmptyEntry \/ m[i].key = k
           /\ m[i] \in Entries <=> m[i] # EmptyEntry
           /\ m[i].key = k => m[i] \in Entries
<1>1. m[i] \in Entries \cup {EmptyEntry}
  BY Zenon DEF Shape
<1> QED BY <1>1, EntryFacts, MapAssumption, Zenon DEF Stops

\* A search stops at the entry of the key, or, if there is none, at the first
\* empty one.
LEMMA SlotShape ==
    ASSUME NEW m, Shape(m), NEW k \in Keys, Stops(m, k) # {}
    PROVE  /\ Slot(m, k) \in Index
           /\ \A j \in Index : j < Slot(m, k) => m[j] \in Entries /\ m[j].key # k
           /\ \/ m[Slot(m, k)] \in Entries /\ m[Slot(m, k)].key = k
              \/ m[Slot(m, k)] = EmptyEntry /\ \A j \in Index : m[j].key # k
<1> DEFINE i == Slot(m, k)
<1>1. i \in Index /\ i \in Stops(m, k) /\ \A j \in Stops(m, k) : i <= j
  BY SlotIs, Zenon
<1> HIDE DEF i
<1>2. ASSUME NEW j \in Index, j < i PROVE m[j] \in Entries /\ m[j].key # k
  <2>1. ~(i <= j)
    BY <1>1, <1>2 DEF Index
  <2> QED BY <1>1, <2>1, StopsIn, Zenon
<1>3. CASE m[i].key = k
  BY <1>1, <1>2, <1>3, StopsIn, Zenon DEF i
<1>4. CASE m[i].key # k
  <2>1. m[i] = EmptyEntry
    BY <1>1, <1>4, StopsIn, Zenon
  <2>2. ASSUME NEW j \in Index PROVE m[j].key # k
    <3>1. CASE j < i
      BY <1>2, <3>1, Zenon
    <3>2. CASE i < j
      <4>1. m[j] = EmptyEntry
        BY <1>1, <2>1, <3>2, Zenon DEF Shape
      <4> QED BY <4>1, EntryFacts, MapAssumption, Zenon
    <3>3. i < j \/ j < i \/ i = j
      BY <1>1 DEF Index
    <3> QED BY <1>4, <3>1, <3>2, <3>3, Zenon
  <2> QED BY <1>1, <1>2, <2>1, <2>2, Zenon DEF i
<1> QED BY <1>3, <1>4, Zenon

\* The setting of a key in the map, and of one that is not.
LEMMA SettingsAt ==
    ASSUME NEW m, Shape(m), NEW k \in Keys, NEW i \in Index, m[i].key = k
    PROVE  /\ Stops(m, k) # {} /\ Slot(m, k) = i /\ m[i] \in Entries /\ Found(m, k)
           /\ Settings(m)[k] = Value(m[i])
<1>1. Stops(m, k) # {} /\ m[i] \in Entries
  BY StopsIn
<1>2. m[Slot(m, k)].key = k /\ Slot(m, k) \in Index
  BY <1>1, SlotShape
<1>3. Slot(m, k) = i
  BY <1>1, <1>2, Zenon DEF Shape
<1>4. Found(m, k)
  BY <1>1, <1>3, EntryFacts, Zenon DEF Found
<1> QED BY <1>1, <1>3, <1>4, Zenon DEF Settings, Value

LEMMA SettingsNone ==
    ASSUME NEW m, Shape(m), NEW k \in Keys, \A i \in Index : m[i].key # k
    PROVE  ~Found(m, k) /\ Settings(m)[k] = None
<1>1. ~Found(m, k)
  <2>1. CASE Stops(m, k) = {}
    BY <2>1, Zenon DEF Found
  <2>2. CASE Stops(m, k) # {}
    <3>1. Slot(m, k) \in Index /\ m[Slot(m, k)] = EmptyEntry
      BY <2>2, SlotShape, Zenon
    <3> QED BY <3>1, EntryFacts, Zenon DEF Found
  <2> QED BY <2>1, <2>2, Zenon
<1> QED BY <1>1, Zenon DEF Settings

-----------------------------------------------------------------------------
(* Storing a setting                                                         *)

\* Two maps that agree on key k.
Agree(m, p, k) == \A i \in Index : m[i].key = k \/ p[i].key = k => p[i] = m[i]

LEMMA SameSetting ==
    ASSUME NEW m, Shape(m), NEW p, Shape(p), NEW k \in Keys, Agree(m, p, k)
    PROVE  Settings(p)[k] = Settings(m)[k] /\ (Found(p, k) <=> Found(m, k))
<1>1. CASE \E i \in Index : m[i].key = k
  <2>1. PICK i \in Index : m[i].key = k
    BY <1>1, Zenon
  <2>2. p[i] = m[i]
    BY <2>1, Zenon DEF Agree
  <2>3. Found(m, k) /\ Settings(m)[k] = Value(m[i])
    BY <2>1, SettingsAt
  <2>4. Found(p, k) /\ Settings(p)[k] = Value(p[i])
    BY <2>1, <2>2, SettingsAt
  <2> QED BY <2>2, <2>3, <2>4, Zenon
<1>2. CASE \A i \in Index : m[i].key # k
  <2>1. \A i \in Index : p[i].key # k
    BY <1>2, Zenon DEF Agree
  <2> QED BY <1>2, <2>1, SettingsNone
<1> QED BY <1>1, <1>2, Zenon

\* An entry is stored where the search for its key stops.  The map keeps its
\* shape, and the other settings are as before.
LEMMA Put ==
    ASSUME NEW m, Shape(m), NEW e \in Entries, Stops(m, e.key) # {},
           NEW p, p = [m EXCEPT ![Slot(m, e.key)] = e]
    PROVE  /\ Shape(p)
           /\ Settings(p)[e.key] = Value(e)
           /\ \A k \in Keys : k # e.key =>
                Settings(p)[k] = Settings(m)[k] /\ (Found(p, k) <=> Found(m, k))
<1> DEFINE i == Slot(m, e.key)
<1>0. e.key \in Keys /\ e # EmptyEntry
  BY EntryFacts, Zenon
<1>1. /\ i \in Index
      /\ \A j \in Index : j < i => m[j] \in Entries /\ m[j].key # e.key
      /\ \/ m[i] \in Entries /\ m[i].key = e.key
         \/ m[i] = EmptyEntry /\ \A j \in Index : m[j].key # e.key
  BY <1>0, SlotShape, Zenon
<1>2. /\ p \in [Index -> Entries \cup {EmptyEntry}]
      /\ p[i] = e /\ \A j \in Index : j # i => p[j] = m[j]
  BY <1>1, Zenon DEF Shape
<1> HIDE DEF i
<1>3. ASSUME NEW j \in Index, NEW l \in Index, j < l, p[j] = EmptyEntry
      PROVE  p[l] = EmptyEntry
  <2>1. m[j] = EmptyEntry /\ j # i
    BY <1>0, <1>2, <1>3, Zenon
  <2>2. ~(j < i)
    BY <1>1, <2>1, EntryFacts, Zenon
  <2>3. l # i
    BY <1>3, <2>2, Zenon
  <2>4. m[l] = EmptyEntry
    BY <1>3, <2>1, Zenon DEF Shape
  <2> QED BY <1>2, <2>3, <2>4, Zenon
<1>4. \A j \in Index : j # i => m[j].key # e.key
  BY <1>1, Zenon DEF Shape
<1>5. ASSUME NEW j \in Index, NEW l \in Index, p[j] \in Entries, p[j].key = p[l].key
      PROVE  j = l
  <2>1. CASE j # i /\ l # i
    <3>1. m[j] \in Entries /\ m[j].key = m[l].key
      BY <1>2, <1>5, <2>1, Zenon
    <3> QED BY <3>1, Zenon DEF Shape
  <2>2. CASE j = i \/ l = i
    BY <1>2, <1>4, <1>5, <2>2
  <2> QED BY <2>1, <2>2, Zenon
<1>6. Shape(p)
  BY <1>2, <1>3, <1>5, Zenon DEF Shape
<1>7. Settings(p)[e.key] = Value(e)
  <2>1. i \in Index /\ p[i].key = e.key
    BY <1>1, <1>2, Zenon
  <2>2. \A k \in Keys : p[i].key = k => Settings(p)[k] = Value(p[i])
    BY <1>6, <2>1, SettingsAt, ZenonT(60)
  <2>3. Settings(p)[e.key] = Value(p[i])
    BY <1>0, <2>1, <2>2, Zenon
  <2>4. p[i] = e
    BY <1>2, Zenon
  <2> QED BY <2>3, <2>4, Zenon
<1>8. ASSUME NEW k \in Keys, k # e.key
      PROVE  Settings(p)[k] = Settings(m)[k] /\ (Found(p, k) <=> Found(m, k))
  <2>1. m[i].key # k
    BY <1>1, <1>8, EntryFacts, Zenon
  <2>2. Agree(m, p, k)
    BY <1>2, <1>8, <2>1, Zenon DEF Agree
  <2> QED BY <1>6, <2>2, SameSetting, Zenon
<1> QED BY <1>6, <1>7, <1>8, Zenon

\* The empty map.
LEMMA EmptyShape ==
    Shape(EmptyMap) /\ \A k \in Keys : Settings(EmptyMap)[k] = None
<1>1. \A i \in Index : EmptyMap[i] = EmptyEntry
  BY Zenon DEF EmptyMap
<1>2. Shape(EmptyMap)
  <2>1. EmptyMap \in [Index -> Entries \cup {EmptyEntry}]
    BY Zenon DEF EmptyMap
  <2> QED BY <1>1, <2>1, EntryFacts, Zenon DEF Shape
<1>3. ASSUME NEW k \in Keys PROVE Settings(EmptyMap)[k] = None
  <2>1. \A i \in Index : EmptyMap[i].key # k
    BY <1>1, EntryFacts, Zenon
  <2> QED BY <1>2, <2>1, SettingsNone, Zenon
<1> QED BY <1>2, <1>3, Zenon

-----------------------------------------------------------------------------
(* Loading a file                                                            *)

\* A setting that is read overrides the one of its key, and no other.
LEMMA LoadEntryIs ==
    ASSUME NEW m, Shape(m), NEW e \in Entries, Stops(m, e.key) # {}
    PROVE  /\ LoadEntry(m, e) = [m EXCEPT ![Slot(m, e.key)] = e]
           /\ Shape(LoadEntry(m, e))
           /\ Settings(LoadEntry(m, e))[e.key] = Value(e)
           /\ \A k \in Keys : k # e.key =>
                /\ Settings(LoadEntry(m, e))[k] = Settings(m)[k]
                /\ Found(LoadEntry(m, e), k) <=> Found(m, k)
<1>1. LoadEntry(m, e) = [m EXCEPT ![Slot(m, e.key)] = e]
  BY EntryFacts, Zenon DEF LoadEntry
<1>2. Shape(LoadEntry(m, e))
  BY <1>1, Put, Zenon
<1>3. Settings(LoadEntry(m, e))[e.key] = Value(e)
  BY <1>1, Put, ZenonT(60)
<1>4. ASSUME NEW k \in Keys, k # e.key
      PROVE  /\ Settings(LoadEntry(m, e))[k] = Settings(m)[k]
             /\ Found(LoadEntry(m, e), k) <=> Found(m, k)
  BY <1>1, <1>4, Put, Zenon
<1> QED BY <1>1, <1>2, <1>3, <1>4, Zenon

LEMMA LoadEntryShape ==
    ASSUME NEW m, Shape(m), NEW e \in Entries \cup {None}
    PROVE  Shape(LoadEntry(m, e))
<1>1. CASE e = None \/ Stops(m, e.key) = {}
  BY <1>1, Zenon DEF LoadEntry
<1>2. CASE e # None /\ Stops(m, e.key) # {}
  <2>1. e \in Entries
    BY <1>2, Zenon
  <2>2. LoadEntry(m, e) = [m EXCEPT ![Slot(m, e.key)] = e]
    BY <1>2, Zenon DEF LoadEntry
  <2> QED BY <1>2, <2>1, <2>2, Put, Zenon
<1> QED BY <1>1, <1>2, Zenon

\* A file of entries.
IsFile(es) == Len(es) \in Nat /\ \A n \in 1 .. Len(es) : es[n] \in Entries \cup {None}

LEMMA LoadingSteps ==
    ASSUME NEW m, NEW es, Len(es) \in Nat
    PROVE  /\ Loading(m, es)[0] = m
           /\ \A n \in Nat : n < Len(es) =>
                Loading(m, es)[n + 1] = LoadEntry(Loading(m, es)[n], es[n + 1])
<1> DEFINE f == Loading(m, es)
<1>1. \A n \in 0 .. Len(es) : f[n] = IF n = 0 THEN m ELSE LoadEntry(f[n - 1], es[n])
  BY LoadingIs
<1> HIDE DEF f
<1>2. f[0] = m
  BY <1>1
<1>3. ASSUME NEW n \in Nat, n < Len(es) PROVE f[n + 1] = LoadEntry(f[n], es[n + 1])
  <2>1. n + 1 \in 0 .. Len(es) /\ n + 1 # 0 /\ (n + 1) - 1 = n
    BY <1>3
  <2> QED BY <1>1, <2>1, Zenon
<1> QED BY <1>2, <1>3, Zenon DEF f

LEMMA LoadBinShape ==
    ASSUME NEW m, Shape(m), NEW es, IsFile(es)
    PROVE  Shape(LoadBin(m, es))
<1> DEFINE f == Loading(m, es)
           S == {n \in Nat : Shape(f[n])}
<1>0. Len(es) \in Nat /\ \A n \in Nat : n < Len(es) => es[n + 1] \in Entries \cup {None}
  BY DEF IsFile
<1>1. f[0] = m /\ \A n \in Nat : n < Len(es) => f[n + 1] = LoadEntry(f[n], es[n + 1])
  BY <1>0, LoadingSteps
<1> HIDE DEF f
<1>2. 0 \in S
  BY <1>1, Zenon
<1>3. ASSUME NEW n \in Nat, n < Len(es), n \in S PROVE n + 1 \in S
  BY <1>0, <1>1, <1>3, LoadEntryShape
<1> HIDE DEF S
<1>4. \A n \in 0 .. Len(es) : n \in S
  BY <1>0, <1>2, <1>3, UpTo, Zenon
<1>5. Len(es) \in S
  BY <1>0, <1>4
<1> QED BY <1>5, Zenon DEF S, f, LoadBin

-----------------------------------------------------------------------------
(* Saving and loading again                                                  *)

\* A line that save_text writes is read as a setting or not at all.
LEMMA ReadWritten ==
    ASSUME NEW e \in Entries
    PROVE  ReadLine(Line(e)) \in Entries \cup {None}
<1> DEFINE x == Text(e)
<1>1. e.key \in Keys /\ e.type \in Types /\ Value(e) \in Setting
  BY EntryParts, Zenon
<1>2. /\ e.type \in {"INT", "FLOAT"} => e.val \in Int
      /\ e.type = "STRING" => e.val \in Strings
      /\ e.type = "IP" => e.val \in Addrs
  BY <1>1, Zenon DEF Value, Setting
<1>3. Parse(x) \in Setting \cup {None}
  <2>1. CASE e.type = "INT"
    <3>1. x = [kind |-> "digits", val |-> e.val]
      BY <2>1, Zenon DEF Text
    <3>2. Parse(x) = [type |-> "INT", val |-> e.val]
      BY <3>1 DEF Parse
    <3> QED BY <1>2, <2>1, <3>2 DEF Setting
  <2>2. CASE e.type = "FLOAT"
    <3> DEFINE v == ((e.val + TextUnit \div 2) \div TextUnit) * TextUnit
    <3>1. x = [kind |-> "point", val |-> v]
      BY <2>2, Zenon DEF Text
    <3>2. v \in Int
      BY <1>2, <2>2 DEF TextUnit
    <3> HIDE DEF v
    <3>3. Parse(x) = [type |-> "FLOAT", val |-> v]
      BY <3>1 DEF Parse
    <3> QED BY <3>2, <3>3 DEF Setting
  <2>3. CASE e.type = "IP"
    <3>1. x = [kind |-> "dots", val |-> e.val]
      BY <2>3, Zenon DEF Text
    <3>2. Parse(x) = [type |-> "IP", val |-> e.val]
      BY <3>1 DEF Parse
    <3> QED BY <1>2, <2>3, <3>2 DEF Setting
  <2>4. CASE e.type = "BOOL"
    <3>1. x = [kind |-> "letters", val |-> IF e.val = 0 THEN StrFalse ELSE StrTrue]
      BY <2>4, Zenon DEF Text
    <3>2. x.kind = "letters" /\ x.val \in {StrTrue, StrFalse}
      BY <3>1
    <3> HIDE DEF x
    <3>3. Parse(x) = [type |-> "BOOL", val |-> IF x.val = StrTrue THEN 1 ELSE 0]
      BY <3>2, Zenon DEF Parse
    <3> QED BY <3>3 DEF Setting
  <2>5. CASE e.type = "STRING"
    <3>1. CASE e.val = StrEmpty
      <4>1. x = [kind |-> "none", val |-> 0]
        BY <2>5, <3>1, Zenon DEF Text
      <4>2. Parse(x) = None
        BY <4>1 DEF Parse
      <4> QED BY <4>2, Zenon
    <3>2. CASE e.val # StrEmpty /\ e.val \in DottedStrings
      <4> DEFINE a == CHOOSE a \in Addrs : Dotted[a] = e.val
      <4>1. a \in Addrs
        BY <3>2, Zenon DEF DottedStrings
      <4>2. x = [kind |-> "dots", val |-> a]
        BY <2>5, <3>2, Zenon DEF Text
      <4> HIDE DEF a
      <4>3. Parse(x) = [type |-> "IP", val |-> a]
        BY <4>2 DEF Parse
      <4> QED BY <4>1, <4>3 DEF Setting
    <3>3. CASE e.val # StrEmpty /\ e.val \notin DottedStrings
      <4>1. x = [kind |-> "letters", val |-> e.val]
        BY <2>5, <3>3, Zenon DEF Text
      <4>2. CASE e.val \in {StrTrue, StrFalse}
        <5>1. Parse(x) = [type |-> "BOOL", val |-> IF e.val = StrTrue THEN 1 ELSE 0]
          BY <4>1, <4>2 DEF Parse
        <5> QED BY <5>1 DEF Setting
      <4>3. CASE e.val \notin {StrTrue, StrFalse}
        <5>1. Parse(x) = [type |-> "STRING", val |-> e.val]
          BY <4>1, <4>3 DEF Parse
        <5> QED BY <1>2, <2>5, <5>1 DEF Setting
      <4> QED BY <4>2, <4>3, Zenon
    <3> QED BY <3>1, <3>2, <3>3, Zenon
  <2> QED BY <1>1, <2>1, <2>2, <2>3, <2>4, <2>5, Zenon DEF Types
<1>4. Line(e).key = e.key /\ Line(e).text = x
  BY Zenon DEF Line
<1> HIDE DEF x
<1>5. CASE Parse(x) = None
  BY <1>4, <1>5, Zenon DEF ReadLine
<1>6. CASE Parse(x) # None
  <2>1. ReadLine(Line(e)) = Entry(e.key, Parse(x)) /\ Parse(x) \in Setting
    BY <1>3, <1>4, <1>6, Zenon DEF ReadLine
  <2> QED BY <1>1, <2>1, EntryOf, Zenon
<1> QED BY <1>5, <1>6, Zenon

\* The settings in the map are counted right.
LEMMA Counted ==
    ASSUME NEW m, Shape(m)
    PROVE  /\ Count(m) \in Nat /\ Count(m) <= MapSize
           /\ \A i \in Index : i < Count(m) => m[i] \in Entries
           /\ \A i \in Index : i >= Count(m) => m[i] = EmptyEntry
<1> DEFINE E == {i \in Index : m[i].type = "EMPTY"}
<1>0. MapSize \in Nat /\ \A i \in Index : i \in Nat /\ i < MapSize
  BY MapAssumption DEF Index
<1>1. ASSUME NEW i \in Index
      PROVE  (i \in E <=> m[i] = EmptyEntry) /\ (m[i] = EmptyEntry \/ m[i] \in Entries)
  <2>1. m[i] \in Entries \cup {EmptyEntry}
    BY Zenon DEF Shape
  <2> QED BY <2>1, EntryFacts, Zenon
<1>2. CASE E = {}
  <2>1. Count(m) = MapSize
    BY <1>2, Zenon DEF Count
  <2>2. \A i \in Index : m[i] \in Entries /\ ~(i >= MapSize)
    BY <1>0, <1>1, <1>2
  <2> QED BY <1>0, <2>1, <2>2
<1>3. CASE E # {}
  <2>1. Count(m) = Min(E)
    BY <1>3, Zenon DEF Count
  <2>2. E \in SUBSET Nat
    BY <1>0, Zenon
  <2>3. Min(E) \in E /\ \A i \in E : Min(E) <= i
    BY <1>3, <2>2, Least, Zenon
  <2>4. E \subseteq Index
    BY Zenon
  <2> HIDE DEF E
  <2>5. PICK c \in E : Count(m) = c /\ \A i \in E : c <= i
    BY <2>1, <2>3, Zenon
  <2>6. c \in Index /\ m[c] = EmptyEntry
    BY <1>1, <2>4, Zenon
  <2>7. ASSUME NEW i \in Index, i < c PROVE m[i] \in Entries
    <3>1. ~(c <= i)
      BY <1>0, <2>6, <2>7
    <3>2. i \notin E
      BY <2>5, <3>1, Zenon
    <3> QED BY <1>1, <3>2, Zenon
  <2>8. ASSUME NEW i \in Index, i >= c PROVE m[i] = EmptyEntry
    <3>1. c < i \/ c = i
      BY <1>0, <2>6, <2>8
    <3> QED BY <2>6, <3>1, Zenon DEF Shape
  <2> QED BY <1>0, <2>5, <2>6, <2>7, <2>8
<1> QED BY <1>2, <1>3, Zenon

\* The file holds the settings of m: what was read from it is m, entry by entry.
Holds(es, m) ==
    /\ Len(es) = Count(m)
    /\ \A n \in Nat : n < Count(m) => es[n + 1] = m[n]

LEMMA SavedHolds ==
    ASSUME NEW m, Shape(m)
    PROVE  Holds(Saved(m), m) /\ IsFile(Saved(m)) /\ Saved(m) \in Seq(Entries)
<1>1. Count(m) \in Nat /\ Count(m) <= MapSize
  BY Counted, Zenon
<1>2. \A n \in 1 .. Count(m) : n - 1 \in Index /\ n - 1 < Count(m)
  BY <1>1, MapAssumption DEF Index
<1>3. \A n \in 1 .. Count(m) : m[n - 1] \in Entries
  BY <1>2, Counted, Zenon
<1>4. Saved(m) \in Seq(Entries) /\ Len(Saved(m)) = Count(m)
  BY <1>1, <1>3 DEF Saved
<1>5. \A n \in 1 .. Count(m) : Saved(m)[n] = m[n - 1]
  BY Zenon DEF Saved
<1>6. Holds(Saved(m), m)
  <2>1. ASSUME NEW n \in Nat, n < Count(m) PROVE Saved(m)[n + 1] = m[n]
    <3>1. n + 1 \in 1 .. Count(m) /\ (n + 1) - 1 = n
      BY <1>1, <2>1
    <3> QED BY <1>5, <3>1, Zenon
  <2> QED BY <1>4, <2>1, Zenon DEF Holds
<1>7. IsFile(Saved(m))
  BY <1>1, <1>3, <1>4, <1>5, Zenon DEF IsFile
<1> QED BY <1>4, <1>6, <1>7, Zenon

\* The first n entries of a map.
Part(m, n) == [i \in Index |-> IF i < n THEN m[i] ELSE EmptyEntry]

LEMMA PartShape ==
    ASSUME NEW m, Shape(m), NEW n \in Nat
    PROVE  Shape(Part(m, n))
<1>1. \A i \in Index : Part(m, n)[i] = IF i < n THEN m[i] ELSE EmptyEntry
  BY Zenon DEF Part
<1>2. Part(m, n) \in [Index -> Entries \cup {EmptyEntry}]
  BY Zenon DEF Part, Shape
<1>3. ASSUME NEW i \in Index, NEW j \in Index, i < j, Part(m, n)[i] = EmptyEntry
      PROVE  Part(m, n)[j] = EmptyEntry
  <2>1. CASE i < n
    BY <1>1, <1>3, <2>1 DEF Shape
  <2>2. CASE ~(i < n)
    <3>1. ~(j < n)
      BY <1>3, <2>2 DEF Index
    <3> QED BY <1>1, <3>1, Zenon
  <2> QED BY <2>1, <2>2, Zenon
<1>4. ASSUME NEW i \in Index, NEW j \in Index, Part(m, n)[i] \in Entries,
             Part(m, n)[i].key = Part(m, n)[j].key
      PROVE  i = j
  <2>1. Part(m, n)[j] # EmptyEntry /\ Part(m, n)[i] # EmptyEntry
    BY <1>4, EntryFacts, Zenon
  <2>2. Part(m, n)[i] = m[i] /\ Part(m, n)[j] = m[j]
    BY <1>1, <2>1, Zenon
  <2> QED BY <1>4, <2>2, Zenon DEF Shape
<1> QED BY <1>2, <1>3, <1>4, Zenon DEF Shape

LEMMA PartNext ==
    ASSUME NEW m, Shape(m), NEW n \in Nat, n < Count(m)
    PROVE  LoadEntry(Part(m, n), m[n]) = Part(m, n + 1)
<1> DEFINE p == Part(m, n)
           i == Slot(p, m[n].key)
<1>1. n \in Index /\ m[n] \in Entries
  <2>1. n \in Index
    BY Counted, MapAssumption DEF Index
  <2> QED BY <2>1, Counted, Zenon
<1>2. m[n].key \in Keys /\ m[n] # None
  BY <1>1, EntryFacts, Zenon
<1>3. Shape(p)
  BY PartShape, Zenon
<1>4. \A j \in Index : p[j] = IF j < n THEN m[j] ELSE EmptyEntry
  BY Zenon DEF Part
<1>5. p[n] = EmptyEntry
  BY <1>1, <1>4
<1>6. Stops(p, m[n].key) # {}
  BY <1>1, <1>2, <1>3, <1>5, StopsIn, Zenon
<1> HIDE DEF p
<1>7. /\ i \in Index /\ \A j \in Index : j < i => p[j] \in Entries
      /\ p[i] = EmptyEntry \/ (p[i] \in Entries /\ p[i].key = m[n].key)
  BY <1>2, <1>3, <1>6, SlotShape, Zenon
<1> HIDE DEF i
<1>8. ~(n < i)
  BY <1>1, <1>5, <1>7, EntryFacts, Zenon
<1>9. ~(i < n)
  <2> SUFFICES ASSUME i < n PROVE FALSE
    BY Zenon
  <2>1. p[i] = m[i] /\ m[i] \in Entries
    <3>1. i < Count(m)
      BY <1>7, Counted DEF Index
    <3> QED BY <1>4, <1>7, <3>1, Counted, Zenon
  <2>2. m[i].key = m[n].key
    BY <1>7, <2>1, EntryFacts, Zenon
  <2>3. i = n
    BY <1>1, <1>7, <2>1, <2>2, Zenon DEF Shape
  <2> QED BY <2>3
<1>10. i = n
  BY <1>7, <1>8, <1>9 DEF Index
<1>11. LoadEntry(p, m[n]) = [p EXCEPT ![n] = m[n]]
  BY <1>2, <1>6, <1>10, Zenon DEF LoadEntry, i
<1>12. [p EXCEPT ![n] = m[n]] = Part(m, n + 1)
  <2>1. ASSUME NEW j \in Index
        PROVE  (IF j = n THEN m[n] ELSE p[j]) = IF j < n + 1 THEN m[j] ELSE EmptyEntry
    BY <1>4, <2>1 DEF Index
  <2>2. p \in [Index -> Entries \cup {EmptyEntry}]
    BY <1>3, Zenon DEF Shape
  <2>3. ASSUME NEW j \in Index
        PROVE  [p EXCEPT ![n] = m[n]][j] = IF j = n THEN m[n] ELSE p[j]
    BY <1>1, <2>2, Zenon
  <2> DEFINE q == [p EXCEPT ![n] = m[n]]
  <2>4. q = [j \in Index |-> q[j]]
    <3>1. q \in [Index -> Entries \cup {EmptyEntry}]
      BY <1>1, <2>2, Zenon
    <3> HIDE DEF q
    <3> QED BY <3>1, Zenon
  <2>5. \A j \in Index : q[j] = IF j < n + 1 THEN m[j] ELSE EmptyEntry
    BY <2>1, <2>3, Zenon
  <2> HIDE DEF q
  <2>6. q = Part(m, n + 1)
    BY <2>4, <2>5, Zenon DEF Part
  <2> QED BY <2>6, Zenon DEF q
<1> QED BY <1>11, <1>12, Zenon DEF p

\* A file that holds the settings of m gives m back, and changes nothing if it
\* is loaded over m.
LEMMA Reload ==
    ASSUME NEW m, Shape(m), NEW es, Holds(es, m)
    PROVE  LoadBin(EmptyMap, es) = m /\ LoadBin(m, es) = m
<1>0. /\ Count(m) \in Nat /\ Len(es) = Count(m) /\ Count(m) \in 0 .. Count(m)
      /\ \A n \in Nat : n < Count(m) => es[n + 1] = m[n]
  BY Counted DEF Holds
<1>1. LoadBin(EmptyMap, es) = m
  <2> DEFINE f == Loading(EmptyMap, es)
             S == {n \in Nat : f[n] = Part(m, n)}
  <2>1. f[0] = EmptyMap /\ \A n \in Nat : n < Count(m) => f[n + 1] = LoadEntry(f[n], m[n])
    BY <1>0, LoadingSteps
  <2> HIDE DEF f
  <2>2. 0 \in S
    <3>1. \A i \in Index : ~(i < 0)
      BY DEF Index
    <3>2. Part(m, 0) = EmptyMap
      BY <3>1, Zenon DEF Part, EmptyMap
    <3> QED BY <2>1, <3>2, Zenon
  <2>3. ASSUME NEW n \in Nat, n < Count(m), n \in S PROVE n + 1 \in S
    <3>1. f[n + 1] = Part(m, n + 1)
      BY <2>1, <2>3, PartNext, Zenon
    <3> QED BY <3>1
  <2> HIDE DEF S
  <2>4. Count(m) \in S
    BY <1>0, <2>2, <2>3, UpTo, Zenon
  <2>5. Part(m, Count(m)) = m
    <3>1. ASSUME NEW i \in Index
          PROVE  (IF i < Count(m) THEN m[i] ELSE EmptyEntry) = m[i]
      <4>1. i < Count(m) \/ i >= Count(m)
        BY <1>0 DEF Index
      <4> QED BY <4>1, Counted, Zenon
    <3>2. m = [i \in Index |-> m[i]]
      BY Zenon DEF Shape
    <3> QED BY <3>1, <3>2, Zenon DEF Part
  <2> QED BY <1>0, <2>4, <2>5, Zenon DEF S, f, LoadBin
<1>2. LoadBin(m, es) = m
  <2> DEFINE f == Loading(m, es)
             S == {n \in Nat : f[n] = m}
  <2>1. f[0] = m /\ \A n \in Nat : n < Count(m) => f[n + 1] = LoadEntry(f[n], m[n])
    BY <1>0, LoadingSteps
  <2> HIDE DEF f
  <2>2. 0 \in S
    BY <2>1, Zenon
  <2>3. ASSUME NEW n \in Nat, n < Count(m), n \in S PROVE n + 1 \in S
    <3>1. n \in Index
      BY <2>3, Counted, MapAssumption DEF Index
    <3>2. m[n] \in Entries
      BY <2>3, <3>1, Counted, Zenon
    <3>3. m[n].key \in Keys
      BY <3>2, EntryFacts, Zenon
    <3>4. Slot(m, m[n].key) = n
      BY <3>1, <3>3, SettingsAt, Zenon
    <3>5. [m EXCEPT ![n] = m[n]] = m
      BY Zenon DEF Shape
    <3>6. LoadEntry(m, m[n]) = m
      BY <3>4, <3>5, Zenon DEF LoadEntry
    <3> QED BY <2>1, <2>3, <3>6
  <2> HIDE DEF S
  <2>4. Count(m) \in S
    BY <1>0, <2>2, <2>3, UpTo, Zenon
  <2> QED BY <1>0, <2>4, Zenon DEF S, f, LoadBin
<1> QED BY <1>1, <1>2, Zenon

\* The lines that save_text writes.
Written == {Line(e) : e \in Entries}
Reads(ls) == [i \in 1 .. Len(ls) |-> ReadLine(ls[i])]

LEMMA LoadTextShape ==
    ASSUME NEW m, Shape(m), NEW ls \in Seq(Written)
    PROVE  Shape(LoadText(m, ls))
<1>1. Len(ls) \in Nat /\ \A i \in 1 .. Len(ls) : ls[i] \in Written
  OBVIOUS
<1>2. \A l \in Written : ReadLine(l) \in Entries \cup {None}
  BY ReadWritten, Zenon DEF Written
<1>3. Len(Reads(ls)) = Len(ls) /\ \A i \in 1 .. Len(ls) : Reads(ls)[i] = ReadLine(ls[i])
  BY <1>1 DEF Reads
<1>4. IsFile(Reads(ls))
  BY <1>1, <1>2, <1>3, Zenon DEF IsFile
<1> QED BY <1>4, LoadBinShape, Zenon DEF LoadText, Reads

\* The settings that a text file keeps as they are.
Legible(m) == \A i \in Index : m[i] \in Entries => ReadLine(Line(m[i])) = m[i]

LEMMA LinesHold ==
    ASSUME NEW m, Shape(m)
    PROVE  /\ Lines(m) \in Seq(Written)
           /\ Legible(m) => Holds(Reads(Lines(m)), m)
<1>1. Count(m) \in Nat /\ Count(m) <= MapSize
  BY Counted, Zenon
<1>2. \A n \in 1 .. Count(m) : n - 1 \in Index /\ n - 1 < Count(m)
  BY <1>1, MapAssumption DEF Index
<1>3. \A n \in 1 .. Count(m) : m[n - 1] \in Entries
  BY <1>2, Counted, Zenon
<1>4. \A n \in 1 .. Count(m) : Line(m[n - 1]) \in Written
  BY <1>3, Zenon DEF Written
<1>5. Lines(m) \in Seq(Written) /\ Len(Lines(m)) = Count(m)
  BY <1>1, <1>4 DEF Lines
<1>6. \A n \in 1 .. Count(m) : Lines(m)[n] = Line(m[n - 1])
  BY Zenon DEF Lines
<1>7. ASSUME Legible(m) PROVE Holds(Reads(Lines(m)), m)
  <2>1. /\ Len(Reads(Lines(m))) = Count(m)
        /\ \A n \in 1 .. Count(m) : Reads(Lines(m))[n] = ReadLine(Lines(m)[n])
    BY <1>1, <1>5 DEF Reads
  <2>2. \A n \in 1 .. Count(m) : ReadLine(Line(m[n - 1])) = m[n - 1]
    BY <1>2, <1>3, <1>7, Zenon DEF Legible
  <2>3. ASSUME NEW n \in Nat, n < Count(m) PROVE Reads(Lines(m))[n + 1] = m[n]
    <3>1. n + 1 \in 1 .. Count(m) /\ (n + 1) - 1 = n
      BY <1>1, <2>3
    <3> QED BY <1>6, <2>1, <2>2, <3>1, Zenon
  <2> QED BY <2>1, <2>3, Zenon DEF Holds
<1> QED BY <1>5, <1>7, Zenon

-----------------------------------------------------------------------------
(* Maps and files over a set of entries                                      *)

Over(m, K) == \A i \in Index : m[i] \in Entries => m[i] \in K

LEMMA LoadEntryOver ==
    ASSUME NEW K, NEW m, Shape(m), Over(m, K), NEW e \in Entries \cup {None}, e \in K \cup {None}
    PROVE  Over(LoadEntry(m, e), K)
<1>1. CASE e = None \/ Stops(m, e.key) = {}
  BY <1>1, Zenon DEF LoadEntry
<1>2. CASE e # None /\ Stops(m, e.key) # {}
  <2>1. e \in Entries /\ e \in K
    BY <1>2, Zenon
  <2>2. LoadEntry(m, e) = [m EXCEPT ![Slot(m, e.key)] = e]
    BY <1>2, Zenon DEF LoadEntry
  <2>3. DOMAIN m = Index
    BY Zenon DEF Shape
  <2>4. \A i \in Index : LoadEntry(m, e)[i] = m[i] \/ LoadEntry(m, e)[i] = e
    BY <2>2, <2>3, Zenon
  <2> QED BY <2>1, <2>4, Zenon DEF Over
<1> QED BY <1>1, <1>2, Zenon

LEMMA LoadBinOver ==
    ASSUME NEW K, NEW m, Shape(m), Over(m, K), NEW es, IsFile(es),
           \A n \in 1 .. Len(es) : es[n] \in K \cup {None}
    PROVE  Over(LoadBin(m, es), K)
<1> DEFINE f == Loading(m, es)
           S == {n \in Nat : Shape(f[n]) /\ Over(f[n], K)}
<1>0. Len(es) \in Nat /\ \A n \in Nat : n < Len(es) =>
        es[n + 1] \in Entries \cup {None} /\ es[n + 1] \in K \cup {None}
  BY DEF IsFile
<1>1. f[0] = m /\ \A n \in Nat : n < Len(es) => f[n + 1] = LoadEntry(f[n], es[n + 1])
  BY <1>0, LoadingSteps
<1> HIDE DEF f
<1>2. 0 \in S
  BY <1>1, Zenon
<1>3. ASSUME NEW n \in Nat, n < Len(es), n \in S PROVE n + 1 \in S
  <2>1. Shape(f[n]) /\ Over(f[n], K)
    BY <1>3, Zenon
  <2>2. es[n + 1] \in Entries \cup {None} /\ es[n + 1] \in K \cup {None}
    BY <1>0, <1>3, Zenon
  <2>3. Shape(LoadEntry(f[n], es[n + 1])) /\ Over(LoadEntry(f[n], es[n + 1]), K)
    BY <2>1, <2>2, LoadEntryShape, LoadEntryOver, Zenon
  <2> QED BY <1>1, <1>3, <2>3
<1> HIDE DEF S
<1>4. \A n \in 0 .. Len(es) : n \in S
  BY <1>0, <1>2, <1>3, UpTo, Zenon
<1>5. Len(es) \in S
  BY <1>0, <1>4
<1> QED BY <1>5, Zenon DEF S, f, LoadBin

\* The entries of a file that holds the settings of m.
LEMMA HoldsFile ==
    ASSUME NEW K, NEW m, Shape(m), Over(m, K), NEW es, Holds(es, m)
    PROVE  IsFile(es) /\ \A n \in 1 .. Len(es) : es[n] \in K
<1>1. Count(m) \in Nat /\ Count(m) <= MapSize /\ Len(es) = Count(m)
  BY Counted, Zenon DEF Holds
<1>2. ASSUME NEW n \in 1 .. Len(es) PROVE es[n] \in Entries /\ es[n] \in K
  <2>1. n - 1 \in Nat /\ n - 1 < Count(m) /\ n - 1 \in Index /\ (n - 1) + 1 = n
    BY <1>1, <1>2, MapAssumption DEF Index
  <2>2. es[n] = m[n - 1]
    BY <2>1, Zenon DEF Holds
  <2>3. m[n - 1] \in Entries
    BY <2>1, Counted, Zenon
  <2> QED BY <2>1, <2>2, <2>3, Zenon DEF Over
<1> QED BY <1>1, <1>2, Zenon DEF IsFile

\* An empty file.
LEMMA HoldsNothing ==
    /\ \A es : Len(es) = 0 => Holds(es, EmptyMap)
    /\ Len(Reads(<< >>)) = 0
    /\ \A K : Over(EmptyMap, K)
<1>1. Shape(EmptyMap)
  BY EmptyShape, Zenon
<1>2. 0 \in Index /\ \A i \in Index : EmptyMap[i] = EmptyEntry
  BY MapAssumption DEF EmptyMap, Index
<1>3. EmptyEntry \notin Entries
  BY EntryFacts, Zenon
<1>4. Count(EmptyMap) \in Nat /\ \A i \in Index : i < Count(EmptyMap) => EmptyMap[i] \in Entries
  BY <1>1, Counted, Zenon
<1>5. Count(EmptyMap) = 0
  BY <1>2, <1>3, <1>4
<1>6. Len(Reads(<< >>)) = 0
  BY DEF Reads
<1> QED BY <1>2, <1>3, <1>5, <1>6 DEF Holds, Over

-----------------------------------------------------------------------------
(* Reading a setting                                                         *)

LEMMA SettingIn ==
    ASSUME NEW m, Shape(m), NEW k \in Keys
    PROVE  Settings(m)[k] \in Setting \cup {None}
<1>1. CASE \E i \in Index : m[i].key = k
  <2>1. PICK i \in Index : m[i].key = k
    BY <1>1, Zenon
  <2>2. m[i] \in Entries
    BY <2>1, SettingsAt, Zenon
  <2>3. Settings(m)[k] = Value(m[i])
    BY <2>1, SettingsAt
  <2>4. Value(m[i]) \in Setting
    BY <2>2, EntryParts, Zenon
  <2> QED BY <2>3, <2>4, Zenon
<1>2. CASE \A i \in Index : m[i].key # k
  <2>1. Settings(m)[k] = None
    BY <1>2, SettingsNone, Zenon
  <2> QED BY <2>1, Zenon
<1> QED BY <1>1, <1>2, Zenon

\* A setting read as the type it has gives its value.
LEMMA CastSame ==
    ASSUME NEW s \in Setting
    PROVE  s.type \in Compatible(s.type) /\ Cast(s.type, s) = s.val
<1>1. CASE s.type = "INT"
  BY <1>1, Zenon DEF Compatible, Cast
<1>2. CASE s.type = "FLOAT"
  BY <1>2, Zenon DEF Compatible, Cast
<1>3. CASE s.type = "BOOL"
  <2>1. s \notin [type : {"INT", "FLOAT"}, val : Int]
    BY <1>3, Zenon
  <2>2. s \notin [type : {"STRING"}, val : Strings] /\ s \notin [type : {"IP"}, val : Addrs]
    BY <1>3, Zenon
  <2>3. s \in [type : {"BOOL"}, val : {0, 1}]
    BY <2>1, <2>2, Zenon DEF Setting
  <2>4. s.val \in {0, 1}
    BY <2>3, Zenon
  <2> QED BY <1>3, <2>4, Zenon DEF Compatible, Cast, Truth
<1>4. CASE s.type = "STRING"
  BY <1>4, Zenon DEF Compatible, Cast
<1>5. CASE s.type = "IP"
  BY <1>5, Zenon DEF Compatible, Cast
<1>6. s.type \in {"INT", "FLOAT", "BOOL", "STRING", "IP"}
  BY Zenon DEF Setting
<1> QED BY <1>1, <1>2, <1>3, <1>4, <1>5, <1>6, Zenon

LEMMA GetSame ==
    ASSUME NEW m, Shape(m), NEW k \in Keys, Settings(m)[k] # None
    PROVE  Get(m, k, Settings(m)[k].type) = [ret |-> "OK", val |-> Settings(m)[k].val]
<1>1. PICK s \in Setting : s = Settings(m)[k]
  BY SettingIn, Zenon
<1>2. s # None /\ s.type \in Compatible(s.type) /\ Cast(s.type, s) = s.val
  BY <1>1, CastSame, Zenon
<1>3. Get(m, k, s.type) = [ret |-> "OK", val |-> Cast(s.type, s)]
  BY <1>1, <1>2, Zenon DEF Get
<1> QED BY <1>1, <1>2, <1>3, Zenon

-----------------------------------------------------------------------------
(* A file loaded over a map that has room for every key                      *)

Room == IsFiniteSet(Keys) /\ Cardinality(Keys) <= MapSize

\* A search then finds the key or an empty entry.
LEMMA RoomLeft ==
    ASSUME Room, NEW m, Shape(m), NEW k \in Keys
    PROVE  Stops(m, k) # {}
<1> SUFFICES ASSUME Stops(m, k) = {} PROVE FALSE
  BY Zenon
<1> DEFINE f == [i \in Index |-> m[i].key]
<1>1. ASSUME NEW i \in Index PROVE m[i] \in Entries /\ m[i].key \in Keys \ {k}
  <2>1. m[i] # EmptyEntry /\ m[i].key # k
    BY StopsIn, Zenon
  <2>2. m[i] \in Entries
    BY <2>1, StopsIn, Zenon
  <2> QED BY <2>1, <2>2, EntryFacts, Zenon
<1>2. f \in [Index -> Keys \ {k}]
  BY <1>1, Zenon
<1>3. IsFiniteSet(Index) /\ Cardinality(Index) = MapSize
  <2>1. MapSize \in Nat /\ 0 \in Int /\ MapSize - 1 \in Int
    BY MapAssumption
  <2>2. IsFiniteSet(0 .. MapSize - 1)
        /\ Cardinality(0 .. MapSize - 1) = IF 0 > MapSize - 1 THEN 0 ELSE (MapSize - 1) - 0 + 1
    BY <2>1, FS_Interval, Zenon
  <2> QED BY <2>1, <2>2 DEF Index
<1>4. /\ IsFiniteSet(Keys \ {k}) /\ Cardinality(Keys \ {k}) = Cardinality(Keys) - 1
      /\ Cardinality(Keys) \in Nat
  BY FS_RemoveElement, FS_CardinalityType, Zenon DEF Room
<1>5. Cardinality(Keys \ {k}) < Cardinality(Index)
  BY <1>3, <1>4, MapAssumption DEF Room
<1> HIDE DEF f
<1>6. PICK i, j \in Index : i # j /\ f[i] = f[j]
  BY <1>2, <1>3, <1>4, <1>5, FS_PigeonHole
<1>7. m[i].key = m[j].key /\ m[i] \in Entries
  BY <1>1, <1>6, Zenon DEF f
<1> QED BY <1>6, <1>7, Zenon DEF Shape

\* The settings of p are those of b and, of the keys that b has not, of m.
Lays(p, b, m) ==
    \A k \in Keys : Settings(p)[k] = IF Settings(b)[k] # None THEN Settings(b)[k]
                                     ELSE Settings(m)[k]

LEMMA LaysStep ==
    ASSUME Room, NEW p, Shape(p), NEW b, Shape(b), NEW m, Lays(p, b, m), NEW e \in Entries
    PROVE  Lays(LoadEntry(p, e), LoadEntry(b, e), m)
<1>1. e.key \in Keys
  BY EntryFacts, Zenon
<1>2. Stops(p, e.key) # {} /\ Stops(b, e.key) # {}
  BY <1>1, RoomLeft, Zenon
<1>3. /\ Settings(LoadEntry(p, e))[e.key] = Value(e)
      /\ \A k \in Keys : k # e.key => Settings(LoadEntry(p, e))[k] = Settings(p)[k]
  BY <1>2, LoadEntryIs, Zenon
<1>4. /\ Settings(LoadEntry(b, e))[e.key] = Value(e)
      /\ \A k \in Keys : k # e.key => Settings(LoadEntry(b, e))[k] = Settings(b)[k]
  BY <1>2, LoadEntryIs, Zenon
<1>5. Value(e) # None
  <2>1. PICK k \in Keys, s \in Setting : e = Entry(k, s)
    BY DEF Entries
  <2> QED BY <2>1, EntryOf, Zenon
<1> QED BY <1>3, <1>4, <1>5, Zenon DEF Lays

\* Loading a file that holds the settings of b.
LEMMA Overlay ==
    ASSUME Room, NEW m, Shape(m), NEW b, Shape(b), NEW es, Holds(es, b)
    PROVE  Lays(LoadBin(m, es), b, m)
<1> DEFINE f == Loading(m, es)
           g == Loading(EmptyMap, es)
           S == {n \in Nat : Shape(f[n]) /\ Shape(g[n]) /\ Lays(f[n], g[n], m)}
<1>1. /\ Len(es) \in Nat
      /\ \A n \in Nat : n < Len(es) => es[n + 1] \in Entries
  <2>1. Count(b) \in Nat /\ Count(b) <= MapSize /\ Len(es) = Count(b)
    BY Counted, Zenon DEF Holds
  <2>2. ASSUME NEW n \in Nat, n < Count(b) PROVE es[n + 1] \in Entries
    <3>1. n \in Index
      BY <2>1, <2>2, MapAssumption DEF Index
    <3> QED BY <2>2, <3>1, Counted, Zenon DEF Holds
  <2> QED BY <2>1, <2>2, Zenon
<1>2. f[0] = m /\ \A n \in Nat : n < Len(es) => f[n + 1] = LoadEntry(f[n], es[n + 1])
  BY <1>1, LoadingSteps
<1>3. g[0] = EmptyMap /\ \A n \in Nat : n < Len(es) => g[n + 1] = LoadEntry(g[n], es[n + 1])
  BY <1>1, LoadingSteps
<1> HIDE DEF f, g
<1>4. 0 \in S
  <2>1. Shape(EmptyMap) /\ Lays(m, EmptyMap, m)
    BY EmptyShape, Zenon DEF Lays
  <2> QED BY <1>2, <1>3, <2>1, Zenon
<1>5. ASSUME NEW n \in Nat, n < Len(es), n \in S PROVE n + 1 \in S
  <2>1. Shape(f[n]) /\ Shape(g[n]) /\ Lays(f[n], g[n], m) /\ es[n + 1] \in Entries
    BY <1>1, <1>5, Zenon
  <2>2. Shape(LoadEntry(f[n], es[n + 1])) /\ Shape(LoadEntry(g[n], es[n + 1]))
    BY <2>1, LoadEntryShape, Zenon
  <2>3. Lays(LoadEntry(f[n], es[n + 1]), LoadEntry(g[n], es[n + 1]), m)
    BY <2>1, LaysStep, Zenon
  <2> QED BY <1>2, <1>3, <1>5, <2>2, <2>3
<1> HIDE DEF S
<1>6. \A n \in 0 .. Len(es) : n \in S
  BY <1>1, <1>4, <1>5, UpTo, Zenon
<1>7. Len(es) \in S
  BY <1>1, <1>6
<1>8. Lays(LoadBin(m, es), LoadBin(EmptyMap, es), m)
  BY <1>7, Zenon DEF S, f, g, LoadBin
<1> QED BY <1>8, Reload, Zenon
=============================================================================
