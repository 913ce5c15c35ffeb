---------------------------- MODULE SettingsData -----------------------------
(***************************************************************************)
(* The data of system/settings: the map, what the setters and getters do   *)
(* to an entry, and what the two kinds of storage keep of it.              *)
(***************************************************************************)
EXTENDS Integers, Sequences, FiniteSetsExt

CONSTANTS Keys,        \* keys the application uses
          NoKey,       \* the key of an entry filled with zeros
          MapSize,     \* CONFIG_SYSTEM_SETTINGS_MAP_SIZE
          Words,       \* strings of letters other than the next three
          StrEmpty,    \* ""
          StrTrue,     \* "true"
          StrFalse,    \* "false"
          BadStrings,  \* too long, or with one of = ; \n \r
          Addrs,       \* IP addresses
          Dotted,      \* the dotted string of an address
          Garbage,     \* a result the getter has not written
          None         \* no setting

\* A double counts units of 10^-7; the text storage prints six decimals.
FloatUnit == 10000000
TextUnit  == 10

DottedStrings == {Dotted[a] : a \in Addrs}
Strings       == Words \cup {StrEmpty, StrTrue, StrFalse} \cup DottedStrings

\* The typed values a setter is given, and those that are stored.
Types   == {"INT", "BOOL", "FLOAT", "STRING", "IP"}
Input   == [type : {"INT", "BOOL", "FLOAT"}, val : Int]
             \cup [type : {"STRING"}, val : Strings \cup BadStrings]
             \cup [type : {"IP"}, val : Addrs]
Setting == [type : {"INT", "FLOAT"}, val : Int] \cup [type : {"BOOL"}, val : {0, 1}]
             \cup [type : {"STRING"}, val : Strings] \cup [type : {"IP"}, val : Addrs]

ASSUME MapAssumption ==
    /\ MapSize \in Nat \ {0} /\ NoKey \notin Keys
    /\ None \notin Setting \cup [key : Keys, type : Types, val : Int \cup Strings \cup Addrs]

-----------------------------------------------------------------------------

Index      == 0 .. MapSize - 1
EmptyEntry == [key |-> NoKey, type |-> "EMPTY", val |-> 0]
EmptyMap   == [i \in Index |-> EmptyEntry]

Entry(k, s) == [key |-> k, type |-> s.type, val |-> s.val]

\* Faulty variant: the search does not compare keys.
StopsEmptyOnly(m, k) == {i \in Index : m[i].type = "EMPTY"}

\* The entries at which a search for k stops.
Stops(m, k) == {i \in Index : m[i].type = "EMPTY" \/ m[i].key = k}
Slot(m, k)  == Min(Stops(m, k))

\* get_setting succeeds.
Found(m, k) == Stops(m, k) # {} /\ m[Slot(m, k)].type # "EMPTY"

\* The settings as the application sees them.
Settings(m) ==
    [k \in Keys |-> IF Found(m, k)
                    THEN [type |-> m[Slot(m, k)].type, val |-> m[Slot(m, k)].val]
                    ELSE None]

-----------------------------------------------------------------------------
(* The setters and getters.                                                *)

\* The types an entry may have to be set to, or read as, type t.
Compatible(t) == CASE t = "INT"    -> {"INT", "BOOL", "FLOAT"}
                   [] t = "BOOL"   -> {"BOOL", "INT"}
                   [] t = "FLOAT"  -> {"FLOAT", "INT"}
                   [] t = "STRING" -> {"STRING", "IP"}
                   [] t = "IP"     -> {"IP", "STRING"}

Truth(v) == IF v = 0 THEN 0 ELSE 1

\* What set_int ... set_ip return for an entry of type old, and store.
SetRet(old, s) ==
    IF old \notin Compatible(s.type) THEN "EACCES"
    ELSE IF s.val \in BadStrings     THEN "EINVAL"
    ELSE "OK"
SetVal(s) == IF s.type = "BOOL" THEN [s EXCEPT !.val = Truth(@)] ELSE s

\* The conversion to int, towards zero.
Truncated(v) == IF v < 0 THEN -((-v) \div FloatUnit) ELSE v \div FloatUnit

\* What get_int ... get_ip give for a stored setting read as type t.
Cast(t, s) ==
    CASE t = "INT" /\ s.type = "FLOAT"   -> Truncated(s.val)
      [] t = "INT" /\ s.type = "BOOL"    -> Truth(s.val)
      [] t = "BOOL"                      -> Truth(s.val)
      [] t = "FLOAT" /\ s.type = "INT"   -> s.val * FloatUnit
      [] t = "STRING" /\ s.type = "IP"   -> Dotted[s.val]
      [] t = "IP" /\ s.type = "STRING"   ->
           IF s.val \in DottedStrings
           THEN CHOOSE a \in Addrs : Dotted[a] = s.val
           ELSE Garbage
      [] OTHER                           -> s.val

\* settings_get: the return code and the value for the caller.
Get(m, k, t) ==
    LET s == Settings(m)[k]
    IN  IF s = None                         THEN [ret |-> "ENOENT", val |-> Garbage]
        ELSE IF s.type \notin Compatible(t) THEN [ret |-> "EACCES", val |-> Garbage]
        ELSE [ret |-> "OK", val |-> Cast(t, s)]

-----------------------------------------------------------------------------
(* The storages.                                                           *)

\* The entries before the first empty one, as both kinds of storage save them.
Count(m) == LET E == {i \in Index : m[i].type = "EMPTY"}
            IN  IF E = {} THEN MapSize ELSE Min(E)
Saved(m) == [i \in 1 .. Count(m) |-> m[i - 1]]

\* What save_text prints for a value.
Text(e) ==
    CASE e.type = "INT"    -> [kind |-> "digits", val |-> e.val]
      [] e.type = "BOOL"   -> [kind |-> "letters",
                               val |-> IF e.val = 0 THEN StrFalse ELSE StrTrue]
      [] e.type = "FLOAT"  -> [kind |-> "point", val |->
                               ((e.val + TextUnit \div 2) \div TextUnit) * TextUnit]
      [] e.type = "IP"     -> [kind |-> "dots", val |-> e.val]
      [] e.type = "STRING" ->
           IF e.val = StrEmpty THEN [kind |-> "none", val |-> 0]
           ELSE IF e.val \in DottedStrings
           THEN [kind |-> "dots", val |-> CHOOSE a \in Addrs : Dotted[a] = e.val]
           ELSE [kind |-> "letters", val |-> e.val]

Line(e)  == [key |-> e.key, text |-> Text(e)]
Lines(m) == [i \in 1 .. Count(m) |-> Line(m[i - 1])]

\* What load_text makes of a value; an empty value gives no setting.
Parse(x) ==
    CASE x.kind = "digits" -> [type |-> "INT", val |-> x.val]
      [] x.kind = "point"  -> [type |-> "FLOAT", val |-> x.val]
      [] x.kind = "dots"   -> [type |-> "IP", val |-> x.val]
      [] x.kind = "none"   -> None
      [] x.kind = "letters" /\ x.val \in {StrTrue, StrFalse} ->
           [type |-> "BOOL", val |-> IF x.val = StrTrue THEN 1 ELSE 0]
      [] x.kind = "letters" /\ x.val \notin {StrTrue, StrFalse} ->
           [type |-> "STRING", val |-> x.val]

\* One line of a text file; None if it gives no setting.
ReadLine(l) == IF Parse(l.text) = None THEN None ELSE Entry(l.key, Parse(l.text))

\* A setting read from a file overrides one of the same key, or takes the first
\* empty entry.  One that does not fit into the map is skipped.
LoadEntry(m, e) ==
    IF e = None \/ Stops(m, e.key) = {} THEN m ELSE [m EXCEPT ![Slot(m, e.key)] = e]

\* The map after the first n settings of a file were loaded, for each n.
Loading(m, es) ==
    LET f[n \in 0 .. Len(es)] == IF n = 0 THEN m ELSE LoadEntry(f[n - 1], es[n])
    IN  f

LoadBin(m, es)  == Loading(m, es)[Len(es)]
LoadText(m, ls) == LoadBin(m, [i \in 1 .. Len(ls) |-> ReadLine(ls[i])])
=============================================================================
