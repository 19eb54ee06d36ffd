--------------------------- MODULE SettingsProofs ---------------------------
(***************************************************************************)
(* Theorems about Settings, for any intervals, modes and APNs that are     *)
(* asked for, and any number of runs, with crashes or without.             *)
(***************************************************************************)
EXTENDS Settings, TLAPS

-----------------------------------------------------------------------------
(* Types.                                                                  *)

LEMMA KeysAre ==
  ASSUME NEW t, IsTable(t)
  PROVE  /\ "FIX_INTERVAL" \in DOMAIN t => t["FIX_INTERVAL"] \in Int
         /\ "PREF_GPS_MODE" \in DOMAIN t
              => t["PREF_GPS_MODE"] \in {"STAND_ALONE", "SUPL", "junk"}
         /\ "SUPL_APN" \in DOMAIN t
              => t["SUPL_APN"] \in {"none", "apn", "padded", "long", "huge"}
<1>1. /\ Texts("FIX_INTERVAL") = Intervals \union {3}
      /\ Texts("PREF_GPS_MODE") = {"STAND_ALONE", "SUPL", "junk"}
      /\ Texts("SUPL_APN") = Apns \union {"none", "apn"}
  BY DEF Texts
<1>2. \A k \in DOMAIN t : t[k] \in Texts(k)
  BY DEF IsTable
<1>3. "FIX_INTERVAL" \in DOMAIN t => t["FIX_INTERVAL"] \in Int
  <2>1. "FIX_INTERVAL" \in DOMAIN t => t["FIX_INTERVAL"] \in Intervals \union {3}
    BY <1>1, <1>2, Zenon
  <2>2. Intervals \union {3} \subseteq Int
    BY ConstantsOK
  <2> QED BY <2>1, <2>2, Zenon
<1>4. "PREF_GPS_MODE" \in DOMAIN t
        => t["PREF_GPS_MODE"] \in {"STAND_ALONE", "SUPL", "junk"}
  BY <1>1, <1>2, Zenon
<1>5. "SUPL_APN" \in DOMAIN t => t["SUPL_APN"] \in Apns \union {"none", "apn"}
  BY <1>1, <1>2, Zenon
<1>6. Apns \union {"none", "apn"} \subseteq {"none", "apn", "padded", "long", "huge"}
  BY ConstantsOK
<1> QED BY <1>3, <1>4, <1>5, <1>6, Zenon

LEMMA ReadType ==
  ASSUME NEW t, IsTable(t)
  PROVE  /\ IsTable(Read(t)) /\ DOMAIN Read(t) = DOMAIN t
         /\ \A k \in DOMAIN t :
              Read(t)[k] = IF k = "SUPL_APN" THEN Trim(t[k]) ELSE t[k]
<1>1. DOMAIN Read(t) = DOMAIN t
  BY DEF Read
<1>2. \A k \in DOMAIN t :
        Read(t)[k] = IF k = "SUPL_APN" THEN Trim(t[k]) ELSE t[k]
  BY DEF Read
<1>3. ASSUME NEW k \in DOMAIN t
      PROVE  Read(t)[k] \in Texts(k)
  <2>1. t[k] \in Texts(k)
    BY DEF IsTable
  <2>2. Trim("padded") = "apn" /\ "apn" \in Texts("SUPL_APN")
    BY DEF Trim, Texts
  <2>3. t[k] # "padded" => Trim(t[k]) = t[k]
    BY DEF Trim
  <2> QED BY <1>2, <2>1, <2>2, <2>3
<1> QED BY <1>1, <1>2, <1>3 DEF IsTable

LEMMA DefaultIs ==
  ASSUME NEW i
  PROVE  /\ DOMAIN Default(i) = Keys /\ Default(i)["FIX_INTERVAL"] = i
         /\ Default(i)["PREF_GPS_MODE"] = 1 /\ Default(i)["SUPL_APN"] = "none"
BY DEF Default, Keys

\* load_settings, key by key.
LEMMA LoadedIs ==
  ASSUME NEW t, NEW o
  PROVE  /\ DOMAIN Loaded(t, o) = Keys
         /\ "FIX_INTERVAL" \in DOMAIN t
              => Loaded(t, o)["FIX_INTERVAL"] = Clamp(t["FIX_INTERVAL"])
         /\ "FIX_INTERVAL" \notin DOMAIN t => Loaded(t, o)["FIX_INTERVAL"] = 1
         /\ Loaded(t, o)["PREF_GPS_MODE"] =
              IF "PREF_GPS_MODE" \in DOMAIN t
                THEN IF t["PREF_GPS_MODE"] = "SUPL" THEN 3
                     ELSE IF t["PREF_GPS_MODE"] = "STAND_ALONE" THEN 1
                     ELSE o["PREF_GPS_MODE"]
                ELSE 1
         /\ Loaded(t, o)["SUPL_APN"] =
              IF "SUPL_APN" \in DOMAIN t THEN Short(t["SUPL_APN"]) ELSE "none"
<1>1. /\ Default(Clamp(1))["FIX_INTERVAL"] = 1
      /\ Default(Clamp(1))["PREF_GPS_MODE"] = 1
      /\ Default(Clamp(1))["SUPL_APN"] = "none"
  <2>1. Clamp(1) = 1
    BY DEF Clamp
  <2> QED BY <2>1, DefaultIs
<1> DEFINE l == Loaded(t, o)
<1>2. /\ DOMAIN l = Keys
      /\ "FIX_INTERVAL" \in DOMAIN t => l["FIX_INTERVAL"] = Clamp(t["FIX_INTERVAL"])
      /\ "PREF_GPS_MODE" \in DOMAIN t =>
           l["PREF_GPS_MODE"] = IF t["PREF_GPS_MODE"] = "SUPL" THEN 3
                                ELSE IF t["PREF_GPS_MODE"] = "STAND_ALONE" THEN 1
                                ELSE o["PREF_GPS_MODE"]
      /\ "SUPL_APN" \in DOMAIN t => l["SUPL_APN"] = Short(t["SUPL_APN"])
  BY DEF Loaded, Keys
<1>3. \A k \in Keys : k \notin DOMAIN t => l[k] = Default(Clamp(1))[k]
  BY DEF Loaded
<1> HIDE DEF l
<1>4. {"FIX_INTERVAL", "PREF_GPS_MODE", "SUPL_APN"} = Keys
  BY DEF Keys
<1>5. /\ DOMAIN l = Keys
      /\ "FIX_INTERVAL" \in DOMAIN t => l["FIX_INTERVAL"] = Clamp(t["FIX_INTERVAL"])
      /\ "FIX_INTERVAL" \notin DOMAIN t => l["FIX_INTERVAL"] = 1
      /\ l["PREF_GPS_MODE"] =
           IF "PREF_GPS_MODE" \in DOMAIN t
             THEN IF t["PREF_GPS_MODE"] = "SUPL" THEN 3
                  ELSE IF t["PREF_GPS_MODE"] = "STAND_ALONE" THEN 1
                  ELSE o["PREF_GPS_MODE"]
             ELSE 1
      /\ l["SUPL_APN"] =
           IF "SUPL_APN" \in DOMAIN t THEN Short(t["SUPL_APN"]) ELSE "none"
  BY <1>1, <1>2, <1>3, <1>4
<1> QED BY <1>5 DEF l

LEMMA ClampType ==
  ASSUME NEW i \in Int
  PROVE  Clamp(i) \in Int /\ Clamp(Clamp(i)) = Clamp(i)
BY DEF Clamp

LEMMA LoadedType ==
  ASSUME NEW t, IsTable(t), NEW o, IsOption(o)
  PROVE  IsOption(Loaded(t, o))
<1> DEFINE l == Loaded(t, o)
<1>1. /\ DOMAIN l = Keys
      /\ "FIX_INTERVAL" \in DOMAIN t => l["FIX_INTERVAL"] = Clamp(t["FIX_INTERVAL"])
      /\ "FIX_INTERVAL" \notin DOMAIN t => l["FIX_INTERVAL"] = 1
      /\ l["PREF_GPS_MODE"] \in {1, 3, o["PREF_GPS_MODE"]}
      /\ "SUPL_APN" \in DOMAIN t => l["SUPL_APN"] = Short(t["SUPL_APN"])
      /\ "SUPL_APN" \notin DOMAIN t => l["SUPL_APN"] = "none"
  BY LoadedIs
<1> HIDE DEF l
<1>2. l["FIX_INTERVAL"] \in Int
  <2>1. "FIX_INTERVAL" \in DOMAIN t => Clamp(t["FIX_INTERVAL"]) \in Int
    BY KeysAre, ClampType
  <2>2. 1 \in Int
    OBVIOUS
  <2> QED BY <1>1, <2>1, <2>2, Zenon
<1>3. l["SUPL_APN"] \in {"none", "apn", "padded"}
  BY <1>1, KeysAre DEF Short
<1>4. IsOption(l)
  BY <1>1, <1>2, <1>3 DEF IsOption
<1> QED BY <1>4 DEF l

\* An overflow loses settings, and changes none that is left.
LEMMA StoredIs ==
  ASSUME NEW t, IsTable(t), NEW u \in Stored(t)
  PROVE  /\ IsTable(u) /\ DOMAIN u \subseteq DOMAIN t
         /\ \A k \in DOMAIN u : u[k] = t[k]
         /\ ~Overflows(t) => u = t
         /\ Overflows(u) => Overflows(t)
         /\ Overflows(u) \in BOOLEAN
<1>1. CASE Overflows(t)
  <2>1. PICK D \in SUBSET DOMAIN t : u = [k \in D \union {"SUPL_APN"} |-> t[k]]
    BY <1>1 DEF Stored
  <2>2. D \union {"SUPL_APN"} \subseteq DOMAIN t
    BY <1>1 DEF Overflows
  <2>3. /\ DOMAIN u = D \union {"SUPL_APN"}
        /\ \A k \in D \union {"SUPL_APN"} : u[k] = t[k]
    BY <2>1
  <2> QED BY <1>1, <2>2, <2>3 DEF IsTable, Overflows
<1>2. CASE ~Overflows(t)
  BY <1>2 DEF Stored, Overflows
<1> QED BY <1>1, <1>2

LEMMA ChangeType ==
  ASSUME TypeOK, NEW k \in Keys, NEW x \in Texts(k), NEW v, Change(k, x, v),
         IsOption([option EXCEPT ![k] = v])
  PROVE  TypeOK'
<1>1. CASE k \in DOMAIN table
  <2>1. IsTable([table EXCEPT ![k] = x])
    BY <1>1 DEF TypeOK, IsTable
  <2>2. table' \in Stored([table EXCEPT ![k] = x])
    BY <1>1 DEF Change
  <2>3. damaged' \in BOOLEAN
    BY <1>1, Zenon DEF Change
  <2>4. IsTable(table')
    BY <2>1, <2>2, StoredIs
  <2> QED BY <1>1, <2>3, <2>4 DEF Change, TypeOK, files, history
<1>2. CASE k \notin DOMAIN table
  BY <1>2 DEF Change, TypeOK, files, history
<1> QED BY <1>1, <1>2

LEMMA SetterType ==
  ASSUME TypeOK, \/ \E i \in Intervals : SetFixInterval(i)
                 \/ \E m \in Modes : SetPrefGpsMode(m)
                 \/ \E a \in Apns : SetSuplApn(a)
  PROVE  TypeOK'
<1>0. IsOption(option) /\ Keys = {"FIX_INTERVAL", "PREF_GPS_MODE", "SUPL_APN"}
  BY DEF TypeOK, Keys
<1>1. ASSUME NEW i \in Intervals, SetFixInterval(i)
      PROVE  TypeOK'
  <2>1. i \in Texts("FIX_INTERVAL") /\ i \in Int
    BY ConstantsOK DEF Texts
  <2>2. IsOption([option EXCEPT !["FIX_INTERVAL"] = i])
    BY <1>0, <2>1 DEF IsOption
  <2> QED BY <1>0, <1>1, <2>1, <2>2, ChangeType DEF SetFixInterval
<1>2. ASSUME NEW m \in Modes, SetPrefGpsMode(m)
      PROVE  TypeOK'
  <2>1. PICK x \in ModeTexts(m) : Change("PREF_GPS_MODE", x, m)
    BY <1>2 DEF SetPrefGpsMode
  <2>2. x \in Texts("PREF_GPS_MODE")
    BY DEF ModeTexts, Texts
  <2>3. IsOption([option EXCEPT !["PREF_GPS_MODE"] = m])
    BY <1>0 DEF IsOption
  <2> QED BY <1>0, <2>1, <2>2, <2>3, ChangeType
<1>3. ASSUME NEW a \in Apns, SetSuplApn(a)
      PROVE  TypeOK'
  <2>1. a \in Texts("SUPL_APN") /\ Short(a) \in {"none", "apn", "padded"}
    BY ConstantsOK DEF Texts, Short
  <2>2. IsOption([option EXCEPT !["SUPL_APN"] = Short(a)])
    BY <1>0, <2>1 DEF IsOption
  <2> QED BY <1>0, <1>3, <2>1, <2>2, ChangeType DEF SetSuplApn
<1> QED BY <1>1, <1>2, <1>3

LEMMA EmptyType == IsTable(Empty) /\ DOMAIN Empty = {} /\ IsFile(Truncated)
<1>1. IsTable(Empty) /\ DOMAIN Empty = {}
  BY DEF IsTable, Empty
<1> QED BY <1>1 DEF IsFile, Truncated

LEMMA NextType ==
  ASSUME TypeOK, [Next]_vars
  PROVE  TypeOK'
<1>1. ASSUME NEW i \in Intervals \union {1}, NEW asked \in BOOLEAN, Start(i, asked)
      PROVE  TypeOK'
  <2>1. IsOption(Default(i))
    <3>1. i \in Int
      BY ConstantsOK
    <3>2. 1 \in Modes \union {1, 3}
      OBVIOUS
    <3>3. "none" \in {"none", "apn", "padded"}
      OBVIOUS
    <3> QED BY <3>1, <3>2, <3>3, DefaultIs, Zenon DEF IsOption
  <2> QED BY <1>1, <2>1, EmptyType DEF Start, TypeOK, files
<1>2. CASE Load
  <2>1. IsTable(table') /\ IsOption(option') /\ damaged' \in BOOLEAN
    <3> DEFINE source == IF file.there THEN file ELSE fallback
    <3>1. IsTable(source.text)
      BY DEF TypeOK, IsFile
    <3>2. CASE source.there
      <4>1. /\ table' \in Stored(Read(source.text)) /\ option' = Loaded(table', option)
            /\ damaged' = Overflows(table')
        BY <1>2, <3>2 DEF Load
      <4>2. IsTable(table') /\ Overflows(table') \in BOOLEAN
        BY <3>1, <4>1, ReadType, StoredIs
      <4> QED BY <4>1, <4>2, LoadedType DEF TypeOK
    <3>3. CASE ~source.there
      BY <1>2, <3>3 DEF Load, TypeOK
    <3> QED BY <3>2, <3>3
  <2> QED BY <1>2, <2>1 DEF Load, TypeOK, files, history
<1>3. CASE OpenToWrite \/ WriteOut
  <2>1. IsFile([file EXCEPT !.text = table])
    BY DEF TypeOK, IsFile
  <2>2. IsFile(file') /\ IsFile(fallback') /\ UNCHANGED <<readOnly, quitting, table, option>>
    BY <1>3, <2>1, EmptyType DEF OpenToWrite, WriteOut, TypeOK
  <2>3. /\ pc' \in {"off", "loading", "saving", "writing", "running"}
        /\ DOMAIN kept' \subseteq Keys
    BY <1>3 DEF OpenToWrite, WriteOut, Saved, TypeOK, IsTable
  <2>4. orderly' \in BOOLEAN /\ UNCHANGED process
    BY <1>3, Zenon DEF OpenToWrite, WriteOut, Saved, TypeOK
  <2> QED BY <2>2, <2>3, <2>4 DEF TypeOK, process
<1>4. CASE \/ \E i \in Intervals : SetFixInterval(i)
           \/ \E m \in Modes : SetPrefGpsMode(m)
           \/ \E a \in Apns : SetSuplApn(a)
  BY <1>4, SetterType
<1>4a. CASE SetLongNumber
  BY <1>4a DEF SetLongNumber, TypeOK, files, history
<1>5. CASE Quit \/ Crash
  <2>1. quitting' \in BOOLEAN /\ orderly' \in BOOLEAN
    BY <1>5, Zenon DEF Quit, Crash, TypeOK, history
  <2> QED BY <1>5, <2>1 DEF Quit, Crash, TypeOK, files, process, history
<1>6. CASE UNCHANGED vars
  BY <1>6 DEF vars, TypeOK, files, process, history
<1> QED BY <1>1, <1>2, <1>3, <1>4, <1>4a, <1>5, <1>6 DEF Next

LEMMA InitType ==
  ASSUME Init
  PROVE  TypeOK
<1>1. ASSUME NEW a \in {"none", "apn"}
      PROVE  IsTable(Shipped(a))
  BY <1>1 DEF IsTable, Shipped, Texts, Keys
<1>2. ASSUME NEW f \in Installed \union {Absent}
      PROVE  IsFile(f)
  <2>1. CASE f = Absent
    BY <2>1, EmptyType DEF IsFile, Absent
  <2>2. CASE f \in Installed
    BY <1>1, <2>2 DEF IsFile, Installed
  <2> QED BY <2>1, <2>2
<1>3. IsOption(Default(1))
  <2>1. 1 \in Int /\ 1 \in Modes \union {1, 3} /\ "none" \in {"none", "apn", "padded"}
    OBVIOUS
  <2> QED BY <2>1, DefaultIs, Zenon DEF IsOption
<1>4. IsFile(file) /\ IsFile(fallback)
  BY <1>2 DEF Init
<1> QED BY <1>3, <1>4, EmptyType DEF Init, TypeOK

\* The tables, the files and the options hold only what the conversions know:
\* no sequence of loads, setters, saves and crashes makes another text of one.
THEOREM TypeCorrect == Spec => []TypeOK
<1>1. TypeOK /\ [Next]_vars => TypeOK'
  BY NextType
<1> QED BY <1>1, InitType, PTL DEF Spec

-----------------------------------------------------------------------------
(* What a save writes and the next load makes of it.                       *)

\* Options o are those that a load of table t makes in a new process, in which
\* the mode is the default one: as far as they are valid, and up to the limits
\* and blanks.
Agree(t, o) ==
  \A k \in DOMAIN t :
    Valid(k, o[k]) => Loaded(Read(t), Default(1))[k] = Restored(k, o[k])

\* What makes the properties inductive: table and options agree from one load
\* to the next; a process that has not loaded yet has no table and the default
\* mode; and what an orderly end has left in the file agrees with the options
\* of the run that ended, and fits into the settings.
SettingsInv ==
  /\ Agree(table, option)
  /\ Overflows(table) => damaged
  /\ pc = "loading" => DOMAIN table = {} /\ option["PREF_GPS_MODE"] = 1
  /\ pc = "writing" => file.there
  /\ orderly /\ pc \in {"off", "loading"}
       => /\ file.there /\ DOMAIN kept = DOMAIN file.text
          /\ Agree(file.text, kept) /\ ~Overflows(file.text)

\* Agree, key by key.
LEMMA AgreeIs ==
  ASSUME NEW t, IsTable(t), NEW o
  PROVE  Agree(t, o) <=>
           /\ "FIX_INTERVAL" \in DOMAIN t =>
                Clamp(t["FIX_INTERVAL"]) = Clamp(o["FIX_INTERVAL"])
           /\ "PREF_GPS_MODE" \in DOMAIN t /\ o["PREF_GPS_MODE"] \in {1, 3} =>
                o["PREF_GPS_MODE"] = IF t["PREF_GPS_MODE"] = "SUPL" THEN 3 ELSE 1
           /\ "SUPL_APN" \in DOMAIN t =>
                Short(Trim(t["SUPL_APN"])) = Trim(o["SUPL_APN"])
<1>1. Default(1)["PREF_GPS_MODE"] = 1
  BY DefaultIs
<1>2. DOMAIN t \subseteq {"FIX_INTERVAL", "PREF_GPS_MODE", "SUPL_APN"}
  BY DEF IsTable, Keys
<1> DEFINE r == Read(t)
<1> DEFINE l == Loaded(r, Default(1))
<1>a. /\ DOMAIN r = DOMAIN t
      /\ \A k \in DOMAIN t : r[k] = IF k = "SUPL_APN" THEN Trim(t[k]) ELSE t[k]
  BY ReadType
<1> HIDE DEF r
<1>3. "FIX_INTERVAL" \in DOMAIN t => l["FIX_INTERVAL"] = Clamp(t["FIX_INTERVAL"])
  BY <1>a, LoadedIs
<1>4. "PREF_GPS_MODE" \in DOMAIN t =>
        l["PREF_GPS_MODE"] = IF t["PREF_GPS_MODE"] = "SUPL" THEN 3 ELSE 1
  BY <1>1, <1>a, LoadedIs
<1>5. "SUPL_APN" \in DOMAIN t => l["SUPL_APN"] = Short(Trim(t["SUPL_APN"]))
  BY <1>a, LoadedIs
<1> HIDE DEF l
<1>6. Agree(t, o) <=> \A k \in DOMAIN t : Valid(k, o[k]) => l[k] = Restored(k, o[k])
  BY DEF Agree, l, r
<1> QED BY <1>2, <1>3, <1>4, <1>5, <1>6 DEF Valid, Restored

\* A load in a new process makes options that agree with the table it makes.
LEMMA LoadAgrees ==
  ASSUME NEW t, IsTable(t), NEW o, o["PREF_GPS_MODE"] = 1, NEW r \in Stored(Read(t))
  PROVE  Agree(r, Loaded(r, o))
<1>1. IsTable(r) /\ DOMAIN r \subseteq DOMAIN t /\ \A k \in DOMAIN r : r[k] = Read(t)[k]
  BY ReadType, StoredIs
<1>2. "SUPL_APN" \in DOMAIN r => r["SUPL_APN"] \in {"none", "apn", "long", "huge"}
  BY <1>1, KeysAre, ReadType DEF Trim
<1>3. "FIX_INTERVAL" \in DOMAIN r => r["FIX_INTERVAL"] \in Int
  BY <1>1, KeysAre
<1> DEFINE l == Loaded(r, o)
<1>4. /\ "FIX_INTERVAL" \in DOMAIN r => l["FIX_INTERVAL"] = Clamp(r["FIX_INTERVAL"])
      /\ "PREF_GPS_MODE" \in DOMAIN r =>
           l["PREF_GPS_MODE"] = IF r["PREF_GPS_MODE"] = "SUPL" THEN 3 ELSE 1
      /\ "SUPL_APN" \in DOMAIN r => l["SUPL_APN"] = Short(r["SUPL_APN"])
  BY LoadedIs
<1> HIDE DEF l
<1>5. Agree(r, l)
  <2>1. "FIX_INTERVAL" \in DOMAIN r =>
          Clamp(r["FIX_INTERVAL"]) = Clamp(l["FIX_INTERVAL"])
    BY <1>3, <1>4, ClampType
  <2>2. "SUPL_APN" \in DOMAIN r => Short(Trim(r["SUPL_APN"])) = Trim(l["SUPL_APN"])
    BY <1>2, <1>4 DEF Short, Trim
  <2> QED BY <1>1, <1>4, <2>1, <2>2, AgreeIs
<1> QED BY <1>5 DEF l

LEMMA ChangeAgrees ==
  ASSUME TypeOK, SettingsInv, NEW k \in Keys, NEW x, NEW v, Change(k, x, v),
         IsTable(table'),
         x \in Texts(k), k = "FIX_INTERVAL" => x = v,
         k = "PREF_GPS_MODE" /\ v \in {1, 3}
           => x = IF v = 3 THEN "SUPL" ELSE "STAND_ALONE",
         k = "SUPL_APN" => Short(Trim(x)) = Trim(v)
  PROVE  SettingsInv'
<1>1. CASE k \in DOMAIN table
  <2> DEFINE t == [table EXCEPT ![k] = x]
  <2>1. /\ table' \in Stored(t) /\ option' = [option EXCEPT ![k] = v]
        /\ DOMAIN option = Keys /\ damaged' = (damaged \/ Overflows(table'))
    BY <1>1 DEF Change, TypeOK, IsOption
  <2>2. IsTable(t) /\ DOMAIN t = DOMAIN table /\ t[k] = x
        /\ \A j \in DOMAIN table : j # k => t[j] = table[j]
    BY <1>1 DEF TypeOK, IsTable
  <2> HIDE DEF t
  <2>3. /\ DOMAIN table' \subseteq DOMAIN table /\ option'[k] = v
        /\ \A j \in DOMAIN table' : table'[j] = IF j = k THEN x ELSE table[j]
        /\ \A j \in Keys : j # k => option'[j] = option[j]
    BY <2>1, <2>2, StoredIs
  <2>4. Agree(table, option) /\ IsTable(table)
    BY DEF SettingsInv, TypeOK
  <2>5. Agree(table', option')
    BY <2>3, <2>4, AgreeIs DEF Keys
  <2>6. Overflows(table') => damaged'
    BY <2>1
  <2> QED BY <2>5, <2>6 DEF Change, SettingsInv, files, history
<1>2. CASE k \notin DOMAIN table
  BY <1>2 DEF Change, SettingsInv, files, history
<1> QED BY <1>1, <1>2

LEMMA SettingsStep ==
  ASSUME TypeOK, SettingsInv, [Next]_vars
  PROVE  SettingsInv'
<1>0. TypeOK'
  BY NextType
<1>1. ASSUME NEW i \in Intervals \union {1}, NEW asked \in BOOLEAN, Start(i, asked)
      PROVE  SettingsInv'
  <2>1. DOMAIN table' = {} /\ option'["PREF_GPS_MODE"] = 1
    BY <1>1, EmptyType, DefaultIs DEF Start
  <2>2. Agree(table', option') /\ ~Overflows(table')
    BY <2>1 DEF Agree, Overflows
  <2> QED BY <1>1, <2>1, <2>2 DEF Start, SettingsInv, files
<1>2. CASE Load
  <2>1. Agree(table', option') /\ (Overflows(table') => damaged')
    <3> DEFINE source == IF file.there THEN file ELSE fallback
    <3>1. IsTable(source.text) /\ option["PREF_GPS_MODE"] = 1
      BY <1>2 DEF TypeOK, IsFile, SettingsInv, Load
    <3>2. CASE source.there
      <4>1. /\ table' \in Stored(Read(source.text)) /\ option' = Loaded(table', option)
            /\ damaged' = Overflows(table')
        BY <1>2, <3>2 DEF Load
      <4> QED BY <3>1, <4>1, LoadAgrees
    <3>3. CASE ~source.there
      BY <1>2, <3>3 DEF Load, SettingsInv
    <3> QED BY <3>2, <3>3
  <2> QED BY <1>2, <2>1 DEF Load, SettingsInv
<1>3. CASE OpenToWrite
  <2>1. UNCHANGED <<table, option, damaged>>
    BY <1>3 DEF OpenToWrite, process
  <2>2. CASE readOnly
    <3>1. ~orderly' /\ pc' \in {"off", "running"}
      BY <1>3, <2>2, Zenon DEF OpenToWrite, Saved
    <3> QED BY <2>1, <3>1 DEF SettingsInv
  <2>3. CASE ~readOnly
    <3>1. pc' = "writing" /\ file'.there
      BY <1>3, <2>3 DEF OpenToWrite, Truncated
    <3> QED BY <2>1, <3>1 DEF SettingsInv
  <2> QED BY <2>2, <2>3
<1>4. CASE WriteOut
  <2>1. file'.text = table /\ file'.there
    BY <1>4 DEF WriteOut, SettingsInv, TypeOK, IsFile
  <2>2. /\ UNCHANGED <<table, option, damaged>> /\ pc' \notin {"loading", "writing"}
        /\ orderly' => ~damaged
        /\ kept' = [k \in DOMAIN table |-> option[k]]
    BY <1>4 DEF WriteOut, Saved, process
  <2>3. DOMAIN kept' = DOMAIN table /\ \A k \in DOMAIN table : kept'[k] = option[k]
    BY <2>2
  <2>4. Agree(table, option) => Agree(table, kept')
    BY <2>3 DEF Agree
  <2>5. Agree(table, option) /\ Agree(file'.text, kept')
    BY <2>1, <2>4 DEF SettingsInv
  <2> QED BY <2>1, <2>2, <2>3, <2>5 DEF SettingsInv
<1>5. ASSUME NEW i \in Intervals, SetFixInterval(i)
      PROVE  SettingsInv'
  <2>1. IsTable(table') /\ "FIX_INTERVAL" \in Keys
    BY <1>0 DEF TypeOK, Keys
  <2>2. i \in Texts("FIX_INTERVAL")
    BY DEF Texts
  <2> QED BY <1>5, <2>1, <2>2, ChangeAgrees DEF SetFixInterval
<1>6. ASSUME NEW m \in Modes, SetPrefGpsMode(m)
      PROVE  SettingsInv'
  <2>1. PICK x \in ModeTexts(m) : Change("PREF_GPS_MODE", x, m)
    BY <1>6 DEF SetPrefGpsMode
  <2>2. m \in {1, 3} => x = IF m = 3 THEN "SUPL" ELSE "STAND_ALONE"
    BY DEF ModeTexts
  <2>3. IsTable(table') /\ "PREF_GPS_MODE" \in Keys /\ x \in Texts("PREF_GPS_MODE")
    BY <1>0 DEF TypeOK, Keys, ModeTexts, Texts
  <2> QED BY <2>1, <2>2, <2>3, ChangeAgrees
<1>7. ASSUME NEW a \in Apns, SetSuplApn(a)
      PROVE  SettingsInv'
  <2>1. Short(Trim(a)) = Trim(Short(a))
    BY ConstantsOK DEF Short, Trim
  <2>2. IsTable(table') /\ "SUPL_APN" \in Keys /\ a \in Texts("SUPL_APN")
    BY <1>0 DEF TypeOK, Keys, Texts
  <2> QED BY <1>7, <2>1, <2>2, ChangeAgrees DEF SetSuplApn
<1>8. CASE SetLongNumber \/ Quit \/ Crash
  BY <1>8 DEF SetLongNumber, Quit, Crash, SettingsInv, files, process, history
<1>9. CASE UNCHANGED vars
  BY <1>9 DEF vars, SettingsInv, files, process, history
<1> QED BY <1>1, <1>2, <1>3, <1>4, <1>5, <1>6, <1>7, <1>8, <1>9 DEF Next

LEMMA SettingsCorrect == Spec => [](TypeOK /\ SettingsInv)
<1>1. Init => SettingsInv
  BY EmptyType DEF Init, SettingsInv, Agree, Overflows
<1>2. TypeOK /\ SettingsInv /\ [Next]_vars => TypeOK' /\ SettingsInv'
  BY NextType, SettingsStep
<1> QED BY <1>1, <1>2, InitType, PTL DEF Spec

\* The table that the setters write and save_settings saves never parts from
\* the options that the getters report, crashes and restarts included, as long as
\* every text fits into its setting.
THEOREM OptionsWillBeSaved == Spec => []OptionsAreSaved
<1>1. TypeOK /\ SettingsInv => OptionsAreSaved
  <2> SUFFICES ASSUME TypeOK, SettingsInv, NEW k \in DOMAIN table,
                      Valid(k, option[k])
               PROVE  Restored(k, option[k]) = Loaded(Read(table), option)[k]
    BY DEF OptionsAreSaved
  <2>1. /\ IsTable(table) /\ Agree(table, option)
        /\ k \in {"FIX_INTERVAL", "PREF_GPS_MODE", "SUPL_APN"}
    BY DEF TypeOK, SettingsInv, IsTable, Keys
  <2> DEFINE l == Loaded(Read(table), option)
  <2> DEFINE r == Read(table)
  <2>2. /\ DOMAIN r = DOMAIN table
        /\ \A j \in DOMAIN table :
             r[j] = IF j = "SUPL_APN" THEN Trim(table[j]) ELSE table[j]
    BY <2>1, ReadType
  <2> HIDE DEF r
  <2>3. /\ k = "FIX_INTERVAL" => l[k] = Clamp(table[k])
        /\ k = "PREF_GPS_MODE" =>
             l[k] = IF table[k] = "SUPL" THEN 3
                    ELSE IF table[k] = "STAND_ALONE" THEN 1 ELSE option[k]
        /\ k = "SUPL_APN" => l[k] = Short(Trim(table[k]))
    BY <2>2, LoadedIs DEF r
  <2> HIDE DEF l
  <2>4. Restored(k, option[k]) = l[k]
    BY <2>1, <2>3, AgreeIs DEF Valid, Restored
  <2> QED BY <2>4 DEF l
<1> QED BY <1>1, SettingsCorrect, PTL

\* A load after an orderly end.
LEMMA LoadAfterEnd ==
  ASSUME TypeOK, SettingsInv, Load, orderly
  PROVE  /\ DOMAIN table' = DOMAIN kept
         /\ \A k \in DOMAIN kept :
              Valid(k, kept[k]) => option'[k] = Restored(k, kept[k])
<1> DEFINE t == file.text
<1>0. IsTable(t) => ~Overflows(Read(t)) /\ IsTable(Read(t))
  <2>1. ~Overflows(t)
    BY DEF Load, SettingsInv
  <2>2. IsTable(t) => DOMAIN Read(t) = DOMAIN t /\ IsTable(Read(t))
    BY ReadType
  <2>3. IsTable(t) /\ "SUPL_APN" \in DOMAIN t =>
          Read(t)["SUPL_APN"] = Trim(t["SUPL_APN"])
    BY ReadType
  <2>4. \A a : Trim(a) = "huge" => a = "huge"
    BY DEF Trim
  <2> QED BY <2>1, <2>2, <2>3, <2>4 DEF Overflows
<1>1. /\ file.there /\ IsTable(t) /\ DOMAIN kept = DOMAIN t /\ Agree(t, kept)
      /\ option["PREF_GPS_MODE"] = 1 /\ Default(1)["PREF_GPS_MODE"] = 1
  BY DefaultIs DEF Load, SettingsInv, TypeOK, IsFile
<1> HIDE DEF t
<1>2. table' = Read(t) /\ option' = Loaded(Read(t), option)
  <2>1. table' \in Stored(Read(t)) /\ option' = Loaded(table', option)
    BY <1>1 DEF Load, t
  <2> QED BY <1>0, <1>1, <2>1, StoredIs
<1>3. \A k \in DOMAIN t : Loaded(Read(t), option)[k] = Loaded(Read(t), Default(1))[k]
  <2> DEFINE r == Read(t)
  <2>1. DOMAIN t \subseteq {"FIX_INTERVAL", "PREF_GPS_MODE", "SUPL_APN"}
        /\ DOMAIN r = DOMAIN t
    BY <1>1, ReadType DEF IsTable, Keys
  <2> HIDE DEF r
  <2>2. \A k \in DOMAIN t : Loaded(r, option)[k] = Loaded(r, Default(1))[k]
    BY <1>1, <2>1, LoadedIs
  <2> QED BY <2>2 DEF r
<1> QED BY <1>1, <1>2, <1>3, ReadType DEF Agree

\* An orderly restart brings every valid option back that is not on the command
\* line, whatever was set in any of the runs before, and whatever of them crashed.
THEOREM RestartRestores == Spec => RestartKeeps
<1>1. TypeOK /\ SettingsInv =>
        [Load /\ orderly =>
           \A k \in DOMAIN kept :
             Valid(k, kept[k]) /\ ~Overridden(k)
               => option'[k] = Restored(k, kept[k])]_vars
  BY LoadAfterEnd
<1> QED BY <1>1, SettingsCorrect, PTL DEF RestartKeeps

\* An orderly restart reads every key that could be set before, and no other.
THEOREM SettersWorkOn == Spec => SettersStillWork
<1>1. TypeOK /\ SettingsInv =>
        [Load /\ orderly => DOMAIN table' = DOMAIN kept]_vars
  BY LoadAfterEnd
<1> QED BY <1>1, SettingsCorrect, PTL DEF SettersStillWork

=============================================================================
