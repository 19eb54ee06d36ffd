------------------------------ MODULE Settings ------------------------------
(***************************************************************************)
(* The settings and their files (gps_settings.c, mbm_options.c,            *)
(* mbm_gpsd.c: main).                                                      *)
(*                                                                         *)
(* main loads the settings into a table and from there into the options,   *)
(* and writes them back at once and again when it quits.  A D-Bus setter   *)
(* changes both the table and the option.  A save truncates the file first *)
(* and the process may die before it has written.                          *)
(***************************************************************************)
EXTENDS Integers

CONSTANTS Intervals,   \* fix intervals that are asked for
          Modes,       \* GPS modes that are asked for
          Apns,        \* APNs that are asked for: "none" for the empty text,
                       \* "apn", "padded" for the same with a blank to trim,
                       \* "long" with 500 to 511 characters, "huge" with more
          Crashes,     \* TRUE: the process may die at any point
          MaxRuns, MaxSets   \* bounds: starts, and calls of setters

ASSUME ConstantsOK ==
  /\ Intervals \subseteq Int /\ Modes \subseteq Int
  /\ Apns \subseteq {"none", "apn", "padded", "long", "huge"}
  /\ Crashes \in BOOLEAN
  /\ MaxRuns \in Nat /\ MaxSets \in Nat

\* One key for each way a setting is converted: a number that is clamped, a
\* mode's name, a string.
Keys == {"FIX_INTERVAL", "PREF_GPS_MODE", "SUPL_APN"}

\* A table or a file holds the texts of some of the keys.
Texts(k) == CASE k = "FIX_INTERVAL" -> Intervals \union {3}
              [] k = "PREF_GPS_MODE" -> {"STAND_ALONE", "SUPL", "junk"}
              [] k = "SUPL_APN" -> Apns \union {"none", "apn"}
Shipped(a) == [k \in Keys |-> CASE k = "FIX_INTERVAL" -> 3
                                [] k = "PREF_GPS_MODE" -> "STAND_ALONE"
                                [] k = "SUPL_APN" -> a]
Empty == [k \in {} |-> "none"]

\* A file as it is installed, its APN filled in or not.
Installed == [there : {TRUE}, text : {Shipped("none"), Shipped("apn")}]
Absent == [there |-> FALSE, text |-> Empty]
Truncated == [there |-> TRUE, text |-> Empty]

VARIABLES
  file, fallback,   \* /etc/mbm-gpsd.conf and ./mbm-gpsd.conf
  readOnly,         \* /etc cannot be written
  pc,               \* "off", "loading", "saving", "writing", "running"
  quitting,         \* is this save the last one?
  table, option,    \* the settings and the options of the process
  given,            \* is there an interval on its command line?
  damaged,          \* has it written beyond a buffer?
  kept,             \* the options of the last run that its table had
  orderly,          \* did it end in order, with its settings saved?
  runs, sets

files == <<file, fallback, readOnly>>
process == <<given, damaged>>
history == <<kept, orderly, runs>>
vars == <<files, pc, quitting, table, option, process, history, sets>>

Default(i) == [k \in Keys |-> CASE k = "FIX_INTERVAL" -> i
                                [] k = "PREF_GPS_MODE" -> 1
                                [] k = "SUPL_APN" -> "none"]

Init ==
  /\ file \in Installed \union {Absent}
  /\ fallback \in Installed \union {Absent}
  /\ readOnly \in BOOLEAN
  /\ pc = "off" /\ quitting = FALSE
  /\ table = Empty /\ option = Default(1) /\ given = FALSE /\ damaged = FALSE
  /\ kept = Empty /\ orderly = FALSE
  /\ runs = 0 /\ sets = 0

-----------------------------------------------------------------------------
(* Starting: mbm_options_parse, load_settings, save_settings.              *)

Start(i, asked) ==
  /\ pc = "off" /\ runs < MaxRuns /\ runs' = runs + 1
  /\ pc' = "loading" /\ quitting' = FALSE
  /\ table' = Empty /\ option' = Default(i)
  /\ given' = asked /\ damaged' = FALSE
  /\ UNCHANGED <<files, kept, orderly, sets>>

\* set_nmea_interval
Clamp(i) == IF i < 1 THEN 1 ELSE IF i > 60 THEN 60 ELSE i

Trim(apn) == IF apn = "padded" THEN "apn" ELSE apn

\* mbm_set_supl_apn
Short(apn) == IF apn \in {"long", "huge"} THEN "none" ELSE apn

\* A text of 512 characters or more is copied beyond its setting: over the keys of
\* others, which are lost, or over what the allocator needs, see Crash.
Overflows(t) == "SUPL_APN" \in DOMAIN t /\ t["SUPL_APN"] = "huge"

Stored(t) ==
  IF Overflows(t)
    THEN {[k \in D \union {"SUPL_APN"} |-> t[k]] : D \in SUBSET DOMAIN t}
    ELSE {t}

ReadValued(t) ==   \* faulty: "SUPL_APN=" is too short to be a setting
  [k \in {k \in DOMAIN t : k = "SUPL_APN" => t[k] # "none"} |-> t[k]]

\* read_settings, a whole file that write_settings or the package made.
Read(t) == [k \in DOMAIN t |-> IF k = "SUPL_APN" THEN Trim(t[k]) ELSE t[k]]

\* What load_settings makes of table t, with the options o before it.
LoadedUnclamped(t, o) ==   \* faulty: an interval that was changed is trusted
  [k \in Keys |->
    IF k \notin DOMAIN t THEN Default(Clamp(1))[k]
    ELSE CASE k = "FIX_INTERVAL" -> t[k]
           [] k = "PREF_GPS_MODE" -> IF t[k] = "SUPL" THEN 3 ELSE 1
           [] k = "SUPL_APN" -> t[k]]

Loaded(t, o) ==
  [k \in Keys |->
    IF k \notin DOMAIN t THEN Default(Clamp(1))[k]
    ELSE CASE k = "FIX_INTERVAL" -> Clamp(t[k])
           [] k = "PREF_GPS_MODE" -> IF t[k] = "SUPL" THEN 3
                                     ELSE IF t[k] = "STAND_ALONE" THEN 1
                                     ELSE o[k]
           [] k = "SUPL_APN" -> Short(t[k])]

Load ==
  /\ pc = "loading" /\ pc' = "saving"
  /\ LET source == IF file.there THEN file ELSE fallback
     IN  IF source.there
           THEN /\ table' \in Stored(Read(source.text))
                /\ option' = Loaded(table', option)
                /\ damaged' = Overflows(table')
           ELSE UNCHANGED <<table, option, damaged>>
  /\ UNCHANGED <<files, quitting, given, history, sets>>

-----------------------------------------------------------------------------
(* save_settings.                                                          *)

Saved(written) ==
  /\ pc' = IF quitting THEN "off" ELSE "running"
  /\ kept' = [k \in DOMAIN table |-> option[k]]
  /\ orderly' = (written /\ ~damaged)

\* fopen truncates; without the ordinary file the fallback is opened, and that
\* is all.
OpenToWrite ==
  /\ pc = "saving"
  /\ IF readOnly
       THEN fallback' = Truncated /\ Saved(FALSE) /\ UNCHANGED file
       ELSE file' = Truncated /\ pc' = "writing"
            /\ UNCHANGED <<fallback, kept, orderly>>
  /\ UNCHANGED <<readOnly, quitting, table, option, process, runs, sets>>

\* write_settings goes to the buffer that fclose flushes.
WriteOut ==
  /\ pc = "writing"
  /\ file' = [file EXCEPT !.text = table] /\ Saved(TRUE)
  /\ UNCHANGED <<fallback, readOnly, quitting, table, option, process, runs, sets>>

-----------------------------------------------------------------------------
(* The D-Bus setters.                                                      *)

\* change_setting: a key that was not read is not added.
ChangeOptionOnly(k, text, value) ==   \* faulty: the table is not looked at
  /\ pc = "running" /\ sets < MaxSets /\ sets' = sets + 1
  /\ option' = [option EXCEPT ![k] = value]
  /\ UNCHANGED <<files, pc, quitting, table, process, history>>

Change(k, text, value) ==
  /\ pc = "running" /\ sets < MaxSets /\ sets' = sets + 1
  /\ IF k \in DOMAIN table
       THEN /\ table' \in Stored([table EXCEPT ![k] = text])
            /\ option' = [option EXCEPT ![k] = value]
            /\ damaged' = (damaged \/ Overflows(table'))
       ELSE UNCHANGED <<table, option, damaged>>
  /\ UNCHANGED <<files, pc, quitting, given, history>>

SetFixInterval(i) == Change("FIX_INTERVAL", i, i)

\* For any other mode the text is an uninitialised buffer.
ModeTexts(m) == CASE m = 1 -> {"STAND_ALONE"} [] m = 3 -> {"SUPL"}
                  [] OTHER -> {"STAND_ALONE", "SUPL", "junk"}

SetPrefGpsMode(m) == \E t \in ModeTexts(m) : Change("PREF_GPS_MODE", t, m)

SetSuplApn(a) == Change("SUPL_APN", a, Short(a))

\* A number of more than one digit does not fit into the two bytes it is printed to.
SetLongNumber ==
  /\ pc = "running" /\ sets < MaxSets /\ sets' = sets + 1
  /\ damaged' = TRUE
  /\ UNCHANGED <<files, pc, quitting, table, option, given, history>>

-----------------------------------------------------------------------------
(* The end of a run: sig_quit, or init_mbm_modem giving up; or a crash,    *)
(* which a damaged process may come to at any point.                       *)

Quit ==
  /\ pc = "running" /\ pc' = "saving" /\ quitting' = TRUE
  /\ UNCHANGED <<files, table, option, process, history, sets>>

Crash ==
  /\ pc # "off" /\ (Crashes \/ damaged)
  /\ pc' = "off" /\ orderly' = FALSE
  /\ UNCHANGED <<files, quitting, table, option, process, kept, runs, sets>>

Next ==
  \/ Start(1, FALSE)
  \/ \E i \in Intervals : Start(i, TRUE)
  \/ Load \/ OpenToWrite \/ WriteOut
  \/ \E i \in Intervals : SetFixInterval(i)
  \/ \E m \in Modes : SetPrefGpsMode(m)
  \/ \E a \in Apns : SetSuplApn(a)
  \/ SetLongNumber
  \/ Quit \/ Crash

Spec == Init /\ [][Next]_vars

-----------------------------------------------------------------------------
IsTable(t) == DOMAIN t \subseteq Keys /\ \A k \in DOMAIN t : t[k] \in Texts(k)
IsFile(f) == /\ DOMAIN f = {"there", "text"}
             /\ f.there \in BOOLEAN /\ IsTable(f.text)
IsOption(o) == /\ DOMAIN o = Keys
               /\ o["FIX_INTERVAL"] \in Int
               /\ o["PREF_GPS_MODE"] \in Modes \union {1, 3}
               /\ o["SUPL_APN"] \in {"none", "apn", "padded"}

\* The types; after load_settings both files are either as someone left them
\* or empty, never a part of the table.
TypeOK ==
  /\ IsFile(file) /\ IsFile(fallback) /\ IsTable(table)
  /\ IsOption(option) /\ DOMAIN kept \subseteq Keys
  /\ readOnly \in BOOLEAN
  /\ pc \in {"off", "loading", "saving", "writing", "running"}
  /\ quitting \in BOOLEAN /\ orderly \in BOOLEAN
  /\ given \in BOOLEAN /\ damaged \in BOOLEAN

\* What a restart may change of an option: the limits, and blanks.
Restored(k, v) == CASE k = "FIX_INTERVAL" -> Clamp(v)
                    [] k = "PREF_GPS_MODE" -> v
                    [] k = "SUPL_APN" -> Trim(v)

\* The code calls other modes invalid, and stores them all the same.
Valid(k, v) == k = "PREF_GPS_MODE" => v \in {1, 3}

\* An interval on the command line is meant to override the settings: nothing is
\* claimed of it (the file wins all the same).
Overridden(k) == k = "FIX_INTERVAL" /\ given

\* A run that is started after one that ended in order, could write and had no
\* text of 512 characters, has its valid options, as far as there were settings
\* for them and they are not on the command line.
RestartKeeps ==
  [][Load /\ orderly =>
       \A k \in DOMAIN kept :
         Valid(k, kept[k]) /\ ~Overridden(k)
           => option'[k] = Restored(k, kept[k])]_vars

\* change_setting ignores a key that is not in the table: a setter that works
\* still works after a restart in order, whatever the values it was given, as long
\* as they fit into their buffers.
SettersStillWork == [][Load /\ orderly => DOMAIN table' = DOMAIN kept]_vars

\* What the getters report is what a save would keep: the table the setters
\* write and the options never part, even when a crash has emptied the file, as
\* long as every text has fitted into its setting.
OptionsAreSaved ==
  pc = "running" /\ ~damaged =>
    \A k \in DOMAIN table : Valid(k, option[k]) =>
      Restored(k, option[k]) = Loaded(Read(table), option)[k]
=============================================================================
