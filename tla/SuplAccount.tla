---------------------------- MODULE SuplAccount ----------------------------
(***************************************************************************)
(* The SUPL data account (mbm_supl.c: setup_supl, remove_supl_setup) and   *)
(* the settings it is made from (mbm_options.c: mbm_set_supl_...).         *)
(*                                                                         *)
(* The loop thread sets the account up before it enables the GPS in SUPL   *)
(* mode and removes it before a suspend; each of its AT commands is a step *)
(* here and may be refused.  The D-Bus thread changes a setting at any     *)
(* time: it overwrites the string, then raises supl_settings_changed.  No  *)
(* lock orders the two.                                                    *)
(***************************************************************************)
EXTENDS Integers, FiniteSets

CONSTANTS Values,      \* values of a setting
          Empty,       \* one of them: no APN is configured
          Torn,        \* what a reader gets of a string being overwritten
          Unset,       \* what the modem has for a setting never sent to it
          Accounts,    \* account numbers the modem gives out
          Refused,     \* the commands the modem may refuse
          MaxSets      \* bound: changes of settings in a behaviour

\* The settings, by the command that sends them: AT*EIAPSW, AT*EIAAUW
\* (user and password), AT*E2GPSSUPL (address and network initiation).
Fields == {"apn", "login", "server"}
Commands == Fields \union {"clock", "account", "ni", "certun", "unni", "unaccount"}

NoAccount == -1

ASSUME ConstantsOK ==
  /\ Empty \in Values /\ Torn \notin Values /\ Unset \notin Values \union {Torn}
  /\ Accounts \subseteq Nat /\ IsFiniteSet(Accounts)
  /\ Refused \subseteq Commands
  /\ MaxSets \in Nat

VARIABLES
  setting,   \* the options
  changed,   \* supl_settings_changed
  writer,    \* the D-Bus thread: what it writes, and how far it is
  pc,        \* where the loop thread is
  ret,       \* where remove_supl_setup returns to
  failed,    \* supl_setup_failed
  idx,       \* supl_account_idx
  done,      \* supl_setup_done
  accounts,  \* the accounts that exist in the modem
  sent,      \* the settings as the modem last got them
  suplIdx,   \* the account the modem uses for SUPL
  sets       \* changes so far

loopVars == <<pc, ret, failed, idx, done>>
modem == <<accounts, sent, suplIdx>>
dbus == <<setting, writer, sets>>
vars == <<setting, changed, writer, loopVars, modem, sets>>

\* The D-Bus thread: "idle", "copying" over the old string, or "copied".
Writing(st, f, v) == [state |-> st, field |-> f, value |-> v]
WriterIdle == Writing("idle", "apn", Empty)

\* load_settings sets every option, which raises the flag, before the loop runs;
\* without a configuration file it leaves the defaults alone.
Init ==
  /\ setting \in [Fields -> Values] /\ writer = WriterIdle
  /\ changed \in BOOLEAN /\ (~changed => setting["apn"] = Empty)
  /\ pc = "idle" /\ ret = "idle" /\ failed = FALSE
  /\ idx = NoAccount /\ done = FALSE
  /\ accounts = {} /\ sent = [f \in Fields |-> Unset] /\ suplIdx = NoAccount
  /\ sets = 0

-----------------------------------------------------------------------------
(* The D-Bus thread: strcpy to the option, then mbm_set_supl_settings_changed *)

BeginSet(f, v) ==
  /\ writer.state = "idle" /\ sets < MaxSets /\ sets' = sets + 1
  /\ setting' = [setting EXCEPT ![f] = Torn]
  /\ writer' = Writing("copying", f, v)
  /\ UNCHANGED <<changed, loopVars, modem>>

EndCopy ==
  /\ writer.state = "copying"
  /\ setting' = [setting EXCEPT ![writer.field] = writer.value]
  /\ writer' = [writer EXCEPT !.state = "copied"]
  /\ UNCHANGED <<changed, sets, loopVars, modem>>

RaiseChanged ==
  /\ writer.state = "copied"
  /\ changed' = TRUE /\ writer' = WriterIdle
  /\ UNCHANGED <<setting, sets, loopVars, modem>>

-----------------------------------------------------------------------------
(* setup_supl.                                                             *)

\* remove_supl_setup does nothing without an account.
Remove(r) ==
  IF idx = NoAccount THEN pc' = r /\ ret' = "idle"
                     ELSE pc' = "unni" /\ ret' = r

BeginSetup ==
  /\ pc = "idle"
  /\ failed' = FALSE
  /\ IF changed THEN Remove("clear") ELSE pc' = "check" /\ UNCHANGED ret
  /\ UNCHANGED <<changed, dbus, idx, done, modem>>

ClearChanged ==
  /\ pc = "clear" /\ pc' = "check"
  /\ changed' = FALSE
  /\ UNCHANGED <<dbus, ret, failed, idx, done, modem>>

Check ==
  /\ pc = "check"
  /\ pc' = IF done THEN "idle" ELSE "clock"
  /\ UNCHANGED <<changed, dbus, ret, failed, idx, done, modem>>

\* Whether the clock is set, or the unsolicited responses are enabled, does
\* not matter to what comes next.
After(c) == CASE c = "clock" -> "account" [] c = "ni" -> "certun"
              [] c = "certun" -> "verdict"

IgnoredCommand(c) ==
  /\ pc = c /\ pc' = After(c)
  /\ UNCHANGED <<changed, dbus, ret, failed, idx, done, modem>>

CreateAccount ==
  /\ pc = "account"
  /\ \/ \E a \in Accounts \ accounts :
          /\ accounts' = accounts \union {a} /\ idx' = a
          /\ sent' = [sent EXCEPT !["apn"] = Unset, !["login"] = Unset]
          /\ pc' = IF setting["apn"] # Empty THEN "apn" ELSE "verdict"
     \/ /\ "account" \in Refused \/ Accounts \subseteq accounts
        /\ pc' = "idle"
        /\ UNCHANGED <<accounts, sent, idx>>
  /\ UNCHANGED <<changed, dbus, ret, failed, done, suplIdx>>

\* One supl_send_cmd: what is sent is the setting as it is now.
SendOK(f) ==
  /\ sent' = [sent EXCEPT ![f] = setting[f]]
  /\ suplIdx' = IF f = "server" THEN idx ELSE suplIdx
  /\ UNCHANGED failed

SendRefused(f) ==
  /\ f \in Refused /\ failed' = TRUE
  /\ UNCHANGED <<sent, suplIdx>>

SendThenClear(f) ==   \* faulty: the flag is cleared once all has been sent
  /\ pc = f
  /\ SendOK(f) \/ SendRefused(f)
  /\ pc' = (CASE f = "apn" -> "login" [] f = "login" -> "server"
              [] f = "server" -> IF failed' THEN "verdict" ELSE "ni")
  /\ done' = (IF f = "server" THEN ~failed' ELSE done)
  /\ changed' = (IF f = "server" THEN FALSE ELSE changed)
  /\ UNCHANGED <<dbus, ret, idx, accounts>>

Send(f) ==
  /\ pc = f
  /\ SendOK(f) \/ SendRefused(f)
  /\ IF f = "server"
       THEN /\ pc' = IF failed' THEN "verdict" ELSE "ni"
            /\ done' = ~failed'
       ELSE /\ pc' = IF f = "apn" THEN "login" ELSE "server"
            /\ UNCHANGED done
  /\ UNCHANGED <<changed, dbus, ret, idx, accounts>>

VerdictKeeps ==   \* faulty: a half set up account is not removed
  /\ pc = "verdict" /\ pc' = "idle"
  /\ UNCHANGED <<changed, dbus, ret, failed, idx, done, modem>>

\* "if the account has been setup but we failed later we need to remove it"
Verdict ==
  /\ pc = "verdict"
  /\ IF done THEN pc' = "idle" /\ UNCHANGED ret ELSE Remove("idle")
  /\ UNCHANGED <<changed, dbus, failed, idx, done, modem>>

-----------------------------------------------------------------------------
(* remove_supl_setup, also called by pm_prepare_for_sleep and cleanup_func. *)

BeginRemove ==
  /\ pc = "idle" /\ idx # NoAccount
  /\ Remove("idle")
  /\ UNCHANGED <<changed, dbus, failed, idx, done, modem>>

DisableNi ==
  /\ pc = "unni" /\ pc' = "unaccount"
  /\ UNCHANGED <<changed, dbus, ret, failed, idx, done, modem>>

RemoveAccountKeepsDone ==   \* faulty: supl_setup_done is not reset
  /\ pc = "unaccount"
  /\ accounts' = accounts \ {idx} /\ idx' = NoAccount
  /\ pc' = ret /\ ret' = "idle"
  /\ UNCHANGED <<changed, dbus, failed, done, sent, suplIdx>>

\* Whatever the answer, the account is taken to be gone.
RemoveAccount ==
  /\ pc = "unaccount"
  /\ \/ accounts' = accounts \ {idx}
     \/ "unaccount" \in Refused /\ UNCHANGED accounts
  /\ idx' = NoAccount /\ done' = FALSE
  /\ pc' = ret /\ ret' = "idle"
  /\ UNCHANGED <<changed, dbus, failed, sent, suplIdx>>

-----------------------------------------------------------------------------
Loop ==
  \/ BeginSetup \/ ClearChanged \/ Check \/ CreateAccount \/ Verdict
  \/ \E c \in {"clock", "ni", "certun"} : IgnoredCommand(c)
  \/ \E f \in Fields : Send(f)
  \/ BeginRemove \/ DisableNi \/ RemoveAccount

DBus ==
  \/ \E f \in Fields, v \in Values : BeginSet(f, v)
  \/ EndCopy \/ RaiseChanged

Next == Loop \/ DBus

Spec == Init /\ [][Next]_vars

-----------------------------------------------------------------------------
PCs == Commands \union {"idle", "clear", "check", "verdict"}

TypeOK ==
  /\ setting \in [Fields -> Values \union {Torn}]
  /\ changed \in BOOLEAN
  /\ writer \in [state : {"idle", "copying", "copied"}, field : Fields,
                 value : Values]
  /\ pc \in PCs /\ ret \in {"idle", "clear"}
  /\ failed \in BOOLEAN /\ done \in BOOLEAN
  /\ idx \in Accounts \union {NoAccount}
  /\ accounts \subseteq Accounts
  /\ sent \in [Fields -> Values \union {Torn, Unset}]
  /\ suplIdx \in Accounts \union {NoAccount}
  /\ sets \in Nat

\* No change of a setting is lost: when setup_supl takes the account to be set
\* up and no change is announced or being made, the modem has the settings as
\* they are, none of them torn, for the account the daemon knows.
NoSettingLost ==
  pc = "idle" /\ done /\ ~changed /\ writer.state = "idle"
  => sent = setting /\ suplIdx = idx /\ idx \in accounts

\* Between two calls the modem holds no account but the one that the daemon
\* remembers, whichever command of the setup was refused.
NoAccountLeaks == pc = "idle" => accounts \subseteq {idx}

\* What the daemon takes to be set up is complete: an account that exists, an
\* APN, and no setting left from another account.
DoneIsComplete ==
  done /\ pc \notin {"unni", "unaccount"}
  => idx \in accounts /\ suplIdx = idx /\ \A f \in Fields : sent[f] # Unset
=============================================================================
