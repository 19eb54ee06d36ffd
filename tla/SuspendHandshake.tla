-------------------------- MODULE SuspendHandshake --------------------------
(***************************************************************************)
(* Suspending the daemon: the D-Bus method SetSuspend (gps_settings.c:     *)
(* impl_mbm_set_suspend), whose reply the D-Bus thread leaves to the loop  *)
(* thread (mbm_manager.c: main_loop, pm_prepare_for_sleep, pm_wake_up).    *)
(*                                                                         *)
(* The two threads share suspended and dbus_suspend_context, which is one  *)
(* slot for the call to be answered; no lock orders the two stores of the  *)
(* one thread and the loads of the other.                                  *)
(***************************************************************************)
EXTENDS Naturals

CONSTANTS MaxCalls,   \* bound: calls of SetSuspend in a behaviour
          Callers     \* the manners of the callers to look at, see manner

ASSUME ConstantsOK ==
  MaxCalls \in Nat /\ Callers \subseteq {"hasty", "polite", "patient"}

Calls == 1..MaxCalls
NoContext == 0

VARIABLES
  manner,        \* "hasty": calls at any time; "polite": not before the last
                 \* call is answered, nor suspend twice; "patient": nor
                 \* suspend before the loop has seen the resume
  suspended,     \* priv->suspended
  context,       \* priv->dbus_suspend_context
  waitForSleep,  \* priv->wait_for_sleep
  pc,            \* where the loop thread is
  devices,       \* nmea_fd and ctrl_fd: "open" or "closed"
  storing,       \* SetSuspend between its two stores: the call, or NoContext
  made,          \* calls of SetSuspend so far: they are numbered from 1
  arg,           \* their arguments
  replies,       \* how many replies each call got
  overtook       \* history: the loop answered between the two stores of a call

loop == <<waitForSleep, pc, devices, overtook>>
vars == <<manner, suspended, context, loop, storing, made, arg, replies>>

Init ==
  /\ manner \in Callers
  /\ suspended = FALSE /\ context = NoContext /\ waitForSleep = FALSE
  /\ pc = "top" /\ devices = "open" /\ overtook = FALSE
  /\ storing = NoContext /\ made = 0
  /\ arg = [c \in Calls |-> FALSE] /\ replies = [c \in Calls |-> 0]

-----------------------------------------------------------------------------
(* The D-Bus thread: one method call after the other.                      *)

Answered(c) == replies[c] > 0

MayCall == /\ storing = NoContext /\ made < MaxCalls /\ pc # "crashed"
           /\ manner # "hasty" => \A c \in 1..made : Answered(c)

Suspend ==
  /\ MayCall /\ made' = made + 1
  /\ manner # "hasty" => ~suspended
  /\ manner = "patient" => ~waitForSleep
  /\ arg' = [arg EXCEPT ![made'] = TRUE]
  /\ suspended' = TRUE /\ storing' = made'
  /\ UNCHANGED <<manner, context, loop, replies>>

StoreContextOnce ==   \* faulty: a context is never replaced
  /\ storing # NoContext /\ pc # "crashed"
  /\ context' = (IF context = NoContext THEN storing ELSE context)
  /\ storing' = NoContext
  /\ UNCHANGED <<manner, suspended, loop, made, arg, replies>>

StoreContext ==
  /\ storing # NoContext /\ pc # "crashed"
  /\ context' = storing /\ storing' = NoContext
  /\ UNCHANGED <<manner, suspended, loop, made, arg, replies>>

ResumeCall ==
  /\ MayCall /\ made' = made + 1
  /\ suspended' = FALSE
  /\ replies' = [replies EXCEPT ![made'] = @ + 1]
  /\ UNCHANGED <<manner, context, loop, storing, arg>>

-----------------------------------------------------------------------------
(* The loop thread.                                                        *)

\* Asleep, the loop spins on suspended.
Spin ==
  /\ pc = "top" /\ suspended /\ waitForSleep
  /\ UNCHANGED vars

PrepareForSleep ==
  /\ pc = "top" /\ suspended /\ ~waitForSleep
  /\ pc' = "preparing"
  /\ UNCHANGED <<manner, suspended, context, waitForSleep, devices, storing, made,
                 arg, replies, overtook>>

CloseDevicesAfterReply ==   \* faulty: answers first
  /\ pc = "preparing" /\ pc' = "reply"
  /\ waitForSleep' = TRUE
  /\ UNCHANGED <<manner, suspended, context, devices, storing, made, arg, replies,
                 overtook>>

\* pm_prepare_for_sleep: three AT commands or more, but nothing makes the loop
\* wait for the second store of the D-Bus thread.
CloseDevices ==
  /\ pc = "preparing"
  /\ devices' = "closed" /\ waitForSleep' = TRUE
  /\ pc' = "reply"
  /\ UNCHANGED <<manner, suspended, context, storing, made, arg, replies, overtook>>

\* dbus_g_method_return frees the context: with none stored yet, or the one of an
\* answered call, it reads through a dangling pointer, or none at all.
AnswerIn(pcs) ==
  /\ pc = "reply" /\ overtook' = (overtook \/ storing # NoContext)
  /\ \/ /\ context # NoContext /\ pc' \in pcs
        /\ replies' = [replies EXCEPT ![context] = @ + 1]
     \/ /\ (context # NoContext => Answered(context))
        /\ pc' = "crashed" /\ UNCHANGED replies
  /\ UNCHANGED <<manner, suspended, context, waitForSleep, devices, storing, made, arg>>

ReplyAgain == AnswerIn({"top", "reply"})   \* faulty: the reply does not end the turn

Reply == AnswerIn({"top"})

BeginWakeUpOpen ==   \* faulty: wait_for_sleep is reset at the end only
  /\ pc = "top" /\ ~suspended /\ waitForSleep
  /\ pc' = "waking"
  /\ UNCHANGED <<manner, suspended, context, waitForSleep, devices, storing, made,
                 arg, replies, overtook>>

BeginWakeUp ==
  /\ pc = "top" /\ ~suspended /\ waitForSleep
  /\ waitForSleep' = FALSE /\ pc' = "waking"
  /\ UNCHANGED <<manner, suspended, context, devices, storing, made, arg, replies, overtook>>

FinishWakeUp ==
  /\ pc = "waking"
  /\ devices' = "open" /\ pc' = "turn"
  /\ UNCHANGED <<manner, suspended, context, waitForSleep, storing, made, arg, replies,
                 overtook>>

\* modem_check_and_handle_gps_states and what follows: all of it uses devices.
Turn ==
  /\ pc = "top" /\ ~suspended /\ ~waitForSleep
  /\ pc' = "turn"
  /\ UNCHANGED <<manner, suspended, context, waitForSleep, devices, storing, made,
                 arg, replies, overtook>>

EndTurn ==
  /\ pc = "turn" /\ pc' = "top"
  /\ UNCHANGED <<manner, suspended, context, waitForSleep, devices, storing, made,
                 arg, replies, overtook>>

-----------------------------------------------------------------------------
Loop == \/ Spin \/ PrepareForSleep \/ CloseDevices \/ Reply
        \/ BeginWakeUp \/ FinishWakeUp \/ Turn \/ EndTurn

Next == Loop \/ Suspend \/ StoreContext \/ ResumeCall

\* Both threads run; nobody has to call, and nothing says that what uses the
\* modem or the client ports ever ends: a read or a write may block the loop.
Spec == /\ Init /\ [][Next]_vars
        /\ WF_vars(Spin \/ PrepareForSleep \/ Reply \/ BeginWakeUp \/ Turn)
        /\ WF_vars(StoreContext)

-----------------------------------------------------------------------------
TypeOK ==
  /\ manner \in Callers
  /\ suspended \in BOOLEAN /\ waitForSleep \in BOOLEAN /\ overtook \in BOOLEAN
  /\ context \in 0..MaxCalls /\ storing \in 0..MaxCalls /\ made \in 0..MaxCalls
  /\ pc \in {"top", "preparing", "reply", "waking", "turn", "crashed"}
  /\ devices \in {"open", "closed"}
  /\ arg \in [Calls -> BOOLEAN] /\ replies \in [Calls -> Nat]

\* The loop uses the modem's devices only while they are open, and closes and
\* opens them in turn, however the calls fall between its steps.
DevicesUsedOpen ==
  /\ pc \in {"turn", "preparing"} => devices = "open"
  /\ pc = "waking" => devices = "closed"

\* A suspend that was answered is in force: until the next call the devices are
\* closed and the loop leaves them so.
AnswerIsTrue ==
  made > 0 /\ arg[made] /\ Answered(made) => devices = "closed" /\ pc \in {"top", "reply"}

\* The slot of the reply, which is never reset, is used twice or empty, with a
\* second answer or a crash, only by a loop that has overtaken the D-Bus thread
\* between its two stores; calls of any other order leave it right.
AnsweredOnce == overtook \/ (pc # "crashed" /\ \A c \in Calls : replies[c] <= 1)

Blocked == pc \in {"preparing", "waking", "turn"}

\* A caller that suspends only when the loop has seen its resume is answered
\* each time, unless the loop blocks or has overtaken the D-Bus thread.  One
\* that only waits for its answers is not: see README.md.
EveryCallAnswered ==
  \A c \in Calls :
    [](manner = "patient" /\ made >= c
         => <>(Answered(c) \/ overtook \/ []Blocked))
=============================================================================
