--------------------------- MODULE ShutdownProofs ---------------------------
(***************************************************************************)
(* Theorems about Shutdown, for any number of client ports and of things   *)
(* the loop thread begins: its types with the mutex, and that the daemon   *)
(* leaves on in the modem nothing that it knows of.                        *)
(***************************************************************************)
EXTENDS Shutdown, SequenceTheorems, TLAPS

-----------------------------------------------------------------------------
(* What the commands of a thread are for.                                  *)

SwitchesOf(what) ==
  CASE what = "account" -> {"account"}
    [] what = "reports" -> {"E2GPSSTAT", "E2CFUN", "CREG"}
    [] what = "gps" -> {"gps"}
    [] OTHER -> Switchable

\* A thread sends only what it is doing needs, and when it has nothing more to
\* send it does not have the mutex.
TodoInv ==
  \A t \in Threads :
    /\ doing[t] = Idle => todo[t] = <<>>
    /\ at[t] # "no" => todo[t] # <<>>
    /\ \A i \in DOMAIN todo[t] : /\ todo[t][i].to = doing[t].to
                                 /\ todo[t][i].switch \in SwitchesOf(doing[t].what)

\* What the thread has still to send; the command it has sent has been done.
ToSend(t) == {todo[t][i].switch : i \in {j \in DOMAIN todo[t] : j > 1 \/ at[t] # "sent"}}

\* What is on and was last switched by the daemon.
Ours == on \ astray

IsOff(r) == SwitchesOf(r) \intersect Ours = {}

\* What the handler has decided about when it is at step m.
Passed(m) == CASE m = "reports" -> {"account"}
               [] m = "gps" -> {"account", "reports"}
               [] m \in {"close", "quit", "ended"} -> Resources
               [] OTHER -> {}

\* The handler decides about one resource after the other, and leaves one when
\* it has nothing more to switch off.  The loop thread is made after the device
\* is opened.
HandlerInv ==
  /\ Passed(main) \subseteq looked
  /\ looked \subseteq Passed(main) \union ({main} \intersect Resources)
  /\ doing["main"] # Idle => main \in Resources /\ doing["main"] = Op(main, FALSE)
  /\ doing["main"] # Idle <=> main \in Resources \intersect looked
  /\ main = "starting" => loop = "unborn" /\ doing["loop"] = Idle

\* Asleep and waking up the loop thread leaves the GPS off, which it knows to be
\* off afterwards, unless the handler has decided about it.
Resting == {"asleep", "waking", "probing", "taking"}

RestInv ==
  loop \in Resting => /\ doing["loop"].what # "gps"
                      /\ "gps" \notin looked => IsOff("gps")

\* What the daemon does not know to be on is off, unless the loop thread is
\* switching it on.
KnownInv ==
  \A r \in Resources \ looked :
    ~known[r] /\ doing["loop"] # Op(r, TRUE) => IsOff(r)

\* Of what a thread switches off, only what it has still to send is on; main
\* may have missed something.
OffInv ==
  /\ \A r \in Resources :
       doing["loop"] = Op(r, FALSE) => SwitchesOf(r) \intersect Ours \subseteq ToSend("loop")
  /\ \A r \in Resources \ missed :
       doing["main"] = Op(r, FALSE) => SwitchesOf(r) \intersect Ours \subseteq ToSend("main")

\* What the handler has left is off, unless it was missed.
CleanInv == \A r \in looked \ missed : r # main => IsOff(r)

CleanupInv ==
  main # "crashed" => HandlerInv /\ RestInv /\ KnownInv /\ OffInv /\ CleanInv

-----------------------------------------------------------------------------
(* The commands.                                                           *)

LEMMA SwitchFacts ==
  /\ \A w \in Resources \union {"client"} : SwitchesOf(w) \subseteq Switchable
  /\ \A q, r \in Resources : q # r => SwitchesOf(q) \intersect SwitchesOf(r) = {}
  /\ \A r \in Resources : "other" \notin SwitchesOf(r)
  /\ SwitchesOf("client") = Switchable
BY DEF Resources, SwitchesOf, Switchable

LEMMA SwitchesFacts ==
  ASSUME NEW r \in Resources
  PROVE  /\ Switches[r] \in Seq(SwitchesOf(r)) /\ Switches[r] # <<>>
         /\ {Switches[r][i] : i \in DOMAIN Switches[r]} = SwitchesOf(r)
<1>1. CASE r = "account"
  BY <1>1 DEF Switches, SwitchesOf
<1>2. CASE r = "gps"
  BY <1>2 DEF Switches, SwitchesOf
<1>3. CASE r = "reports"
  BY <1>3 DEF Switches, SwitchesOf
<1> QED BY <1>1, <1>2, <1>3 DEF Resources

LEMMA CommandsFacts ==
  ASSUME NEW w \in Resources, NEW to \in BOOLEAN
  PROVE  /\ Commands(w, to) \in Seq(Command) /\ Commands(w, to) # <<>>
         /\ \A i \in DOMAIN Commands(w, to) :
              /\ Commands(w, to)[i].to = to
              /\ Commands(w, to)[i].switch \in SwitchesOf(w)
         /\ SwitchesOf(w) =
              {Commands(w, to)[i].switch : i \in DOMAIN Commands(w, to)}
<1>1. Commands(w, to) =
        [i \in DOMAIN Switches[w] |-> [switch |-> Switches[w][i], to |-> to]]
  BY DEF Commands
<1>2. /\ Len(Switches[w]) \in Nat /\ DOMAIN Switches[w] = 1..Len(Switches[w])
      /\ Switches[w] # <<>> /\ \A i \in DOMAIN Switches[w] : Switches[w][i] \in SwitchesOf(w)
  BY SwitchesFacts, LenProperties, ElementOfSeq
<1>3. \A i \in DOMAIN Switches[w] : Switches[w][i] \in Switchable
  BY <1>2, SwitchFacts
<1>4. Commands(w, to) \in [1..Len(Switches[w]) -> Command]
  BY <1>1, <1>2, <1>3 DEF Command
<1>5. Commands(w, to) \in Seq(Command)
  BY <1>2, <1>4, SeqDef
<1>6. DOMAIN Commands(w, to) # {}
  BY <1>1, <1>2, EmptySeq, SwitchesFacts
<1>7. {Commands(w, to)[i].switch : i \in DOMAIN Commands(w, to)} = SwitchesOf(w)
  <2>1. DOMAIN Commands(w, to) = DOMAIN Switches[w]
    BY <1>1
  <2>2. \A i \in DOMAIN Switches[w] : Commands(w, to)[i].switch = Switches[w][i]
    BY <1>1
  <2> QED BY <2>1, <2>2, SwitchesFacts
<1>8. Commands(w, to) # <<>>
  BY <1>6
<1>9. \A i \in DOMAIN Commands(w, to) :
        /\ Commands(w, to)[i].to = to
        /\ Commands(w, to)[i].switch \in SwitchesOf(w)
  BY <1>1, <1>2
<1> QED BY <1>5, <1>7, <1>8, <1>9

-----------------------------------------------------------------------------
(* Types and the mutex.                                                    *)

TypeInv == TypeOK /\ TodoInv

\* The types of what the serial line is for, and the rest.
SerialType ==
  /\ doing \in [Threads -> {Idle} \union [what : Resources \union {"client"}, to : BOOLEAN]]
  /\ todo \in [Threads -> Seq(Command)]
  /\ at \in [Threads -> {"no", "locked", "sent", "spin"}]
  /\ holder \in Threads \union {Nobody}
  /\ \A t \in Threads : at[t] # "no" <=> holder = t
  /\ known \in [Resources -> BOOLEAN] /\ on \subseteq Switchable

StageType ==
  /\ main \in {"starting", "created", "running", "ports", "account", "reports", "gps",
               "close", "quit", "ended", "crashed"}
  /\ loop \in {"unborn", "top", "turn", "dozing", "asleep", "waking", "probing", "taking",
               "exit"}
  /\ {terminating, lost, adrift} \subseteq BOOLEAN /\ freed \subseteq Ports
  /\ closed \in Threads \union {Nobody} /\ astray \subseteq Switchable
  /\ ops \in 0..MaxOps /\ looked \subseteq Resources /\ missed \subseteq looked

LEMMA Types ==
  /\ TypeOK <=> SerialType /\ StageType
  /\ TypeOK' <=> SerialType' /\ StageType'
BY Zenon DEF TypeOK, SerialType, StageType

LEMMA InitType ==
  ASSUME Init
  PROVE  TypeInv
<1>1. known \in [Resources -> BOOLEAN]
  BY Zenon DEF Init
<1>2. SerialType
  BY <1>1 DEF Init, SerialType, Threads, Nobody
<1>3. StageType
  <2>1. {terminating, lost, adrift} \subseteq BOOLEAN
    BY Zenon DEF Init
  <2> QED BY <2>1, ConstantsOK DEF Init, StageType
<1>4. TodoInv
  BY DEF Init, TodoInv
<1> QED BY <1>2, <1>3, <1>4, Types DEF TypeInv

LEMMA LockType ==
  ASSUME TypeInv, NEW t \in Threads, Lock(t)
  PROVE  TypeInv'
<1> USE DEF TypeInv
<1>1. SerialType'
  BY Types DEF SerialType, Lock, Threads, Nobody
<1>2. StageType'
  BY Types DEF StageType, Lock
<1>3. TodoInv'
  BY Types DEF TodoInv, SerialType, Lock
<1> QED BY <1>1, <1>2, <1>3, Types

LEMMA SendType ==
  ASSUME TypeInv, NEW t \in Threads, Send(t)
  PROVE  TypeInv'
<1> USE DEF TypeInv
<1>1. todo[t] \in Seq(Command) /\ todo[t] # <<>> /\ at[t] = "locked"
  BY Types DEF TodoInv, SerialType, Send
<1>2. Head(todo[t]).switch \in Switchable
  <2>1. Head(todo[t]) \in Command
    BY <1>1, HeadTailProperties
  <2> QED BY <2>1 DEF Command
<1>3. /\ on' \subseteq on \union {Head(todo[t]).switch}
      /\ astray' \subseteq astray \union {Head(todo[t]).switch}
  BY DEF Send
<1>4. SerialType'
  BY <1>1, <1>2, <1>3, Types DEF SerialType, Send, Threads
<1>5. StageType'
  BY <1>2, <1>3, Types DEF StageType, Send
<1>6. TodoInv'
  BY <1>1, Types DEF TodoInv, SerialType, Send
<1> QED BY <1>4, <1>5, <1>6, Types

LEMMA CallFailsType ==
  ASSUME TypeInv, NEW t \in Threads, CallFails(t)
  PROVE  TypeInv'
<1> USE DEF TypeInv
<1>1. SerialType'
  BY Types DEF SerialType, CallFails, Threads
<1>2. StageType'
  <2>1. adrift' \in BOOLEAN
    BY Zenon DEF CallFails
  <2>2. UNCHANGED <<main, loop, terminating, freed, closed, lost, ops, astray, looked, missed>>
    BY DEF CallFails
  <2>3. {terminating', lost', adrift'} \subseteq BOOLEAN
    BY <2>1, <2>2, Types, Zenon DEF StageType
  <2> QED BY <2>2, <2>3, Types, Zenon DEF StageType
<1>3. TodoInv'
  BY Types DEF TodoInv, SerialType, CallFails
<1> QED BY <1>1, <1>2, <1>3, Types

\* The commands that are left are commands of what the thread is doing.
LEMMA AnswerFacts ==
  ASSUME TypeInv, NEW t \in Threads, Answer(t)
  PROVE  /\ Tail(todo[t]) \in Seq(Command)
         /\ todo[t] \in Seq(Command) /\ todo[t] # <<>>
         /\ DOMAIN todo[t] = 1..Len(todo[t]) /\ Len(todo[t]) \in Nat \ {0}
         /\ DOMAIN Tail(todo[t]) = 1..(Len(todo[t]) - 1)
         /\ \A i \in 1..(Len(todo[t]) - 1) : /\ Tail(todo[t])[i] = todo[t][i + 1]
                                            /\ i + 1 \in DOMAIN todo[t]
<1>1. todo[t] \in Seq(Command) /\ todo[t] # <<>>
  BY Types DEF TypeInv, TodoInv, SerialType, Answer
<1>2. /\ Len(todo[t]) \in Nat \ {0} /\ DOMAIN todo[t] = 1..Len(todo[t])
      /\ Tail(todo[t]) \in Seq(Command) /\ DOMAIN Tail(todo[t]) = 1..(Len(todo[t]) - 1)
      /\ \A i \in 1..(Len(todo[t]) - 1) : Tail(todo[t])[i] = todo[t][i + 1]
  BY <1>1, HeadTailProperties, LenProperties, EmptySeq
<1> QED BY <1>1, <1>2

LEMMA AnswerType ==
  ASSUME TypeInv, NEW t \in Threads, Answer(t)
  PROVE  TypeInv'
<1> USE DEF TypeInv
<1>1. SerialType'
  BY AnswerFacts, Types DEF SerialType, Answer, Threads, Nobody
<1>2. StageType'
  BY Types DEF StageType, Answer
<1>3. /\ todo' = [todo EXCEPT ![t] = Tail(todo[t])] /\ at' = [at EXCEPT ![t] = "no"]
      /\ doing' = doing /\ doing[t] # Idle
      /\ todo \in [Threads -> Seq(Command)] /\ at \in [Threads -> {"no", "locked", "sent", "spin"}]
  BY Types, AnswerFacts DEF Answer, TodoInv, SerialType
<1>4. \A i \in DOMAIN Tail(todo[t]) :
        /\ Tail(todo[t])[i].to = doing[t].to
        /\ Tail(todo[t])[i].switch \in SwitchesOf(doing[t].what)
  BY AnswerFacts DEF TodoInv
<1>5. TodoInv'
  BY <1>3, <1>4 DEF TodoInv
<1> QED BY <1>1, <1>2, <1>5, Types

LEMMA BeginType ==
  ASSUME TypeInv, NEW t \in Threads, NEW w \in Resources,
         NEW to \in BOOLEAN, doing[t] = Idle, Begin(t, w, to)
  PROVE  SerialType' /\ TodoInv'
<1> DEFINE cs == Commands(w, to)
<1>1. /\ cs \in Seq(Command) /\ cs # <<>>
      /\ \A i \in DOMAIN cs : cs[i].to = to /\ cs[i].switch \in SwitchesOf(w)
  BY CommandsFacts
<1>2. /\ doing' = [doing EXCEPT ![t] = Op(w, to)] /\ todo' = [todo EXCEPT ![t] = cs]
      /\ UNCHANGED <<at, holder, known, on>>
  BY DEF Begin
<1> HIDE DEF cs
<1>3. Op(w, to) \in [what : Resources \union {"client"}, to : BOOLEAN]
      /\ Op(w, to) # Idle /\ Op(w, to).what = w /\ Op(w, to).to = to
  BY DEF Op, Idle, Resources
<1>4. SerialType'
  BY <1>1, <1>2, <1>3, Types DEF TypeInv, SerialType
<1>5. TodoInv'
  BY <1>1, <1>2, <1>3, Types DEF TypeInv, TodoInv, SerialType
<1> QED BY <1>4, <1>5

LEMMA PassesType ==
  ASSUME TypeInv, NEW c \in Command, doing["loop"] = Idle, Passes(c)
  PROVE  SerialType' /\ TodoInv'
<1>1. /\ <<c>> \in Seq(Command) /\ <<c>> # <<>>
      /\ \A i \in DOMAIN <<c>> : <<c>>[i] = c
      /\ c.to \in BOOLEAN /\ c.switch \in SwitchesOf("client")
  BY SwitchFacts DEF Command
<1>2. /\ doing' = [doing EXCEPT !["loop"] = Op("client", c.to)]
      /\ todo' = [todo EXCEPT !["loop"] = <<c>>] /\ UNCHANGED <<at, holder, known, on>>
  BY DEF Passes
<1>3. Op("client", c.to) \in [what : Resources \union {"client"}, to : BOOLEAN]
      /\ Op("client", c.to) # Idle
      /\ Op("client", c.to).what = "client" /\ Op("client", c.to).to = c.to
  BY <1>1 DEF Op, Idle
<1>4. SerialType'
  BY <1>1, <1>2, <1>3, Types DEF TypeInv, SerialType
<1>5. TodoInv'
  BY <1>1, <1>2, <1>3, Types DEF TypeInv, TodoInv, SerialType
<1> QED BY <1>4, <1>5

LEMMA StoreType ==
  ASSUME TypeInv, NEW t \in Threads, Finished(t), Store(t)
  PROVE  SerialType' /\ TodoInv'
<1> USE Types DEF TypeInv
<1>1. doing[t] \in [what : Resources \union {"client"}, to : BOOLEAN]
  BY DEF Finished, SerialType
<1>2. doing[t].to \in BOOLEAN
  BY <1>1
<1>3. known' \in [Resources -> BOOLEAN]
  <2>1. CASE doing[t].what \in Resources
    <3>1. known' = [known EXCEPT ![doing[t].what] = doing[t].to]
      BY <2>1, Zenon DEF Store
    <3> QED BY <1>2, <3>1, Zenon DEF SerialType
  <2>2. CASE doing[t].what \notin Resources
    BY <2>2, Zenon DEF Store, SerialType
  <2> QED BY <2>1, <2>2
<1>4. SerialType'
  BY <1>3 DEF Store, SerialType, Threads
<1>5. TodoInv'
  BY DEF Store, Finished, TodoInv, SerialType
<1> QED BY <1>4, <1>5

\* Steps that leave the serial line, and what is known, alone.
Quiet ==
  \/ HeadOfLoop \/ EndOfTurn \/ UsesFreedPort \/ Doze \/ FallAsleep \/ SetManager
  \/ Signal \/ Lose \/ Close \/ Return \/ \E p \in Ports : RemovePort(p)

LEMMA StageTypes ==
  ASSUME TypeInv, Quiet
  PROVE  TypeInv'
<1> USE Types DEF TypeInv
<1>1. UNCHANGED <<serial, astray, adrift, looked, missed>>
  BY DEF Quiet, HeadOfLoop, EndOfTurn, UsesFreedPort, Doze, FallAsleep, SetManager, Signal,
     Lose, Close, Return, RemovePort
<1>2. SerialType' /\ TodoInv'
  BY <1>1 DEF SerialType, TodoInv, serial
<1>3. /\ main' \in {"starting", "created", "running", "ports", "account", "reports", "gps",
                    "close", "quit", "ended", "crashed"}
      /\ loop' \in {"unborn", "top", "turn", "dozing", "asleep", "waking", "probing",
                    "taking", "exit"}
      /\ freed' \subseteq Ports /\ closed' \in Threads \union {Nobody} /\ ops' \in 0..MaxOps
  BY <1>1, ConstantsOK DEF StageType, Threads, Quiet, HeadOfLoop, EndOfTurn, UsesFreedPort,
     Doze, FallAsleep, SetManager, Signal, Lose, Close, Return, RemovePort
<1>4. terminating' \in BOOLEAN /\ lost' \in BOOLEAN
  <2>1. terminating' \in {terminating, TRUE, FALSE} /\ lost' \in {lost, TRUE}
    BY DEF Quiet, HeadOfLoop, EndOfTurn, UsesFreedPort, Doze, FallAsleep, SetManager,
       Signal, Lose, Close, Return, RemovePort
  <2> QED BY <2>1, Zenon DEF StageType
<1>5. StageType'
  <2>1. {terminating', lost', adrift'} \subseteq BOOLEAN
    BY <1>1, <1>4, Zenon DEF StageType
  <2> QED BY <1>1, <1>3, <2>1, Zenon DEF StageType
<1> QED BY <1>2, <1>5

LEMMA CreateType ==
  ASSUME TypeInv, Create
  PROVE  TypeInv'
<1> USE Types DEF TypeInv
<1>1. known' \in [Resources -> BOOLEAN]
  BY Zenon DEF Create, SerialType, Resources
<1>2. on' \subseteq Switchable
  BY SwitchesFacts, SwitchFacts DEF Create, Resources
<1>3. SerialType'
  BY <1>1, <1>2 DEF Create, SerialType
<1>4. StageType' /\ TodoInv'
  BY DEF Create, StageType, TodoInv
<1> QED BY <1>3, <1>4

\* Steps by which the loop thread stores what gps_enabled is, or sends a command
\* that is not its own.
FlagStep ==
  \/ \E to \in BOOLEAN : Supposes(to)
  \/ WakeUp \/ Recover \/ Awake

PassStep ==
  \/ \E s \in ClientSwitches, to \in BOOLEAN : ClientCommand([switch |-> s, to |-> to])
  \/ Probe

BeginStep ==
  \/ \E w \in Resources, to \in BOOLEAN : LoopBegins(w, to)
  \/ \E r \in Resources : PrepareForSleep(r)
  \/ TakeUp

LEMMA FlagType ==
  ASSUME TypeInv, FlagStep
  PROVE  TypeInv'
<1> USE Types DEF TypeInv
<1>1. /\ known' \in {[known EXCEPT !["gps"] = TRUE], [known EXCEPT !["gps"] = FALSE]}
      /\ UNCHANGED <<main, terminating, freed, doing, todo, at, holder, on, lost, adrift,
                     looked, missed>>
      /\ loop' \in {loop, "waking", "turn"} /\ ops' \in 0..MaxOps
      /\ closed' \in {closed, "loop"}
  <2>1. ASSUME NEW to \in BOOLEAN, Supposes(to)
        PROVE  known' \in {[known EXCEPT !["gps"] = TRUE], [known EXCEPT !["gps"] = FALSE]}
    BY <2>1, Zenon DEF Supposes
  <2>2. \/ \E to \in BOOLEAN : Supposes(to)
        \/ WakeUp \/ Recover \/ Awake
    BY DEF FlagStep
  <2>3. known' \in {[known EXCEPT !["gps"] = TRUE], [known EXCEPT !["gps"] = FALSE]}
    BY <2>1, <2>2 DEF WakeUp, Recover, Awake
  <2>4. UNCHANGED <<main, terminating, freed, doing, todo, at, holder, on, lost, adrift,
                    looked, missed>>
    BY <2>2, Zenon DEF Supposes, WakeUp, Recover, Awake
  <2>5. /\ loop' \in {loop, "waking", "turn"} /\ ops' \in {ops, ops + 1}
        /\ closed' \in {closed, "loop"} /\ (ops' # ops => ops < MaxOps)
    BY <2>2 DEF Supposes, WakeUp, Recover, Awake
  <2> QED BY <2>3, <2>4, <2>5, ConstantsOK DEF StageType
<1>2. known' \in [Resources -> BOOLEAN]
  BY <1>1, Zenon DEF SerialType
<1>3. astray' \subseteq Switchable
  <2>1. astray' \subseteq astray \union {"gps"}
    BY DEF FlagStep, Supposes, WakeUp, Recover, Awake
  <2> QED BY <2>1 DEF StageType, Switchable
<1>4. SerialType' /\ TodoInv'
  <2>1. SerialType'
    BY <1>1, <1>2, Zenon DEF SerialType
  <2>2. TodoInv'
    BY <1>1 DEF TodoInv
  <2> QED BY <2>1, <2>2
<1>5. StageType'
  <2>1. {terminating', lost', adrift'} \subseteq BOOLEAN
    BY <1>1, Zenon DEF StageType
  <2> QED BY <1>1, <1>3, <2>1 DEF StageType, Threads
<1> QED BY <1>4, <1>5

LEMMA PassType ==
  ASSUME TypeInv, PassStep
  PROVE  /\ TypeInv'
         /\ doing["loop"] = Idle
         /\ \E c \in Command : Passes(c)
<1> USE Types DEF TypeInv
<1>1. doing["loop"] = Idle
  BY DEF PassStep, ClientCommand, Probe
<1>2. PICK c \in Command : Passes(c)
  <2>1. \A s \in Switchable, to \in BOOLEAN : [switch |-> s, to |-> to] \in Command
    BY DEF Command
  <2>2. "other" \in Switchable
    BY DEF Switchable
  <2> QED BY <2>1, <2>2, ConstantsOK DEF PassStep, ClientCommand, Probe
<1>3. SerialType' /\ TodoInv'
  BY <1>1, <1>2, PassesType
<1>4. /\ UNCHANGED <<main, terminating, freed, lost, astray, adrift, looked, missed>>
      /\ loop' \in {loop, "probing"} /\ closed' \in {closed, Nobody}
      /\ ops' = ops \/ (ops' = ops + 1 /\ ops < MaxOps)
  BY DEF PassStep, ClientCommand, Probe
<1>5. StageType'
  <2>1. ops' \in 0..MaxOps
    BY <1>4, ConstantsOK DEF StageType
  <2> QED BY <1>4, <2>1 DEF StageType
<1> QED BY <1>1, <1>2, <1>3, <1>5

LEMMA BeginsType ==
  ASSUME TypeInv, BeginStep \/ \E r \in Resources : SwitchOff(r)
  PROVE  TypeInv'
<1> USE Types DEF TypeInv
<1>1. CASE BeginStep
  <2>1. PICK w \in Resources, to \in BOOLEAN : doing["loop"] = Idle /\ Begin("loop", w, to)
    BY <1>1 DEF BeginStep, LoopBegins, PrepareForSleep, TakeUp, Resources
  <2>2. SerialType' /\ TodoInv'
    BY <2>1, BeginType DEF Threads
  <2>3. /\ UNCHANGED <<main, terminating, freed, closed, lost, astray, adrift, looked, missed>>
        /\ loop' \in {loop, "taking"}
        /\ ops' = ops \/ (ops' = ops + 1 /\ ops < MaxOps)
    BY <1>1 DEF BeginStep, LoopBegins, PrepareForSleep, TakeUp
  <2>4. StageType'
    <3>1. ops' \in 0..MaxOps
      BY <2>3, ConstantsOK DEF StageType
    <3> QED BY <2>3, <3>1 DEF StageType
  <2> QED BY <2>2, <2>4
<1>2. ASSUME NEW r \in Resources, SwitchOff(r)
      PROVE  TypeInv'
  <2>1. SerialType' /\ TodoInv'
    <3>1. CASE known[r]
      BY <1>2, <3>1, BeginType DEF SwitchOff, Threads
    <3>2. CASE ~known[r]
      BY <1>2, <3>2 DEF SwitchOff, serial, SerialType, TodoInv
    <3> QED BY <3>1, <3>2
  <2>2. main' \in {main, "reports", "gps", "close"}
    <3>1. CASE known[r]
      BY <1>2, <3>1, Zenon DEF SwitchOff
    <3>2. CASE ~known[r]
      <4>1. main' = After[r]
        BY <1>2, <3>2, Zenon DEF SwitchOff
      <4> QED BY <4>1 DEF After, Resources
    <3> QED BY <3>1, <3>2
  <2>3. /\ UNCHANGED <<loop, terminating, freed, closed, lost, ops, astray, adrift>>
        /\ looked' \subseteq Resources /\ missed' \subseteq looked'
    BY <1>2 DEF SwitchOff, StageType
  <2>4. StageType'
    BY <2>2, <2>3 DEF StageType
  <2> QED BY <2>1, <2>4
<1> QED BY <1>1, <1>2

LEMMA StoresType ==
  ASSUME TypeInv, HandlerInv, LoopStores \/ MainStores
  PROVE  TypeInv'
<1> USE Types DEF TypeInv
<1>1. CASE LoopStores
  <2>1. SerialType' /\ TodoInv'
    BY <1>1, StoreType DEF LoopStores, Threads
  <2>2. StageType'
    BY <1>1 DEF LoopStores, StageType
  <2> QED BY <2>1, <2>2
<1>2. CASE MainStores
  <2>1. SerialType' /\ TodoInv'
    BY <1>2, StoreType DEF MainStores, Threads
  <2>2. main' \in {"reports", "gps", "close"}
    BY <1>2 DEF MainStores, Finished, HandlerInv, After, Resources
  <2>3. UNCHANGED <<loop, terminating, freed, closed, lost, ops, astray, adrift, looked,
                    missed>>
    BY <1>2 DEF MainStores
  <2>4. StageType'
    BY <2>2, <2>3 DEF StageType
  <2> QED BY <2>1, <2>4
<1> QED BY <1>1, <1>2

-----------------------------------------------------------------------------
(* What is still to be sent.                                               *)

LEMMA ToSendKept ==
  ASSUME TypeInv, NEW t \in Threads, Lock(t) \/ CallFails(t) \/ Answer(t),
         NEW u \in Threads
  PROVE  ToSend(u) \subseteq ToSend(u)'
<1> USE Types DEF TypeInv
<1>1. CASE Lock(t) \/ CallFails(t)
  BY <1>1 DEF Lock, CallFails, ToSend, SerialType
<1>2. CASE Answer(t) /\ u # t
  BY <1>2 DEF Answer, ToSend, SerialType
<1>3. CASE Answer(t) /\ u = t
  <2>1. /\ at[t] = "sent" /\ at'[t] = "no" /\ todo'[t] = Tail(todo[t])
    BY <1>3 DEF Answer, SerialType
  <2>2. ASSUME NEW i \in DOMAIN todo[t], i > 1
        PROVE  todo[t][i].switch \in ToSend(t)'
    <3>1. i - 1 \in 1..(Len(todo[t]) - 1) /\ (i - 1) + 1 = i
      BY <1>3, <2>2, AnswerFacts
    <3>2. i - 1 \in DOMAIN todo'[t] /\ todo'[t][i - 1] = todo[t][i]
      BY <1>3, <2>1, <3>1, AnswerFacts
    <3> QED BY <2>1, <3>2 DEF ToSend
  <2> QED BY <1>3, <2>1, <2>2 DEF ToSend
<1> QED BY <1>1, <1>2, <1>3

LEMMA SendFacts ==
  ASSUME TypeInv, NEW t \in Threads, Send(t)
  PROVE  /\ Head(todo[t]).to = doing[t].to
         /\ Head(todo[t]).switch \in SwitchesOf(doing[t].what)
         /\ doing[t] \in [what : Resources \union {"client"}, to : BOOLEAN]
         /\ ToSend(t) \ {Head(todo[t]).switch} \subseteq ToSend(t)'
         /\ \A u \in Threads : u # t => ToSend(u)' = ToSend(u)
<1> USE Types DEF TypeInv
<1>1. todo[t] \in Seq(Command) /\ todo[t] # <<>> /\ doing[t] # Idle
  BY DEF Send, TodoInv, SerialType
<1>2. 1 \in DOMAIN todo[t] /\ Head(todo[t]) = todo[t][1] /\ DOMAIN todo[t] \subseteq Nat \ {0}
  BY <1>1, HeadTailProperties, LenProperties, EmptySeq
<1>3. UNCHANGED <<todo, doing>> /\ at' = [at EXCEPT ![t] = "sent"]
  BY DEF Send
<1>4. ToSend(t) \ {Head(todo[t]).switch} \subseteq ToSend(t)'
  <2>1. ASSUME NEW i \in DOMAIN todo[t], todo[t][i].switch # Head(todo[t]).switch
        PROVE  i > 1
    BY <1>2, <2>1
  <2> QED BY <1>3, <2>1 DEF ToSend
<1>5. \A u \in Threads : u # t => ToSend(u)' = ToSend(u)
  BY <1>3 DEF ToSend, SerialType
<1>6. doing[t] \in [what : Resources \union {"client"}, to : BOOLEAN]
  BY <1>1 DEF SerialType
<1>7. Head(todo[t]).to = doing[t].to /\ Head(todo[t]).switch \in SwitchesOf(doing[t].what)
  BY <1>2 DEF TodoInv
<1> QED BY <1>4, <1>5, <1>6, <1>7

\* A thread that begins has everything to send.
LEMMA BeginFacts ==
  ASSUME TypeInv, NEW t \in Threads, NEW w \in Resources,
         NEW to \in BOOLEAN, doing[t] = Idle, Begin(t, w, to)
  PROVE  /\ doing' = [doing EXCEPT ![t] = Op(w, to)] /\ UNCHANGED <<known, on>>
         /\ SwitchesOf(w) \subseteq ToSend(t)'
         /\ \A u \in Threads : u # t => ToSend(u)' = ToSend(u)
<1> USE Types DEF TypeInv
<1>1. /\ doing' = [doing EXCEPT ![t] = Op(w, to)]
      /\ todo' = [todo EXCEPT ![t] = Commands(w, to)]
      /\ UNCHANGED <<at, known, on>>
  BY DEF Begin
<1>2. at[t] # "sent" /\ todo'[t] = Commands(w, to)
  BY <1>1 DEF TodoInv, SerialType
<1>3. ToSend(t)' = {Commands(w, to)[i].switch : i \in DOMAIN Commands(w, to)}
  BY <1>1, <1>2 DEF ToSend
<1>4. \A u \in Threads : u # t => ToSend(u)' = ToSend(u)
  BY <1>1 DEF ToSend, SerialType
<1> QED BY <1>1, <1>3, <1>4, CommandsFacts

-----------------------------------------------------------------------------
(* The modem is left clean.                                                *)

Stages == HandlerInv /\ RestInv /\ KnownInv /\ OffInv /\ CleanInv

\* Steps by which neither the modem nor what is known of it changes.
LEMMA QuietStep ==
  ASSUME Stages, UNCHANGED <<main, doing, known, on, astray, looked, missed>>,
         main = "starting" => UNCHANGED loop, loop' \in Resting => loop \in Resting,
         \A t \in Threads : ToSend(t) \subseteq ToSend(t)'
  PROVE  Stages'
<1> USE DEF Stages
<1>1. \A r : IsOff(r)' <=> IsOff(r)
  BY DEF IsOff, Ours
<1>2. HandlerInv'
  BY DEF HandlerInv, Passed
<1>3. KnownInv' /\ CleanInv'
  BY <1>1 DEF KnownInv, CleanInv
<1>4. OffInv'
  BY DEF OffInv, Threads, Ours
<1>5. RestInv'
  BY <1>1 DEF RestInv
<1> QED BY <1>2, <1>3, <1>4, <1>5

LEMMA SerialStep ==
  ASSUME TypeInv, Stages, NEW t \in Threads, Lock(t) \/ CallFails(t) \/ Answer(t)
  PROVE  Stages'
<1>1. UNCHANGED <<main, loop, doing, known, on, astray, looked, missed>>
  BY DEF Lock, CallFails, Answer
<1> QED BY <1>1, ToSendKept, QuietStep

\* Steps of main between resources.
LEMMA MainStep ==
  ASSUME TypeInv, Stages, UNCHANGED <<loop, serial, astray, looked, missed>>,
         main \notin Resources, Passed(main') = Passed(main),
         main' \in Resources => main' \notin looked, main' # "starting"
  PROVE  Stages'
<1> USE DEF Stages
<1>1. \A r : IsOff(r)' <=> IsOff(r)
  BY DEF IsOff, Ours, serial
<1>2. \A t \in Threads : ToSend(t)' = ToSend(t)
  BY DEF ToSend, serial
<1>3. HandlerInv'
  BY DEF HandlerInv, serial
<1>4. KnownInv' /\ OffInv'
  BY <1>1, <1>2 DEF KnownInv, OffInv, Ours, serial, Threads
<1>5. CleanInv'
  <2>1. looked \subseteq Resources
    BY Types DEF TypeInv, StageType
  <2> QED BY <1>1, <2>1 DEF CleanInv
<1>6. RestInv'
  BY <1>1 DEF RestInv, serial
<1> QED BY <1>3, <1>4, <1>5, <1>6

\* It falls asleep when the GPS is known to be off.
LEMMA FallAsleepStep ==
  ASSUME TypeInv, Stages, FallAsleep
  PROVE  Stages'
<1> USE DEF Stages
<1>1. /\ loop = "dozing" /\ doing["loop"] = Idle /\ ~known["gps"]
      /\ UNCHANGED <<main, serial, astray, looked, missed>>
  BY DEF FallAsleep, Resources
<1>2. /\ \A r : IsOff(r)' <=> IsOff(r)
      /\ \A t \in Threads : ToSend(t)' = ToSend(t)
  BY <1>1 DEF IsOff, Ours, ToSend, serial
<1>3. HandlerInv'
  BY <1>1 DEF HandlerInv, Passed, serial
<1>4. KnownInv' /\ CleanInv'
  BY <1>1, <1>2 DEF KnownInv, CleanInv, serial
<1>5. OffInv'
  BY <1>1, <1>2 DEF OffInv, Ours, serial, Threads
<1>6. RestInv'
  <2>1. Idle.what # "gps" /\ Op("gps", TRUE) # Idle /\ "gps" \in Resources
    BY DEF Idle, Op, Resources
  <2>2. "gps" \notin looked => IsOff("gps")
    BY <1>1, <2>1 DEF KnownInv
  <2> QED BY <1>1, <1>2, <2>1, <2>2 DEF RestInv, serial
<1> QED BY <1>3, <1>4, <1>5, <1>6

LEMMA StageSteps ==
  ASSUME TypeInv, Stages, main' # "crashed", Quiet
  PROVE  Stages'
<1>1. CASE FallAsleep
  BY <1>1, FallAsleepStep
<1>2. CASE ~FallAsleep
  <2>1. UNCHANGED <<serial, astray, looked, missed>>
    BY DEF Quiet, HeadOfLoop, EndOfTurn, UsesFreedPort, Doze, FallAsleep, SetManager,
       Signal, Lose, Close, Return, RemovePort
  <2>2. CASE main' = main
    <3>1. \A t \in Threads : ToSend(t)' = ToSend(t)
      BY <2>1 DEF ToSend, serial
    <3>2. UNCHANGED <<doing, known, on>>
      BY <2>1 DEF serial
    <3>3. main = "starting" => UNCHANGED loop
      BY <1>2 DEF Quiet, HeadOfLoop, EndOfTurn, UsesFreedPort, Doze, SetManager, Signal,
         Lose, Close, Return, RemovePort, Stages, HandlerInv
    <3>4. loop' \in Resting => loop \in Resting
      BY <1>2 DEF Quiet, HeadOfLoop, EndOfTurn, UsesFreedPort, Doze, SetManager, Signal,
         Lose, Close, Return, RemovePort, Resting
    <3> QED BY <2>1, <2>2, <3>1, <3>2, <3>3, <3>4, QuietStep
  <2>3. CASE main' # main
    <3>1. \/ main \in {"created", "running"} /\ main' \in {"running", "ports"}
          \/ main = "ports" /\ main' = "account"
          \/ main = "close" /\ main' = "quit"
          \/ main = "quit" /\ main' = "ended"
      BY <2>3, <1>2 DEF Quiet, HeadOfLoop, EndOfTurn, UsesFreedPort, Doze, SetManager,
         Signal, Lose, Close, Return, RemovePort
    <3>2. UNCHANGED loop
      BY <2>3, <1>2 DEF Quiet, HeadOfLoop, EndOfTurn, UsesFreedPort, Doze, SetManager,
         Signal, Lose, Close, Return, RemovePort
    <3>3. Passed(main') = Passed(main) /\ main \notin Resources
      BY <3>1 DEF Passed, Resources
    <3>4. main' \in Resources => looked = {}
      BY <3>1 DEF Stages, HandlerInv, Passed, Resources
    <3>5. main' # "starting"
      BY <3>1
    <3> QED BY <2>1, <3>2, <3>3, <3>4, <3>5, MainStep
  <2> QED BY <2>2, <2>3
<1> QED BY <1>1, <1>2

LEMMA CreateStep ==
  ASSUME TypeInv, Stages, Create
  PROVE  Stages'
<1>1. /\ main = "starting" /\ main' = "created"
      /\ known' = [known EXCEPT !["reports"] = TRUE]
      /\ UNCHANGED <<doing, todo, at, looked, missed>> /\ loop' = "top"
  BY DEF Create
<1>2. on' = SwitchesOf("reports")
  BY SwitchesFacts DEF Create, Resources
<1>3. looked = {} /\ doing["main"] = Idle /\ doing["loop"] = Idle
  BY <1>1 DEF Stages, HandlerInv, Passed, Resources
<1>4. HandlerInv' /\ CleanInv'
  BY <1>1, <1>3 DEF HandlerInv, CleanInv, Passed, Resources
<1>5. KnownInv'
  <2>1. known'["reports"]
    BY <1>1, Types DEF TypeInv, SerialType, Resources
  <2>2. \A r \in Resources : r # "reports" => IsOff(r)'
    BY <1>2, SwitchFacts DEF IsOff, Ours, Resources
  <2> QED BY <2>1, <2>2 DEF KnownInv
<1>6. OffInv'
  <2>1. \A r \in Resources : Op(r, FALSE) # Idle
    BY DEF Op, Idle, Resources
  <2> QED BY <1>1, <1>3, <2>1 DEF OffInv
<1>7. RestInv'
  BY <1>1 DEF RestInv, Resting
<1> QED BY <1>4, <1>5, <1>6, <1>7 DEF Stages

LEMMA OpWhat ==
  ASSUME NEW q, NEW r, NEW a, NEW b, Op(q, a) = Op(r, b)
  PROVE  q = r
<1>1. Op(q, a).what = q /\ Op(r, b).what = r
  BY DEF Op
<1> QED BY <1>1

LEMMA OpFacts ==
  /\ \A r \in Resources \union {"client"}, to \in BOOLEAN : Op(r, to) # Idle
  /\ \A o \in [what : Resources \union {"client"}, to : BOOLEAN] : o = Op(o.what, o.to)
  /\ "client" \notin Resources
<1>1. \A r \in Resources \union {"client"}, to \in BOOLEAN : Op(r, to) # Idle
  BY DEF Op, Idle, Resources
<1>2. \A o \in [what : Resources \union {"client"}, to : BOOLEAN] : o = Op(o.what, o.to)
  BY DEF Op
<1> QED BY <1>1, <1>2 DEF Resources

\* A decision of the handler: what it finds known is all still to be sent, what
\* it does not is off, or the loop thread is switching it on.
LEMMA SwitchOffStep ==
  ASSUME TypeInv, Stages, NEW r \in Resources, SwitchOff(r)
  PROVE  Stages'
<1> USE DEF Stages
<1>1. /\ main = r /\ doing["main"] = Idle /\ r \notin looked /\ looked' = looked \union {r}
      /\ missed' = missed \union {x \in {r} : doing["loop"] = Op(x, TRUE)}
      /\ UNCHANGED <<loop, astray>>
  BY DEF SwitchOff
<1>2. CASE known[r]
  <2>1. Begin("main", r, FALSE) /\ main' = main
    BY <1>2, Zenon DEF SwitchOff
  <2>2. /\ doing' = [doing EXCEPT !["main"] = Op(r, FALSE)] /\ UNCHANGED <<known, on>>
        /\ SwitchesOf(r) \subseteq ToSend("main")' /\ ToSend("loop")' = ToSend("loop")
    BY <1>1, <2>1, BeginFacts DEF Threads
  <2>3. doing'["main"] = Op(r, FALSE) /\ doing'["loop"] = doing["loop"] /\ Op(r, FALSE) # Idle
    BY <2>2, OpFacts, Types DEF TypeInv, SerialType, Threads
  <2>4. \A q : IsOff(q)' <=> IsOff(q)
    BY <1>1, <2>2 DEF IsOff, Ours
  <2>5. HandlerInv'
    BY <1>1, <2>1, <2>3 DEF HandlerInv, Passed, Resources
  <2>6. KnownInv'
    BY <1>1, <2>2, <2>3, <2>4 DEF KnownInv
  <2>7. OffInv'
    <3>1. \A q : Op(r, FALSE) = Op(q, FALSE) => q = r
      BY OpWhat, Zenon
    <3> QED BY <1>1, <2>2, <2>3, <3>1 DEF OffInv, Ours
  <2>8. CleanInv'
    BY <1>1, <2>1, <2>4 DEF CleanInv
  <2>9. RestInv'
    BY <1>1, <2>3, <2>4 DEF RestInv
  <2> QED BY <2>5, <2>6, <2>7, <2>8, <2>9
<1>3. CASE ~known[r]
  <2>1. main' = After[r] /\ UNCHANGED serial
    BY <1>3, Zenon DEF SwitchOff
  <2>2. /\ \A q : IsOff(q)' <=> IsOff(q)
        /\ \A t \in Threads : ToSend(t)' = ToSend(t)
    BY <1>1, <2>1 DEF IsOff, Ours, ToSend, serial
  <2>3. /\ looked = Passed(main) /\ Passed(main') = looked'
        /\ main' \notin looked' /\ main' # "starting"
    BY <1>1, <2>1 DEF HandlerInv, Passed, After, Resources
  <2>4. HandlerInv'
    BY <1>1, <2>1, <2>3 DEF HandlerInv, serial
  <2>5. KnownInv' /\ OffInv'
    BY <1>1, <2>1, <2>2 DEF KnownInv, OffInv, Ours, serial, Threads
  <2>6. CleanInv'
    <3>1. r \notin missed' => IsOff(r)
      BY <1>1, <1>3 DEF KnownInv
    <3> QED BY <1>1, <2>2, <3>1 DEF CleanInv
  <2>7. RestInv'
    BY <1>1, <2>1, <2>2 DEF RestInv, serial
  <2> QED BY <2>4, <2>5, <2>6, <2>7
<1> QED BY <1>2, <1>3

LEMMA LoopBeginsStep ==
  ASSUME TypeInv, Stages, BeginStep
  PROVE  Stages'
<1> USE DEF Stages
<1>1. PICK w \in Resources, to \in BOOLEAN :
        /\ doing["loop"] = Idle /\ Begin("loop", w, to) /\ loop # "unborn"
        /\ UNCHANGED <<main, astray, looked, missed>>
        /\ loop' \in Resting => loop \in Resting /\ w = "reports"
  <2>1. ASSUME NEW q \in Resources, NEW to \in BOOLEAN, LoopBegins(q, to)
        PROVE  /\ doing["loop"] = Idle /\ Begin("loop", q, to) /\ loop # "unborn"
               /\ UNCHANGED <<main, astray, looked, missed>>
               /\ loop' \notin Resting
    BY <2>1 DEF LoopBegins, Resting
  <2>2. ASSUME NEW q \in Resources, PrepareForSleep(q)
        PROVE  /\ doing["loop"] = Idle /\ Begin("loop", q, FALSE) /\ loop # "unborn"
               /\ UNCHANGED <<main, astray, looked, missed>>
               /\ loop' \notin Resting
    BY <2>2 DEF PrepareForSleep, Resting
  <2>3. ASSUME TakeUp
        PROVE  /\ doing["loop"] = Idle /\ Begin("loop", "reports", TRUE)
               /\ loop # "unborn" /\ loop \in Resting /\ "reports" \in Resources
               /\ UNCHANGED <<main, astray, looked, missed>>
    BY <2>3 DEF TakeUp, Resting, Resources
  <2> QED BY <2>1, <2>2, <2>3 DEF BeginStep
<1>2. /\ doing' = [doing EXCEPT !["loop"] = Op(w, to)] /\ UNCHANGED <<known, on>>
      /\ SwitchesOf(w) \subseteq ToSend("loop")' /\ ToSend("main")' = ToSend("main")
  BY <1>1, BeginFacts DEF Threads
<1>3. /\ doing'["loop"] = Op(w, to) /\ doing'["main"] = doing["main"]
      /\ \A r \in Resources : doing["loop"] # Op(r, TRUE)
  BY <1>1, <1>2, OpFacts, Types DEF TypeInv, SerialType, Threads
<1>4. (\A q : IsOff(q)' <=> IsOff(q)) /\ Ours' = Ours
  BY <1>1, <1>2 DEF IsOff, Ours
<1>5. HandlerInv'
  BY <1>1, <1>3 DEF HandlerInv, Passed
<1>6. KnownInv'
  BY <1>1, <1>2, <1>3, <1>4 DEF KnownInv
<1>7. OffInv'
  <2>1. \A q : Op(w, to) = Op(q, FALSE) => q = w
    BY OpWhat, Zenon
  <2> QED BY <1>1, <1>2, <1>3, <1>4, <2>1 DEF OffInv
<1>8. CleanInv'
  BY <1>1, <1>4 DEF CleanInv
<1>9. RestInv'
  <2>1. Op(w, to).what = w
    BY DEF Op
  <2> QED BY <1>1, <1>3, <1>4, <2>1 DEF RestInv
<1> QED BY <1>5, <1>6, <1>7, <1>8, <1>9

\* The loop thread sends what is not its own: what it has still to send of its
\* own is nothing before and after.
LEMMA PassesStep ==
  ASSUME TypeInv, Stages, PassStep
  PROVE  Stages'
<1> USE DEF Stages
<1>1. PICK c \in Command : Passes(c)
  BY PassType
<1>2. /\ doing["loop"] = Idle /\ doing' = [doing EXCEPT !["loop"] = Op("client", c.to)]
      /\ todo' = [todo EXCEPT !["loop"] = <<c>>] /\ UNCHANGED <<at, known, on>>
      /\ UNCHANGED <<main, astray, looked, missed>>
      /\ loop # "unborn" /\ (loop' \in Resting => loop \in Resting)
  BY <1>1, PassType DEF Passes, PassStep, ClientCommand, Probe, Resting
<1>3. /\ doing'["loop"] = Op("client", c.to) /\ doing'["main"] = doing["main"]
      /\ todo'["main"] = todo["main"]
  BY <1>2, Types DEF TypeInv, SerialType, Threads
<1>4. Op("client", c.to).what = "client" /\ \A r \in Resources, to \in BOOLEAN : Op(r, to).what # "client"
  BY OpFacts DEF Op
<1>5. \A r \in Resources, to \in BOOLEAN : /\ doing'["loop"] # Op(r, to)
                                         /\ doing["loop"] # Op(r, to)
  BY <1>2, <1>3, <1>4, OpFacts
<1>6. (\A q : IsOff(q)' <=> IsOff(q)) /\ Ours' = Ours /\ ToSend("main")' = ToSend("main")
  BY <1>2, <1>3 DEF IsOff, Ours, ToSend
<1>7. HandlerInv'
  BY <1>2, <1>3 DEF HandlerInv, Passed
<1>8. KnownInv' /\ CleanInv'
  BY <1>2, <1>5, <1>6 DEF KnownInv, CleanInv
<1>9. OffInv'
  <2>1. \A r \in Resources : doing'["loop"] # Op(r, FALSE)
    BY <1>5
  <2>2. \A r \in Resources \ missed' :
          doing'["main"] = Op(r, FALSE) => SwitchesOf(r) \intersect Ours' \subseteq ToSend("main")'
    BY <1>2, <1>3, <1>6 DEF OffInv
  <2> QED BY <2>1, <2>2 DEF OffInv
<1>10. RestInv'
  BY <1>2, <1>3, <1>4, <1>6 DEF RestInv
<1> QED BY <1>7, <1>8, <1>9, <1>10

\* gps_enabled is stored: off only when the GPS is off, or not the daemon's any
\* more.
LEMMA FlagsStep ==
  ASSUME TypeInv, Stages, FlagStep
  PROVE  Stages'
<1> USE DEF Stages
<1>1. /\ UNCHANGED <<main, doing, todo, at, on, looked, missed>>
      /\ loop # "unborn" /\ (loop' \in Resting => loop \in Resting)
      /\ astray \subseteq astray'
  BY DEF FlagStep, Supposes, WakeUp, Recover, Awake, Resting
<1>2. /\ Ours' \subseteq Ours /\ (\A q : IsOff(q) => IsOff(q)')
      /\ \A t \in Threads : ToSend(t)' = ToSend(t)
  BY <1>1 DEF Ours, IsOff, ToSend
<1>3. HandlerInv'
  BY <1>1 DEF HandlerInv, Passed
<1>4. CleanInv' /\ RestInv'
  BY <1>1, <1>2 DEF CleanInv, RestInv
<1>5. OffInv'
  BY <1>1, <1>2 DEF OffInv, Threads
<1>6. \/ known' = [known EXCEPT !["gps"] = TRUE]
      \/ /\ known' = [known EXCEPT !["gps"] = FALSE]
         /\ "gps" \notin looked => IsOff("gps")'
  <2>1. ASSUME NEW to \in BOOLEAN, Supposes(to)
        PROVE  \/ known' = [known EXCEPT !["gps"] = TRUE]
               \/ known' = [known EXCEPT !["gps"] = FALSE] /\ IsOff("gps")'
    <3>1. CASE to = TRUE
      BY <2>1, <3>1, Zenon DEF Supposes
    <3>2. CASE to = FALSE
      <4>1. known' = [known EXCEPT !["gps"] = FALSE] /\ astray' = astray \union {"gps"}
        BY <2>1, <3>2, Zenon DEF Supposes
      <4>2. IsOff("gps")'
        BY <4>1 DEF IsOff, Ours, SwitchesOf
      <4> QED BY <4>1, <4>2
    <3> QED BY <3>1, <3>2
  <2>2. ASSUME Awake
        PROVE  /\ known' = [known EXCEPT !["gps"] = FALSE]
               /\ "gps" \notin looked => IsOff("gps")'
    <3>1. loop \in Resting
      BY <2>2 DEF Awake, Resting
    <3> QED BY <1>2, <2>2, <3>1 DEF Awake, RestInv
  <2>3. ASSUME WakeUp \/ Recover
        PROVE  known' = [known EXCEPT !["gps"] = TRUE]
    BY <2>3 DEF WakeUp, Recover
  <2> QED BY <2>1, <2>2, <2>3 DEF FlagStep
<1>7. KnownInv'
  <2> SUFFICES ASSUME NEW r \in Resources \ looked, ~known'[r], doing["loop"] # Op(r, TRUE)
               PROVE  IsOff(r)'
    BY <1>1, Zenon DEF KnownInv
  <2>1. CASE r = "gps"
    <3>1. ~(known' = [known EXCEPT !["gps"] = TRUE])
      BY <2>1, Types DEF TypeInv, SerialType
    <3> QED BY <1>6, <2>1, <3>1
  <2>2. CASE r # "gps"
    <3>1. known'[r] = known[r]
      BY <1>6, <2>2, Types, Zenon DEF TypeInv, SerialType
    <3>2. ~known[r]
      BY <3>1, Zenon
    <3>3. IsOff(r)
      BY <3>2 DEF KnownInv
    <3> QED BY <1>2, <3>3
  <2> QED BY <2>1, <2>2
<1> QED BY <1>3, <1>4, <1>5, <1>7

LEMMA MainStoresStep ==
  ASSUME TypeInv, Stages, MainStores
  PROVE  Stages'
<1> USE DEF Stages
<1>1. /\ doing["main"] # Idle /\ todo["main"] = <<>> /\ main' = After[main]
      /\ doing' = [doing EXCEPT !["main"] = Idle]
      /\ UNCHANGED <<todo, at, on, astray, loop, looked, missed>>
  BY DEF MainStores, Finished, Store
<1>2. /\ main \in Resources /\ main \in looked /\ doing["main"] = Op(main, FALSE)
      /\ looked = Passed(main) \union {main}
  BY <1>1 DEF HandlerInv
<1>3. /\ doing'["main"] = Idle /\ doing'["loop"] = doing["loop"]
      /\ \A r \in Resources : Op(r, FALSE) # Idle
  BY <1>1, OpFacts, Types DEF TypeInv, SerialType, Threads
<1>4. /\ \A q : IsOff(q)' <=> IsOff(q)
      /\ \A t \in Threads : ToSend(t)' = ToSend(t)
  BY <1>1 DEF IsOff, Ours, ToSend
<1>5. \A r \in Resources : r # main => known'[r] = known[r]
  <2>1. doing["main"].what = main
    BY <1>2 DEF Op
  <2>2. known' = [known EXCEPT ![main] = doing["main"].to]
    BY <1>2, <2>1, Zenon DEF MainStores, Store
  <2> QED BY <2>2, Types DEF TypeInv, SerialType
<1>6. HandlerInv'
  <2>1. Passed(main') = looked /\ main' \notin looked /\ main' # "starting"
    BY <1>1, <1>2 DEF After, Passed, Resources
  <2> QED BY <1>1, <1>3, <2>1 DEF HandlerInv
<1>7. KnownInv'
  BY <1>1, <1>2, <1>3, <1>4, <1>5 DEF KnownInv
<1>8. OffInv'
  BY <1>1, <1>3, <1>4 DEF OffInv, Ours, Threads
<1>9. CleanInv'
  <2>1. ToSend("main") = {}
    BY <1>1 DEF ToSend
  <2>2. main \notin missed => IsOff(main)
    BY <1>2, <2>1 DEF OffInv, IsOff, Ours
  <2> QED BY <1>1, <1>2, <1>4, <2>2 DEF CleanInv
<1>10. RestInv'
  BY <1>1, <1>3, <1>4 DEF RestInv
<1> QED BY <1>6, <1>7, <1>8, <1>9, <1>10

LEMMA LoopStoresStep ==
  ASSUME TypeInv, Stages, LoopStores
  PROVE  Stages'
<1> USE DEF Stages
<1>1. /\ doing["loop"] # Idle /\ todo["loop"] = <<>>
      /\ doing' = [doing EXCEPT !["loop"] = Idle]
      /\ UNCHANGED <<main, todo, at, on, astray, loop, looked, missed>>
  BY DEF LoopStores, Finished, Store
<1>2. PICK w \in Resources \union {"client"}, to \in BOOLEAN : doing["loop"] = Op(w, to)
  <2>1. doing["loop"] \in [what : Resources \union {"client"}, to : BOOLEAN]
    BY <1>1, Types DEF TypeInv, SerialType, Threads
  <2>2. /\ doing["loop"].what \in Resources \union {"client"}
        /\ doing["loop"].to \in BOOLEAN
    BY <2>1
  <2> QED BY <2>1, <2>2, OpFacts, Zenon
<1>3. /\ doing'["loop"] = Idle /\ doing'["main"] = doing["main"]
      /\ \A r \in Resources : Op(r, FALSE) # Idle
  BY <1>1, OpFacts, Types DEF TypeInv, SerialType, Threads
<1>4. /\ \A q : IsOff(q)' <=> IsOff(q)
      /\ \A t \in Threads : ToSend(t)' = ToSend(t)
  BY <1>1 DEF IsOff, Ours, ToSend
<1>5. \A r \in Resources : known'[r] = IF r = w THEN to ELSE known[r]
  <2>1. doing["loop"].what = w /\ doing["loop"].to = to
    BY <1>2 DEF Op
  <2>2. CASE w \in Resources
    <3>1. known' = [known EXCEPT ![w] = to]
      BY <2>1, <2>2, Zenon DEF LoopStores, Store
    <3> QED BY <3>1, Types, Zenon DEF TypeInv, SerialType
  <2>3. CASE w = "client"
    <3>1. known' = known
      <4>1. doing["loop"].what \notin Resources
        BY <2>1, <2>3, OpFacts
      <4> QED BY <4>1, Zenon DEF LoopStores, Store
    <3> QED BY <3>1, <2>3, OpFacts, Zenon
  <2> QED BY <2>2, <2>3
<1>6. HandlerInv' /\ CleanInv'
  BY <1>1, <1>3, <1>4 DEF HandlerInv, CleanInv, Passed
<1>7. OffInv'
  BY <1>1, <1>3, <1>4 DEF OffInv, Ours, Threads
<1>8. KnownInv'
  <2> SUFFICES ASSUME NEW r \in Resources \ looked, ~known'[r]
               PROVE  IsOff(r)
    BY <1>1, <1>4 DEF KnownInv
  <2>1. CASE r = w
    <3>1. doing["loop"] = Op(r, FALSE)
      BY <1>2, <1>5, <2>1, Zenon
    <3>2. ToSend("loop") = {}
      BY <1>1 DEF ToSend
    <3> QED BY <3>1, <3>2 DEF OffInv, IsOff, Ours
  <2>2. CASE r # w
    <3>1. ~known[r] /\ doing["loop"] # Op(r, TRUE)
      <4>1. known'[r] = known[r]
        BY <1>5, <2>2, Zenon
      <4>2. Op(w, to) # Op(r, TRUE)
        BY <2>2, OpWhat, Zenon
      <4> QED BY <1>2, <4>1, <4>2, Zenon
    <3> QED BY <3>1 DEF KnownInv
  <2> QED BY <2>1, <2>2
<1>9. RestInv'
  <2>1. Idle.what # "gps"
    BY DEF Idle
  <2> QED BY <1>1, <1>3, <1>4, <2>1 DEF RestInv
<1> QED BY <1>6, <1>7, <1>8, <1>9

\* What a command does to what is on and the daemon's own.
LEMMA SendOurs ==
  ASSUME TypeInv, NEW t \in Threads, Send(t)
  PROVE  Ours' = IF doing[t].what = "client" \/ ~Head(todo[t]).to
                 THEN Ours \ {Head(todo[t]).switch}
                 ELSE Ours \union {Head(todo[t]).switch}
<1> DEFINE c == Head(todo[t])
<1>1. /\ on' = IF c.to THEN on \union {c.switch} ELSE on \ {c.switch}
      /\ astray' = IF doing[t].what = "client" THEN astray \union {c.switch}
                   ELSE astray \ {c.switch}
  BY DEF Send
<1> HIDE DEF c
<1>2. Ours' = IF doing[t].what = "client" \/ ~c.to THEN Ours \ {c.switch}
              ELSE Ours \union {c.switch}
  BY <1>1 DEF Ours
<1> QED BY <1>2 DEF c

\* A command of a client's, or one that switches something off.
LEMMA SendOffStep ==
  ASSUME TypeInv, Stages, NEW t \in Threads, Send(t),
         doing[t].what = "client" \/ ~doing[t].to
  PROVE  Stages'
<1> USE DEF Stages
<1> DEFINE c == Head(todo[t])
<1>1. /\ c.to = doing[t].to /\ c.switch \in SwitchesOf(doing[t].what)
      /\ doing[t] \in [what : Resources \union {"client"}, to : BOOLEAN]
      /\ ToSend(t) \ {c.switch} \subseteq ToSend(t)'
      /\ \A u \in Threads : u # t => ToSend(u)' = ToSend(u)
  BY SendFacts
<1>2. /\ UNCHANGED <<main, loop, doing, known, looked>> /\ missed \subseteq missed'
      /\ Ours' = IF doing[t].what = "client" \/ ~c.to THEN Ours \ {c.switch}
                 ELSE Ours \union {c.switch}
  BY SendOurs DEF Send
<1> HIDE DEF c
<1>3. Ours' = Ours \ {c.switch}
  <2>1. c.to = doing[t].to /\ doing[t].to \in BOOLEAN
    BY <1>1
  <2> QED BY <1>2, <2>1
<1>4. \A q : IsOff(q) => IsOff(q)'
  BY <1>3 DEF IsOff
<1>5. HandlerInv'
  BY <1>2 DEF HandlerInv, Passed
<1>6. KnownInv' /\ CleanInv'
  BY <1>2, <1>4 DEF KnownInv, CleanInv
<1>7. RestInv'
  BY <1>2, <1>4 DEF RestInv
<1>8. OffInv'
  <2>1. ASSUME NEW u \in Threads, NEW r \in Resources, doing[u] = Op(r, FALSE),
               SwitchesOf(r) \intersect Ours \subseteq ToSend(u)
        PROVE  SwitchesOf(r) \intersect Ours' \subseteq ToSend(u)'
    BY <1>1, <1>3, <2>1
  <2> QED BY <1>2, <2>1 DEF OffInv, Threads
<1> QED BY <1>5, <1>6, <1>7, <1>8

\* The loop thread switches something on: the handler misses it when it has
\* decided about it.
LEMMA SendOnStep ==
  ASSUME TypeInv, Stages, NEW t \in Threads, Send(t),
         doing[t].what # "client", doing[t].to
  PROVE  Stages'
<1> USE DEF Stages
<1> DEFINE c == Head(todo[t])
<1> DEFINE w == doing[t].what
<1>1. /\ c.to = doing[t].to /\ c.switch \in SwitchesOf(w)
      /\ doing[t] \in [what : Resources \union {"client"}, to : BOOLEAN]
      /\ ToSend(t) \ {c.switch} \subseteq ToSend(t)'
      /\ \A u \in Threads : u # t => ToSend(u)' = ToSend(u)
  BY SendFacts
<1>2. w \in Resources /\ doing[t].to = TRUE
  <2>1. w \in Resources \union {"client"} /\ doing[t].to \in BOOLEAN
    BY <1>1
  <2> QED BY <2>1
<1>3. doing[t] = Op(w, TRUE)
  <2>1. doing[t] = Op(w, doing[t].to)
    BY <1>1, OpFacts, Zenon
  <2> QED BY <1>2, <2>1, Zenon
<1>4. t = "loop"
  <2>1. doing["main"] # Idle => doing["main"].to = FALSE
    BY DEF HandlerInv, Op
  <2>2. doing[t] # Idle
    BY <1>2, <1>3, OpFacts
  <2> QED BY <1>2, <2>1, <2>2 DEF Threads
<1>5. /\ UNCHANGED <<main, loop, doing, known, looked>>
      /\ Ours' = IF w = "client" \/ ~c.to THEN Ours \ {c.switch}
                 ELSE Ours \union {c.switch}
      /\ missed' = missed \union ({w} \intersect looked)
  BY <1>2, <1>4, SendOurs DEF Send
<1> HIDE DEF c, w
<1>6. Ours' \subseteq Ours \union SwitchesOf(w)
  BY <1>1, <1>5
<1>7. \A q \in Resources : q # w /\ IsOff(q) => IsOff(q)'
  BY <1>2, <1>6, SwitchFacts DEF IsOff
<1>8. HandlerInv'
  BY <1>5 DEF HandlerInv, Passed
<1>9. KnownInv'
  <2>1. doing["loop"] = Op(w, TRUE)
    BY <1>3, <1>4
  <2> QED BY <1>5, <1>7, <2>1 DEF KnownInv
<1>10. CleanInv'
  BY <1>2, <1>5, <1>7, Types DEF CleanInv, TypeInv, StageType
<1>11. OffInv'
  <2>1. \A r \in Resources : doing'["loop"] # Op(r, FALSE)
    <3>1. \A r \in Resources : Op(r, FALSE).to = FALSE /\ Op(w, TRUE).to = TRUE
      BY DEF Op
    <3> QED BY <1>3, <1>4, <1>5, <3>1
  <2>2. ASSUME NEW r \in Resources \ missed', doing'["main"] = Op(r, FALSE)
        PROVE  SwitchesOf(r) \intersect Ours' \subseteq ToSend("main")'
    <3>1. r \in looked
      <4>1. main = r
        BY <1>5, <2>2, OpFacts, OpWhat DEF HandlerInv
      <4> QED BY <1>5, <2>2, <4>1, OpFacts DEF HandlerInv
    <3>2. r # w /\ r \notin missed
      BY <1>5, <2>2, <3>1
    <3>3. SwitchesOf(r) \intersect Ours' \subseteq SwitchesOf(r) \intersect Ours
      BY <1>2, <1>6, <3>2, SwitchFacts
    <3>4. SwitchesOf(r) \intersect Ours \subseteq ToSend("main")
      BY <1>5, <2>2, <3>2 DEF OffInv
    <3> QED BY <1>1, <1>4, <3>3, <3>4 DEF Threads
  <2> QED BY <2>1, <2>2 DEF OffInv
<1>12. RestInv'
  <2>1. loop \in Resting => w # "gps"
    BY <1>3, <1>4 DEF RestInv, Op
  <2>2. "gps" \in Resources
    BY DEF Resources
  <2> QED BY <1>5, <1>7, <2>1, <2>2 DEF RestInv
<1> QED BY <1>8, <1>9, <1>10, <1>11, <1>12

-----------------------------------------------------------------------------
Inv == TypeInv /\ CleanupInv

LEMMA InitInv ==
  ASSUME Init
  PROVE  Inv
<1>1. doing["main"] = Idle /\ doing["loop"] = Idle
  BY DEF Init, Threads
<1>2. \A r \in Resources : Op(r, FALSE) # Idle
  BY OpFacts
<1>3. HandlerInv
  BY <1>1 DEF Init, HandlerInv, Passed, Resources
<1>4. KnownInv /\ CleanInv
  BY DEF Init, KnownInv, CleanInv, IsOff, Ours
<1>5. OffInv
  BY <1>1, <1>2 DEF OffInv
<1>6. RestInv
  BY DEF Init, RestInv, Resting
<1> QED BY <1>3, <1>4, <1>5, <1>6, InitType DEF Inv, CleanupInv

LEMMA NextInv ==
  ASSUME Inv, [Next]_vars
  PROVE  Inv'
<1> USE DEF Inv
<1>1. CASE UNCHANGED vars
  <2>1. UNCHANGED <<main, loop, doing, todo, at, known, on, astray, looked, missed>>
    BY <1>1 DEF vars, serial
  <2>2. SerialType' /\ StageType' /\ TodoInv'
    BY <1>1, Types DEF vars, serial, TypeInv, SerialType, StageType, TodoInv
  <2>3. \A t \in Threads : ToSend(t)' = ToSend(t)
    BY <2>1 DEF ToSend
  <2>4. CleanupInv'
    BY <2>1, <2>3, QuietStep DEF CleanupInv, Stages
  <2> QED BY <2>2, <2>4, Types DEF TypeInv
<1>2. CASE Next
  <2>0. main # "crashed" /\ TypeInv /\ Stages
    BY <1>2 DEF Next, Alive, CleanupInv, Stages
  <2> SUFFICES TypeInv' /\ (main' # "crashed" => Stages')
    BY DEF CleanupInv, Stages
  <2>1. CASE \E t \in Threads : Lock(t) \/ CallFails(t) \/ Answer(t)
    BY <2>0, <2>1, LockType, CallFailsType, AnswerType, SerialStep
  <2>2. CASE \E t \in Threads : Send(t)
    BY <2>0, <2>2, SendType, SendOffStep, SendOnStep
  <2>3. CASE Quiet
    BY <2>0, <2>3, StageTypes, StageSteps
  <2>4. CASE Create
    BY <2>0, <2>4, CreateType, CreateStep
  <2>5. CASE \E r \in Resources : SwitchOff(r)
    BY <2>0, <2>5, BeginsType, SwitchOffStep
  <2>6. CASE BeginStep
    BY <2>0, <2>6, BeginsType, LoopBeginsStep
  <2>7. CASE LoopStores
    BY <2>0, <2>7, StoresType, LoopStoresStep DEF Stages
  <2>8. CASE MainStores
    BY <2>0, <2>8, StoresType, MainStoresStep DEF Stages
  <2>9. CASE PassStep
    BY <2>0, <2>9, PassType, PassesStep
  <2>10. CASE FlagStep
    BY <2>0, <2>10, FlagType, FlagsStep
  <2> QED BY <1>2, <2>1, <2>2, <2>3, <2>4, <2>5, <2>6, <2>7, <2>8, <2>9, <2>10
          DEF Next, Handler, Loop, Quiet, BeginStep, PassStep, FlagStep, Threads
<1> QED BY <1>1, <1>2

LEMMA InvCorrect == Spec => []Inv
BY InitInv, NextInv, PTL DEF Spec

\* The types; and a thread that has sent a command, and no other, holds
\* nmea_mutex: main and the loop thread never talk to the modem at once.
THEOREM TypeCorrect == Spec => []TypeOK
<1>1. Inv => TypeOK
  BY DEF Inv, TypeInv
<1> QED BY <1>1, InvCorrect, PTL

\* cleanup_func leaves the modem without an account, reports or GPS, wherever
\* the loop thread was when the signal came - switching them on or off, falling
\* asleep, waking up - but for what it was switching on just then, and what
\* clients' commands had switched on or the daemon had forgotten.
THEOREM ModemIsLeftClean == Spec => []LeavesModemClean
<1>1. Inv => LeavesModemClean
  <2> SUFFICES ASSUME Inv, main = "ended", NEW r \in Resources \ missed,
                      NEW i \in DOMAIN Switches[r]
               PROVE  Switches[r][i] \notin on \ astray
    BY DEF LeavesModemClean
  <2>1. r \in looked /\ r # main
    BY DEF Inv, CleanupInv, HandlerInv, Passed, Resources
  <2>2. IsOff(r)
    BY <2>1 DEF Inv, CleanupInv, CleanInv
  <2> QED BY <2>2, SwitchesFacts DEF IsOff, Ours
<1> QED BY <1>1, InvCorrect, PTL
=============================================================================
