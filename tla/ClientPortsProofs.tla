------------------------- MODULE ClientPortsProofs -------------------------
(***************************************************************************)
(* Theorems about ClientPorts, for any ports, programs and bound of ports  *)
(* opened in a window of the loop: its types, that no client is forgotten, *)
(* that the count is exact, each until a port is opened in a window that   *)
(* breaks it, and that the accounting implements ClientCount.              *)
(***************************************************************************)
EXTENDS ClientPorts, FiniteSetTheorems, SequenceTheorems, TLAPS

-----------------------------------------------------------------------------
(* Sequences of events.                                                    *)

\* Only events of ports removed since repeat.
NoRepeats(s) == \A i, j \in DOMAIN s : s[i] = s[j] /\ s[i] \in Ports => i = j

LEMMA PendingEmpty == Pending(<<>>) = {} /\ NoRepeats(<<>>)
BY DEF Pending, NoRepeats

LEMMA PendingAppend ==
  ASSUME NEW S, NEW s \in Seq(S), NEW e \in S
  PROVE  /\ Append(s, e) \in Seq(S)
         /\ Pending(Append(s, e)) = Pending(s) \union {e}
         /\ NoRepeats(s) /\ e \notin Pending(s) => NoRepeats(Append(s, e))
<1>1. /\ Append(s, e) \in Seq(S) /\ Len(s) \in Nat /\ DOMAIN s = 1 .. Len(s)
      /\ DOMAIN Append(s, e) = 1 .. Len(s) + 1
      /\ \A i \in 1 .. Len(s) : Append(s, e)[i] = s[i]
      /\ Append(s, e)[Len(s) + 1] = e
  BY AppendProperties, LenProperties
<1>2. \A i \in 1 .. Len(s) + 1 : i \in 1 .. Len(s) \/ i = Len(s) + 1
  BY <1>1
<1>3. Pending(Append(s, e)) = Pending(s) \union {e}
  BY <1>1, <1>2 DEF Pending
<1>4. NoRepeats(s) /\ e \notin Pending(s) => NoRepeats(Append(s, e))
  BY <1>1, <1>2 DEF Pending, NoRepeats
<1> QED BY <1>1, <1>3, <1>4

LEMMA PendingTail ==
  ASSUME NEW S, NEW s \in Seq(S), s # <<>>
  PROVE  /\ Head(s) \in S /\ Head(s) \in Pending(s) /\ Tail(s) \in Seq(S)
         /\ Pending(s) = Pending(Tail(s)) \union {Head(s)}
         /\ NoRepeats(s) => /\ NoRepeats(Tail(s))
                            /\ Head(s) \in Ports => Head(s) \notin Pending(Tail(s))
<1>1. /\ Len(s) \in Nat \ {0} /\ DOMAIN s = 1 .. Len(s) /\ Head(s) = s[1] /\ Head(s) \in S
      /\ Tail(s) \in Seq(S) /\ DOMAIN Tail(s) = 1 .. Len(s) - 1
      /\ \A i \in 1 .. Len(s) - 1 : Tail(s)[i] = s[i + 1]
  BY HeadTailProperties, LenProperties, EmptySeq
<1>2. \A i \in 1 .. Len(s) : i = 1 \/ i - 1 \in 1 .. Len(s) - 1
  BY <1>1
<1>3. Pending(s) = Pending(Tail(s)) \union {Head(s)}
  <2>1. ASSUME NEW i \in 1 .. Len(s), i # 1
        PROVE  s[i] \in Pending(Tail(s))
    <3>1. i - 1 \in 1 .. Len(s) - 1 /\ (i - 1) + 1 = i
      BY <1>2, <2>1, <1>1
    <3>2. Tail(s)[i - 1] = s[i]
      BY <1>1, <3>1
    <3> QED BY <1>1, <3>1, <3>2 DEF Pending
  <2>2. ASSUME NEW i \in 1 .. Len(s) - 1
        PROVE  Tail(s)[i] \in Pending(s)
    BY <1>1, i + 1 \in 1 .. Len(s) DEF Pending
  <2> QED BY <1>1, <2>1, <2>2 DEF Pending
<1>4. ASSUME NoRepeats(s)
      PROVE  NoRepeats(Tail(s)) /\ (Head(s) \in Ports => Head(s) \notin Pending(Tail(s)))
  BY <1>1, <1>4, \A i \in 1 .. Len(s) - 1 : i + 1 \in 1 .. Len(s) /\ i + 1 # 1
     DEF NoRepeats, Pending
<1> QED BY <1>1, <1>3, <1>4 DEF Pending

LEMMA PendingConcat ==
  ASSUME NEW S, NEW s \in Seq(S), NEW t \in Seq(S)
  PROVE  Pending(s \o t) = Pending(s) \union Pending(t)
<1>1. /\ Len(s) \in Nat /\ Len(t) \in Nat
      /\ DOMAIN s = 1 .. Len(s) /\ DOMAIN t = 1 .. Len(t)
      /\ DOMAIN (s \o t) = 1 .. Len(s) + Len(t)
      /\ \A i \in 1 .. Len(s) + Len(t) :
           (s \o t)[i] = IF i <= Len(s) THEN s[i] ELSE t[i - Len(s)]
  BY ConcatProperties, LenProperties
<1>2. ASSUME NEW i \in 1 .. Len(s) + Len(t)
      PROVE  (s \o t)[i] \in Pending(s) \union Pending(t)
  BY <1>1 DEF Pending
<1>3. ASSUME NEW i \in 1 .. Len(s)
      PROVE  s[i] \in Pending(s \o t)
  BY <1>1, i \in 1 .. Len(s) + Len(t) DEF Pending
<1>4. ASSUME NEW i \in 1 .. Len(t)
      PROVE  t[i] \in Pending(s \o t)
  BY <1>1, i + Len(s) \in 1 .. Len(s) + Len(t), ~(i + Len(s) <= Len(s)),
     (i + Len(s)) - Len(s) = i DEF Pending
<1>5. /\ Pending(s \o t) \subseteq Pending(s) \union Pending(t)
      /\ Pending(s) \subseteq Pending(s \o t) /\ Pending(t) \subseteq Pending(s \o t)
  <2>1. Pending(s \o t) \subseteq Pending(s) \union Pending(t)
    BY <1>1, <1>2 DEF Pending
  <2>2. Pending(s) \subseteq Pending(s \o t) /\ Pending(t) \subseteq Pending(s \o t)
    BY <1>1, <1>3, <1>4 DEF Pending
  <2> QED BY <2>1, <2>2
<1> QED BY <1>5

-----------------------------------------------------------------------------
(* Type correctness.                                                       *)

LEMMA InitType ==
  ASSUME Init
  PROVE  TypeOK
<1>1. /\ used \in [Ports -> BOOLEAN] /\ written \in [Ports -> BOOLEAN]
      /\ watched \in [Ports -> BOOLEAN] /\ active \in [Ports -> BOOLEAN]
  BY Zenon DEF Init
<1> QED BY <1>1, ConstantsOK DEF Init, Nothing, TypeOK

LEMMA OpenType ==
  ASSUME TypeOK, NEW p \in Ports, Open(p)
  PROVE  TypeOK'
<1> USE ConstantsOK
<1>1. programs' \in [Ports -> 0..MaxPrograms]
  BY DEF Open, TypeOK
<1>2. used' \in [Ports -> BOOLEAN] /\ watched' \in [Ports -> BOOLEAN]
  BY Zenon DEF Open, TypeOK
<1>3. events' \in Seq(Ports \union {Stale})
  BY DEF Open, TypeOK
<1>4. strays' \in Seq({"adding", "polling", "removing"})
  <2>1. strays \in Seq({"adding", "polling", "removing"})
    BY DEF TypeOK
  <2>2. CASE InWindow(p)
    <3>1. strays' = Append(strays, pc) /\ pc \in {"adding", "polling", "removing"}
      BY <2>2 DEF Open, InWindow
    <3> QED BY <2>1, <3>1, PendingAppend
  <2>3. CASE ~InWindow(p)
    BY <2>1, <2>3 DEF Open
  <2> QED BY <2>2, <2>3
<1> QED BY <1>1, <1>2, <1>3, <1>4 DEF Open, TypeOK, loop

LEMMA UsesType ==
  ASSUME TypeOK, NEW p \in Ports, Uses(p), UNCHANGED strays
  PROVE  TypeOK'
<1> USE ConstantsOK
<1>1. CASE Write(p)
  <2>1. written' \in [Ports -> BOOLEAN]
    BY <1>1, Zenon DEF Write, TypeOK
  <2> QED BY <1>1, <2>1 DEF Write, TypeOK, loop
<1>2. CASE Close(p)
  BY <1>2 DEF Close, TypeOK, loop
<1> QED BY <1>1, <1>2 DEF Uses

LEMMA SelectType ==
  ASSUME TypeOK, UNCHANGED strays,
         SelectNotifier \/ SelectMasters \/ ReadNotifier \/ NotifierDone \/ EndTurn
  PROVE  TypeOK'
<1>1. CASE SelectNotifier
  <2>1. (events # <<>>) \in BOOLEAN
    OBVIOUS
  <2> QED BY <1>1, <2>1 DEF SelectNotifier, Nothing, TypeOK, kernel
<1>2. CASE SelectMasters
  <2>1. Readable \in SUBSET Ports
    BY DEF Readable
  <2>2. ready' \in [ifd : BOOLEAN, masters : SUBSET Ports]
    BY <1>2, <2>1 DEF SelectMasters, TypeOK
  <2>3. pc' \in {"select", "notifier"}
    BY <1>2 DEF SelectMasters
  <2>4. UNCHANGED <<programs, used, written, watched, events, batch, todo, conns, active>>
    BY <1>2 DEF SelectMasters, kernel
  <2>5. pc' \in {"select", "polling", "notifier", "opens", "clients", "removing",
                    "adding"}
    BY <2>3
  <2> QED BY <2>2, <2>4, <2>5, Zenon DEF TypeOK
<1>3. CASE ReadNotifier
  <2>1. pc' \in {"select", "polling", "notifier", "opens", "clients", "removing",
                    "adding"}
    BY <1>3 DEF ReadNotifier
  <2>2. /\ events' \in Seq(Ports \union {Stale})
        /\ batch' \in Seq(Ports \union {Stale})
    <3>1. CASE ready.ifd
      <4>1. batch' = events /\ events' = <<>>
        BY <1>3, <3>1, Zenon DEF ReadNotifier
      <4> QED BY <4>1 DEF TypeOK
    <3>2. CASE ~ready.ifd
      <4>1. batch' = batch /\ events' = events
        BY <1>3, <3>2, Zenon DEF ReadNotifier
      <4> QED BY <4>1 DEF TypeOK
    <3> QED BY <3>1, <3>2
  <2>3. UNCHANGED <<programs, used, written, watched, ready, todo, conns, active>>
    BY <1>3 DEF ReadNotifier
  <2> QED BY <2>1, <2>2, <2>3, Zenon DEF TypeOK
<1>4. CASE NotifierDone
  BY <1>4 DEF NotifierDone, TypeOK, kernel
<1>5. CASE EndTurn
  BY <1>5 DEF EndTurn, Nothing, TypeOK, kernel
<1> QED BY <1>1, <1>2, <1>3, <1>4, <1>5

LEMMA HandleOpenType ==
  ASSUME TypeOK, HandleOpen, UNCHANGED strays
  PROVE  TypeOK'
<1>1. batch' \in Seq(Ports \union {Stale})
  BY PendingTail DEF HandleOpen, TypeOK
<1>2. active' \in [Ports -> BOOLEAN]
  BY Zenon DEF HandleOpen
<1> QED BY <1>1, <1>2 DEF HandleOpen, TypeOK, kernel

LEMMA RemakeType ==
  ASSUME TypeOK, NEW p \in Ports, Remake(p)
  PROVE  /\ events' \in Seq(Ports \union {Stale}) /\ programs' \in [Ports -> 0..MaxPrograms]
         /\ used' \in [Ports -> BOOLEAN] /\ written' \in [Ports -> BOOLEAN]
         /\ active' \in [Ports -> BOOLEAN]
<1>1. events' \in Seq(Ports \union {Stale})
  <2>1. Len(events) \in Nat /\ events \in [1..Len(events) -> Ports \union {Stale}]
    BY LenProperties DEF TypeOK
  <2>2. events' \in [1..Len(events) -> Ports \union {Stale}]
    BY <2>1 DEF Remake
  <2> QED BY <2>1, <2>2, SeqDef
<1>2. /\ used' \in [Ports -> BOOLEAN] /\ written' \in [Ports -> BOOLEAN]
      /\ active' \in [Ports -> BOOLEAN]
  BY Zenon DEF Remake, TypeOK
<1>3. programs' \in [Ports -> 0..MaxPrograms]
  BY ConstantsOK DEF Remake, TypeOK
<1> QED BY <1>1, <1>2, <1>3

LEMMA ClientType ==
  ASSUME TypeOK, NEW p \in Ports, UNCHANGED strays,
         ReadClient(p) \/ ReadFails(p) \/ ClientGone(p) \/ AddWatch(p)
  PROVE  TypeOK'
<1>1. CASE ReadClient(p)
  <2>1. written' \in [Ports -> BOOLEAN]
    BY <1>1, Zenon DEF ReadClient, TypeOK
  <2> QED BY <1>1, <2>1 DEF ReadClient, TypeOK
<1>2. CASE ReadFails(p)
  BY <1>2 DEF ReadFails, TypeOK, kernel
<1>3. CASE ClientGone(p)
  BY <1>3, RemakeType DEF ClientGone, TypeOK
<1>4. CASE AddWatch(p)
  <2>1. watched' \in [Ports -> BOOLEAN]
    BY <1>4, Zenon DEF AddWatch, Account, TypeOK
  <2> QED BY <1>4, <2>1 DEF AddWatch, Account, TypeOK
<1> QED BY <1>1, <1>2, <1>3, <1>4

LEMMA NextType ==
  ASSUME TypeOK, [Next]_vars
  PROVE  TypeOK'
<1>1. CASE UNCHANGED vars
  BY <1>1 DEF vars, kernel, loop, TypeOK
<1> QED
  BY <1>1, OpenType, UsesType, SelectType, HandleOpenType, ClientType DEF Next, Loop

\* The types, with ports opened in any window.
THEOREM TypeCorrect == Spec => []TypeOK
<1>1. TypeOK /\ [Next]_vars => TypeOK'
  BY NextType
<1> QED BY <1>1, InitType, PTL DEF Spec

-----------------------------------------------------------------------------
(* The accounting.                                                         *)

\* The port that is being made anew: it has no watch yet.
Adding(p) == pc = "adding" /\ First(p)

\* What the kernel has of a port: it has a watch unless it was opened, and
\* whatever else there is of it comes from programs that opened it.
KernelInv ==
  \A p \in Ports :
    /\ programs[p] > 0 \/ written[p] => used[p]
    /\ Adding(p) => ~used[p] /\ ~watched[p]
    /\ ~Adding(p) => (watched[p] <=> ~used[p])

\* The opens that are not counted yet: each has one event, and is of a port in
\* use that is not known to be.
EventsInv ==
  /\ NoRepeats(events) /\ NoRepeats(batch)
  /\ \A p \in Ports :
       /\ used[p] <=> active[p] \/ p \in Pending(events) \/ p \in Pending(batch)
       /\ active[p] => p \notin Pending(events) /\ p \notin Pending(batch)
       /\ p \notin Pending(events) \/ p \notin Pending(batch)

\* The events that are read are handled before the ports are; a port that is
\* being removed has been in use.
OrderInv ==
  /\ pc # "opens" => batch = <<>>
  /\ pc = "removing" => \A p \in Ports : First(p) => used[p]

\* What pselect found readable was counted before, or is in the events that are
\* read and handled before the ports are.
SeenInv ==
  /\ Stale \notin Pending(events) /\ Stale \notin Pending(batch)
  /\ pc \in {"select", "polling"} => ready.masters = {}
  /\ pc = "polling" => (ready.ifd <=> events # <<>>)
  /\ pc = "notifier" => \A p \in ready.masters :
       active[p] \/ (ready.ifd /\ p \in Pending(events))
  /\ pc = "opens" => \A p \in ready.masters : active[p] \/ p \in Pending(batch)
  /\ pc \in {"clients", "removing", "adding"} => \A p \in todo : active[p] \/ Adding(p)

Active == {p \in Ports : active[p]}

\* A port that is being made anew is not active any more, but still counted.
CountInv == conns = Cardinality(Active) + (IF pc = "adding" THEN 1 ELSE 0)

\* The port that is being removed has no program.
GoneInv == pc = "removing" => \A p \in Ports : First(p) => programs[p] = 0

Known == KernelInv /\ EventsInv /\ OrderInv
Exact == SeenInv /\ CountInv

\* Which windows break which part.
PortsInv ==
  /\ TypeOK
  /\ "adding" \notin Strayed => Known
  /\ Strayed \subseteq {"removing"} => Exact
  /\ "removing" \notin Strayed => GoneInv

LEMMA InitInv ==
  ASSUME Init
  PROVE  PortsInv
<1>1. TypeOK
  BY InitType
<1>2. KernelInv
  BY DEF Init, KernelInv, Adding
<1>3. EventsInv /\ OrderInv
  BY PendingEmpty DEF Init, EventsInv, OrderInv
<1>4. SeenInv /\ GoneInv
  BY PendingEmpty DEF Init, SeenInv, GoneInv, Nothing
<1>5. CountInv
  <2>1. Active = {}
    BY DEF Init, Active
  <2> QED BY <2>1, FS_EmptySet DEF Init, CountInv
<1> QED BY <1>1, <1>2, <1>3, <1>4, <1>5 DEF PortsInv, Known, Exact

\* The port the loop is at is the first of those left.
LEMMA OneFirst ==
  ASSUME TypeOK, NEW p \in Ports, First(p)
  PROVE  p \in todo /\ \A q \in Ports : First(q) => q = p
BY ConstantsOK DEF TypeOK, First

-----------------------------------------------------------------------------
(* A port is opened: unless before its watch, the first open gives an      *)
(* event; unless while pselect looks, before pselect looked.               *)

LEMMA OpenFacts ==
  ASSUME TypeOK, KernelInv, NEW p \in Ports, Open(p), ~(InWindow(p) /\ pc = "adding")
  PROVE  /\ UNCHANGED <<written, pc, ready, batch, todo, conns, active>>
         /\ ~Adding(p) /\ (watched[p] <=> ~used[p])
         /\ \A q \in Ports : /\ First(q)' <=> First(q)
                             /\ Adding(q)' <=> Adding(q)
                             /\ used'[q] <=> used[q] \/ q = p
                             /\ watched'[q] <=> watched[q] /\ q # p
         /\ watched[p] => /\ events' = Append(events, p)
                          /\ Pending(events') = Pending(events) \union {p}
                          /\ NoRepeats(events) /\ p \notin Pending(events)
                               => NoRepeats(events')
         /\ ~watched[p] => events' = events
<1>1. UNCHANGED <<written, pc, ready, batch, todo, conns, active>>
  BY DEF Open, loop
<1>2. ~Adding(p) /\ (watched[p] <=> ~used[p])
  BY DEF InWindow, KernelInv, Adding
<1>3. \A q \in Ports : (First(q)' <=> First(q)) /\ (Adding(q)' <=> Adding(q))
  BY <1>1 DEF First, Adding
<1>4. \A q \in Ports : /\ used'[q] <=> used[q] \/ q = p
                       /\ watched'[q] <=> watched[q] /\ q # p
  BY DEF Open, TypeOK
<1>5. watched[p] => events' = Append(events, p)
  BY DEF Open
<1>6. ~watched[p] => events' = events
  BY DEF Open
<1>7. watched[p] => /\ Pending(events') = Pending(events) \union {p}
                    /\ NoRepeats(events) /\ p \notin Pending(events)
                         => NoRepeats(events')
  <2>1. events \in Seq(Ports \union {Stale}) /\ p \in Ports \union {Stale}
    BY DEF TypeOK
  <2> DEFINE S == Ports \union {Stale}
  <2>2. /\ Pending(Append(events, p)) = Pending(events) \union {p}
        /\ NoRepeats(events) /\ p \notin Pending(events) => NoRepeats(Append(events, p))
    <3>1. events \in Seq(S) /\ p \in S
      BY <2>1
    <3> HIDE DEF S
    <3> QED BY <3>1, PendingAppend
  <2> QED BY <1>5, <2>2
<1> QED BY <1>1, <1>2, <1>3, <1>4, <1>5, <1>6, <1>7

LEMMA OpenKnown ==
  ASSUME TypeOK, Known, NEW p \in Ports, Open(p), ~(InWindow(p) /\ pc = "adding")
  PROVE  Known'
<1> USE OpenFacts DEF Known
<1>1. KernelInv'
  <2>1. \A q \in Ports : programs'[q] > 0 => programs[q] > 0 \/ q = p
    BY DEF Open, TypeOK
  <2> QED BY <2>1 DEF KernelInv
<1>2. EventsInv'
  <2>1. CASE watched[p]
    <3>1. ~active[p] /\ p \notin Pending(events) /\ p \notin Pending(batch)
      BY <2>1 DEF EventsInv
    <3> QED BY <2>1, <3>1 DEF EventsInv
  <2>2. CASE ~watched[p]
    BY <2>2 DEF EventsInv
  <2> QED BY <2>1, <2>2
<1>3. OrderInv'
  BY DEF OrderInv
<1> QED BY <1>1, <1>2, <1>3

LEMMA OpenExact ==
  ASSUME TypeOK, Known, Exact, NEW p \in Ports, Open(p),
         ~(InWindow(p) /\ pc \in {"adding", "polling"})
  PROVE  Exact'
<1> USE OpenFacts DEF Known, Exact
<1>1. CountInv'
  BY DEF CountInv, Active
<1>2. p # Stale
  BY ConstantsOK DEF Stale
<1>3. pc = "polling" => events' = events
  BY DEF InWindow
<1>4. Pending(events) \subseteq Pending(events') /\ Pending(events') \subseteq Pending(events) \union {p}
  <2>1. CASE watched[p]
    BY <2>1
  <2>2. CASE ~watched[p]
    BY <2>2
  <2> QED BY <2>1, <2>2
<1>5. todo \subseteq Ports
  BY DEF TypeOK
<1>6. SeenInv'
  BY <1>2, <1>3, <1>4, <1>5 DEF SeenInv
<1> QED BY <1>1, <1>6

-----------------------------------------------------------------------------
(* The other steps.                                                        *)

LEMMA UsesStep ==
  ASSUME TypeOK, NEW p \in Ports, Uses(p)
  PROVE  (Known => Known') /\ (Exact => Exact') /\ (GoneInv => GoneInv')
<1>1. UNCHANGED <<used, watched, events, pc, ready, batch, todo, conns, active>>
  BY DEF Uses, Write, Close, loop
<1>2. \A q \in Ports : (First(q)' <=> First(q)) /\ (Adding(q)' <=> Adding(q))
  BY <1>1 DEF First, Adding
<1>3. KernelInv => KernelInv'
  BY <1>1, <1>2 DEF Uses, Write, Close, KernelInv, TypeOK
<1>4. (EventsInv => EventsInv') /\ (OrderInv => OrderInv')
  BY <1>1, <1>2 DEF EventsInv, OrderInv
<1>5. (SeenInv => SeenInv') /\ (CountInv => CountInv')
  BY <1>1, <1>2 DEF SeenInv, CountInv, Active, TypeOK
<1>6. GoneInv => GoneInv'
  BY <1>1, <1>2 DEF Uses, Write, Close, GoneInv, TypeOK
<1> QED BY <1>3, <1>4, <1>5, <1>6 DEF Known, Exact

\* Up to the client ports, a turn leaves the kernel's view of them alone.
LEMMA SelectFacts ==
  ASSUME TypeOK,
         SelectNotifier \/ SelectMasters \/ ReadNotifier \/ NotifierDone \/ EndTurn
  PROVE  /\ UNCHANGED <<programs, used, written, watched, conns, active>>
         /\ pc \notin {"removing", "adding"} /\ pc' \notin {"removing", "adding"}
         /\ \A q \in Ports : ~Adding(q) /\ ~Adding(q)'
BY DEF SelectNotifier, SelectMasters, ReadNotifier, NotifierDone, EndTurn, kernel, Adding

LEMMA SelectKnown ==
  ASSUME TypeOK, Known,
         SelectNotifier \/ SelectMasters \/ ReadNotifier \/ NotifierDone \/ EndTurn
  PROVE  Known'
<1> USE SelectFacts DEF Known
<1>1. KernelInv'
  BY DEF KernelInv
<1>2. CASE ReadNotifier
  <2>1. pc = "notifier" /\ pc' = "opens" /\ batch = <<>>
    BY <1>2 DEF ReadNotifier, OrderInv
  <2>2. CASE ready.ifd
    <3>1. batch' = events /\ events' = <<>>
      BY <1>2, <2>2 DEF ReadNotifier
    <3> QED BY <1>1, <2>1, <3>1, PendingEmpty DEF EventsInv, OrderInv
  <2>3. CASE ~ready.ifd
    <3>1. UNCHANGED <<batch, events>>
      BY <1>2, <2>3 DEF ReadNotifier
    <3> QED BY <1>1, <2>1, <3>1 DEF EventsInv, OrderInv
  <2> QED BY <2>2, <2>3
<1>3. CASE SelectNotifier \/ SelectMasters \/ NotifierDone \/ EndTurn
  <2>1. UNCHANGED <<events, batch>> /\ (pc = "opens" => batch = <<>>)
    BY <1>3 DEF SelectNotifier, SelectMasters, NotifierDone, EndTurn, kernel
  <2> QED BY <1>1, <2>1 DEF EventsInv, OrderInv
<1> QED BY <1>2, <1>3

LEMMA SelectExact ==
  ASSUME TypeOK, Known, Exact,
         SelectNotifier \/ SelectMasters \/ ReadNotifier \/ NotifierDone \/ EndTurn
  PROVE  Exact'
<1> USE SelectFacts DEF Known, Exact
<1>1. CountInv'
  BY DEF CountInv, Active
<1>2. CASE SelectNotifier
  BY <1>1, <1>2 DEF SelectNotifier, Nothing, SeenInv, TypeOK, kernel
<1>3. CASE SelectMasters
  <2>1. UNCHANGED <<events, batch, todo>> /\ pc = "polling" /\ batch = <<>>
    BY <1>3 DEF SelectMasters, OrderInv, kernel
  <2>2. ready'.masters = Readable /\ ready'.ifd = ready.ifd
        /\ (pc' = "select" => ready' = Nothing) /\ pc' \in {"select", "notifier"}
    BY <1>3 DEF SelectMasters, TypeOK
  <2>3. \A p \in Readable : p \in Ports /\ used[p]
    BY DEF Readable, HungUp, KernelInv
  <2>4. \A p \in Readable : active[p] \/ (ready.ifd /\ p \in Pending(events))
    BY <2>1, <2>3, PendingEmpty DEF EventsInv, SeenInv
  <2>5. pc' = "select" => ready'.masters = {}
    BY <2>2 DEF Nothing
  <2> QED BY <1>1, <2>1, <2>2, <2>4, <2>5 DEF SeenInv
<1>4. CASE ReadNotifier
  <2>1. pc = "notifier" /\ pc' = "opens" /\ UNCHANGED ready /\ batch = <<>>
    BY <1>4 DEF ReadNotifier, OrderInv
  <2>2. CASE ready.ifd
    <3>1. batch' = events /\ events' = <<>>
      BY <1>4, <2>2 DEF ReadNotifier
    <3> QED BY <1>1, <2>1, <3>1, PendingEmpty DEF SeenInv
  <2>3. CASE ~ready.ifd
    <3>1. UNCHANGED <<batch, events>>
      BY <1>4, <2>3 DEF ReadNotifier
    <3> QED BY <1>1, <2>1, <2>3, <3>1 DEF SeenInv
  <2> QED BY <2>2, <2>3
<1>5. CASE NotifierDone
  <2>1. /\ pc = "opens" /\ pc' = "clients" /\ todo' = ready.masters /\ batch = <<>>
        /\ UNCHANGED <<ready, batch, events>>
    BY <1>5 DEF NotifierDone, kernel
  <2> QED BY <1>1, <2>1, PendingEmpty DEF SeenInv
<1>6. CASE EndTurn
  BY <1>1, <1>6 DEF EndTurn, Nothing, SeenInv, kernel
<1> QED BY <1>2, <1>3, <1>4, <1>5, <1>6

\* An event is handled: its port, if it still has that watch, is active from now on.
LEMMA HandleOpenFacts ==
  ASSUME TypeOK, EventsInv, HandleOpen
  PROVE  /\ Head(batch) \in Ports \union {Stale}
         /\ Head(batch) \in Ports => /\ ~active[Head(batch)] /\ used[Head(batch)]
                                     /\ Head(batch) \notin Pending(batch')
         /\ \A p \in Ports : active'[p] <=> active[p] \/ p = Head(batch)
         /\ NoRepeats(batch') /\ Pending(batch) = Pending(batch') \union {Head(batch)}
         /\ pc = "opens" /\ conns' = conns + 1
         /\ UNCHANGED <<programs, used, written, watched, events, pc, ready, todo>>
<1>1. batch # <<>> /\ batch' = Tail(batch) /\ NoRepeats(batch)
      /\ batch \in Seq(Ports \union {Stale})
  BY DEF HandleOpen, EventsInv, TypeOK
<1>2. /\ Head(batch) \in Ports \union {Stale} /\ Head(batch) \in Pending(batch)
      /\ NoRepeats(batch') /\ Pending(batch) = Pending(batch') \union {Head(batch)}
      /\ Head(batch) \in Ports => Head(batch) \notin Pending(batch')
  BY <1>1, PendingTail
<1>3. Head(batch) \in Ports => ~active[Head(batch)] /\ used[Head(batch)]
  BY <1>2 DEF EventsInv
<1>4. \A p \in Ports : active'[p] <=> active[p] \/ p = Head(batch)
  BY Zenon DEF HandleOpen
<1> QED BY <1>2, <1>3, <1>4 DEF HandleOpen, kernel

LEMMA HandleOpenKnown ==
  ASSUME TypeOK, Known, HandleOpen
  PROVE  Known'
<1> USE DEF Known
<1> DEFINE h == Head(batch)
<1>0. /\ h \in Ports \union {Stale}
      /\ h \in Ports => ~active[h] /\ used[h] /\ h \notin Pending(batch')
      /\ \A p \in Ports : active'[p] <=> active[p] \/ p = h
      /\ NoRepeats(batch') /\ Pending(batch) = Pending(batch') \union {h}
      /\ pc = "opens"
      /\ UNCHANGED <<programs, used, written, watched, events, pc, todo>>
  BY HandleOpenFacts
<1> HIDE DEF h
<1>1. KernelInv'
  BY <1>0 DEF KernelInv, Adding
<1>2. EventsInv'
  BY <1>0 DEF EventsInv
<1>3. OrderInv'
  BY <1>0 DEF OrderInv
<1> QED BY <1>1, <1>2, <1>3

LEMMA HandleOpenExact ==
  ASSUME TypeOK, Known, Exact, HandleOpen
  PROVE  Exact'
<1> USE DEF Known, Exact
<1> DEFINE h == Head(batch)
<1>0. /\ h \in Ports \union {Stale}
      /\ h \in Ports => ~active[h]
      /\ \A p \in Ports : active'[p] <=> active[p] \/ p = h
      /\ Pending(batch) = Pending(batch') \union {h}
      /\ pc = "opens" /\ conns' = conns + 1
      /\ UNCHANGED <<events, pc, ready, todo>>
  BY HandleOpenFacts
<1> HIDE DEF h
<1>1. h \in Ports
  BY <1>0 DEF SeenInv
<1>2. SeenInv'
  BY <1>0 DEF SeenInv, TypeOK
<1>3. CountInv'
  <2>1. Active' = Active \union {h} /\ h \notin Active
    BY <1>0, <1>1 DEF Active
  <2>2. IsFiniteSet(Active)
    BY ConstantsOK, FS_Subset DEF Active
  <2>3. Cardinality(Active') = Cardinality(Active) + 1
    BY <2>1, <2>2, FS_AddElement
  <2> QED BY <1>0, <2>2, <2>3, FS_CardinalityType DEF CountInv
<1> QED BY <1>2, <1>3

\* A port is read, or its read fails: nothing but what was written changes.
LEMMA ReadStep ==
  ASSUME TypeOK, NEW p \in Ports, ReadClient(p) \/ ReadFails(p)
  PROVE  (Known => Known') /\ (Exact => Exact') /\ GoneInv'
<1>1. /\ pc = "clients" /\ pc' \in {"clients", "removing"} /\ todo' \subseteq todo
      /\ UNCHANGED <<programs, used, watched, events, ready, batch, conns, active>>
  BY DEF ReadClient, ReadFails, Turn, kernel
<1>2. \A q \in Ports : ~Adding(q) /\ ~Adding(q)'
  BY <1>1 DEF Adding
<1>3. \A q \in Ports : written'[q] => written[q]
  BY DEF ReadClient, ReadFails, kernel, TypeOK
<1>4. pc' = "removing" => \A q \in Ports : First(q)' => used'[q] /\ programs'[q] = 0
  <2> SUFFICES ASSUME pc' = "removing", NEW q \in Ports, First(q)'
               PROVE  used'[q] /\ programs'[q] = 0
    OBVIOUS
  <2>1. ReadFails(p) /\ todo' = todo /\ First(p) /\ HungUp(p)
    BY DEF ReadClient, ReadFails, Turn
  <2>2. q = p
    BY <2>1, OneFirst DEF First
  <2> QED BY <1>1, <2>1, <2>2 DEF HungUp
<1>5. KernelInv => KernelInv'
  BY <1>1, <1>2, <1>3 DEF KernelInv
<1>6. EventsInv => EventsInv'
  BY <1>1 DEF EventsInv
<1>7. OrderInv => OrderInv'
  BY <1>1, <1>4 DEF OrderInv
<1>8. SeenInv => SeenInv'
  BY <1>1, <1>2 DEF SeenInv, TypeOK
<1>9. CountInv => CountInv'
  BY <1>1 DEF CountInv, Active
<1>10. GoneInv'
  BY <1>4 DEF GoneInv
<1> QED BY <1>5, <1>6, <1>7, <1>8, <1>9, <1>10 DEF Known, Exact

\* A port is made anew: nobody has it open, and no event of it is left.
LEMMA ClientGoneFacts ==
  ASSUME TypeOK, Known, NEW p \in Ports, ClientGone(p)
  PROVE  /\ pc = "removing" /\ pc' = "adding" /\ p \in todo
         /\ used[p] /\ ~watched[p] /\ batch = <<>>
         /\ UNCHANGED <<watched, ready, batch, todo, conns>>
         /\ \A q \in Ports :
              /\ ~Adding(q) /\ (Adding(q)' <=> q = p)
              /\ used'[q] <=> used[q] /\ q # p
              /\ active'[q] <=> active[q] /\ q # p
              /\ written'[q] <=> written[q] /\ q # p
              /\ programs'[q] = IF q = p THEN 0 ELSE programs[q]
         /\ Pending(events') \subseteq (Pending(events) \ {p}) \union {Stale}
         /\ Pending(events) \subseteq Pending(events') \union {p}
         /\ NoRepeats(events')
         /\ p \notin Pending(events) => events' = events
<1> USE DEF Known
<1>1. /\ pc = "removing" /\ pc' = "adding" /\ First(p)
      /\ events' = [i \in DOMAIN events |-> IF events[i] = p THEN Stale ELSE events[i]]
      /\ UNCHANGED <<watched, ready, batch, todo, conns>>
  BY DEF ClientGone, Remake
<1>2. p \in todo /\ used[p] /\ batch = <<>> /\ \A q \in Ports : First(q) => q = p
  BY <1>1, OneFirst DEF OrderInv
<1>3. \A q \in Ports : ~Adding(q) /\ (Adding(q)' <=> q = p)
  BY <1>1, <1>2 DEF Adding, First
<1>4. ~watched[p]
  BY <1>2, <1>3 DEF KernelInv
<1>5. \A q \in Ports :
        /\ used'[q] <=> used[q] /\ q # p
        /\ active'[q] <=> active[q] /\ q # p
        /\ written'[q] <=> written[q] /\ q # p
        /\ programs'[q] = IF q = p THEN 0 ELSE programs[q]
  BY DEF ClientGone, Remake, TypeOK
<1>6. /\ DOMAIN events' = DOMAIN events
      /\ \A i \in DOMAIN events : events'[i] = IF events[i] = p THEN Stale ELSE events[i]
  BY <1>1
<1>7. Stale \notin Ports
  BY ConstantsOK DEF Stale
<1>8. /\ Pending(events') \subseteq (Pending(events) \ {p}) \union {Stale}
      /\ Pending(events) \subseteq Pending(events') \union {p}
  BY <1>6, <1>7 DEF Pending
<1>9. NoRepeats(events')
  BY <1>6, <1>7 DEF NoRepeats, EventsInv
<1>10. ASSUME p \notin Pending(events)
       PROVE  events' = events
  <2>1. \A i \in DOMAIN events : events[i] # p
    BY <1>10 DEF Pending
  <2>2. events' = [i \in DOMAIN events |-> events[i]]
    BY <1>1, <2>1
  <2>3. events \in [1..Len(events) -> Ports \union {Stale}]
    BY LenProperties DEF TypeOK
  <2> QED BY <2>2, <2>3
<1> QED BY <1>1, <1>2, <1>3, <1>4, <1>5, <1>8, <1>9, <1>10

LEMMA ClientGoneKnown ==
  ASSUME TypeOK, Known, NEW p \in Ports, ClientGone(p)
  PROVE  Known'
<1> USE ClientGoneFacts DEF Known
<1>1. KernelInv'
  <2>1. \A q \in Ports : programs'[q] > 0 => q # p /\ programs[q] > 0
    BY SMT
  <2> QED BY <2>1 DEF KernelInv
<1>2. EventsInv'
  <2>1. Stale \notin Ports
    BY ConstantsOK DEF Stale
  <2>2. \A q \in Ports : q \in Pending(events') <=> q \in Pending(events) /\ q # p
    BY <2>1
  <2> QED BY <2>2, PendingEmpty DEF EventsInv
<1>3. OrderInv'
  BY DEF OrderInv
<1> QED BY <1>1, <1>2, <1>3

LEMMA ClientGoneExact ==
  ASSUME TypeOK, Known, Exact, NEW p \in Ports, ClientGone(p)
  PROVE  active[p] /\ Exact'
<1> USE ClientGoneFacts DEF Known, Exact
<1>1. active[p]
  BY DEF SeenInv
<1>2. events' = events
  BY <1>1 DEF EventsInv
<1>3. SeenInv'
  <2>1. \A q \in todo : active'[q] \/ Adding(q)'
    BY DEF SeenInv, TypeOK
  <2> QED BY <1>2, <2>1 DEF SeenInv
<1>4. CountInv'
  <2>1. Active' = Active \ {p} /\ p \in Active
    BY <1>1 DEF Active
  <2>2. IsFiniteSet(Active)
    BY ConstantsOK, FS_Subset DEF Active
  <2>3. Cardinality(Active') = Cardinality(Active) - 1
    BY <2>1, <2>2, FS_RemoveElement
  <2> QED BY <2>2, <2>3, FS_CardinalityType DEF CountInv
<1> QED BY <1>1, <1>3, <1>4

\* The new port gets its watch and leaves the count, which is not 0: the port
\* was in it.
LEMMA AddWatchStep ==
  ASSUME TypeOK, Known, NEW p \in Ports, AddWatch(p)
  PROVE  Known' /\ (Exact => Exact')
<1> USE DEF Known, Exact
<1>1. /\ pc = "adding" /\ pc' = "clients" /\ todo' = todo \ {p} /\ First(p)
      /\ watched' = [watched EXCEPT ![p] = TRUE]
      /\ conns' = IF conns > 0 THEN conns - 1 ELSE 0
      /\ UNCHANGED <<programs, used, written, events, ready, batch, active>>
  BY DEF AddWatch, Account
<1>2. \A q \in Ports : ~Adding(q)' /\ (Adding(q) <=> q = p)
  BY <1>1, OneFirst DEF Adding
<1>3. \A q \in Ports : watched'[q] <=> watched[q] \/ q = p
  BY <1>1 DEF TypeOK
<1>4. KernelInv'
  BY <1>1, <1>2, <1>3 DEF KernelInv
<1>5. EventsInv' /\ OrderInv'
  BY <1>1 DEF EventsInv, OrderInv
<1>6. SeenInv => SeenInv'
  BY <1>1, <1>2 DEF SeenInv, TypeOK
<1>7. CountInv => CountInv'
  <2>1. Active' = Active
    BY <1>1 DEF Active
  <2>2. Cardinality(Active) \in Nat
    BY ConstantsOK, FS_Subset, FS_CardinalityType DEF Active
  <2> QED BY <1>1, <2>1, <2>2 DEF CountInv
<1> QED BY <1>4, <1>5, <1>6, <1>7

-----------------------------------------------------------------------------
(* The invariant.                                                          *)

LEMMA StraysGrow ==
  ASSUME TypeOK, NEW p \in Ports, Open(p)
  PROVE  /\ InWindow(p) => Strayed' = Strayed \union {pc}
         /\ ~InWindow(p) => Strayed' = Strayed
<1>1. Strayed = Pending(strays) /\ Strayed' = Pending(strays')
  BY DEF Strayed, Pending
<1>2. CASE InWindow(p)
  <2>1. strays' = Append(strays, pc) /\ pc \in {"adding", "polling", "removing"}
    BY <1>2 DEF Open, InWindow
  <2> QED BY <1>1, <1>2, <2>1, PendingAppend DEF TypeOK
<1>3. CASE ~InWindow(p)
  BY <1>3 DEF Open, Strayed
<1> QED BY <1>2, <1>3

LEMMA OpenStep ==
  ASSUME PortsInv, TypeOK', NEW p \in Ports, Open(p)
  PROVE  PortsInv'
<1> USE DEF PortsInv
<1>1. Strayed \subseteq Strayed'
  BY StraysGrow
<1>2. ASSUME "adding" \notin Strayed'
      PROVE  Known'
  BY <1>1, <1>2, StraysGrow, OpenKnown
<1>3. ASSUME Strayed' \subseteq {"removing"}
      PROVE  Exact'
  BY <1>1, <1>3, StraysGrow, OpenExact, "adding" \notin {"removing"}, "polling" \notin {"removing"}
<1>4. ASSUME "removing" \notin Strayed'
      PROVE  GoneInv'
  <2>1. GoneInv /\ ~(pc = "removing" /\ First(p))
    BY <1>1, <1>4, StraysGrow DEF InWindow
  <2>2. UNCHANGED <<pc, todo>> /\ \A q \in Ports : q # p => programs'[q] = programs[q]
    BY DEF Open, loop, TypeOK
  <2> QED BY <2>1, <2>2 DEF GoneInv, First
<1> QED BY <1>2, <1>3, <1>4

LEMMA LoopStep ==
  ASSUME PortsInv, TypeOK', Loop, UNCHANGED strays
  PROVE  PortsInv'
<1> USE DEF PortsInv
<1>0. Strayed' = Strayed /\ (Strayed \subseteq {"removing"} => "adding" \notin Strayed)
  BY DEF Strayed
<1>1. CASE SelectNotifier \/ SelectMasters \/ ReadNotifier \/ NotifierDone \/ EndTurn
  BY <1>0, <1>1, SelectFacts, SelectKnown, SelectExact DEF GoneInv
<1>2. CASE HandleOpen
  BY <1>0, <1>2, HandleOpenKnown, HandleOpenExact DEF GoneInv, HandleOpen
<1>3. CASE \E p \in Ports : ReadClient(p) \/ ReadFails(p)
  BY <1>0, <1>3, ReadStep
<1>4. CASE \E p \in Ports : ClientGone(p)
  <2>1. pc' # "removing"
    BY <1>4 DEF ClientGone
  <2> QED BY <1>0, <1>4, <2>1, ClientGoneKnown, ClientGoneExact DEF GoneInv
<1>5. CASE \E p \in Ports : AddWatch(p)
  <2>1. pc' # "removing"
    BY <1>5 DEF AddWatch, Account
  <2> QED BY <1>0, <1>5, <2>1, AddWatchStep DEF GoneInv
<1> QED BY <1>1, <1>2, <1>3, <1>4, <1>5 DEF Loop

LEMMA InvCorrect == Spec => []PortsInv
<1>1. ASSUME PortsInv, [Next]_vars
      PROVE  PortsInv'
  <2>0. TypeOK'
    BY <1>1, NextType DEF PortsInv
  <2>1. CASE \E p \in Ports : Open(p)
    BY <1>1, <2>0, <2>1, OpenStep
  <2>2. CASE \E p \in Ports : Uses(p) /\ UNCHANGED strays
    <3>1. Strayed' = Strayed
      BY <2>2 DEF Strayed
    <3> QED BY <1>1, <2>0, <2>2, <3>1, UsesStep DEF PortsInv
  <2>3. CASE Loop /\ UNCHANGED strays
    BY <1>1, <2>0, <2>3, LoopStep
  <2>4. CASE UNCHANGED vars
    <3>1. UNCHANGED <<programs, used, written, watched, events, pc, ready, batch, todo,
                      conns, active, strays>>
      BY <2>4 DEF vars, kernel, loop
    <3>2. \A p \in Ports : (First(p)' <=> First(p)) /\ (Adding(p)' <=> Adding(p))
      BY <3>1 DEF First, Adding
    <3>3. (Known => Known') /\ (GoneInv => GoneInv')
      BY <3>1, <3>2 DEF Known, KernelInv, EventsInv, OrderInv, GoneInv
    <3>4. TypeOK => (Exact => Exact')
      BY <3>1, <3>2 DEF Exact, SeenInv, CountInv, Active, TypeOK
    <3>5. Strayed' = Strayed
      BY <3>1 DEF Strayed
    <3> QED BY <1>1, <2>0, <3>3, <3>4, <3>5 DEF PortsInv
  <2> QED BY <1>1, <2>1, <2>2, <2>3, <2>4 DEF Next
<1> QED BY <1>1, InitInv, PTL DEF Spec

\* client_connections, by which the loop decides whether the GPS is wanted, is
\* the number of the ports known to be in use, though HandleOpen counts up and
\* client_remove and the clamp of client_add count down, a step apart, as long as
\* no port is opened before its watch or while pselect looks.
THEOREM CountCorrect == Spec => []CountIsExact
<1>1. PortsInv => CountIsExact
  <2>1. Active = {p \in Ports : active[p]} /\ Cardinality(Active) \in Nat
    BY ConstantsOK, FS_Subset, FS_CardinalityType DEF Active
  <2> QED BY <2>1 DEF PortsInv, Exact, CountInv, CountIsExact, Active
<1> QED BY <1>1, InvCorrect, PTL

\* No client is forgotten or made up by the notifier and the client part, in
\* whichever window it opens its port, as long as that is not before the watch.
THEOREM NoClientForgotten == Spec => []UsedIsKnown
<1>1. PortsInv => UsedIsKnown
  BY PendingConcat DEF PortsInv, Known, EventsInv, UsedIsKnown, TypeOK
<1> QED BY <1>1, InvCorrect, PTL

-----------------------------------------------------------------------------
(* The accounting implements ClientCount.                                  *)

PhaseOf(a, u) == IF a THEN "counted" ELSE IF u THEN "waiting" ELSE "free"

LEMMA PhaseFacts ==
  /\ phase = [p \in Ports |-> PhaseOf(active[p], used[p])]
  /\ phase' = [p \in Ports |-> PhaseOf(active'[p], used'[p])]
BY Zenon DEF phase, PhaseOf

\* Only what a step changes of active and used changes a phase.
LEMMA PhaseStutters ==
  ASSUME UNCHANGED <<used, active>>
  PROVE  phase' = phase
BY PhaseFacts, Zenon

opened == [p \in Ports |-> programs[p] > 0]

LEMMA OpenStutters ==
  ASSUME UNCHANGED programs
  PROVE  opened' = opened
BY Zenon DEF opened

LEMMA OpenedAt ==
  ASSUME NEW p \in Ports
  PROVE  opened[p] = (programs[p] > 0)
BY Zenon DEF opened

LEMMA OpenedChanges ==
  ASSUME NEW p \in Ports, NEW is, (programs'[p] > 0) = is,
         \A q \in Ports : q # p => programs'[q] = programs[q]
  PROVE  opened' = [opened EXCEPT ![p] = is]
<1>1. opened' = [q \in Ports |-> programs'[q] > 0]
  BY Zenon DEF opened
<1>2. [opened EXCEPT ![p] = is] = [q \in Ports |-> IF q = p THEN is ELSE opened[q]]
  BY Zenon DEF opened
<1>3. ASSUME NEW q \in Ports
      PROVE  (programs'[q] > 0) = (IF q = p THEN is ELSE opened[q])
  <2>1. CASE q = p
    BY <2>1, Zenon
  <2>2. CASE q # p
    BY <2>2, OpenedAt, Zenon
  <2> QED BY <2>1, <2>2
<1> QED BY <1>1, <1>2, <1>3, Zenon

late == strays # <<>>

LEMMA LateStutters ==
  ASSUME UNCHANGED strays
  PROVE  late' = late
BY Zenon DEF late

LEMMA PromiseVars ==
  /\ Promise!vars = <<opened, phase, late>>
  /\ (Promise!vars)' = <<opened', phase', late'>>
BY Zenon DEF Promise!vars, opened, late

LEMMA ProgramRefines ==
  ASSUME TypeOK, Known, NEW p \in Ports, Open(p) \/ Close(p), UNCHANGED strays
  PROVE  [Promise!Next]_(Promise!vars)
<1> USE LateStutters DEF Known
<1>1. /\ opened = [q \in Ports |-> programs[q] > 0]
      /\ opened' = [q \in Ports |-> programs'[q] > 0]
  BY Zenon DEF opened
<1>2. CASE Open(p) /\ programs[p] = 0
  <2>1. /\ programs' = [programs EXCEPT ![p] = 1] /\ used' = [used EXCEPT ![p] = TRUE]
        /\ active' = active
    BY <1>2 DEF Open, TypeOK
  <2>2. ~opened[p] /\ opened' = [opened EXCEPT ![p] = TRUE]
    <3>1. /\ (programs[p] > 0) = FALSE /\ (programs'[p] > 0) = TRUE
          /\ \A q \in Ports : q # p => programs'[q] = programs[q]
      BY <1>2, <2>1 DEF TypeOK
    <3> QED BY <3>1, OpenedAt, OpenedChanges, Zenon
  <2>3. phase' = [phase EXCEPT ![p] = IF @ = "free" THEN "waiting" ELSE @]
    BY <2>1, PhaseFacts DEF PhaseOf, TypeOK
  <2>4. Promise!Open(p)
    BY <2>2, <2>3 DEF Promise!Open, opened, late
  <2> QED BY <2>4 DEF Promise!Next, Promise!Promised
<1>3. CASE Open(p) /\ programs[p] # 0
  <2>1. used[p] /\ programs' = [programs EXCEPT ![p] = @ + 1]
        /\ used' = [used EXCEPT ![p] = TRUE] /\ active' = active
    BY <1>3 DEF Open, KernelInv, TypeOK
  <2>2. opened' = opened
    BY <1>1, <1>3, <2>1 DEF TypeOK
  <2>3. used' = used
    BY <2>1 DEF TypeOK
  <2> QED BY <2>1, <2>2, <2>3, PhaseStutters, PromiseVars
<1>4. CASE Close(p) /\ programs[p] = 1
  <2>1. /\ programs' = [programs EXCEPT ![p] = 0] /\ UNCHANGED <<used, active>>
    BY <1>4 DEF Close, TypeOK
  <2>2. opened[p] /\ opened' = [opened EXCEPT ![p] = FALSE]
    <3>1. /\ (programs[p] > 0) = TRUE /\ (programs'[p] > 0) = FALSE
          /\ \A q \in Ports : q # p => programs'[q] = programs[q]
      BY <1>4, <2>1 DEF TypeOK
    <3> QED BY <3>1, OpenedAt, OpenedChanges, Zenon
  <2>3. Promise!Close(p)
    BY <2>1, <2>2, PhaseStutters DEF Promise!Close, opened, late
  <2> QED BY <2>3 DEF Promise!Next, Promise!Promised
<1>5. CASE Close(p) /\ programs[p] # 1
  <2>1. /\ programs' = [programs EXCEPT ![p] = @ - 1] /\ UNCHANGED <<used, active>>
        /\ programs[p] \in Nat /\ programs[p] > 1
    BY <1>5, ConstantsOK DEF Close, TypeOK
  <2>2. opened' = opened
    BY <1>1, <2>1 DEF TypeOK
  <2> QED BY <2>1, <2>2, PhaseStutters, PromiseVars
<1> QED BY <1>2, <1>3, <1>4, <1>5

LEMMA HandleOpenRefines ==
  ASSUME TypeOK, Known, Exact, HandleOpen, UNCHANGED strays
  PROVE  Promise!Next
<1> DEFINE h == Head(batch)
<1>1. /\ h \in Ports \union {Stale} /\ (h \in Ports => ~active[h] /\ used[h])
      /\ h \in Pending(batch)
      /\ \A p \in Ports : active'[p] <=> active[p] \/ p = h
      /\ UNCHANGED <<used, programs>>
  BY HandleOpenFacts DEF Known
<1> HIDE DEF h
<1>2. h \in Ports /\ ~active[h] /\ used[h]
  BY <1>1 DEF Exact, SeenInv
<1>3. phase[h] = "waiting"
  BY <1>2, PhaseFacts DEF PhaseOf
<1>4. \A p \in Ports : PhaseOf(active'[p], used'[p])
                         = IF p = h THEN "counted" ELSE PhaseOf(active[p], used[p])
  BY <1>1 DEF PhaseOf
<1>5. phase' = [phase EXCEPT ![h] = "counted"]
  BY <1>4, PhaseFacts
<1>6. Promise!Count(h)
  BY <1>1, <1>3, <1>5, OpenStutters, LateStutters DEF Promise!Count, opened, late
<1> QED BY <1>2, <1>6 DEF Promise!Next, Promise!Promised

LEMMA ClientGoneRefines ==
  ASSUME TypeOK, Known, Exact, GoneInv, NEW p \in Ports, ClientGone(p), UNCHANGED strays
  PROVE  Promise!Next
<1>1. /\ active[p] /\ programs[p] = 0
      /\ \A q \in Ports : /\ used'[q] <=> used[q] /\ q # p
                          /\ active'[q] <=> active[q] /\ q # p
                          /\ programs'[q] = IF q = p THEN 0 ELSE programs[q]
  BY ClientGoneFacts, ClientGoneExact DEF ClientGone, GoneInv
<1>2. phase[p] = "counted"
  BY <1>1, PhaseFacts DEF PhaseOf
<1>3. \A q \in Ports : PhaseOf(active'[q], used'[q])
                         = IF q = p THEN "free" ELSE PhaseOf(active[q], used[q])
  BY <1>1 DEF PhaseOf
<1>4. phase' = [phase EXCEPT ![p] = "free"]
  BY <1>3, PhaseFacts
<1>5. UNCHANGED programs
  BY <1>1 DEF ClientGone, Remake, TypeOK
<1>6. ~opened[p]
  <2>1. ~(programs[p] > 0)
    BY <1>1
  <2> QED BY <2>1, OpenedAt, Zenon
<1>7. Promise!Drop(p)
  BY <1>2, <1>4, <1>5, <1>6, OpenStutters, LateStutters DEF Promise!Drop, opened, late
<1> QED BY <1>7 DEF Promise!Next, Promise!Promised

\* Until a port is opened in a window of the loop, every client that opens its
\* port is counted once, and dropped only after it has gone.
THEOREM PromiseKept == Spec => Promised
<1>1. Init => Promise!Init
  <2> SUFFICES ASSUME Init PROVE Promise!Init
    OBVIOUS
  <2>1. opened = [p \in Ports |-> FALSE]
    <3>1. \A p \in Ports : (programs[p] > 0) = FALSE
      BY DEF Init
    <3> QED BY <3>1, Zenon DEF opened
  <2>2. phase = [p \in Ports |-> "free"]
    BY PhaseFacts DEF PhaseOf, Init
  <2>3. (strays # <<>>) = FALSE
    BY DEF Init
  <2> QED BY <2>1, <2>2, <2>3, Zenon DEF Promise!Init, opened
<1>2. ASSUME PortsInv, [Next]_vars
      PROVE  [Promise!Next]_(Promise!vars)
  <2>1. CASE strays' # <<>>
    <3>1. (strays' # <<>>) = TRUE
      BY <2>1
    <3> QED BY <3>1, Zenon DEF Promise!Next
  <2>2. CASE strays' = <<>> /\ strays # <<>>
    <3>1. ASSUME NEW p \in Ports, Open(p)
          PROVE  FALSE
      <4>1. CASE InWindow(p)
        <5>1. strays' = Append(strays, pc) /\ pc \in {"adding", "polling", "removing"}
          BY <3>1, <4>1 DEF Open, InWindow
        <5>2. strays \in Seq({"adding", "polling", "removing"})
          BY <1>2 DEF PortsInv, TypeOK
        <5>3. Append(strays, pc) # <<>>
          BY <5>1, <5>2
        <5> QED BY <2>2, <5>1, <5>3
      <4>2. CASE ~InWindow(p)
        BY <2>2, <3>1, <4>2 DEF Open
      <4> QED BY <4>1, <4>2
    <3> QED BY <1>2, <2>2, <3>1 DEF Next, vars
  <2>3. CASE strays' = <<>> /\ strays = <<>>
    <3>0. TypeOK /\ Known /\ Exact /\ GoneInv /\ UNCHANGED strays
      <4>1. Strayed = {}
        BY <2>3 DEF Strayed
      <4> QED BY <1>2, <2>3, <4>1 DEF PortsInv
    <3>1. ASSUME UNCHANGED <<programs, used, active>>
          PROVE  [Promise!Next]_(Promise!vars)
      BY <3>0, <3>1, PhaseStutters, OpenStutters, LateStutters, PromiseVars
    <3>2. CASE \E p \in Ports : Open(p) \/ Close(p)
      BY <3>0, <3>2, ProgramRefines
    <3>3. CASE \E p \in Ports : Write(p) \/ ReadClient(p) \/ ReadFails(p) \/ AddWatch(p)
      BY <3>1, <3>3 DEF Write, ReadClient, ReadFails, AddWatch, kernel
    <3>4. CASE HandleOpen
      BY <3>0, <3>4, HandleOpenRefines
    <3>5. CASE \E p \in Ports : ClientGone(p)
      BY <3>0, <3>5, ClientGoneRefines
    <3>6. CASE SelectNotifier \/ SelectMasters \/ ReadNotifier \/ NotifierDone \/ EndTurn
      BY <3>1, <3>6 DEF SelectNotifier, SelectMasters, ReadNotifier, NotifierDone, EndTurn,
         kernel
    <3>7. CASE UNCHANGED vars
      BY <3>1, <3>7 DEF vars, kernel
    <3> QED BY <1>2, <3>2, <3>3, <3>4, <3>5, <3>6, <3>7 DEF Next, Loop, Uses
  <2> QED BY <2>1, <2>2, <2>3
<1> QED BY <1>1, <1>2, InvCorrect, PTL DEF Spec, Promised, Promise!Spec

=============================================================================
