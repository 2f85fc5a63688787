-------------------------- MODULE InputPins_proofs --------------------------
(***************************************************************************)
(* Theorems about InputPins for any pins, modes and size of the task pool. *)
(***************************************************************************)
EXTENDS InputPins, SequenceTheorems, WellFoundedInduction, TLAPS

USE PinsAssumption, TasksAssumption
    DEF PinsAssumption, TasksAssumption, Modes

-----------------------------------------------------------------------------
(* The inductive invariant behind MaskFollowsUse.                           *)

\* What has been loaded is about to be stored.
TypeInv == TypeOK /\ (loaded => todo # <<>>)

\* A call to IMR1 is one access to an auxiliary pin, or one to each limit; an
\* unmasking is the end of a debounce of a pin in use, and no edge of a pin that is
\* being disabled is on its way.
TodoOK ==
    /\ \/ \A i \in DOMAIN todo : todo[i].op # "unmask" /\ todo[i].pin \in Core
       \/ Len(todo) = 1 /\ todo[1].pin \in Aux
    /\ \A p \in Aux : Doing("unmask", p) => p \in Debounced /\ Armed(p)
    /\ \A p \in Debounced : Doing("disable", p) => p \notin pr \union ifg /\ ~HasTask(p)

\* Only pins in use are enabled, latched, taken by the handler or debounced.
UsedOnly ==
    /\ \A p \in imr \union pr \union ifg \union reg : Armed(p)
    /\ \A p \in Pins : HasTask(p) => p \in Debounced /\ Armed(p)

\* A pin in use is enabled, in the register and in the copy about to be stored,
\* or its debounce will do so.
Unmasked ==
    \A p \in Pins : Armed(p) =>
        \/ p \in imr /\ (loaded => p \in reg)
        \/ HasTask(p)
        \/ Doing("unmask", p)

MaskInv ==
    /\ TypeInv /\ TodoOK /\ UsedOnly /\ Unmasked
    /\ isr = "none" => ifg = {}
    /\ ~loaded => reg = {}

-----------------------------------------------------------------------------
(* What EdgesCountOnce needs besides.                                       *)

\* Pins that are served together are limits that keep their level; an auxiliary pin
\* is alone, enabled and not debounced when the handler has taken it.
Alone ==
    /\ \A s \in Together : s \subseteq Steady
    /\ \A p, q \in ifg : p # q => p \in Core
    /\ \A p \in ifg \intersect Aux : p \in imr
    /\ loaded => Debounced \intersect ((pr \intersect imr) \union ifg) = {}

\* A pin is debounced once at a time, masked for that time, and not enabled within it.
OneDebounce ==
    /\ \A i, j \in DOMAIN tasks : tasks[i].pin = tasks[j].pin => i = j
    /\ \A i \in DOMAIN tasks : tasks[i].fn = "aux"
    /\ \A p \in Pins : HasTask(p) => p \notin imr /\ p \notin reg /\ ~Doing("unmask", p)
    /\ \A p \in Pins : Doing("unmask", p) => p \notin imr
    /\ \A p \in Debounced : Doing("enable", p) => p \notin pr \union ifg /\ ~HasTask(p)

\* An edge that is owed is under way, it is of a pin in use and its level holds; a
\* wait is for the edge that the debounce task will look for.
OwedOK ==
    /\ \A p \in owed \ PullupOff :
         /\ p \in pr \union ifg \/ HasTask(p)
         /\ Armed(p) /\ Selects(Trigger(p), p \in high)
         /\ isr = "aux" /\ p \in Core => p \in pr
    /\ await.pin \in want => await.edge = Mode[await.pin]
    /\ await.pin \in Debounced \ want => await.edge = "rising"

EdgesInv == MaskInv /\ Alone /\ OneDebounce /\ OwedOK

-----------------------------------------------------------------------------
(* Lemmas about the operators of the model.                                 *)

Tasks == [fn : {"core", "aux"}, pin : Pins]

\* The handler takes one of the pins that are latched.
LEMMA LowestIn ==
    ASSUME NEW S \in SUBSET Pins, S # {}
    PROVE  Lowest(S) \in S
<1> DEFINE R == {x \in Nat \X Nat : x[1] < x[2]}
<1>1. IsWellFoundedOn(R, Nat)
  BY NatLessThanWellFounded DEF OpToRel
<1>2. \E p \in S : \A q \in S : ~(<<q, p>> \in R)
  <2> HIDE DEF R
  <2> QED BY <1>1, WFMin
<1>3. PICK p \in S : \A q \in S : ~(<<q, p>> \in R)
  BY <1>2
<1>4. \A q \in S : p <= q
  <2> SUFFICES ASSUME NEW q \in S PROVE p <= q
    OBVIOUS
  <2>1. p \in Nat /\ q \in Nat /\ ~(q < p)
    BY <1>3
  <2> QED BY <2>1
<1> QED BY <1>4 DEF Lowest

\* A task is added behind the others.
LEMMA TaskAdded ==
    ASSUME tasks \in Seq(Tasks), NEW fn \in {"core", "aux"}, NEW p \in Pins, AddTask(fn, p)
    PROVE  /\ tasks' \in Seq(Tasks) /\ Len(tasks') <= MaxTasks
           /\ Len(tasks') = Len(tasks) + 1
           /\ \A i \in DOMAIN tasks : tasks'[i] = tasks[i]
           /\ tasks'[Len(tasks')] = [fn |-> fn, pin |-> p]
           /\ \A q \in Pins : HasTask(q)' <=> (HasTask(q) \/ q = p)
<1>1. Len(tasks) < MaxTasks /\ tasks' = Append(tasks, [fn |-> fn, pin |-> p])
  BY DEF AddTask
<1>2. /\ tasks' \in Seq(Tasks) /\ Len(tasks') = Len(tasks) + 1
      /\ \A i \in DOMAIN tasks : tasks'[i] = tasks[i]
      /\ tasks'[Len(tasks')] = [fn |-> fn, pin |-> p]
  BY <1>1 DEF Tasks
<1>3. ASSUME NEW q \in Pins PROVE HasTask(q)' <=> (HasTask(q) \/ q = p)
  <2>1. /\ DOMAIN tasks' = DOMAIN tasks \union {Len(tasks')}
        /\ tasks'[Len(tasks')].pin = p
    BY <1>2
  <2> QED BY <1>2, <2>1, Zenon DEF HasTask
<1> QED BY <1>1, <1>2, <1>3

\* The oldest task is taken.
LEMMA TaskTaken ==
    ASSUME tasks \in Seq(Tasks), tasks # <<>>, tasks' = Tail(tasks)
    PROVE  /\ tasks' \in Seq(Tasks) /\ Len(tasks') = Len(tasks) - 1 /\ Len(tasks) \in Nat
           /\ Head(tasks) \in Tasks /\ HasTask(Head(tasks).pin) /\ Head(tasks) = tasks[1]
           /\ \A i \in DOMAIN tasks' : i + 1 \in DOMAIN tasks /\ tasks'[i] = tasks[i + 1]
           /\ \A q \in Pins : HasTask(q) <=> (HasTask(q)' \/ q = Head(tasks).pin)
<1>1. /\ tasks' \in Seq(Tasks) /\ Len(tasks') = Len(tasks) - 1 /\ Len(tasks) \in Nat
      /\ Head(tasks) \in Tasks /\ 1 \in DOMAIN tasks /\ Head(tasks) = tasks[1]
      /\ \A i \in DOMAIN tasks' : i + 1 \in DOMAIN tasks /\ tasks'[i] = tasks[i + 1]
      /\ \A i \in DOMAIN tasks : i # 1 => i - 1 \in DOMAIN tasks'
  OBVIOUS
<1>2. HasTask(Head(tasks).pin)
  BY <1>1 DEF HasTask
<1>3. ASSUME NEW q \in Pins PROVE HasTask(q) <=> (HasTask(q)' \/ q = Head(tasks).pin)
  <2>1. HasTask(q)' => HasTask(q)
    BY <1>1 DEF HasTask
  <2>2. ASSUME NEW i \in DOMAIN tasks, tasks[i].pin = q
        PROVE  HasTask(q)' \/ q = Head(tasks).pin
    <3>1. CASE i = 1
      BY <1>1, <2>2, <3>1
    <3>2. CASE i # 1
      <4>1. i - 1 \in DOMAIN tasks' /\ i \in Nat
        BY <1>1, <3>2
      <4>2. tasks'[i - 1] = tasks[(i - 1) + 1] /\ (i - 1) + 1 = i
        BY <1>1, <4>1
      <4> QED BY <2>2, <4>1, <4>2 DEF HasTask
    <3> QED BY <3>1, <3>2
  <2> QED BY <1>2, <2>1, <2>2 DEF HasTask
<1> QED BY <1>1, <1>2, <1>3

\* One access to IMR1 is called for.
LEMMA OneAccess ==
    ASSUME NEW op \in {"enable", "disable", "unmask"}, NEW p \in Pins,
           todo' = <<[op |-> op, pin |-> p]>>
    PROVE  /\ todo' \in Seq(Ops) /\ todo' # <<>> /\ Len(todo') = 1
           /\ todo'[1].pin = p
           /\ \A o, q : Doing(o, q)' <=> (o = op /\ q = p)
<1>1. [op |-> op, pin |-> p] \in Ops
  BY DEF Ops
<1>2. todo' \in Seq(Ops) /\ todo' # <<>> /\ Len(todo') = 1 /\ todo'[1].pin = p
  BY <1>1
<1>3. Head(todo') = [op |-> op, pin |-> p]
  BY <1>1, <1>2
<1> QED BY <1>2, <1>3 DEF Doing

\* An access to IMR1 for each limit is called for.
LEMMA LimitAccesses ==
    ASSUME NEW enabled, LimitsEnable(enabled)
    PROVE  /\ todo' \in Seq(Ops)
           /\ \A i \in DOMAIN todo' : todo'[i].op \in {"enable", "disable"} /\ todo'[i].pin \in Core
<1> DEFINE L(i) == LimitInputs[Len(LimitInputs) + 1 - i]
           A(i) == [op |-> IF L(i) \in enabled THEN "enable" ELSE "disable", pin |-> L(i)]
<1>1. todo' = [i \in 1..Len(LimitInputs) |-> A(i)]
  BY DEF LimitsEnable
<1>2. ASSUME NEW i \in 1..Len(LimitInputs)
      PROVE  L(i) \in Core /\ L(i) \in Pins
  <2>1. Len(LimitInputs) + 1 - i \in DOMAIN LimitInputs
    OBVIOUS
  <2> QED BY <2>1 DEF Core
<1>3. \A i \in 1..Len(LimitInputs) :
        A(i) \in Ops /\ A(i).op \in {"enable", "disable"} /\ A(i).pin \in Core
  BY <1>2 DEF Ops
<1>4. todo' \in [1..Len(LimitInputs) -> Ops]
  BY <1>1, <1>3
<1>5. Len(LimitInputs) \in Nat
  OBVIOUS
<1>6. todo' \in Seq(Ops)
  BY <1>4, <1>5, SeqDef
<1> QED BY <1>1, <1>3, <1>6

-----------------------------------------------------------------------------
(* Every step keeps the types.                                              *)

USE DEF core, imr1, fg

\* The initial state is well typed.
LEMMA TypeInit == Init => TypeOK
<1> SUFFICES ASSUME Init PROVE TypeOK
  OBVIOUS
<1>1. loaded \in BOOLEAN /\ event \in BOOLEAN
  BY Zenon DEF Init
<1> QED BY <1>1 DEF Init, TypeOK

\* The two variables that are true or false.
LEMMA BooleanStep ==
    ASSUME TypeOK, [Next]_vars
    PROVE  loaded' \in BOOLEAN /\ event' \in BOOLEAN
<1>0. loaded \in BOOLEAN /\ event \in BOOLEAN
  BY DEF TypeOK
<1>1. CASE \E p \in Pins : Change(p)
  BY <1>0, <1>1, Zenon DEF Change
<1>2. CASE Handler
  BY <1>0, <1>2, Zenon DEF Handler, Enter, CorePinIrq, AuxPinIrq, IoportsEvent
<1>3. CASE RunTask
  BY <1>0, <1>3, Zenon DEF RunTask, IoportsEvent
<1>4. CASE Call
  BY <1>0, <1>4, Zenon DEF Call, LimitsEnable, Register, Unregister, WaitBegin, WaitEnd, GpioIrqEnable
<1>5. CASE Imr_Load \/ Imr_Store
  BY <1>0, <1>5, Zenon DEF Imr_Load, Imr_Store
<1>6. CASE UNCHANGED vars
  BY <1>0, <1>6, Zenon DEF vars
<1> QED BY <1>1, <1>2, <1>3, <1>4, <1>5, <1>6 DEF Next

\* Every step keeps the types.
LEMMA TypeStep ==
    ASSUME TypeInv, [Next]_vars
    PROVE  TypeInv'
<1> USE DEF TypeInv, TypeOK
<1>b. loaded' \in BOOLEAN /\ event' \in BOOLEAN
  BY BooleanStep
<1>c. Core \subseteq Pins
  BY DEF Core
<1>t. tasks \in Seq(Tasks)
  BY DEF Tasks
<1>1. ASSUME NEW p \in Pins, Change(p)
      PROVE  TypeInv'
  <2>1. /\ high' \subseteq Pins /\ pr' \subseteq Pins /\ owed' \subseteq Pins
        /\ UNCHANGED <<imr, tasks, core, fg, event, want>>
    <3>1. high' = (IF p \in high THEN high \ {p} ELSE high \union {p})
      BY <1>1 DEF Change
    <3>2. pr' = pr \/ pr' = pr \union {p}
      BY <1>1 DEF Change, Latch
    <3>3. owed' = owed \/ owed' = owed \union {p} \/ owed' = owed \ {p}
      BY <1>1 DEF Change
    <3>4. UNCHANGED <<imr, tasks, core, fg, event, want>>
      BY <1>1 DEF Change
    <3> QED BY <3>1, <3>2, <3>3, <3>4
  <2> QED BY <1>b, <2>1
<1>2. CASE Enter
  BY <1>b, <1>2 DEF Enter
<1>3. CASE CorePinIrq
  <2>1. /\ isr' \in {"none", "core", "aux"} /\ owed' \subseteq Pins
        /\ UNCHANGED <<high, pr, ifg, fg, event, want>>
    <3>1. /\ isr' = "aux" /\ UNCHANGED <<high, pr, ifg, fg, event, want>>
          /\ \/ UNCHANGED owed
             \/ CoreReport(Lowest(ifg))
      BY <1>3, ZenonT(60) DEF CorePinIrq
    <3>2. CoreReport(Lowest(ifg)) => owed' \subseteq owed
      BY ZenonT(60) DEF CoreReport
    <3> QED BY <3>1, <3>2
  <2>2. /\ imr' \subseteq Pins
        /\ tasks' \in Seq(Tasks) /\ Len(tasks') <= MaxTasks
    <3>1. CASE ifg \intersect Core = {}
      BY <1>3, <1>t, <3>1 DEF CorePinIrq
    <3>2. CASE ifg \intersect Core # {}
      <4>1. Lowest(ifg) \in Pins
        BY <3>2, LowestIn
      <4>2. /\ imr' = imr \ {Lowest(ifg)} \/ imr' = imr \union {Lowest(ifg)}
            /\ AddTask("core", Lowest(ifg)) \/ UNCHANGED tasks
        BY <1>3, <3>2 DEF CorePinIrq
      <4> QED BY <1>t, <4>1, <4>2, TaskAdded
    <3> QED BY <3>1, <3>2
  <2> QED BY <1>b, <2>1, <2>2 DEF Tasks
<1>4. CASE AuxPinIrq
  <2>1. /\ isr' = "none" /\ ifg' = {} /\ owed' \subseteq Pins /\ imr' \subseteq Pins
        /\ UNCHANGED <<high, pr, fg, want>>
    <3>1. owed' = owed \/ owed' = owed \ {Lowest(ifg \intersect Aux)}
      BY <1>4 DEF AuxPinIrq, IoportsEvent
    <3>2. imr' = imr \/ imr' = imr \ {Lowest(ifg \intersect Aux)}
      BY <1>4 DEF AuxPinIrq
    <3> QED BY <1>4, <3>1, <3>2 DEF AuxPinIrq
  <2>2. tasks' \in Seq(Tasks) /\ Len(tasks') <= MaxTasks
    <3>1. CASE UNCHANGED tasks
      BY <1>t, <3>1
    <3>2. CASE ifg \intersect Aux # {} /\ AddTask("aux", Lowest(ifg \intersect Aux))
      <4>1. Lowest(ifg \intersect Aux) \in Pins
        <5>1. ifg \intersect Aux \in SUBSET Pins
          OBVIOUS
        <5> QED BY <3>2, <5>1, LowestIn
      <4> QED BY <1>t, <3>2, <4>1, TaskAdded
    <3> QED BY <1>4, <3>1, <3>2 DEF AuxPinIrq
  <2> QED BY <1>b, <2>1, <2>2 DEF Tasks
<1>5. CASE RunTask
  <2>1. /\ tasks # <<>> /\ tasks' = Tail(tasks)
        /\ todo' = <<[op |-> "unmask", pin |-> Head(tasks).pin]>> /\ owed' \subseteq Pins
        /\ UNCHANGED <<high, pr, imr, isr, ifg, loaded, reg, await, want>>
    <3>1. /\ tasks # <<>> /\ tasks' = Tail(tasks)
          /\ todo' = <<[op |-> "unmask", pin |-> Head(tasks).pin]>> /\ owed' \subseteq Pins
          /\ UNCHANGED <<high, pr, imr, core, imr1, await, want>>
      BY <1>5, ZenonT(60) DEF RunTask, CoreReport, IoportsEvent
    <3> QED BY <3>1 DEF core, imr1
  <2>2. Head(tasks).pin \in Pins /\ tasks' \in Seq(Tasks) /\ Len(tasks') <= MaxTasks
    BY <1>t, <2>1, TaskTaken DEF Tasks
  <2>3. todo' \in Seq(Ops)
    BY <2>1, <2>2, OneAccess
  <2> QED BY <1>b, <2>1, <2>2, <2>3 DEF Tasks
<1>6. ASSUME NEW enabled \in SUBSET Core, LimitsEnable(enabled)
      PROVE  TypeInv'
  <2>1. todo' \in Seq(Ops)
    BY <1>6, LimitAccesses
  <2>2. todo = <<>> /\ UNCHANGED <<high, pr, imr, tasks, core, imr1, await, event, want, owed>>
    BY <1>6 DEF LimitsEnable, Free
  <2> QED BY <1>b, <2>1, <2>2
<1>7. ASSUME NEW p \in Aux, NEW op \in {"enable", "disable"}, GpioIrqEnable(p, op)
      PROVE  /\ todo' \in Seq(Ops) /\ todo' # <<>> /\ loaded' = loaded
             /\ UNCHANGED <<high, pr, imr, tasks, isr, ifg, reg, want, owed>>
  <2>1. todo' = <<[op |-> op, pin |-> p]>> /\ p \in Pins
    BY <1>7 DEF GpioIrqEnable, Aux
  <2>2. todo' \in Seq(Ops) /\ todo' # <<>>
    BY <2>1, OneAccess
  <2> QED BY <1>7, <2>2 DEF GpioIrqEnable
<1>8. ASSUME NEW p \in Aux, Register(p) \/ Unregister(p)
      PROVE  TypeInv'
  <2>1. UNCHANGED await
    BY <1>8 DEF Register, Unregister
  <2>2. CASE GpioIrqEnable(p, "enable") \/ GpioIrqEnable(p, "disable")
    BY <1>b, <1>7, <2>1, <2>2
  <2>3. CASE ~(GpioIrqEnable(p, "enable") \/ GpioIrqEnable(p, "disable"))
    <3>1. /\ imr' = imr \ {p} /\ want' = want \ {p} /\ owed' = owed \ {p}
          /\ UNCHANGED <<high, pr, tasks, isr, ifg, todo, loaded, reg>>
      BY <1>8, <2>3, SMTT(30) DEF Register, Unregister, core, fg, imr1
    <3>2. imr' \subseteq Pins /\ want' \subseteq Pins /\ owed' \subseteq Pins
      BY <3>1
    <3> QED BY <1>b, <2>1, <3>1, <3>2
  <2> QED BY <2>2, <2>3
<1>9. ASSUME NEW p \in Aux, NEW edge \in {"rising", "falling"}, WaitBegin(p, edge)
      PROVE  TypeInv'
  <2>1. await' \in [pin : Aux, edge : {"rising", "falling"}] /\ GpioIrqEnable(p, "enable")
    BY <1>9 DEF WaitBegin
  <2> QED BY <1>b, <1>7, <2>1
<1>10. CASE WaitEnd
  <2>1. await.pin \in Aux /\ (await' = NoPin \/ UNCHANGED await)
    BY <1>10 DEF WaitEnd
  <2>2. GpioIrqEnable(await.pin, "enable") \/ GpioIrqEnable(await.pin, "disable")
    BY <1>10 DEF WaitEnd
  <2> QED BY <1>b, <1>7, <2>1, <2>2
<1>11. CASE Imr_Load
  BY <1>b, <1>11 DEF Imr_Load
<1>12. CASE Imr_Store
  <2>0. todo # <<>> /\ Head(todo) \in Ops
    BY <1>12 DEF Imr_Store
  <2>1. /\ imr' = (IF Head(todo).op = "disable" THEN reg \ {Head(todo).pin}
                   ELSE reg \union {Head(todo).pin})
        /\ want' \in {want, want \ {Head(todo).pin}, want \union {Head(todo).pin}}
        /\ owed' \subseteq owed /\ await' \in {NoPin, await}
        /\ todo' = Tail(todo) /\ reg' = {}
        /\ UNCHANGED <<high, pr, tasks, core, event>>
    BY <1>12, Zenon DEF Imr_Store, core
  <2>2. Head(todo).pin \in Pins
    BY <2>0 DEF Ops
  <2>3. todo' \in Seq(Ops)
    BY <2>0, <2>1
  <2> QED BY <1>b, <1>12, <2>1, <2>2, <2>3 DEF Imr_Store
<1>13. CASE UNCHANGED vars
  BY <1>b, <1>13 DEF vars
<1>14. CASE Call
  <2> HIDE DEF TypeInv, TypeOK
  <2>1. CASE \E p \in Aux : Register(p) \/ Unregister(p)
    BY <1>8, <2>1
  <2>2. CASE \E p \in Aux, edge \in {"rising", "falling"} : WaitBegin(p, edge)
    BY <1>9, <2>2
  <2> QED BY <1>6, <1>10, <1>14, <2>1, <2>2 DEF Call
<1> QED BY <1>1, <1>2, <1>3, <1>4, <1>5, <1>11, <1>12, <1>13, <1>14 DEF Next, Handler

\* Every variable keeps its type, and the task pool its size.
THEOREM TypesHold == Spec => []TypeOK
<1>1. Init => TypeInv
  BY TypeInit, Zenon DEF TypeInv, Init
<1>2. TypeInv => TypeOK
  BY DEF TypeInv
<1> QED BY <1>1, <1>2, TypeStep, PTL DEF Spec

-----------------------------------------------------------------------------
(* Every step keeps MaskInv.                                                *)

\* The mask invariant holds at reset.
LEMMA MaskInit == Init => MaskInv
<1> SUFFICES ASSUME Init PROVE MaskInv
  OBVIOUS
<1>1. ~loaded
  BY Zenon DEF Init
<1>2. TypeInv
  BY <1>1, TypeInit DEF TypeInv
<1>3. /\ todo = <<>> /\ tasks = <<>> /\ pr = {} /\ imr = {} /\ ifg = {} /\ reg = {}
      /\ want = {} /\ await.pin = -1
  BY DEF Init, NoPin
<1>4. /\ \A o, q : ~Doing(o, q)
      /\ \A q \in Pins : ~Armed(q)
      /\ \A q : ~HasTask(q)
  BY <1>3 DEF Doing, Armed, HasTask
<1> QED BY <1>1, <1>2, <1>3, <1>4 DEF MaskInv, TodoOK, UsedOnly, Unmasked, Aux

\* The handler serves at most one pin in each half: it masks and debounces it, or
\* it reports it; core_pin_irq unmasks it then.
LEMMA ServeFacts ==
    ASSUME TypeInv, CorePinIrq \/ AuxPinIrq
    PROVE  /\ UNCHANGED <<high, pr, todo, loaded, reg, await, want>> /\ isr # "none"
           /\ ifg' \subseteq ifg /\ (isr' = "none" => ifg' = {})
           /\ \/ UNCHANGED <<imr, tasks>>
              \/ \E p \in ifg \intersect Debounced :
                   /\ imr' = imr \ {p}
                   /\ \A q \in Pins : HasTask(q)' <=> (HasTask(q) \/ q = p)
              \/ \E p \in ifg : imr' = imr \union {p} /\ UNCHANGED tasks
<1> USE DEF TypeInv, TypeOK
<1>t. tasks \in Seq(Tasks)
  BY DEF Tasks
<1>1. CASE CorePinIrq
  <2>1. /\ UNCHANGED <<high, pr, todo, loaded, reg, await, want, ifg>> /\ isr = "core" /\ isr' = "aux"
    BY <1>1 DEF CorePinIrq
  <2>2. CASE ifg \intersect Core = {}
    BY <1>1, <2>1, <2>2 DEF CorePinIrq
  <2>3. CASE ifg \intersect Core # {}
    <3>1. Lowest(ifg) \in ifg
      <4>1. ifg \in SUBSET Pins
        OBVIOUS
      <4> QED BY <2>3, <4>1, LowestIn
    <3>2. \/ Lowest(ifg) \in Debounced /\ AddTask("core", Lowest(ifg)) /\ imr' = imr \ {Lowest(ifg)}
          \/ imr' = imr \union {Lowest(ifg)} /\ UNCHANGED tasks
      BY <1>1, <2>3 DEF CorePinIrq
    <3>3. AddTask("core", Lowest(ifg)) =>
            \A q \in Pins : HasTask(q)' <=> (HasTask(q) \/ q = Lowest(ifg))
      <4>1. Lowest(ifg) \in Pins
        BY <3>1
      <4> QED BY <1>t, <4>1, TaskAdded
    <3> QED BY <2>1, <3>1, <3>2, <3>3
  <2> QED BY <2>2, <2>3
<1>2. CASE AuxPinIrq
  <2>1. /\ UNCHANGED <<high, pr, todo, loaded, reg, await, want>> /\ isr = "aux" /\ isr' = "none" /\ ifg' = {}
    BY <1>2 DEF AuxPinIrq
  <2>2. CASE UNCHANGED <<imr, tasks>>
    BY <2>1, <2>2
  <2>3. CASE ~UNCHANGED <<imr, tasks>>
    <3> DEFINE p == Lowest(ifg \intersect Aux)
    <3>1. ifg \intersect Aux # {} /\ p \in Debounced /\ AddTask("aux", p) /\ imr' = imr \ {p}
      BY <1>2, <2>3 DEF AuxPinIrq
    <3>2. p \in ifg /\ p \in Pins
      <4>1. ifg \intersect Aux \in SUBSET Pins
        OBVIOUS
      <4> QED BY <3>1, <4>1, LowestIn
    <3>3. \A q \in Pins : HasTask(q)' <=> (HasTask(q) \/ q = p)
      BY <1>t, <3>1, <3>2, TaskAdded
    <3> QED BY <2>1, <3>1, <3>2, <3>3
  <2> QED BY <2>2, <2>3
<1> QED BY <1>1, <1>2

\* Edges, the handler and the load.
LEMMA MaskStep_Handler ==
    ASSUME MaskInv, (\E p \in Pins : Change(p)) \/ Handler \/ Imr_Load,
           "disable_in_debounce" \notin Races
    PROVE  MaskInv'
<1> USE DEF MaskInv
<1>t. TypeInv'
  BY TypeStep DEF Next
<1>1. UNCHANGED <<todo, await, want>>
  BY DEF Change, Handler, Enter, CorePinIrq, AuxPinIrq, Imr_Load
<1>2. /\ \A q : Armed(q)' <=> Armed(q)
      /\ \A o, q : Doing(o, q)' <=> Doing(o, q)
  BY <1>1 DEF Armed, Doing
<1>3. ASSUME NEW p \in Pins, Change(p)
      PROVE  MaskInv'
  <2>1. UNCHANGED <<imr, tasks, isr, ifg, loaded, reg>>
    BY <1>3 DEF Change
  <2>2. \/ pr' = pr
        \/ pr' = pr \union {p} /\ p \in imr /\ ~(p \in Debounced /\ Doing("disable", p))
    BY <1>3 DEF Change, Latch
  <2>3. \A q : HasTask(q)' <=> HasTask(q)
    BY <2>1 DEF HasTask
  <2>4. TodoOK'
    BY <1>1, <1>2, <2>1, <2>2, <2>3 DEF TodoOK
  <2>5. UsedOnly' /\ Unmasked'
    BY <1>1, <1>2, <2>1, <2>2, <2>3 DEF UsedOnly, Unmasked
  <2> QED BY <1>t, <2>1, <2>4, <2>5
<1>4. CASE Enter
  <2>1. /\ UNCHANGED <<imr, tasks, loaded, reg>> /\ isr = "none" /\ isr' = "core"
        /\ ifg' = pr /\ pr' = {}
    BY <1>4 DEF Enter
  <2>2. \A q : HasTask(q)' <=> HasTask(q)
    BY <2>1 DEF HasTask
  <2>3. TodoOK'
    BY <1>1, <1>2, <2>1, <2>2 DEF TodoOK
  <2>4. UsedOnly' /\ Unmasked'
    BY <1>1, <1>2, <2>1, <2>2 DEF UsedOnly, Unmasked
  <2> QED BY <1>t, <2>1, <2>3, <2>4
<1>5. CASE CorePinIrq \/ AuxPinIrq
  <2>1. /\ UNCHANGED <<pr, loaded, reg>> /\ ifg' \subseteq ifg /\ (isr' = "none" => ifg' = {})
        /\ \/ UNCHANGED <<imr, tasks>>
           \/ \E p \in ifg \intersect Debounced :
                /\ imr' = imr \ {p}
                /\ \A q \in Pins : HasTask(q)' <=> (HasTask(q) \/ q = p)
           \/ \E p \in ifg : imr' = imr \union {p} /\ UNCHANGED tasks
    BY <1>5, ServeFacts
  <2>2. CASE UNCHANGED tasks
    <3>1. \A q : HasTask(q)' <=> HasTask(q)
      BY <2>2 DEF HasTask
    <3>2. imr' \subseteq imr \union ifg /\ (imr \subseteq imr' \/ \E p \in ifg : HasTask(p) /\ imr \subseteq imr' \union {p})
      BY <2>1, <2>2, <3>1 DEF TypeInv, TypeOK
    <3>3. TodoOK'
      BY <1>1, <1>2, <2>1, <3>1 DEF TodoOK
    <3>4. UsedOnly' /\ Unmasked'
      BY <1>1, <1>2, <2>1, <3>1, <3>2 DEF UsedOnly, Unmasked
    <3> QED BY <1>t, <2>1, <3>3, <3>4
  <2>3. ASSUME NEW p \in ifg \intersect Debounced, imr' = imr \ {p},
               \A q \in Pins : HasTask(q)' <=> (HasTask(q) \/ q = p)
        PROVE  MaskInv'
    <3>1. Debounced \subseteq Pins
      BY DEF Aux
    <3>2. TodoOK'
      BY <1>1, <1>2, <2>1, <2>3, <3>1 DEF TodoOK
    <3>3. UsedOnly' /\ Unmasked'
      BY <1>1, <1>2, <2>1, <2>3, <3>1 DEF UsedOnly, Unmasked
    <3> QED BY <1>t, <2>1, <3>2, <3>3
  <2> QED BY <2>1, <2>2, <2>3
<1>6. CASE Imr_Load
  <2>1. /\ UNCHANGED <<imr, tasks, pr, isr, ifg>> /\ loaded' /\ reg' = imr
    BY <1>6 DEF Imr_Load
  <2>2. \A q : HasTask(q)' <=> HasTask(q)
    BY <2>1 DEF HasTask
  <2>3. TodoOK'
    BY <1>1, <1>2, <2>1, <2>2 DEF TodoOK
  <2>4. UsedOnly' /\ Unmasked'
    BY <1>1, <1>2, <2>1, <2>2 DEF UsedOnly, Unmasked
  <2> QED BY <1>t, <2>1, <2>3, <2>4
<1> QED BY <1>3, <1>4, <1>5, <1>6 DEF Handler

\* The task and the calls of the core, which begin when no access to IMR1 is open.
LEMMA MaskStep_Call ==
    ASSUME MaskInv, RunTask \/ Call, "disable_in_debounce" \notin Races
    PROVE  MaskInv'
<1> USE DEF MaskInv
<1>t. TypeInv'
  BY TypeStep DEF Next
<1>0. /\ todo = <<>> /\ ~loaded /\ isr = "none" /\ pr \intersect imr = {} /\ ifg = {} /\ reg = {}
      /\ UNCHANGED <<pr, isr, ifg, loaded, reg>>
  BY DEF RunTask, Call, LimitsEnable, Register, Unregister, WaitBegin, WaitEnd, GpioIrqEnable,
            Free, Foreground, TypeInv
<1>1. /\ \A o, q : ~Doing(o, q)
      /\ \A q : Armed(q) <=> (q \in want \/ await.pin = q)
  BY <1>0 DEF Doing, Armed
<1>2. /\ await.pin \in Aux \union {-1} /\ -1 \notin Pins /\ Core \subseteq Pins /\ Debounced \subseteq Aux
      /\ Aux \subseteq Pins /\ Aux \intersect Core = {}
  BY DEF TypeInv, TypeOK, NoPin, Aux, Core
<1>3. CASE RunTask
  <2> DEFINE p == Head(tasks).pin
  <2>1. /\ tasks # <<>> /\ tasks' = Tail(tasks) /\ todo' = <<[op |-> "unmask", pin |-> p]>>
        /\ UNCHANGED <<imr, await, want>>
    BY <1>3 DEF RunTask
  <2>2. p \in Pins /\ HasTask(p) /\ \A q \in Pins : HasTask(q) <=> (HasTask(q)' \/ q = p)
    <3>1. tasks \in Seq(Tasks)
      BY DEF TypeInv, TypeOK, Tasks
    <3> QED BY <2>1, <3>1, TaskTaken DEF Tasks
  <2> HIDE DEF p
  <2>3. p \in Aux /\ p \in Debounced /\ Armed(p)
    BY <1>2, <2>2 DEF UsedOnly
  <2>4. /\ Len(todo') = 1 /\ todo'[1].pin = p
        /\ \A o, q : Doing(o, q)' <=> (o = "unmask" /\ q = p)
    BY <2>1, <2>2, OneAccess
  <2>5. \A q : Armed(q)' <=> Armed(q)
    BY <1>1, <2>1, <2>4 DEF Armed
  <2>6. TodoOK'
    BY <2>3, <2>4, <2>5 DEF TodoOK
  <2>7. UsedOnly' /\ Unmasked'
    BY <1>0, <1>1, <2>1, <2>2, <2>4, <2>5 DEF UsedOnly, Unmasked
  <2> QED BY <1>t, <1>0, <2>6, <2>7
<1>4. ASSUME NEW enabled \in SUBSET Core, LimitsEnable(enabled)
      PROVE  MaskInv'
  <2>1. UNCHANGED <<imr, tasks, await, want>>
    BY <1>4 DEF LimitsEnable
  <2>2. /\ todo' \in Seq(Ops)
        /\ \A i \in DOMAIN todo' : todo'[i].op \in {"enable", "disable"} /\ todo'[i].pin \in Core
    BY <1>4, LimitAccesses
  <2>3. \A o, q : Doing(o, q)' => q \in Core /\ o # "unmask"
    BY <2>2 DEF Doing
  <2>4. \A q \in Pins : Armed(q)' <=> Armed(q)
    BY <1>1, <1>2, <2>1, <2>3 DEF Armed
  <2>5. \A q : HasTask(q)' <=> HasTask(q)
    BY <2>1 DEF HasTask
  <2>6. TodoOK'
    BY <1>2, <2>2, <2>3 DEF TodoOK
  <2>7. UsedOnly' /\ Unmasked'
    BY <1>0, <1>1, <2>1, <2>4, <2>5 DEF UsedOnly, Unmasked, TypeInv, TypeOK
  <2> QED BY <1>t, <1>0, <2>6, <2>7
<1>5. ASSUME NEW p \in Aux, NEW op \in {"enable", "disable"}, GpioIrqEnable(p, op),
             op = "disable" => Armed(p), \A q \in Pins : Armed(q)' <=> Armed(q)
      PROVE  MaskInv'
  <2>1. /\ UNCHANGED <<imr, tasks>> /\ todo' = <<[op |-> op, pin |-> p]>>
        /\ op = "disable" => ~HasTask(p)
    BY <1>5 DEF GpioIrqEnable, MayDisable
  <2>2. op = "disable" => p \notin pr
    BY <1>0, <1>1, <1>2, <1>5, <2>1 DEF Unmasked
  <2>3. /\ Len(todo') = 1 /\ todo'[1].pin = p
        /\ \A o, q : Doing(o, q)' <=> (o = op /\ q = p)
    BY <1>2, <2>1, OneAccess
  <2>4. \A q : HasTask(q)' <=> HasTask(q)
    BY <2>1 DEF HasTask
  <2>5. TodoOK'
    BY <1>0, <1>2, <2>1, <2>2, <2>3, <2>4 DEF TodoOK
  <2>6. UsedOnly' /\ Unmasked'
    BY <1>0, <1>1, <1>5, <2>1, <2>4 DEF UsedOnly, Unmasked, TypeInv, TypeOK
  <2> QED BY <1>t, <1>0, <2>5, <2>6
<1>6. ASSUME NEW p \in Aux, NEW op \in {"enable", "disable"}, GpioIrqEnable(p, op),
             UNCHANGED await, await.pin # p
      PROVE  \A q \in Pins : Armed(q)' <=> Armed(q)
  <2>1. todo' = <<[op |-> op, pin |-> p]>> /\ UNCHANGED want
    BY <1>6 DEF GpioIrqEnable
  <2>2. \A o, q : Doing(o, q)' <=> (o = op /\ q = p)
    BY <1>2, <2>1, OneAccess
  <2> QED BY <1>1, <1>6, <2>1, <2>2 DEF Armed
<1>7. ASSUME NEW p \in Aux, Register(p)
      PROVE  MaskInv'
  BY <1>5, <1>6, <1>7 DEF Register
<1>8. ASSUME NEW p \in Aux, Unregister(p)
      PROVE  MaskInv'
  <2>1. p \in want /\ await.pin # p /\ Armed(p)
    BY <1>8 DEF Unregister, Armed
  <2>2. CASE GpioIrqEnable(p, "disable") /\ UNCHANGED <<await, event>>
    BY <1>5, <1>6, <2>1, <2>2
  <2>3. CASE ~(GpioIrqEnable(p, "disable") /\ UNCHANGED <<await, event>>)
    <3>1. /\ UNCHANGED <<tasks, await, todo>> /\ ~HasTask(p)
          /\ imr' = imr \ {p} /\ want' = want \ {p}
      BY <1>8, <2>3 DEF Unregister, MayDisable
    <3>2. p \notin pr
      BY <1>0, <1>1, <1>2, <2>1, <3>1 DEF Unmasked
    <3>3. \A o, q : ~Doing(o, q)'
      BY <1>1, <3>1 DEF Doing
    <3>4. \A q : Armed(q)' <=> (Armed(q) /\ q # p)
      BY <1>1, <2>1, <3>1, <3>3 DEF Armed
    <3>5. \A q : HasTask(q)' <=> HasTask(q)
      BY <3>1 DEF HasTask
    <3>6. TodoOK'
      BY <3>1, <3>3 DEF TodoOK
    <3>7. UsedOnly' /\ Unmasked'
      BY <1>0, <1>1, <3>1, <3>2, <3>4, <3>5 DEF UsedOnly, Unmasked
    <3> QED BY <1>t, <1>0, <3>6, <3>7
  <2> QED BY <2>2, <2>3
<1>9. ASSUME NEW p \in Aux, NEW edge \in {"rising", "falling"}, WaitBegin(p, edge)
      PROVE  MaskInv'
  <2>1. /\ UNCHANGED want /\ await.pin = -1 /\ await'.pin = p /\ GpioIrqEnable(p, "enable")
        /\ todo' = <<[op |-> "enable", pin |-> p]>>
    BY <1>9 DEF WaitBegin, GpioIrqEnable, NoPin
  <2>2. \A o, q : Doing(o, q)' <=> (o = "enable" /\ q = p)
    BY <1>2, <2>1, OneAccess
  <2>3. \A q \in Pins : Armed(q)' <=> Armed(q)
    BY <1>1, <1>2, <2>1, <2>2 DEF Armed
  <2> QED BY <1>5, <2>1, <2>3
<1>10. CASE WaitEnd
  <2>1. await.pin \in Aux
    BY <1>10 DEF WaitEnd, TypeInv, TypeOK
  <2>2. CASE await.pin \in want
    <3>1. /\ UNCHANGED want /\ await' = NoPin /\ GpioIrqEnable(await.pin, "enable")
          /\ todo' = <<[op |-> "enable", pin |-> await.pin]>> /\ NoPin.pin = -1
      BY <1>10, <2>2 DEF WaitEnd, GpioIrqEnable, NoPin
    <3>2. \A q \in Pins : Armed(q)' <=> Armed(q)
      BY <1>1, <1>2, <2>2, <3>1 DEF Armed
    <3> QED BY <1>5, <2>1, <3>1, <3>2
  <2>3. CASE await.pin \notin want
    <3>1. /\ UNCHANGED <<want, await>> /\ GpioIrqEnable(await.pin, "disable")
          /\ todo' = <<[op |-> "disable", pin |-> await.pin]>>
      BY <1>10, <2>3 DEF WaitEnd, GpioIrqEnable
    <3>2. \A o, q : Doing(o, q)' <=> (o = "disable" /\ q = await.pin)
      BY <1>2, <2>1, <3>1, OneAccess
    <3>3. \A q \in Pins : Armed(q)' <=> Armed(q)
      BY <1>1, <3>1, <3>2 DEF Armed
    <3> QED BY <1>1, <1>5, <2>1, <3>1, <3>3
  <2> QED BY <2>2, <2>3
<1> QED BY <1>3, <1>4, <1>7, <1>8, <1>9, <1>10 DEF Call

\* The store enables, disables or unmasks one pin, and leaves the others as they
\* were loaded.
LEMMA StoreFacts ==
    ASSUME MaskInv, Imr_Store
    PROVE  \E o \in {"enable", "disable", "unmask"}, p \in Pins :
             /\ Doing(o, p) /\ isr = "none" /\ ifg = {} /\ pr \intersect imr = {} /\ loaded
             /\ imr' = (IF o = "disable" THEN reg \ {p} ELSE reg \union {p})
             /\ ~loaded' /\ reg' = {} /\ UNCHANGED <<high, pr, isr, ifg, tasks, event>>
             /\ TodoOK' /\ \A q \in Pins : ~Doing("unmask", q)'
             /\ \A q \in Pins : Doing("enable", q)' => q \in Core
             /\ \A q \in Pins :
                  Armed(q)' <=> IF o = "enable" THEN Armed(q) \/ q = p
                                ELSE Armed(q) /\ (o = "disable" => q # p)
             /\ await' = (IF o = "disable" /\ await.pin = p THEN NoPin ELSE await)
             /\ want' = (IF o = "disable" THEN want \ {p}
                         ELSE IF o = "enable" /\ await.pin # p THEN want \union {p} ELSE want)
             /\ owed' = (IF o = "disable" THEN owed \ {p} ELSE owed)
<1> DEFINE o == Head(todo).op
           p == Head(todo).pin
<1>1. todo # <<>> /\ loaded /\ isr = "none" /\ pr \intersect imr = {} /\ ifg = {} /\ todo \in Seq(Ops)
  BY DEF Imr_Store, Foreground, MaskInv, TypeInv, TypeOK
<1>2. /\ o \in {"enable", "disable", "unmask"} /\ p \in Pins /\ Head(todo) = todo[1]
      /\ 1 \in DOMAIN todo /\ Head(todo) = [op |-> o, pin |-> p]
  <2>1. Head(todo) \in Ops /\ Head(todo) = todo[1] /\ 1 \in DOMAIN todo
    BY <1>1
  <2> QED BY <2>1 DEF Ops
<1>3. \A a, q : Doing(a, q) <=> (a = o /\ q = p)
  BY <1>1, <1>2 DEF Doing
<1> DEFINE Rest == Tail(todo)
<1>4. /\ imr' = (IF o = "disable" THEN reg \ {p} ELSE reg \union {p})
      /\ ~loaded' /\ reg' = {} /\ todo' = Tail(todo) /\ UNCHANGED <<high, pr, isr, ifg, tasks, event>>
      /\ await' = (IF o = "disable" /\ await.pin = p THEN NoPin ELSE await)
      /\ want' = (IF o = "disable" THEN want \ {p}
                  ELSE IF o = "enable" /\ await.pin # p THEN want \union {p} ELSE want)
      /\ owed' = (IF o = "disable" THEN owed \ {p} ELSE owed)
  BY DEF Imr_Store
<1>5. /\ await.pin \in Aux \union {-1} /\ -1 \notin Pins /\ Aux \intersect Core = {}
      /\ NoPin.pin = -1 /\ Debounced \subseteq Aux
  BY DEF MaskInv, TypeInv, TypeOK, NoPin, Aux
<1> HIDE DEF o, p
<1>6. CASE \A i \in DOMAIN todo : todo[i].op # "unmask" /\ todo[i].pin \in Core
  <2>1. p \in Core /\ o # "unmask"
    BY <1>2, <1>6
  <2>2. /\ todo' \in Seq(Ops)
        /\ \A i \in DOMAIN todo' : todo'[i].op # "unmask" /\ todo'[i].pin \in Core
    BY <1>1, <1>4, <1>6
  <2>3. \A a, q : Doing(a, q)' => q \in Core /\ a # "unmask"
    BY <2>2 DEF Doing
  <2>4. TodoOK'
    BY <1>5, <2>2, <2>3 DEF TodoOK
  <2>5. ASSUME NEW q \in Pins
        PROVE  Armed(q)' <=> IF o = "enable" THEN Armed(q) \/ q = p
                             ELSE Armed(q) /\ (o = "disable" => q # p)
    <3>0. await.pin # p
      BY <1>2, <1>5, <2>1
    <3>1. UNCHANGED await /\ await.pin # p
      BY <1>4, <3>0
    <3>2. await.pin = q => ~Doing("enable", q) /\ ~Doing("enable", q)'
      BY <1>3, <1>5, <2>1, <2>3
    <3> QED BY <1>2, <1>4, <2>1, <3>1, <3>2 DEF Armed
  <2> QED BY <1>1, <1>2, <1>3, <1>4, <2>3, <2>4, <2>5
<1>7. CASE Len(todo) = 1 /\ todo[1].pin \in Aux
  <2>1. p \in Aux /\ todo' = <<>>
    BY <1>1, <1>2, <1>4, <1>7
  <2>2. \A a, q : ~Doing(a, q)'
    BY <2>1 DEF Doing
  <2>3. TodoOK'
    BY <2>1, <2>2 DEF TodoOK
  <2>4. ASSUME NEW q \in Pins
        PROVE  Armed(q)' <=> IF o = "enable" THEN Armed(q) \/ q = p
                             ELSE Armed(q) /\ (o = "disable" => q # p)
    BY <1>2, <1>3, <1>4, <1>5, <2>2 DEF Armed
  <2> QED BY <1>1, <1>2, <1>3, <1>4, <2>2, <2>3, <2>4
<1> QED BY <1>6, <1>7 DEF MaskInv, TodoOK

\* The store of an access to IMR1 keeps the mask invariant.
LEMMA MaskStep_Store ==
    ASSUME MaskInv, Imr_Store
    PROVE  MaskInv'
<1>t. TypeInv'
  BY TypeStep DEF Next, MaskInv
<1>1. PICK o \in {"enable", "disable", "unmask"}, p \in Pins :
        /\ Doing(o, p) /\ isr = "none" /\ ifg = {} /\ pr \intersect imr = {} /\ loaded
        /\ imr' = (IF o = "disable" THEN reg \ {p} ELSE reg \union {p})
        /\ ~loaded' /\ reg' = {} /\ UNCHANGED <<high, pr, isr, ifg, tasks, event>>
        /\ TodoOK' /\ \A q \in Pins : ~Doing("unmask", q)'
        /\ \A q \in Pins : Doing("enable", q)' => q \in Core
        /\ \A q \in Pins :
             Armed(q)' <=> IF o = "enable" THEN Armed(q) \/ q = p
                           ELSE Armed(q) /\ (o = "disable" => q # p)
  BY StoreFacts
<1>2. \A q : HasTask(q)' <=> HasTask(q)
  BY <1>1 DEF HasTask
<1>3. \A a, q : Doing(a, q) => a = o /\ q = p
  BY <1>1 DEF Doing
<1>4. o = "unmask" => Armed(p)
  <2>1. p \in Aux \/ p \in Core
    BY DEF Aux
  <2>2. o = "unmask" => p \in Aux
    BY <1>1 DEF MaskInv, TodoOK, Doing, TypeInv, TypeOK
  <2> QED BY <1>1, <2>2 DEF MaskInv, TodoOK
<1>5. o = "disable" => p \notin pr /\ ~HasTask(p)
  <2>1. CASE p \in Debounced
    BY <1>1, <2>1 DEF MaskInv, TodoOK
  <2>2. CASE p \notin Debounced
    <3>1. ~HasTask(p)
      BY <2>2 DEF MaskInv, UsedOnly
    <3>2. o = "disable" /\ Armed(p) => p \in imr
      BY <1>3, <3>1 DEF MaskInv, Unmasked
    <3> QED BY <1>1, <3>1, <3>2 DEF MaskInv, UsedOnly
  <2> QED BY <2>1, <2>2
<1>6. UsedOnly'
  BY <1>1, <1>2, <1>4, <1>5 DEF MaskInv, UsedOnly, TypeInv, TypeOK
<1>7. Unmasked'
  BY <1>1, <1>2, <1>3 DEF MaskInv, Unmasked
<1> QED BY <1>t, <1>1, <1>6, <1>7 DEF MaskInv

\* Whatever pins are latched together, accesses to IMR1 preempted and pins changed
\* late: no pin in use stays masked, and no other one is enabled, as long as none
\* is disabled within its debounce.
THEOREM MaskIsTrue ==
    ASSUME "disable_in_debounce" \notin Races
    PROVE  Spec => []MaskFollowsUse
<1>1. MaskInv /\ [Next]_vars => MaskInv'
  <2>1. ASSUME MaskInv, UNCHANGED vars PROVE MaskInv'
    <3>1. TypeInv'
      BY <2>1, TypeStep DEF MaskInv
    <3> QED BY <2>1, <3>1 DEF MaskInv, TodoOK, UsedOnly, Unmasked, Armed, Doing, HasTask, vars
  <2> QED BY <2>1, MaskStep_Handler, MaskStep_Call, MaskStep_Store DEF Next
<1>2. MaskInv => MaskFollowsUse
  <2> SUFFICES ASSUME MaskInv PROVE MaskFollowsUse
    OBVIOUS
  <2>1. \A p \in imr : p \in want \/ await.pin = p
    BY DEF MaskInv, UsedOnly, Armed
  <2>2. \A p \in want : p \in imr \/ HasTask(p) \/ Doing("unmask", p)
    BY DEF MaskInv, Unmasked, Armed, TypeInv, TypeOK
  <2> QED BY <2>1, <2>2 DEF MaskFollowsUse
<1> QED BY <1>1, <1>2, MaskInit, PTL DEF Spec

-----------------------------------------------------------------------------
(* Every step keeps EdgesInv, when none of the races happens.               *)

\* The edge invariant holds at reset.
LEMMA EdgesInit == Init => EdgesInv
<1> SUFFICES ASSUME Init PROVE EdgesInv
  OBVIOUS
<1>1. /\ tasks = <<>> /\ pr = {} /\ ifg = {} /\ owed = {} /\ todo = <<>> /\ want = {}
      /\ await.pin = -1
  BY DEF Init, NoPin
<1>2. \A s \in Together : s \subseteq Steady
  BY <1>1 DEF Together
<1>3. \A q : ~HasTask(q) /\ ~Doing("unmask", q)
  BY <1>1 DEF HasTask, Doing
<1>4. -1 \notin Debounced
  BY DEF Aux
<1> QED BY <1>1, <1>2, <1>3, <1>4, MaskInit DEF EdgesInv, Alone, OneDebounce, OwedOK

\* Where the pins of the accesses and of the tasks are.
LEMMA PinFacts ==
    ASSUME MaskInv
    PROVE  /\ Core \subseteq Pins /\ Aux \subseteq Pins /\ Aux \intersect Core = {} /\ -1 \notin Pins
           /\ Debounced \subseteq Aux /\ Pins = Core \union Aux
           /\ await.pin \in Aux \union {-1} /\ await.pin \notin Core /\ owed \subseteq Pins
           /\ \A q \in Pins : HasTask(q) => q \in Debounced /\ Armed(q)
           /\ \A q \in Pins : Doing("unmask", q) => q \in Debounced
           /\ \A q \in Pins : Armed(q) /\ ~HasTask(q) /\ ~Doing("unmask", q) => q \in imr
<1> USE DEF MaskInv, TypeInv, TypeOK
<1>1. /\ Core \subseteq Pins /\ Aux \subseteq Pins /\ Aux \intersect Core = {} /\ -1 \notin Pins
      /\ Debounced \subseteq Aux /\ Pins = Core \union Aux
      /\ await.pin \in Aux \union {-1}
  BY DEF Core, Aux, NoPin
<1>2. ASSUME NEW q \in Pins, Doing("unmask", q)
      PROVE  q \in Debounced
  <2>1. Head(todo) = todo[1] /\ 1 \in DOMAIN todo
    BY <1>2 DEF Doing
  <2>2. q \in Aux
    BY <1>2, <2>1 DEF TodoOK, Doing
  <2> QED BY <1>2, <2>2 DEF TodoOK
<1> QED BY <1>1, <1>2 DEF UsedOnly, Unmasked

\* Which pins are tripped, and which keep their level, depends on the levels alone.
LEMMA LevelsKept ==
    ASSUME UNCHANGED high
    PROVE  Tripped' = Tripped /\ Steady' = Steady
BY DEF Tripped, Steady, Holds, IrqMode

\* For a pin in use whose pull-up is not disabled, the edges somebody is to be told
\* of are those that interrupt.
LEMMA WantedIs ==
    ASSUME EdgesInv, NEW p \in Pins \ PullupOff, Armed(p), NEW rise \in BOOLEAN
    PROVE  Wanted(p, rise) <=> Selects(Trigger(p), rise)
<1>1. CASE p \in Core
  <2>1. Trigger(p) = (IF p \in Inverted THEN "falling" ELSE "rising")
    BY <1>1, PinFacts DEF EdgesInv, Trigger, IrqMode, LimitMode
  <2> QED BY <1>1, <2>1 DEF Wanted, Selects
<1>2. CASE p \in Aux \intersect want
  <2>1. Trigger(p) = Mode[p] /\ (await.pin = p => await.edge = Mode[p])
    BY <1>2 DEF EdgesInv, OwedOK, Trigger, IrqMode, Aux
  <2> QED BY <1>2, <2>1 DEF Wanted, Aux
<1>3. CASE p \in Aux \ want
  <2>1. await.pin = p /\ Trigger(p) = await.edge
    BY <1>3 DEF Armed, Trigger
  <2> QED BY <1>3, <2>1 DEF Wanted, Aux
<1> QED BY <1>1, <1>2, <1>3 DEF Aux

\* A limit pin or a debounced one whose edge is owed is reported when it is
\* looked at: its level is the one its mode asks for.
LEMMA OwedHolds ==
    ASSUME EdgesInv, NEW p \in owed \ PullupOff, p \in Core \/ p \in Debounced
    PROVE  Holds(p) /\ (p \in Core => p \in Tripped)
<1>1. p \in Pins /\ Armed(p) /\ Selects(Trigger(p), p \in high)
  BY DEF EdgesInv, OwedOK, MaskInv, TypeInv, TypeOK
<1>2. CASE p \in Core
  <2>1. Trigger(p) = IrqMode(p) /\ IrqMode(p) = (IF p \in Inverted THEN "falling" ELSE "rising")
    BY <1>1, <1>2, PinFacts DEF EdgesInv, Trigger, IrqMode, LimitMode
  <2>2. (p \in high) = (p \notin Inverted)
    BY <1>1, <2>1 DEF Selects
  <2> QED BY <1>2, <2>1, <2>2 DEF Holds, Tripped
<1>3. CASE p \in Debounced /\ p \notin Core /\ p \notin want
  <2>1. Trigger(p) = "rising" /\ IrqMode(p) = "none"
    BY <1>1, <1>3 DEF EdgesInv, OwedOK, Armed, Trigger, IrqMode
  <2>2. p \in high
    BY <1>1, <2>1 DEF Selects
  <2> QED BY <1>3, <2>1, <2>2 DEF Holds
<1>4. CASE p \in Debounced /\ p \notin Core /\ p \in want
  <2>1. Trigger(p) = Mode[p] /\ IrqMode(p) = Mode[p]
    BY <1>4 DEF EdgesInv, OwedOK, Trigger, IrqMode
  <2>2. Mode[p] \in {"rising", "falling", "change"}
    BY <1>4
  <2>3. IrqMode(p) = "change" \/ (p \in high) = (IrqMode(p) # "falling")
    BY <1>1, <2>1, <2>2 DEF Selects
  <2> QED BY <1>4, <2>3 DEF Holds
<1> QED BY <1>1, <1>2, <1>3, <1>4

\* A pin that changes keeps the edge invariant.
LEMMA EdgesStep_Change ==
    ASSUME EdgesInv, Races = {}, NEW p \in Pins, Change(p)
    PROVE  EdgesInv'
<1> USE DEF EdgesInv
<1>m. MaskInv'
  BY MaskStep_Handler
<1>1. /\ UNCHANGED <<imr, tasks, isr, ifg, todo, loaded, reg, await, event, want>>
      /\ ~Doing("unmask", p)
      /\ (\A s \in Together : s \subseteq Steady)'
      /\ high' = IF p \in high THEN high \ {p} ELSE high \union {p}
  BY DEF Change
<1>2. /\ Selects(Trigger(p), p \notin high) /\ p \in imr =>
           pr' = pr \union {p} /\ ~(p \in Debounced /\ (loaded \/ Doing("enable", p)))
      /\ ~(Selects(Trigger(p), p \notin high) /\ p \in imr) => pr' = pr
  BY DEF Change, Latch
<1>3. /\ owed' \subseteq owed \union {p}
      /\ p \in owed' \ PullupOff => Selects(Trigger(p), p \notin high) /\ Armed(p)
  BY WantedIs DEF Change
<1>4. /\ \A q : Armed(q)' <=> Armed(q)
      /\ \A o, q : Doing(o, q)' <=> Doing(o, q)
      /\ \A q : HasTask(q)' <=> HasTask(q)
      /\ \A q : Trigger(q)' = Trigger(q)
  BY <1>1 DEF Armed, Doing, HasTask, Trigger, IrqMode
<1>5. Alone'
  BY <1>1, <1>2 DEF Alone
<1>6. OneDebounce'
  BY <1>1, <1>2, <1>4 DEF OneDebounce
<1>7. ASSUME NEW q \in owed' \ PullupOff
      PROVE  /\ q \in pr' \union ifg' \/ HasTask(q)'
             /\ Armed(q)' /\ Selects(Trigger(q), q \in high)'
             /\ isr' = "aux" /\ q \in Core => q \in pr'
  <2>1. CASE q # p
    <3>1. q \in owed /\ (q \in high' <=> q \in high) /\ pr \subseteq pr'
      BY <1>1, <1>2, <1>3, <1>7, <2>1
    <3>2. Selects(Trigger(q), q \in high)'
      BY <1>4, <3>1 DEF OwedOK, Selects
    <3> QED BY <1>1, <1>4, <3>1, <3>2 DEF OwedOK
  <2>2. CASE q = p
    <3>1. Selects(Trigger(p), p \notin high) /\ Armed(p)
      BY <1>3, <1>7, <2>2
    <3>2. HasTask(p) \/ p \in pr'
      BY <1>1, <1>2, <3>1, PinFacts
    <3>3. p \in Core => p \in pr'
      BY <3>2, PinFacts
    <3>4. Selects(Trigger(p), p \in high)'
      BY <1>1, <1>4, <3>1 DEF Selects
    <3> QED BY <1>4, <2>2, <3>1, <3>2, <3>3, <3>4
  <2> QED BY <2>1, <2>2
<1>8. OwedOK'
  BY <1>1, <1>7 DEF OwedOK
<1> QED BY <1>m, <1>5, <1>6, <1>8

\* The entry of the handler keeps it.
LEMMA EdgesStep_Enter ==
    ASSUME EdgesInv, Races = {}, Enter
    PROVE  EdgesInv'
<1> USE DEF EdgesInv
<1>m. MaskInv'
  BY MaskStep_Handler DEF Handler
<1>1. /\ isr = "none" /\ pr \intersect imr # {} /\ ifg' = pr /\ pr' = {} /\ isr' = "core"
      /\ UNCHANGED <<high, imr, tasks, todo, loaded, reg, await, event, want, owed>>
  BY DEF Enter
<1>2. /\ \A q : Armed(q)' <=> Armed(q)
      /\ \A o, q : Doing(o, q)' <=> Doing(o, q)
      /\ \A q : HasTask(q)' <=> HasTask(q)
      /\ \A q : Trigger(q)' = Trigger(q)
      /\ Steady' = Steady
  BY <1>1, LevelsKept DEF Armed, Doing, HasTask, Trigger, IrqMode
<1>3. ASSUME NEW p \in pr, NEW q \in pr, p # q
      PROVE  pr \subseteq Steady /\ p \in Core
  <2>1. pr \in Together
    BY <1>3 DEF Together
  <2> QED BY <2>1 DEF Alone, Steady
<1>4. ASSUME NEW p \in pr \intersect Aux
      PROVE  p \in imr
  BY <1>1, <1>3, <1>4, PinFacts
<1>5. (\A s \in Together : s \subseteq Steady)'
  BY <1>1, <1>2, <1>3 DEF Together
<1>6. Alone'
  BY <1>1, <1>3, <1>4, <1>5, PinFacts DEF Alone
<1>7. OneDebounce'
  BY <1>1, <1>2 DEF OneDebounce
<1>8. OwedOK'
  BY <1>1, <1>2 DEF OwedOK, MaskInv, Selects
<1> QED BY <1>m, <1>6, <1>7, <1>8

\* The limit and control inputs keep it.
LEMMA EdgesStep_Core ==
    ASSUME EdgesInv, Races = {}, CorePinIrq
    PROVE  EdgesInv'
<1> USE DEF EdgesInv
<1>m. MaskInv'
  BY MaskStep_Handler DEF Handler
<1>1. /\ UNCHANGED <<high, pr, ifg, todo, loaded, reg, await, event, want>>
      /\ isr = "core" /\ isr' = "aux"
  BY DEF CorePinIrq
<1>2. /\ \A q : Armed(q)' <=> Armed(q)
      /\ \A o, q : Doing(o, q)' <=> Doing(o, q)
      /\ \A q : Trigger(q)' = Trigger(q)
      /\ Steady' = Steady
  BY <1>1, LevelsKept DEF Armed, Doing, Trigger, IrqMode
<1>3. (\A s \in Together : s \subseteq Steady)'
  BY <1>1, <1>2 DEF Alone, Together
<1>4. UNCHANGED tasks /\ \A q : HasTask(q)' <=> HasTask(q)
  <2>1. UNCHANGED tasks
    <3>1. CASE ifg \intersect Core = {}
      BY <3>1 DEF CorePinIrq
    <3>2. CASE ifg \intersect Core # {}
      <4>1. ifg \in SUBSET Pins
        BY DEF MaskInv, TypeInv, TypeOK
      <4>2. Lowest(ifg) \in Core
        BY <3>2, <4>1, LowestIn, ZenonT(60) DEF Alone
      <4> QED BY <3>2, <4>2, PinFacts DEF CorePinIrq
    <3> QED BY <3>1, <3>2
  <2> QED BY <2>1 DEF HasTask
<1>5. /\ imr \subseteq imr' /\ imr' \subseteq imr \union Core
      /\ owed' \subseteq owed /\ \A q \in owed' \ PullupOff : q \in Core => q \in pr
  <2>1. CASE ifg \intersect Core = {}
    <3>1. UNCHANGED <<imr, owed>>
      BY <2>1 DEF CorePinIrq
    <3>2. \A q \in owed \ PullupOff : q \in Core => q \in pr
      BY <2>1, PinFacts DEF OwedOK
    <3> QED BY <3>1, <3>2
  <2>2. CASE ifg \intersect Core # {}
    <3> DEFINE p == Lowest(ifg)
    <3>1. ifg \in SUBSET Pins
      BY DEF MaskInv, TypeInv, TypeOK
    <3>2. p \in ifg /\ p \in Core
      BY <2>2, <3>1, LowestIn DEF Alone
    <3>3. CoreReport(p) /\ imr' = imr \union {p}
      BY <2>2, <3>2, PinFacts DEF CorePinIrq
    <3> HIDE DEF p
    <3>4. ASSUME NEW q \in owed' \ PullupOff, q \in Core, q \notin pr
          PROVE  FALSE
      <4>1. q \in owed \ PullupOff /\ (Holds(p) /\ Tripped # {} => q \notin Tripped)
        BY <3>2, <3>3, <3>4 DEF CoreReport
      <4>2. q \in ifg
        BY <3>4, <4>1, PinFacts DEF OwedOK
      <4>3. Holds(q) /\ q \in Tripped
        BY <3>4, <4>1, OwedHolds
      <4>4. Holds(p)
        <5>1. CASE q = p
          BY <4>3, <5>1
        <5>2. CASE q # p
          <6>1. ifg \in Together
            BY <1>1, <3>2, <4>2, <5>2 DEF Together
          <6> QED BY <3>2, <6>1 DEF Alone, Steady
        <5> QED BY <5>1, <5>2
      <4> QED BY <4>1, <4>3, <4>4
    <3> QED BY <3>2, <3>3, <3>4 DEF CoreReport
  <2> QED BY <2>1, <2>2
<1>6. Alone'
  BY <1>1, <1>3, <1>5, PinFacts DEF Alone
<1>7. OneDebounce'
  BY <1>1, <1>2, <1>4, <1>5, PinFacts DEF OneDebounce
<1>8. OwedOK'
  BY <1>1, <1>2, <1>4, <1>5 DEF OwedOK, Selects
<1> QED BY <1>m, <1>6, <1>7, <1>8

\* The auxiliary inputs keep it.
LEMMA EdgesStep_Aux ==
    ASSUME EdgesInv, Races = {}, AuxPinIrq
    PROVE  EdgesInv'
<1> USE DEF EdgesInv
<1>m. MaskInv'
  BY MaskStep_Handler DEF Handler
<1>1. /\ UNCHANGED <<high, pr, todo, loaded, reg, await, want>>
      /\ isr = "aux" /\ isr' = "none" /\ ifg' = {}
  BY DEF AuxPinIrq
<1>2. /\ \A q : Armed(q)' <=> Armed(q)
      /\ \A o, q : Doing(o, q)' <=> Doing(o, q)
      /\ \A q : Trigger(q)' = Trigger(q)
      /\ Steady' = Steady
  BY <1>1, LevelsKept DEF Armed, Doing, Trigger, IrqMode
<1>3. (\A s \in Together : s \subseteq Steady)'
  BY <1>1, <1>2 DEF Alone, Together
<1>4. imr' \subseteq imr
  BY DEF AuxPinIrq
<1>5. Alone'
  BY <1>1, <1>3, <1>4 DEF Alone
<1>6. CASE ifg \intersect Aux = {}
  <2>1. UNCHANGED <<imr, tasks, owed>>
    BY <1>6 DEF AuxPinIrq
  <2>2. \A q : HasTask(q)' <=> HasTask(q)
    BY <2>1 DEF HasTask
  <2>3. OneDebounce'
    BY <1>1, <1>2, <2>1, <2>2 DEF OneDebounce
  <2>4. ASSUME NEW q \in owed \ PullupOff PROVE q \in pr \/ HasTask(q)
    <3>1. q \in Pins /\ q \in owed
      BY <2>4, PinFacts
    <3> QED BY <1>1, <1>6, <2>4, <3>1, PinFacts DEF OwedOK
  <2>5. OwedOK'
    BY <1>1, <1>2, <2>1, <2>2, <2>4 DEF OwedOK, Selects
  <2> QED BY <1>m, <1>5, <2>3, <2>5
<1>7. CASE ifg \intersect Aux # {}
  <2> DEFINE p == Lowest(ifg \intersect Aux)
  <2>1. ifg \intersect Aux \in SUBSET Pins
    BY DEF MaskInv, TypeInv, TypeOK
  <2>2. p \in ifg /\ p \in Aux /\ p \in Pins
    BY <1>7, <2>1, LowestIn
  <2>3. \/ /\ p \in Debounced /\ AddTask("aux", p)
           /\ imr' = imr \ {p} /\ UNCHANGED owed
        \/ owed' = owed \ {p} /\ UNCHANGED <<imr, tasks>>
    BY <1>7 DEF AuxPinIrq, IoportsEvent
  <2> HIDE DEF p
  <2>4. \A q \in ifg : q = p
    BY <2>2, PinFacts DEF Alone
  <2>5. p \in imr /\ ~HasTask(p) /\ ~Doing("unmask", p) /\ (p \in Debounced => ~Doing("enable", p))
    BY <2>2 DEF Alone, OneDebounce
  <2>6. CASE p \in Debounced /\ AddTask("aux", p) /\ imr' = imr \ {p} /\ UNCHANGED owed
    <3>1. /\ tasks \in Seq(Tasks) /\ Len(tasks') = Len(tasks) + 1 /\ tasks' \in Seq(Tasks)
          /\ \A i \in DOMAIN tasks : tasks'[i] = tasks[i]
          /\ tasks'[Len(tasks')] = [fn |-> "aux", pin |-> p]
          /\ \A q \in Pins : HasTask(q)' <=> (HasTask(q) \/ q = p)
      <4>1. tasks \in Seq(Tasks)
        BY DEF MaskInv, TypeInv, TypeOK, Tasks
      <4> QED BY <2>2, <2>6, <4>1, TaskAdded
    <3>2. p \notin reg
      BY <2>2, <2>6 DEF Alone, MaskInv
    <3>3. DOMAIN tasks' = DOMAIN tasks \union {Len(tasks')} /\ Len(tasks') \notin DOMAIN tasks
      BY <3>1
    <3>4. \A i \in DOMAIN tasks : tasks[i].pin # p
      BY <2>5 DEF HasTask
    <3>5. /\ \A i, j \in DOMAIN tasks' : tasks'[i].pin = tasks'[j].pin => i = j
          /\ \A i \in DOMAIN tasks' : tasks'[i].fn = "aux"
      <4>1. tasks'[Len(tasks')].pin = p /\ tasks'[Len(tasks')].fn = "aux"
        BY <3>1
      <4> QED BY <3>1, <3>3, <3>4, <4>1 DEF OneDebounce
    <3>6. OneDebounce'
      <4>1. UNCHANGED <<todo, pr, reg>> /\ ifg' = {}
        BY <1>1, <1>2
      <4> QED BY <1>1, <1>2, <2>5, <2>6, <3>1, <3>2, <3>5, <4>1, PinFacts, SMTT(30) DEF OneDebounce
    <3>7. ASSUME NEW q \in owed \ PullupOff PROVE q \in pr \/ HasTask(q)'
      BY <2>4, <3>1, <3>7, PinFacts DEF OwedOK
    <3>8. OwedOK'
      BY <1>1, <1>2, <2>6, <3>7 DEF OwedOK, Selects
    <3> QED BY <1>m, <1>5, <3>6, <3>8
  <2>7. CASE owed' = owed \ {p} /\ UNCHANGED <<imr, tasks>>
    <3>1. \A q : HasTask(q)' <=> HasTask(q)
      BY <2>7 DEF HasTask
    <3>2. OneDebounce'
      BY <1>1, <1>2, <2>7, <3>1 DEF OneDebounce
    <3>3. ASSUME NEW q \in owed' \ PullupOff PROVE q \in owed /\ (q \in pr \/ HasTask(q))
      BY <2>4, <2>7 DEF OwedOK
    <3>4. OwedOK'
      BY <1>1, <1>2, <2>7, <3>1, <3>3 DEF OwedOK, Selects
    <3> QED BY <1>m, <1>5, <3>2, <3>4
  <2> QED BY <2>3, <2>6, <2>7
<1> QED BY <1>6, <1>7

\* The debounce tasks keep it.
LEMMA EdgesStep_Task ==
    ASSUME EdgesInv, Races = {}, RunTask
    PROVE  EdgesInv'
<1> USE DEF EdgesInv
<1>m. MaskInv'
  BY MaskStep_Call
<1> DEFINE p == Head(tasks).pin
<1>1. /\ tasks # <<>> /\ tasks' = Tail(tasks) /\ todo = <<>> /\ isr = "none"
      /\ todo' = <<[op |-> "unmask", pin |-> p]>>
      /\ UNCHANGED <<high, pr, imr, isr, ifg, loaded, reg, await, want>>
  BY DEF RunTask, Free, Foreground
<1>2. /\ tasks \in Seq(Tasks) /\ tasks' \in Seq(Tasks) /\ Len(tasks) \in Nat
      /\ p \in Pins /\ HasTask(p) /\ Head(tasks) = tasks[1] /\ 1 \in DOMAIN tasks
      /\ \A i \in DOMAIN tasks' : i + 1 \in DOMAIN tasks /\ tasks'[i] = tasks[i + 1]
      /\ \A q \in Pins : HasTask(q) <=> (HasTask(q)' \/ q = p)
  <2>1. tasks \in Seq(Tasks)
    BY DEF MaskInv, TypeInv, TypeOK, Tasks
  <2>2. 1 \in DOMAIN tasks
    BY <1>1, <2>1
  <2> QED BY <1>1, <2>1, <2>2, TaskTaken DEF Tasks
<1>3. owed' = (IF Holds(p) THEN owed \ {p} ELSE owed)
  <2>1. Head(tasks).fn = "aux"
    BY <1>2 DEF OneDebounce
  <2> QED BY <2>1 DEF RunTask, IoportsEvent
<1> HIDE DEF p
<1>4. p \notin owed' /\ owed' \subseteq owed
  <2>1. p \in Debounced /\ p \notin PullupOff
    BY <1>2, PinFacts
  <2> QED BY <1>3, <2>1, OwedHolds
<1>5. \A o, q : Doing(o, q)' <=> (o = "unmask" /\ q = p)
  BY <1>1, <1>2, OneAccess
<1>6. /\ \A q : Armed(q)' <=> Armed(q)
      /\ \A q : Trigger(q)' = Trigger(q)
      /\ Steady' = Steady
  <2>1. \A o, q : ~Doing(o, q)
    BY <1>1 DEF Doing
  <2> QED BY <1>1, <1>5, <2>1, LevelsKept DEF Armed, Trigger, IrqMode
<1>7. Alone'
  <2>1. (\A s \in Together : s \subseteq Steady)'
    BY <1>1, <1>6 DEF Alone, Together
  <2> QED BY <1>1, <2>1 DEF Alone
<1>8. OneDebounce'
  <2>1. \A q : q = p => ~HasTask(q)'
    <3>1. ASSUME NEW i \in DOMAIN tasks', tasks'[i].pin = p
          PROVE  FALSE
      <4>1. i + 1 \in DOMAIN tasks /\ tasks[i + 1].pin = tasks[1].pin /\ i \in Nat /\ i >= 1
        BY <1>2, <3>1 DEF p
      <4>2. i + 1 = 1
        BY <1>2, <4>1 DEF OneDebounce
      <4> QED BY <4>1, <4>2
    <3> QED BY <3>1 DEF HasTask
  <2>2. /\ \A i, j \in DOMAIN tasks' : tasks'[i].pin = tasks'[j].pin => i = j
        /\ \A i \in DOMAIN tasks' : tasks'[i].fn = "aux"
    <3>1. ASSUME NEW i \in DOMAIN tasks', NEW j \in DOMAIN tasks', tasks'[i].pin = tasks'[j].pin
          PROVE  i = j
      <4>1. i \in Nat /\ j \in Nat /\ i + 1 = j + 1
        BY <1>2, <3>1 DEF OneDebounce
      <4> QED BY <4>1
    <3> QED BY <1>2, <3>1 DEF OneDebounce
  <2> QED BY <1>1, <1>2, <1>5, <2>1, <2>2 DEF OneDebounce
<1>9. OwedOK'
  BY <1>1, <1>2, <1>4, <1>6, PinFacts DEF OwedOK, Selects
<1> QED BY <1>m, <1>7, <1>8, <1>9

\* The calls of the foreground keep it.
LEMMA EdgesStep_Call ==
    ASSUME EdgesInv, Races = {}, Call
    PROVE  EdgesInv'
<1> USE DEF EdgesInv
<1>m. MaskInv'
  BY MaskStep_Call
<1>1. /\ todo = <<>> /\ isr = "none" /\ ~loaded /\ ifg = {} /\ reg = {} /\ pr \intersect imr = {}
      /\ UNCHANGED <<high, pr, tasks, isr, ifg, loaded, reg>> /\ imr' \subseteq imr
      /\ owed' \subseteq owed
  BY DEF Call, LimitsEnable, Register, Unregister, WaitBegin, WaitEnd, GpioIrqEnable,
         Free, Foreground, MaskInv, TypeInv
<1>2. /\ \A q : HasTask(q)' <=> HasTask(q)
      /\ Steady' = Steady
  BY <1>1, LevelsKept DEF HasTask
<1>3. Alone'
  <2>1. (\A s \in Together : s \subseteq Steady)'
    BY <1>1, <1>2 DEF Alone, Together
  <2> QED BY <1>1, <2>1 DEF Alone
<1>4. /\ \A o, q : ~Doing(o, q)
      /\ \A q : Armed(q) <=> (q \in want \/ await.pin = q)
  BY <1>1 DEF Doing, Armed
<1>5. ASSUME NEW p \in Aux, NEW op \in {"enable", "disable"}, GpioIrqEnable(p, op)
      PROVE  /\ \A o, q : Doing(o, q)' <=> (o = op /\ q = p)
             /\ ~HasTask(p) /\ UNCHANGED want
  <2>1. todo' = <<[op |-> op, pin |-> p]>> /\ p \in Pins
    BY <1>5, PinFacts DEF GpioIrqEnable
  <2>2. \A o, q : Doing(o, q)' <=> (o = op /\ q = p)
    BY <2>1, OneAccess
  <2> QED BY <1>5, <2>2 DEF GpioIrqEnable, MayEnable, MayDisable
<1>6. ASSUME NEW enabled \in SUBSET Core, LimitsEnable(enabled)
      PROVE  /\ \A o, q : Doing(o, q)' => q \in Core /\ o # "unmask"
             /\ UNCHANGED <<want, await>>
  <2>1. \A o, q : Doing(o, q)' => q \in Core /\ o # "unmask"
    BY <1>6, LimitAccesses DEF Doing
  <2> QED BY <1>6, <2>1 DEF LimitsEnable
<1>7. ASSUME NEW p \in Aux, Unregister(p), ~GpioIrqEnable(p, "disable")
      PROVE  /\ UNCHANGED await /\ want' = want \ {p} /\ owed' = owed \ {p} /\ await.pin # p
             /\ \A o, q : ~Doing(o, q)'
  <2>1. UNCHANGED <<todo, await>> /\ want' = want \ {p} /\ owed' = owed \ {p} /\ await.pin # p
    BY <1>7 DEF Unregister
  <2> QED BY <1>1, <2>1 DEF Doing
<1>8. OneDebounce'
  <2>1. \A q \in Pins : ~Doing("unmask", q)' /\ (q \in Debounced /\ Doing("enable", q)' => ~HasTask(q))
    <3>1. ASSUME NEW p \in Aux, GpioIrqEnable(p, "enable") \/ GpioIrqEnable(p, "disable")
          PROVE  \A q \in Pins :
                   ~Doing("unmask", q)' /\ (q \in Debounced /\ Doing("enable", q)' => ~HasTask(q))
      BY <1>5, <3>1
    <3>2. ASSUME NEW enabled \in SUBSET Core, LimitsEnable(enabled)
          PROVE  \A q \in Pins :
                   ~Doing("unmask", q)' /\ (q \in Debounced /\ Doing("enable", q)' => ~HasTask(q))
      BY <1>6, <3>2, PinFacts
    <3>3. CASE \E p \in Aux : Register(p) \/ Unregister(p)
      BY <1>7, <3>1, <3>3 DEF Register
    <3>4. CASE WaitEnd
      <4>1. await.pin \in Aux
        BY <3>4 DEF WaitEnd, MaskInv, TypeInv, TypeOK
      <4> QED BY <3>1, <3>4, <4>1 DEF WaitEnd
    <3> QED BY <3>1, <3>2, <3>3, <3>4 DEF Call, WaitBegin
  <2>2. \A q \in Debounced : ~HasTask(q) => q \notin pr \union ifg
    BY <1>1, <1>4, PinFacts DEF MaskInv, UsedOnly
  <2> QED BY <1>1, <1>2, <2>1, <2>2, PinFacts DEF OneDebounce
<1>9. /\ \A q \in owed' \ PullupOff : Armed(q)' /\ Trigger(q)' = Trigger(q)
      /\ await'.pin \in want' => await'.edge = Mode[await'.pin]
      /\ await'.pin \in Debounced \ want' => await'.edge = "rising"
  <2> DEFINE Goal == /\ \A q \in owed' \ PullupOff : Armed(q)' /\ Trigger(q)' = Trigger(q)
                     /\ await'.pin \in want' => await'.edge = Mode[await'.pin]
                     /\ await'.pin \in Debounced \ want' => await'.edge = "rising"
  <2>0. \A q \in owed' \ PullupOff : q \in want \/ await.pin = q
    BY <1>1, <1>4 DEF OwedOK
  <2>1. ASSUME UNCHANGED <<want, await>>, \A q \in Pins : Doing("enable", q)' => await.pin # q
        PROVE  Goal
    <3>1. \A q \in owed' \ PullupOff : Armed(q)'
      BY <1>1, <2>0, <2>1, PinFacts DEF Armed
    <3>2. \A q \in owed' \ PullupOff : Trigger(q)' = Trigger(q)
      BY <2>1 DEF Trigger, IrqMode
    <3> QED BY <2>1, <3>1, <3>2 DEF OwedOK
  <2>2. ASSUME NEW p \in Aux, Register(p) \/ Unregister(p)
        PROVE  Goal
    <3>1. CASE GpioIrqEnable(p, "enable") \/ GpioIrqEnable(p, "disable")
      BY <1>5, <2>1, <2>2, <3>1 DEF Register, Unregister
    <3>2. CASE ~(GpioIrqEnable(p, "enable") \/ GpioIrqEnable(p, "disable"))
      <4>1. /\ UNCHANGED await /\ want' = want \ {p} /\ owed' = owed \ {p} /\ await.pin # p
            /\ \A o, q : ~Doing(o, q)'
        BY <1>7, <2>2, <3>2 DEF Register
      <4>2. \A q \in owed' \ PullupOff : Armed(q)' /\ Trigger(q)' = Trigger(q)
        BY <2>0, <4>1 DEF Armed, Trigger, IrqMode
      <4> QED BY <4>1, <4>2 DEF OwedOK
    <3> QED BY <3>1, <3>2
  <2>3. ASSUME NEW p \in Aux, NEW edge \in {"rising", "falling"}, WaitBegin(p, edge)
        PROVE  Goal
    <3>1. /\ UNCHANGED want /\ await.pin = -1 /\ await' = [pin |-> p, edge |-> edge] /\ Fits(p, edge)
      BY <2>3, <1>5 DEF WaitBegin, NoPin
    <3>2. ASSUME NEW q \in owed' \ PullupOff PROVE Armed(q)' /\ Trigger(q)' = Trigger(q)
      <4>1. q \in want /\ q \in Pins
        BY <1>1, <2>0, <3>1, PinFacts
      <4>2. q = p => IrqMode(q) = edge
        BY <3>1, <4>1 DEF Fits, IrqMode, Aux
      <4>3. Trigger(q) = IrqMode(q) /\ IrqMode(q)' = IrqMode(q)
        BY <3>1, <4>1, PinFacts DEF Trigger, IrqMode
      <4> QED BY <3>1, <4>1, <4>2, <4>3 DEF Armed, Trigger
    <3> QED BY <3>1, <3>2 DEF Fits
  <2>4. CASE WaitEnd
    <3>1. await.pin \in Aux
      BY <2>4 DEF WaitEnd, MaskInv, TypeInv, TypeOK
    <3>2. CASE await.pin \in want
      <4>1. UNCHANGED want /\ await' = NoPin
        BY <1>5, <2>4, <3>1, <3>2 DEF WaitEnd
      <4>2. ASSUME NEW q \in owed' \ PullupOff PROVE Armed(q)' /\ Trigger(q)' = Trigger(q)
        <5>1. q \in want /\ q \in Pins
          BY <1>1, <2>0, <3>2, PinFacts
        <5>2. await.pin = q => Trigger(q) = IrqMode(q)
          BY <3>1, <3>2 DEF OwedOK, Trigger, IrqMode, Aux
        <5> QED BY <4>1, <5>1, <5>2, PinFacts DEF Armed, Trigger, IrqMode, NoPin
      <4> QED BY <1>m, <4>1, <4>2, PinFacts DEF NoPin, MaskInv, TypeInv, TypeOK
    <3>3. CASE await.pin \notin want
      <4>1. UNCHANGED <<want, await>> /\ \A q : ~Doing("enable", q)'
        BY <1>5, <2>4, <3>1, <3>3 DEF WaitEnd
      <4> QED BY <2>1, <4>1
    <3> QED BY <3>2, <3>3
  <2>5. ASSUME NEW enabled \in SUBSET Core, LimitsEnable(enabled)
        PROVE  Goal
    BY <1>6, <2>1, <2>5, PinFacts
  <2> QED BY <2>2, <2>3, <2>4, <2>5 DEF Call
<1>10. OwedOK'
  <2>1. \A q \in owed' \ PullupOff : Selects(Trigger(q), q \in high)'
    BY <1>1, <1>9 DEF OwedOK, Selects
  <2> QED BY <1>1, <1>2, <1>9, <2>1 DEF OwedOK
<1> QED BY <1>m, <1>3, <1>8, <1>10

\* The accesses to IMR1 keep it.
LEMMA EdgesStep_Imr ==
    ASSUME EdgesInv, Races = {}, Imr_Load \/ Imr_Store
    PROVE  EdgesInv'
<1> USE DEF EdgesInv
<1>m. MaskInv'
  BY MaskStep_Handler, MaskStep_Store
<1>1. CASE Imr_Load
  <2>1. /\ UNCHANGED <<high, pr, imr, tasks, isr, ifg, todo, await, event, want, owed>>
        /\ loaded' /\ reg' = imr /\ isr = "none" /\ pr \intersect imr = {}
    BY <1>1 DEF Imr_Load, Foreground
  <2>2. /\ \A q : Armed(q)' <=> Armed(q)
        /\ \A o, q : Doing(o, q)' <=> Doing(o, q)
        /\ \A q : HasTask(q)' <=> HasTask(q)
        /\ \A q : Trigger(q)' = Trigger(q)
        /\ Steady' = Steady
    BY <2>1, LevelsKept DEF Armed, Doing, HasTask, Trigger, IrqMode
  <2>3. Alone'
    <3>1. (\A s \in Together : s \subseteq Steady)'
      BY <2>1, <2>2 DEF Alone, Together
    <3> QED BY <2>1, <3>1 DEF Alone, MaskInv
  <2>4. OneDebounce'
    BY <2>1, <2>2 DEF OneDebounce
  <2>5. OwedOK'
    BY <2>1, <2>2 DEF OwedOK, Selects
  <2> QED BY <1>m, <2>3, <2>4, <2>5
<1>2. CASE Imr_Store
  <2>1. PICK o \in {"enable", "disable", "unmask"}, p \in Pins :
          /\ Doing(o, p) /\ isr = "none" /\ ifg = {} /\ pr \intersect imr = {} /\ loaded
          /\ imr' = (IF o = "disable" THEN reg \ {p} ELSE reg \union {p})
          /\ ~loaded' /\ reg' = {} /\ UNCHANGED <<high, pr, isr, ifg, tasks, event>>
          /\ TodoOK' /\ \A q \in Pins : ~Doing("unmask", q)'
          /\ \A q \in Pins : Doing("enable", q)' => q \in Core
          /\ \A q \in Pins :
               Armed(q)' <=> IF o = "enable" THEN Armed(q) \/ q = p
                             ELSE Armed(q) /\ (o = "disable" => q # p)
          /\ await' = (IF o = "disable" /\ await.pin = p THEN NoPin ELSE await)
          /\ want' = (IF o = "disable" THEN want \ {p}
                      ELSE IF o = "enable" /\ await.pin # p THEN want \union {p} ELSE want)
          /\ owed' = (IF o = "disable" THEN owed \ {p} ELSE owed)
    BY <1>2, StoreFacts
  <2>2. /\ \A q : HasTask(q)' <=> HasTask(q)
        /\ Steady' = Steady
    BY <2>1, LevelsKept DEF HasTask
  <2>3. Alone'
    <3>1. (\A s \in Together : s \subseteq Steady)'
      BY <2>1, <2>2 DEF Alone, Together
    <3> QED BY <2>1, <3>1 DEF Alone
  <2>4. o = "enable" => ~HasTask(p)
    BY <2>1, PinFacts DEF OneDebounce
  <2>5. o # "disable" => ~HasTask(p)
    <3>1. CASE o = "enable"
      BY <2>4, <3>1
    <3>2. CASE o = "unmask"
      BY <2>1, <3>2 DEF OneDebounce
    <3> QED BY <3>1, <3>2
  <2>6. OneDebounce'
    <3>1. \A q \in Debounced : ~Doing("enable", q)'
      BY <2>1, PinFacts
    <3> QED BY <2>1, <2>2, <2>5, <3>1 DEF OneDebounce
  <2>7. ASSUME NEW q \in owed' \ PullupOff
        PROVE  q \in owed /\ Armed(q)' /\ Trigger(q)' = Trigger(q)
    <3>1. q \in owed /\ q \in Pins /\ Armed(q) /\ (o = "disable" => q # p)
      BY <2>1, <2>7, PinFacts DEF OwedOK
    <3>2. Armed(q)'
      BY <2>1, <3>1
    <3>3. await'.pin = q <=> await.pin = q
      BY <2>1, <3>1, PinFacts DEF NoPin
    <3>4. await.pin = q => UNCHANGED await
      BY <2>1, <3>1
    <3>5. IrqMode(q)' = IrqMode(q)
      <4>1. CASE q # p
        BY <2>1, <4>1 DEF IrqMode
      <4>2. CASE q = p /\ o = "unmask"
        BY <2>1, <4>2 DEF IrqMode
      <4>3. CASE q = p /\ o = "enable"
        <5>1. q \in want
          BY <2>1, <3>1, <4>3 DEF Armed
        <5> QED BY <2>1, <4>3, <5>1 DEF IrqMode
      <4> QED BY <3>1, <4>1, <4>2, <4>3
    <3> QED BY <3>1, <3>2, <3>3, <3>4, <3>5 DEF Trigger
  <2>8. /\ await'.pin \in want' => await'.edge = Mode[await'.pin]
        /\ await'.pin \in Debounced \ want' => await'.edge = "rising"
    <3>1. CASE await' = NoPin
      BY <1>m, <3>1, PinFacts DEF NoPin, MaskInv, TypeInv, TypeOK
    <3>2. CASE await' # NoPin
      BY <2>1, <3>2 DEF OwedOK
    <3> QED BY <3>1, <3>2
  <2>9. OwedOK'
    <3>1. \A q \in owed' \ PullupOff : Selects(Trigger(q), q \in high)'
      BY <2>1, <2>7 DEF OwedOK, Selects
    <3> QED BY <2>1, <2>2, <2>7, <2>8, <3>1 DEF OwedOK
  <2> QED BY <1>m, <2>3, <2>6, <2>9
<1> QED BY <1>1, <1>2

\* No limit that trips and no edge a handler or a wait is for is overlooked, and no
\* bounce counts, when none of the races happens: whatever the pins, their modes and
\* polarities and the size of the task pool, except for the limits whose pull-up is
\* disabled, which interrupt when they are released.
THEOREM EdgesAreCounted ==
    ASSUME Races = {}
    PROVE  Spec => []EdgesCountOnce
<1>1. EdgesInv /\ [Next]_vars => EdgesInv'
  <2>1. ASSUME EdgesInv, UNCHANGED vars PROVE EdgesInv'
    <3>1. TypeInv'
      BY <2>1, TypeStep DEF EdgesInv, MaskInv
    <3>2. MaskInv'
      BY <2>1, <3>1 DEF EdgesInv, MaskInv, TodoOK, UsedOnly, Unmasked, Armed, Doing, HasTask, vars
    <3>3. Alone'
      BY <2>1, LevelsKept DEF EdgesInv, Alone, Together, vars
    <3>4. OneDebounce'
      BY <2>1 DEF EdgesInv, OneDebounce, HasTask, Doing, vars
    <3>5. OwedOK'
      BY <2>1 DEF EdgesInv, OwedOK, HasTask, Armed, Doing, Selects, Trigger, IrqMode, vars
    <3> QED BY <3>2, <3>3, <3>4, <3>5 DEF EdgesInv
  <2> QED BY <2>1, EdgesStep_Change, EdgesStep_Enter, EdgesStep_Core, EdgesStep_Aux, EdgesStep_Task,
             EdgesStep_Call, EdgesStep_Imr DEF Next, Handler
<1>2. EdgesInv => EdgesCountOnce
  BY DEF EdgesInv, OwedOK, OneDebounce, EdgesCountOnce
<1> QED BY <1>1, <1>2, EdgesInit, PTL DEF Spec
=============================================================================
