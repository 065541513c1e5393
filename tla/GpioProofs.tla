----------------------------- MODULE GpioProofs -----------------------------
(***************************************************************************)
(* Theorems about the life of the stepper program on its GPIO lines, for   *)
(* any number of instances and starts, any lines a driver may claim, and   *)
(* either initial direction.                                               *)
(***************************************************************************)
EXTENDS GpioLifecycle, TLAPS

-----------------------------------------------------------------------------
(* The inductive invariant.                                                *)

\* An instance with no rival since its start is the only one that runs.
AloneInv ==
  \A p, q \in Procs : ~rival[p] /\ q # p => ~Running(q)

\* Every loop over the lines starts at the first one.
IndexInv ==
  \A p \in Procs :
    pc[p] \in Ended \cup Serving \cup {"bind"} => i[p] = ENABLE_NUM

\* What each stage has done to the lines below the loop counter, and what the
\* stage before it left of the others.
UnexportInv(p) ==
  pc[p] \in {"unexport", "leaving"} =>
    \A pin \in Pins : pin < i[p] =>
      gpio[pin] = "unexported" \/ <<pc[p], pin>> \in erred[p]

ExportInv(p) ==
  pc[p] = "export" =>
    \A pin \in Pins :
      IF pin < i[p] THEN gpio[pin] = "in"
                    ELSE gpio[pin] = "unexported" \/ <<"unexport", pin>> \in erred[p]

DirectionInv(p) ==
  pc[p] = "direction" =>
    \A pin \in Pins : gpio[pin] = IF pin < i[p] THEN LOW ELSE "in"

ValueInv(p) ==
  pc[p] = "value" =>
    \A pin \in Pins :
      IF pin < i[p] THEN gpio[pin] = InitialLevel(pin) /\ fd[p][pin] = "open"
                    ELSE gpio[pin] = LOW

\* From bind() to the end the lines are the program's, and ENA is its own.
OwnerInv(p) ==
  /\ pc[p] \in {"bind"} \cup Serving => \A pin \in Pins : fd[p][pin] = "open"
  /\ pc[p] \in {"bind", "idle", "refused"} => gpio[ENABLE_NUM] = HIGH

\* How an instance that had no rival may have ended.
EndInv(p) ==
  /\ pc[p] = "done" =>
       \A pin \in Pins : gpio[pin] = "unexported" \/ <<"leaving", pin>> \in erred[p]
  /\ pc[p] = "failed" => claimed # {} \/ erred[p] # {}
  /\ pc[p] = "failed" /\ gpio[ENABLE_NUM] = LOW =>
       \E e \in Window \cup {<<"unexport", ENABLE_NUM>>} : e \in erred[p]

StageOf(p) ==
  /\ UnexportInv(p) /\ ExportInv(p) /\ DirectionInv(p) /\ ValueInv(p)
  /\ OwnerInv(p) /\ EndInv(p)

StageInv == \A p \in Procs : Alone(p) => StageOf(p)

Inv == TypeOK /\ AloneInv /\ IndexInv /\ StageInv

-----------------------------------------------------------------------------
\* The system starts in the invariant: nothing exported, nobody running.
LEMMA InitInv == Init => Inv
<1> SUFFICES ASSUME Init PROVE Inv
  OBVIOUS
<1> USE GpioAssumption DEF Init, Pins, ENABLE_NUM, PUL_NUM, NoDescriptors
<1>1. TypeOK
  BY DEF TypeOK, Setup, Serving, Ended
<1>2. AloneInv /\ IndexInv
  BY DEF AloneInv, IndexInv, Running, Ended
<1>3. StageInv
  BY DEF StageInv, StageOf, UnexportInv, ExportInv, DirectionInv, ValueInv, OwnerInv, EndInv,
         Serving
<1>4. QED
  BY <1>1, <1>2, <1>3 DEF Inv

\* The loops over the lines stay within them.
LEMMA NextPinType ==
  ASSUME NEW p \in Procs, NEW stage, i \in [Procs -> Pins], NextPin(p, PUL_NUM, stage)
  PROVE  i' \in [Procs -> Pins]
<1>1. CASE i[p] < PUL_NUM
  <2>1. i[p] + 1 \in Pins
    BY <1>1 DEF Pins, ENABLE_NUM, PUL_NUM
  <2>2. QED
    BY <1>1, <2>1 DEF NextPin
<1>2. CASE ~(i[p] < PUL_NUM)
  BY <1>2 DEF NextPin, Pins, ENABLE_NUM, PUL_NUM
<1>3. QED
  BY <1>1, <1>2

\* Whoever takes a step is running, so that nobody else is alone.
LEMMA OnlyStage ==
  ASSUME Inv, NEW p \in Procs, Running(p), UNCHANGED rival,
         Alone(p) => StageOf(p)'
  PROVE  StageInv'
<1>1. \A q \in Procs : q # p => rival[q]
  BY DEF Inv, AloneInv
<1>2. QED
  BY <1>1 DEF StageInv, Alone

\* Every step of every instance keeps it.  Whoever takes a step is running, so
\* that the only instance that may be alone after it is the one that took it.
LEMMA StepInv == Inv /\ [Next]_vars => Inv'
<1> SUFFICES ASSUME Inv, [Next]_vars PROVE Inv'
  OBVIOUS
<1> USE GpioAssumption
    DEF Inv, Goto, NoDescriptors, Pins, ENABLE_NUM, DIR_NUM, PUL_NUM, Setup, Serving,
        Ended, Running
<1>1. ASSUME NEW p \in Procs, Start(p) PROVE Inv'
  <2> USE <1>1 DEF Start, FirstStage
  <2>1. TypeOK'
    BY DEF TypeOK, LOW, HIGH
  <2>2. AloneInv'
    BY DEF AloneInv, TypeOK
  <2>3. IndexInv'
    BY DEF IndexInv, TypeOK
  <2>4. StageInv'
    <3>1. \A q \in Procs : q # p => rival'[q]
      OBVIOUS
    <3>2. pc'[p] = "unexport" /\ i'[p] = ENABLE_NUM
      BY DEF TypeOK, IndexInv
    <3>3. StageOf(p)'
      BY <3>2
      DEF StageOf, UnexportInv, ExportInv, DirectionInv, ValueInv, OwnerInv, EndInv
    <3>4. QED
      BY <3>1, <3>3 DEF StageInv, Alone
  <2>5. QED
    BY <2>1, <2>2, <2>3, <2>4
<1>2. ASSUME NEW p \in Procs, Unexport(p) PROVE Inv'
  <2> USE <1>2 DEF Unexport, NextPin, Err
  <2>1. TypeOK'
    <3> USE DEF TypeOK, LOW, HIGH
    <3>1. /\ gpio' \in [Pins -> {"unexported", "in", LOW, HIGH}]
          /\ erred' \in [Procs -> SUBSET ((Setup \cup {"leaving"}) \X Pins)]
          /\ UNCHANGED <<claimed, rival, starts>>
      OBVIOUS
    <3>2. pc' \in [Procs -> Setup \cup Serving \cup {"leaving"} \cup Ended]
      OBVIOUS
    <3>3. i' \in [Procs -> Pins]
      BY NextPinType
    <3>4. fd' \in [Procs -> [Pins -> {"none", "open", "dead"}]]
      OBVIOUS
    <3>5. /\ port' \in Procs \cup {"free", "lingers"}
          /\ \A q \in Procs : pc'[q] \in Serving <=> port' = q
      OBVIOUS
    <3>6. \A q \in Procs, pin \in Pins :
            fd'[q][pin] = "open" => gpio'[pin] \in {LOW, HIGH}
      OBVIOUS
    <3>7. QED
      BY <3>1, <3>2, <3>3, <3>4, <3>5, <3>6
  <2>2. AloneInv'
    BY DEF AloneInv, TypeOK
  <2>3. IndexInv'
    BY DEF IndexInv, TypeOK
  <2>4. StageInv'
    <3> SUFFICES ASSUME Alone(p) PROVE StageOf(p)'
      BY OnlyStage
    <3>1. /\ i[p] \in Pins /\ pc[p] \in {"unexport", "leaving"}
          /\ \A pin \in Pins : pin < i[p] =>
               gpio[pin] = "unexported" \/ <<pc[p], pin>> \in erred[p]
      BY DEF StageInv, StageOf, UnexportInv, TypeOK
    <3>2. \A pin \in Pins : pin < i[p] \/ pin = i[p] =>
            gpio'[pin] = "unexported" \/ <<pc[p], pin>> \in erred'[p]
      <4>1. CASE gpio' = [gpio EXCEPT ![i[p]] = "unexported"] /\ UNCHANGED erred
        BY <3>1, <4>1 DEF TypeOK
      <4>2. CASE Err(p) /\ UNCHANGED <<gpio, fd>>
        <5>1. erred'[p] = erred[p] \cup {<<pc[p], i[p]>>}
          BY <4>2 DEF TypeOK, Err
        <5>2. QED
          BY <3>1, <4>2, <5>1
      <4>3. QED
        BY <4>1, <4>2
    <3>3. CASE i[p] < PUL_NUM
      <4>1. pc'[p] = pc[p] /\ i'[p] = i[p] + 1
        BY <3>3 DEF TypeOK
      <4>2. UnexportInv(p)'
        BY <3>1, <3>2, <4>1 DEF UnexportInv
      <4>3. QED
        BY <3>1, <4>1, <4>2
        DEF StageOf, ExportInv, DirectionInv, ValueInv, OwnerInv, EndInv
    <3>4. CASE ~(i[p] < PUL_NUM)
      <4>1. /\ pc'[p] = IF pc[p] = "leaving" THEN "done" ELSE "export"
            /\ i'[p] = ENABLE_NUM
        BY <3>4 DEF TypeOK
      <4>2. \A pin \in Pins :
              gpio'[pin] = "unexported" \/ <<pc[p], pin>> \in erred'[p]
        BY <3>1, <3>2, <3>4
      <4>3. ExportInv(p)' /\ EndInv(p)'
        BY <3>1, <4>1, <4>2 DEF ExportInv, EndInv
      <4>4. QED
        BY <3>1, <4>1, <4>3 DEF StageOf, UnexportInv, DirectionInv, ValueInv, OwnerInv
    <3>5. QED
      BY <3>3, <3>4
  <2>5. QED
    BY <2>1, <2>2, <2>3, <2>4
<1>3. ASSUME NEW p \in Procs, Export(p) PROVE Inv'
  <2> USE <1>3 DEF Export, NextPin, CanExport, Fail, CloseAll, Err
  <2>1. TypeOK'
    <3> USE DEF TypeOK, LOW, HIGH
    <3>1. /\ gpio' \in [Pins -> {"unexported", "in", LOW, HIGH}]
          /\ erred' \in [Procs -> SUBSET ((Setup \cup {"leaving"}) \X Pins)]
          /\ UNCHANGED <<claimed, rival, starts>>
      OBVIOUS
    <3>2. pc' \in [Procs -> Setup \cup Serving \cup {"leaving"} \cup Ended]
      OBVIOUS
    <3>3. i' \in [Procs -> Pins]
      BY NextPinType
    <3>4. fd' \in [Procs -> [Pins -> {"none", "open", "dead"}]]
      OBVIOUS
    <3>5. /\ port' \in Procs \cup {"free", "lingers"}
          /\ \A q \in Procs : pc'[q] \in Serving <=> port' = q
      OBVIOUS
    <3>6. \A q \in Procs, pin \in Pins :
            fd'[q][pin] = "open" => gpio'[pin] \in {LOW, HIGH}
      <4>1. CASE CanExport(i[p]) /\ gpio' = [gpio EXCEPT ![i[p]] = "in"] /\ fd' = fd
        <5>1. i[p] \in Pins /\ gpio[i[p]] \notin {LOW, HIGH}
          BY <4>1
        <5>2. QED
          BY <4>1, <5>1
      <4>2. CASE Fail(p, "failed") /\ UNCHANGED gpio
        BY <4>2
      <4>3. QED
        BY <4>1, <4>2
    <3>7. QED
      BY <3>1, <3>2, <3>3, <3>4, <3>5, <3>6
  <2>2. AloneInv'
    BY DEF AloneInv, TypeOK
  <2>3. IndexInv'
    BY DEF IndexInv, TypeOK
  <2>4. StageInv'
    <3> SUFFICES ASSUME Alone(p) PROVE StageOf(p)'
      BY OnlyStage
    <3> USE DEF StageInv, StageOf, IndexInv, TypeOK, LOW, HIGH
    <3>1. UnexportInv(p)'
      BY DEF UnexportInv
    <3>2. ExportInv(p)'
      <4>1. ASSUME pc'[p] = "export"
            PROVE  /\ CanExport(i[p]) /\ gpio' = [gpio EXCEPT ![i[p]] = "in"]
                   /\ i'[p] = i[p] + 1 /\ erred' = erred
        BY <4>1
      <4>2. \A pin \in Pins :
              IF pin < i[p] THEN gpio[pin] = "in"
                ELSE gpio[pin] = "unexported" \/ <<"unexport", pin>> \in erred[p]
        BY DEF ExportInv
      <4>3. ASSUME pc'[p] = "export", NEW pin \in Pins
            PROVE  IF pin < i'[p] THEN gpio'[pin] = "in"
                     ELSE gpio'[pin] = "unexported" \/ <<"unexport", pin>> \in erred'[p]
        <5>1. CASE pin = i[p]
          BY <4>1, <4>3, <5>1
        <5>2. CASE pin # i[p]
          <6>1. gpio'[pin] = gpio[pin] /\ (pin < i'[p] <=> pin < i[p])
            BY <4>1, <4>3, <5>2
          <6>2. QED
            BY <4>1, <4>2, <4>3, <6>1
        <5>3. QED
          BY <5>1, <5>2
      <4>4. QED
        BY <4>3 DEF ExportInv
    <3>3. DirectionInv(p)'
      BY DEF ExportInv, DirectionInv
    <3>4. ValueInv(p)'
      BY DEF DirectionInv, ValueInv, InitialLevel
    <3>5. OwnerInv(p)'
      BY DEF ValueInv, OwnerInv, InitialLevel
    <3>6. EndInv(p)'
      <4>1. ASSUME pc'[p] = "failed" PROVE claimed' # {} \/ erred'[p] # {}
        <5>1. CASE Err(p)
          BY <5>1
        <5>2. CASE ~CanExport(i[p]) /\ UNCHANGED <<gpio, erred>>
          <6>1. i[p] \in claimed \/ gpio[i[p]] # "unexported"
            BY <5>2
          <6>2. gpio[i[p]] = "unexported" \/ <<"unexport", i[p]>> \in erred[p]
            <7>1. ExportInv(p) /\ i[p] \in Pins /\ pc[p] = "export" /\ ~(i[p] < i[p])
              OBVIOUS
            <7>2. QED
              BY <7>1 DEF ExportInv
          <6>3. QED
            BY <5>2, <6>1, <6>2
        <5>3. QED
          BY <4>1, <5>1, <5>2
      <4>2. ASSUME pc'[p] = "failed", gpio'[ENABLE_NUM] = LOW
            PROVE  <<"unexport", ENABLE_NUM>> \in erred'[p]
        BY <4>2 DEF ExportInv
      <4>3. QED
        BY <4>1, <4>2 DEF EndInv
    <3>7. QED
      BY <3>1, <3>2, <3>3, <3>4, <3>5, <3>6
  <2>5. QED
    BY <2>1, <2>2, <2>3, <2>4
<1>4. ASSUME NEW p \in Procs, Direction(p) PROVE Inv'
  <2> USE <1>4 DEF Direction, NextPin, Fail, CloseAll, Err
  <2>1. TypeOK'
    <3> USE DEF TypeOK, LOW, HIGH
    <3>1. /\ gpio' \in [Pins -> {"unexported", "in", LOW, HIGH}]
          /\ erred' \in [Procs -> SUBSET ((Setup \cup {"leaving"}) \X Pins)]
          /\ UNCHANGED <<claimed, rival, starts>>
      OBVIOUS
    <3>2. pc' \in [Procs -> Setup \cup Serving \cup {"leaving"} \cup Ended]
      OBVIOUS
    <3>3. i' \in [Procs -> Pins]
      OBVIOUS
    <3>4. fd' \in [Procs -> [Pins -> {"none", "open", "dead"}]]
      OBVIOUS
    <3>5. /\ port' \in Procs \cup {"free", "lingers"}
          /\ \A q \in Procs : pc'[q] \in Serving <=> port' = q
      OBVIOUS
    <3>6. \A q \in Procs, pin \in Pins :
            fd'[q][pin] = "open" => gpio'[pin] \in {LOW, HIGH}
      OBVIOUS
    <3>7. QED
      BY <3>1, <3>2, <3>3, <3>4, <3>5, <3>6
  <2>2. AloneInv'
    BY DEF AloneInv, TypeOK
  <2>3. IndexInv'
    BY DEF IndexInv, TypeOK
  <2>4. StageInv'
    <3> SUFFICES ASSUME Alone(p) PROVE StageOf(p)'
      BY OnlyStage
    <3> USE DEF StageInv, StageOf, IndexInv, TypeOK, LOW, HIGH
    <3>1. UnexportInv(p)'
      BY DEF UnexportInv
    <3>2. ExportInv(p)'
      BY DEF UnexportInv, ExportInv
    <3>3. DirectionInv(p)'
      BY DEF ExportInv, DirectionInv
    <3>4. ValueInv(p)'
      BY DEF DirectionInv, ValueInv, InitialLevel
    <3>5. OwnerInv(p)'
      BY DEF ValueInv, OwnerInv, InitialLevel
    <3>6. EndInv(p)'
      <4>1. gpio[i[p]] # "unexported"
        BY DEF DirectionInv, LOW
      <4>2. ASSUME pc'[p] = "failed"
            PROVE  <<"direction", i[p]>> \in erred'[p] /\ gpio' = gpio
        BY <4>1, <4>2
      <4>3. i[p] = ENABLE_NUM => gpio[ENABLE_NUM] # LOW
        BY DEF DirectionInv
      <4>4. ASSUME pc'[p] = "failed", gpio'[ENABLE_NUM] = LOW
            PROVE  \E e \in Window : e \in erred'[p]
        <5>1. i[p] \in {DIR_NUM, PUL_NUM}
          BY <4>2, <4>3, <4>4
        <5>2. <<"direction", i[p]>> \in Window
          BY <5>1 DEF Window
        <5>3. QED
          BY <4>2, <4>4, <5>2
      <4>5. QED
        BY <4>2, <4>4 DEF EndInv
    <3>7. QED
      BY <3>1, <3>2, <3>3, <3>4, <3>5, <3>6
  <2>5. QED
    BY <2>1, <2>2, <2>3, <2>4
<1>5. ASSUME NEW p \in Procs, Value(p) PROVE Inv'
  <2> USE <1>5 DEF Value, NextPin, Fail, CloseAll, InitialLevel, Err
  <2>1. TypeOK'
    <3> USE DEF TypeOK, LOW, HIGH
    <3>1. /\ gpio' \in [Pins -> {"unexported", "in", LOW, HIGH}]
          /\ erred' \in [Procs -> SUBSET ((Setup \cup {"leaving"}) \X Pins)]
          /\ UNCHANGED <<claimed, rival, starts>>
      OBVIOUS
    <3>2. pc' \in [Procs -> Setup \cup Serving \cup {"leaving"} \cup Ended]
      OBVIOUS
    <3>3. i' \in [Procs -> Pins]
      OBVIOUS
    <3>4. fd' \in [Procs -> [Pins -> {"none", "open", "dead"}]]
      OBVIOUS
    <3>5. /\ port' \in Procs \cup {"free", "lingers"}
          /\ \A q \in Procs : pc'[q] \in Serving <=> port' = q
      OBVIOUS
    <3>6. \A q \in Procs, pin \in Pins :
            fd'[q][pin] = "open" => gpio'[pin] \in {LOW, HIGH}
      OBVIOUS
    <3>7. QED
      BY <3>1, <3>2, <3>3, <3>4, <3>5, <3>6
  <2>2. AloneInv'
    BY DEF AloneInv, TypeOK
  <2>3. IndexInv'
    BY DEF IndexInv, TypeOK
  <2>4. StageInv'
    <3> SUFFICES ASSUME Alone(p) PROVE StageOf(p)'
      BY OnlyStage
    <3> USE DEF StageInv, StageOf, IndexInv, TypeOK, LOW, HIGH
    <3>1. UnexportInv(p)'
      BY DEF UnexportInv
    <3>2. ExportInv(p)'
      BY DEF UnexportInv, ExportInv
    <3>3. DirectionInv(p)'
      BY DEF ExportInv, DirectionInv
    <3>4. ValueInv(p)'
      BY DEF DirectionInv, ValueInv, InitialLevel
    <3>5. OwnerInv(p)'
      BY DEF ValueInv, OwnerInv, InitialLevel
    <3>6. EndInv(p)'
      <4>1. gpio[i[p]] \in {LOW, HIGH}
        BY DEF ValueInv
      <4>2. ASSUME pc'[p] = "failed"
            PROVE  <<"value", i[p]>> \in erred'[p] /\ gpio' = gpio
        BY <4>1, <4>2
      <4>3. i[p] # ENABLE_NUM => gpio[ENABLE_NUM] = HIGH
        BY DEF ValueInv, InitialLevel
      <4>4. ASSUME pc'[p] = "failed", gpio'[ENABLE_NUM] = LOW
            PROVE  <<"value", ENABLE_NUM>> \in erred'[p]
        BY <4>2, <4>3, <4>4
      <4>5. QED
        BY <4>2, <4>4 DEF EndInv, Window
    <3>7. QED
      BY <3>1, <3>2, <3>3, <3>4, <3>5, <3>6
  <2>5. QED
    BY <2>1, <2>2, <2>3, <2>4
<1>6. ASSUME NEW p \in Procs, Bind(p) PROVE Inv'
  <2> USE <1>6 DEF Bind, PortIsFree, Fail, CloseAll, Err
  <2>1. TypeOK'
    <3> USE DEF TypeOK, LOW, HIGH
    <3>1. /\ gpio' \in [Pins -> {"unexported", "in", LOW, HIGH}]
          /\ erred' \in [Procs -> SUBSET ((Setup \cup {"leaving"}) \X Pins)]
          /\ UNCHANGED <<claimed, rival, starts>>
      OBVIOUS
    <3>2. pc' \in [Procs -> Setup \cup Serving \cup {"leaving"} \cup Ended]
      OBVIOUS
    <3>3. i' \in [Procs -> Pins]
      OBVIOUS
    <3>4. fd' \in [Procs -> [Pins -> {"none", "open", "dead"}]]
      OBVIOUS
    <3>5. /\ port' \in Procs \cup {"free", "lingers"}
          /\ \A q \in Procs : pc'[q] \in Serving <=> port' = q
      OBVIOUS
    <3>6. \A q \in Procs, pin \in Pins :
            fd'[q][pin] = "open" => gpio'[pin] \in {LOW, HIGH}
      OBVIOUS
    <3>7. QED
      BY <3>1, <3>2, <3>3, <3>4, <3>5, <3>6
  <2>2. AloneInv'
    BY DEF AloneInv, TypeOK
  <2>3. IndexInv'
    BY DEF IndexInv, TypeOK
  <2>4. StageInv'
    <3> SUFFICES ASSUME Alone(p) PROVE StageOf(p)'
      BY OnlyStage
    <3> USE DEF StageInv, StageOf, IndexInv, TypeOK, LOW, HIGH
    <3>1. UnexportInv(p)'
      BY DEF UnexportInv
    <3>2. ExportInv(p)'
      BY DEF UnexportInv, ExportInv
    <3>3. DirectionInv(p)'
      BY DEF ExportInv, DirectionInv
    <3>4. ValueInv(p)'
      BY DEF DirectionInv, ValueInv, InitialLevel
    <3>5. OwnerInv(p)'
      BY DEF ValueInv, OwnerInv, InitialLevel
    <3>6. EndInv(p)'
      <4>1. gpio[ENABLE_NUM] = HIGH /\ gpio' = gpio
        BY DEF OwnerInv
      <4>2. ASSUME pc'[p] = "failed" PROVE erred'[p] # {}
        <5>1. Err(p)
          BY <4>2
        <5>2. <<pc[p], i[p]>> \in erred'[p]
          BY <5>1
        <5>3. QED
          BY <5>2
      <4>3. QED
        BY <4>1, <4>2 DEF EndInv
    <3>7. QED
      BY <3>1, <3>2, <3>3, <3>4, <3>5, <3>6
  <2>5. QED
    BY <2>1, <2>2, <2>3, <2>4
<1>7. ASSUME NEW p \in Procs, Enable(p) PROVE Inv'
  <2> USE <1>7 DEF Enable, Write
  <2>1. TypeOK'
    BY DEF TypeOK, LOW, HIGH
  <2>2. AloneInv'
    BY DEF AloneInv, TypeOK
  <2>3. IndexInv'
    BY DEF IndexInv, TypeOK
  <2>4. StageInv'
    <3> SUFFICES ASSUME Alone(p) PROVE StageOf(p)'
      BY OnlyStage
    <3> USE DEF StageInv, StageOf, IndexInv, TypeOK, LOW, HIGH
    <3>1. UnexportInv(p)'
      BY DEF UnexportInv
    <3>2. ExportInv(p)'
      BY DEF UnexportInv, ExportInv
    <3>3. DirectionInv(p)'
      BY DEF ExportInv, DirectionInv
    <3>4. ValueInv(p)'
      BY DEF DirectionInv, ValueInv, InitialLevel
    <3>5. OwnerInv(p)'
      BY DEF ValueInv, OwnerInv, InitialLevel
    <3>6. EndInv(p)'
      BY DEF EndInv
    <3>7. QED
      BY <3>1, <3>2, <3>3, <3>4, <3>5, <3>6
  <2>5. QED
    BY <2>1, <2>2, <2>3, <2>4
<1>8. ASSUME NEW p \in Procs, Disable(p) PROVE Inv'
  <2> USE <1>8 DEF Disable, Write
  <2>1. TypeOK'
    BY DEF TypeOK, LOW, HIGH
  <2>2. AloneInv'
    BY DEF AloneInv, TypeOK
  <2>3. IndexInv'
    BY DEF IndexInv, TypeOK
  <2>4. StageInv'
    <3> SUFFICES ASSUME Alone(p) PROVE StageOf(p)'
      BY OnlyStage
    <3> USE DEF StageInv, StageOf, IndexInv, TypeOK, LOW, HIGH
    <3>1. UnexportInv(p)'
      BY DEF UnexportInv
    <3>2. ExportInv(p)'
      BY DEF UnexportInv, ExportInv
    <3>3. DirectionInv(p)'
      BY DEF ExportInv, DirectionInv
    <3>4. ValueInv(p)'
      BY DEF DirectionInv, ValueInv, InitialLevel
    <3>5. OwnerInv(p)'
      BY DEF ValueInv, OwnerInv, InitialLevel
    <3>6. EndInv(p)'
      BY DEF EndInv
    <3>7. QED
      BY <3>1, <3>2, <3>3, <3>4, <3>5, <3>6
  <2>5. QED
    BY <2>1, <2>2, <2>3, <2>4
<1>9. ASSUME NEW p \in Procs, SetDirection(p) PROVE Inv'
  <2> USE <1>9 DEF SetDirection, Write
  <2>1. TypeOK'
    BY DEF TypeOK, LOW, HIGH
  <2>2. AloneInv'
    BY DEF AloneInv, TypeOK
  <2>3. IndexInv'
    BY DEF IndexInv, TypeOK
  <2>4. StageInv'
    <3> SUFFICES ASSUME Alone(p) PROVE StageOf(p)'
      BY OnlyStage
    <3> USE DEF StageInv, StageOf, IndexInv, TypeOK, LOW, HIGH
    <3>1. UnexportInv(p)'
      BY DEF UnexportInv
    <3>2. ExportInv(p)'
      BY DEF UnexportInv, ExportInv
    <3>3. DirectionInv(p)'
      BY DEF ExportInv, DirectionInv
    <3>4. ValueInv(p)'
      BY DEF DirectionInv, ValueInv, InitialLevel
    <3>5. OwnerInv(p)'
      BY DEF ValueInv, OwnerInv, InitialLevel
    <3>6. EndInv(p)'
      BY DEF EndInv
    <3>7. QED
      BY <3>1, <3>2, <3>3, <3>4, <3>5, <3>6
  <2>5. QED
    BY <2>1, <2>2, <2>3, <2>4
<1>10. ASSUME NEW p \in Procs, Quit(p) PROVE Inv'
  <2> USE <1>10 DEF Quit, ReleasePort, CloseAll, LastStage
  <2>1. TypeOK'
    BY DEF TypeOK, LOW, HIGH
  <2>2. AloneInv'
    BY DEF AloneInv, TypeOK
  <2>3. IndexInv'
    BY DEF IndexInv, TypeOK
  <2>4. StageInv'
    <3> SUFFICES ASSUME Alone(p) PROVE StageOf(p)'
      BY OnlyStage
    <3> USE DEF StageInv, StageOf, IndexInv, TypeOK, LOW, HIGH
    <3>1. UnexportInv(p)'
      BY DEF UnexportInv
    <3>2. ExportInv(p)'
      BY DEF UnexportInv, ExportInv
    <3>3. DirectionInv(p)'
      BY DEF ExportInv, DirectionInv
    <3>4. ValueInv(p)'
      BY DEF DirectionInv, ValueInv, InitialLevel
    <3>5. OwnerInv(p)'
      BY DEF ValueInv, OwnerInv, InitialLevel
    <3>6. EndInv(p)'
      BY DEF EndInv
    <3>7. QED
      BY <3>1, <3>2, <3>3, <3>4, <3>5, <3>6
  <2>5. QED
    BY <2>1, <2>2, <2>3, <2>4
<1>11. ASSUME NEW p \in Procs, Killed(p) PROVE Inv'
  <2> USE <1>11 DEF Killed, ReleasePort, Fail, CloseAll
  <2>1. TypeOK'
    BY DEF TypeOK, LOW, HIGH
  <2>2. AloneInv'
    BY DEF AloneInv, TypeOK
  <2>3. IndexInv'
    BY DEF IndexInv, TypeOK
  <2>4. StageInv'
    <3> SUFFICES ASSUME Alone(p) PROVE StageOf(p)'
      BY OnlyStage
    <3> USE DEF StageInv, StageOf, IndexInv, TypeOK, LOW, HIGH
    <3>1. UnexportInv(p)'
      BY DEF UnexportInv
    <3>2. ExportInv(p)'
      BY DEF UnexportInv, ExportInv
    <3>3. DirectionInv(p)'
      BY DEF ExportInv, DirectionInv
    <3>4. ValueInv(p)'
      BY DEF DirectionInv, ValueInv, InitialLevel
    <3>5. OwnerInv(p)'
      BY DEF ValueInv, OwnerInv, InitialLevel
    <3>6. EndInv(p)'
      BY DEF EndInv
    <3>7. QED
      BY <3>1, <3>2, <3>3, <3>4, <3>5, <3>6
  <2>5. QED
    BY <2>1, <2>2, <2>3, <2>4
<1>12. CASE LingerEnds
  BY <1>12
  DEF LingerEnds, TypeOK, AloneInv, IndexInv, StageInv, StageOf, UnexportInv,
      ExportInv, DirectionInv, ValueInv, OwnerInv, EndInv, Alone
<1>13. CASE UNCHANGED vars
  BY <1>13
  DEF vars, TypeOK, AloneInv, IndexInv, StageInv, StageOf, UnexportInv, ExportInv,
      DirectionInv, ValueInv, OwnerInv, EndInv, Alone
<1>14. QED
  BY <1>1, <1>2, <1>3, <1>4, <1>5, <1>6, <1>7, <1>8, <1>9, <1>10,
     <1>11, <1>12, <1>13
  DEF Next, Main

-----------------------------------------------------------------------------
(* The safety properties of GpioLifecycle.                                 *)

\* Every reachable state satisfies the inductive invariant, whoever is killed
\* or started in between.
THEOREM Invariance == Spec => []Inv
  BY InitInv, StepInv, PTL DEF Spec

\* Every variable keeps its type, and only a program that listens has the port.
THEOREM TypeCorrect == Spec => []TypeOK
<1>1. Inv => TypeOK
  BY DEF Inv
<1>2. QED
  BY <1>1, Invariance, PTL

\* A setup with no other instance about fails for errors of its own only, never
\* on lines that an earlier one left behind, at whatever step that one ended.
THEOREM RepairCorrect == Spec => []RepairedStart
<1>1. Inv => RepairedStart
  BY DEF Inv, StageInv, StageOf, EndInv, Alone, RepairedStart
<1>2. QED
  BY <1>1, Invariance, PTL

\* A program that serves, and had no rival, has its lines, and the driver is
\* off whenever it does not rotate.
THEOREM OwnershipCorrect == Spec => []ReadyOwnsLines
<1>1. Inv => ReadyOwnsLines
  BY DEF Inv, StageInv, StageOf, OwnerInv, ReadyOwnsLines, Serving
<1>2. QED
  BY <1>1, Invariance, PTL

\* A program that quits, and had no rival, leaves no line exported but one whose
\* unexport failed.
THEOREM CleanExitCorrect == Spec => []CleanExit
<1>1. Inv => CleanExit
  BY DEF Inv, StageInv, StageOf, EndInv, CleanExit
<1>2. QED
  BY <1>1, Invariance, PTL

\* A program that ended by itself and had no rival has left the driver enabled
\* only if an error met it while ENA was low, or kept it from unexporting ENA.
THEOREM LeftOnCorrect == Spec => []LeftOnOnlyInWindow
<1>1. Inv => LeftOnOnlyInWindow
  <2> SUFFICES ASSUME Inv, NEW p \in Procs, pc[p] \in {"failed", "refused", "done"},
                      Alone(p), gpio[ENABLE_NUM] = LOW
               PROVE  \E e \in Window \cup {<<"unexport", ENABLE_NUM>>,
                                            <<"leaving", ENABLE_NUM>>} : e \in erred[p]
    BY DEF LeftOnOnlyInWindow
  <2>1. ENABLE_NUM \in Pins /\ LOW # HIGH /\ LOW # "unexported"
    BY DEF Pins, ENABLE_NUM, PUL_NUM, LOW, HIGH
  <2>2. OwnerInv(p) /\ EndInv(p)
    BY DEF Inv, StageInv, StageOf
  <2>3. CASE pc[p] = "failed"
    BY <2>2, <2>3 DEF EndInv
  <2>4. CASE pc[p] = "refused"
    BY <2>1, <2>2, <2>4 DEF OwnerInv
  <2>5. CASE pc[p] = "done"
    BY <2>1, <2>2, <2>5 DEF EndInv
  <2>6. QED
    BY <2>3, <2>4, <2>5
<1>2. QED
  BY <1>1, Invariance, PTL
=============================================================================
