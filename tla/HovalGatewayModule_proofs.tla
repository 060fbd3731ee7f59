------------------------ MODULE HovalGatewayModule_proofs ------------------------
(***************************************************************************)
(* Safety of the gateway's main loop for every number of loops, errors and *)
(* units of delay.  The four invariants together are inductive: that the   *)
(* error count never exceeds the failing checks needs the bound of the     *)
(* count, which is part of the types.                                      *)
(***************************************************************************)
EXTENDS HovalGatewayModule, TLAPS

GatewayInv ==
  /\ TypeOK
  /\ ReadyIsStarted
  /\ ResetsAfterErrorsInARow
  /\ DiagnoseIsLastError

\* What a call that shows a value does to the types.
LEMMA ShowTypes ==
  ASSUME TypeOK, NEW changed \in BOOLEAN, NEW value \in BOOLEAN, Show(changed, value)
  PROVE  /\ online' \in BOOLEAN \cup {NoValue}
         /\ said' \in BOOLEAN \cup {NoValue}
         /\ heartbeatDue' \in BOOLEAN
  BY DEF TypeOK, Show

\* The error counters after the tasks of a call.
LEMMA TasksErrors ==
  ASSUME GatewayInv,
         NEW retry \in 0..CAN_CONNECT_RETRY_DELAY,
         NEW done \in SUBSET {"connect"},
         Tasks(retry, done), active' = active, flags' = flags
  PROVE  /\ ready' \in BOOLEAN
         /\ retryIn' \in 0..CAN_CONNECT_RETRY_DELAY
         /\ loopCount' \in 0..(CAN_ERROR_LOOP_CNT - 1)
         /\ canErrorCount' \in 0..CAN_ERROR_LIMIT
         /\ lastCanError' \in ErrorFlags \cup {NoError}
         /\ diagnose' \in ErrorFlags \cup {NoValue}
         /\ badChecks' \in 0..(CAN_ERROR_LIMIT + 1)
         /\ did' \subseteq {"connect", "reset", "hoval"}
         /\ ResetsAfterErrorsInARow'
         /\ DiagnoseIsLastError'
<1>0. /\ CAN_ERROR_LOOP_CNT \in Nat \ {0, 1} /\ CAN_ERROR_LIMIT \in Nat
      /\ CAN_CONNECT_RETRY_DELAY \in Nat \ {0}
  BY GatewayAssumption
<1>1. loopCount' \in 0..(CAN_ERROR_LOOP_CNT - 1)
  BY <1>0 DEF GatewayInv, TypeOK, Tasks
<1>2. CASE NoCheck(retry, done)
  <2>1. UNCHANGED <<canErrorCount, lastCanError, diagnose, badChecks>>
    BY <1>2 DEF NoCheck, errors
  <2>2. did' = done \cup {"hoval"} /\ ready' = TRUE /\ retryIn' = retry
    BY <1>2 DEF NoCheck
  <2> QED
    BY <1>1, <2>1, <2>2 DEF GatewayInv, TypeOK, ResetsAfterErrorsInARow, DiagnoseIsLastError
<1>3. CASE GoodCheck(retry, done)
  <2>1. /\ canErrorCount' = 0 /\ lastCanError' = NoError /\ badChecks' = 0
        /\ diagnose' = diagnose /\ ready' = TRUE /\ retryIn' = retry
        /\ did' \in {done, done \cup {"hoval"}}
    BY <1>3 DEF GoodCheck
  <2> QED
    BY <1>0, <1>1, <2>1 DEF GatewayInv, TypeOK, ResetsAfterErrorsInARow, DiagnoseIsLastError
<1>4. CASE BadCheck(retry, done)
  <2>1. /\ canErrorCount \in 0..CAN_ERROR_LIMIT
        /\ badChecks \in 0..(CAN_ERROR_LIMIT + 1)
        /\ canErrorCount <= badChecks
    BY DEF GatewayInv, TypeOK, ResetsAfterErrorsInARow
  <2>2. flags \in ErrorFlags
    BY <1>4 DEF BadCheck, GatewayInv, TypeOK
  <2>3. diagnose' = flags
    BY <1>4, <2>2 DEF BadCheck, Diagnose, GatewayInv, DiagnoseIsLastError
  <2>4. badChecks' \in 0..(CAN_ERROR_LIMIT + 1) /\ badChecks' > canErrorCount
    BY <1>0, <1>4, <2>1 DEF BadCheck
  <2>5. CASE ~TooMany
    <3>1. /\ canErrorCount' = canErrorCount + 1 /\ lastCanError' = flags
          /\ ready' = TRUE /\ retryIn' = retry /\ did' = done
      BY <1>4, <2>5 DEF BadCheck, CountError
    <3>2. canErrorCount + 1 <= CAN_ERROR_LIMIT
      BY <1>0, <2>1, <2>5 DEF TooMany, CountError
    <3> QED
      BY <1>0, <1>1, <2>1, <2>2, <2>3, <2>4, <3>1, <3>2
         DEF ResetsAfterErrorsInARow, DiagnoseIsLastError
  <2>6. CASE TooMany
    <3>1. /\ canErrorCount' = 0 /\ lastCanError' = NoError
          /\ ready' = FALSE /\ retryIn' = 0 /\ did' = done \cup {"reset"}
      BY <1>4, <2>6 DEF BadCheck
    <3>2. badChecks' > CAN_ERROR_LIMIT /\ canErrorCount' <= badChecks'
      BY <1>0, <2>1, <2>4, <2>6, <3>1 DEF TooMany, CountError
    <3>3. did' \subseteq {"connect", "reset", "hoval"}
      BY <3>1
    <3>4. ResetsAfterErrorsInARow' /\ DiagnoseIsLastError'
      BY <3>1, <3>2 DEF ResetsAfterErrorsInARow, DiagnoseIsLastError
    <3>5. retryIn' \in 0..CAN_CONNECT_RETRY_DELAY /\ canErrorCount' \in 0..CAN_ERROR_LIMIT
      BY <1>0, <3>1
    <3>6. /\ lastCanError' \in ErrorFlags \cup {NoError}
          /\ diagnose' \in ErrorFlags \cup {NoValue}
      BY <2>2, <2>3, <3>1
    <3>7. ready' \in BOOLEAN
      BY <3>1
    <3> QED
      BY <1>1, <2>4, <3>3, <3>4, <3>5, <3>6, <3>7
  <2> QED
    BY <2>5, <2>6
<1> QED
  BY <1>2, <1>3, <1>4 DEF Tasks

LEMMA InitInv == Init => GatewayInv
<1> SUFFICES ASSUME Init PROVE GatewayInv
  OBVIOUS
<1>1. /\ canErrorCount \in 0..CAN_ERROR_LIMIT /\ badChecks \in 0..(CAN_ERROR_LIMIT + 1)
      /\ retryIn \in 0..CAN_CONNECT_RETRY_DELAY /\ loopCount \in 0..(CAN_ERROR_LOOP_CNT - 1)
      /\ canErrorCount <= badChecks
  BY GatewayAssumption DEF Init
<1>2. did \subseteq {"connect", "reset", "hoval"} /\ "reset" \notin did
  BY DEF Init
<1> QED
  BY <1>1, <1>2
     DEF Init, GatewayInv, TypeOK, ReadyIsStarted, ResetsAfterErrorsInARow, DiagnoseIsLastError

LEMMA NextInv == GatewayInv /\ [Next]_vars => GatewayInv'
<1> SUFFICES ASSUME GatewayInv, [Next]_vars PROVE GatewayInv'
  OBVIOUS
<1>0. /\ CAN_ERROR_LOOP_CNT \in Nat \ {0, 1} /\ CAN_ERROR_LIMIT \in Nat
      /\ CAN_CONNECT_RETRY_DELAY \in Nat \ {0}
  BY GatewayAssumption
<1>1. TypeOK /\ ReadyIsStarted /\ ResetsAfterErrorsInARow /\ DiagnoseIsLastError
  BY DEF GatewayInv
<1>2. CASE World
  <2>1. /\ active' \in BOOLEAN /\ canUp' \in BOOLEAN
        /\ flags' \in ErrorFlags \cup {NoError}
    BY <1>1, <1>2 DEF World, TypeOK
  <2>2. did' = {} /\ UNCHANGED <<ready, started, retryIn, heartbeatDue, loopCount, errors, online, said>>
    BY <1>2 DEF World
  <2> QED
    BY <1>1, <2>1, <2>2 DEF errors, GatewayInv, TypeOK, ReadyIsStarted,
                            ResetsAfterErrorsInARow, DiagnoseIsLastError
<1>3. CASE Tick
  <2>1. retryIn' \in 0..CAN_CONNECT_RETRY_DELAY
    BY <1>0, <1>1, <1>3 DEF Tick, TypeOK
  <2> QED
    BY <1>1, <1>3, <2>1 DEF Tick, world, errors, GatewayInv, TypeOK, ReadyIsStarted,
                            ResetsAfterErrorsInARow, DiagnoseIsLastError
<1>4. CASE Unpowered
  <2>1. retryIn' \in 0..CAN_CONNECT_RETRY_DELAY
    BY <1>0, <1>1, <1>4 DEF Unpowered, TypeOK
  <2>2. Show(retryIn = 0, FALSE)
    BY <1>4 DEF Unpowered
  <2>3. /\ online' \in BOOLEAN \cup {NoValue} /\ said' \in BOOLEAN \cup {NoValue}
        /\ heartbeatDue' \in BOOLEAN
    BY <1>1, <2>2, ShowTypes
  <2> QED
    BY <1>1, <1>4, <2>1, <2>3 DEF Unpowered, world, errors, GatewayInv, TypeOK,
       ReadyIsStarted, ResetsAfterErrorsInARow, DiagnoseIsLastError
<1>5. CASE Wait
  <2>1. Show(FALSE, FALSE)
    BY <1>5 DEF Wait
  <2>2. /\ online' \in BOOLEAN \cup {NoValue} /\ said' \in BOOLEAN \cup {NoValue}
        /\ heartbeatDue' \in BOOLEAN
    BY <1>1, <2>1, ShowTypes
  <2> QED
    BY <1>1, <1>5, <2>2 DEF Wait, world, errors, GatewayInv, TypeOK,
       ReadyIsStarted, ResetsAfterErrorsInARow, DiagnoseIsLastError
<1>6. CASE ConnectFails
  <2>1. Show(FALSE, FALSE) /\ retryIn' \in 0..CAN_CONNECT_RETRY_DELAY
    <3>1. Show(FALSE, FALSE)
      BY <1>6 DEF ConnectFails
    <3>2. retryIn' = CAN_CONNECT_RETRY_DELAY
      BY <1>6 DEF ConnectFails
    <3>3. retryIn' \in 0..CAN_CONNECT_RETRY_DELAY
      BY <1>0, <3>2
    <3> QED
      BY <3>1, <3>3
  <2>2. /\ online' \in BOOLEAN \cup {NoValue} /\ said' \in BOOLEAN \cup {NoValue}
        /\ heartbeatDue' \in BOOLEAN
    BY <1>1, <2>1, ShowTypes
  <2>3. did' \subseteq {"connect", "reset", "hoval"} /\ "reset" \notin did'
    BY <1>6 DEF ConnectFails
  <2>4. /\ UNCHANGED <<active, canUp, flags, ready, loopCount, canErrorCount, lastCanError,
                       diagnose, badChecks>>
    BY <1>6 DEF ConnectFails, world, errors
  <2>5. started' \in BOOLEAN /\ ReadyIsStarted'
    <3>1. ~ready /\ ready' = ready /\ started' = FALSE
      BY <1>6 DEF ConnectFails
    <3> QED
      BY <3>1 DEF ReadyIsStarted
  <2>6. ResetsAfterErrorsInARow' /\ DiagnoseIsLastError'
    BY <1>1, <2>3, <2>4 DEF ResetsAfterErrorsInARow, DiagnoseIsLastError
  <2>7. TypeOK'
    BY <1>1, <2>1, <2>2, <2>3, <2>4, <2>5 DEF TypeOK
  <2> QED
    BY <2>5, <2>6, <2>7 DEF GatewayInv
<1>7. CASE Connect
  <2>1. Show(TRUE, TRUE) /\ started' = TRUE /\ UNCHANGED world
    BY <1>7 DEF Connect
  <2>2. /\ online' \in BOOLEAN \cup {NoValue} /\ said' \in BOOLEAN \cup {NoValue}
        /\ heartbeatDue' \in BOOLEAN
    BY <1>1, <2>1, ShowTypes
  <2>3. Tasks(CAN_CONNECT_RETRY_DELAY, {"connect"})
    BY <1>7 DEF Connect
  <2>4. /\ CAN_CONNECT_RETRY_DELAY \in 0..CAN_CONNECT_RETRY_DELAY
        /\ {"connect"} \in SUBSET {"connect"}
    BY <1>0
  <2> QED
    BY <1>1, <2>1, <2>2, <2>3, <2>4, TasksErrors DEF world, GatewayInv, TypeOK, ReadyIsStarted
<1>8. CASE Work
  <2>1. Show(FALSE, TRUE) /\ started' = started /\ UNCHANGED world /\ ready
    BY <1>8 DEF Work
  <2>2. /\ online' \in BOOLEAN \cup {NoValue} /\ said' \in BOOLEAN \cup {NoValue}
        /\ heartbeatDue' \in BOOLEAN
    BY <1>1, <2>1, ShowTypes
  <2>3. Tasks(0, {})
    BY <1>8 DEF Work
  <2>4. 0 \in 0..CAN_CONNECT_RETRY_DELAY /\ {} \in SUBSET {"connect"}
    BY <1>0
  <2> QED
    BY <1>1, <2>1, <2>2, <2>3, <2>4, TasksErrors DEF world, GatewayInv, TypeOK, ReadyIsStarted
<1>9. CASE UNCHANGED vars
  BY <1>1, <1>9 DEF vars, world, errors, GatewayInv, TypeOK, ReadyIsStarted,
                    ResetsAfterErrorsInARow, DiagnoseIsLastError
<1> QED
  BY <1>2, <1>3, <1>4, <1>5, <1>6, <1>7, <1>8, <1>9 DEF Next, loop

LEMMA Invariance == Spec => []GatewayInv
  BY InitInv, NextInv, PTL DEF Spec

(* Every variable of the main loop keeps its type, the error count its bound *)
(* among them.                                                               *)
THEOREM TypeCorrect == Spec => []TypeOK
  BY Invariance, PTL DEF GatewayInv

(* The handler never works on a transport that is not started.               *)
THEOREM WorksOnStartedTransport == Spec => []ReadyIsStarted
  BY Invariance, PTL DEF GatewayInv

(* The CAN bus is only reset after CAN_ERROR_LIMIT + 1 failing looks at the  *)
(* errors in a row.                                                          *)
THEOREM ResetsAreJustified == Spec => []ResetsAfterErrorsInARow
  BY Invariance, PTL DEF GatewayInv

(* The diagnosis object shows the error that was counted last.               *)
THEOREM DiagnosisIsCurrent == Spec => []DiagnoseIsLastError
  BY Invariance, PTL DEF GatewayInv
===============================================================================
