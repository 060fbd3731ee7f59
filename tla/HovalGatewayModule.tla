--------------------------- MODULE HovalGatewayModule ---------------------------
(***************************************************************************)
(* The gateway's main loop: it watches whether the Hoval device is powered *)
(* (the active pin), connects the CAN transport and tries again later if   *)
(* that fails, counts the errors the CAN controller reports and reconnects *)
(* after too many in a row, and shows on a group object whether the        *)
(* gateway is online.                                                      *)
(*                                                                         *)
(* One step is one call of loop().  Time is counted in units of which      *)
(* CAN_CONNECT_RETRY_DELAY make the delay between two attempts.            *)
(***************************************************************************)
EXTENDS Integers

CONSTANTS
  CAN_ERROR_LOOP_CNT,        \* every how many loops the errors are looked at
  CAN_ERROR_LIMIT,           \* errors in a row that do not yet matter (20)
  CAN_CONNECT_RETRY_DELAY,
  ErrorFlags,                \* flags the controller may report
  NoError, NoValue

ASSUME GatewayAssumption ==
  /\ CAN_ERROR_LOOP_CNT \in Nat \ {0, 1}
  /\ CAN_ERROR_LIMIT \in Nat /\ CAN_CONNECT_RETRY_DELAY \in Nat \ {0}
  /\ NoError \notin ErrorFlags /\ NoValue \notin ErrorFlags
  /\ NoValue \notin BOOLEAN

VARIABLES
  active,           \* the pin: the device is powered
  canUp,            \* begin() and start() of the transport would succeed
  flags,            \* what the controller would report now
  ready, started,   \* connected; the transport has its interrupt attached
  retryIn,          \* time until the next attempt; 0 also stands for
                    \* lastReconnectTry = 0
  heartbeatDue,     \* the heartbeat interval is over
  loopCount,        \* modulo CAN_ERROR_LOOP_CNT
  canErrorCount, lastCanError,
  diagnose,         \* the diagnosis group object
  online,           \* the online group object, NoValue until first set
  \* history, no part of the program:
  said,             \* the last value of it sent on the KNX bus
  badChecks,        \* failing looks at the errors since the last good one
  did               \* what the last call of loop() did

world   == <<active, canUp, flags>>
errors  == <<canErrorCount, lastCanError, diagnose, badChecks>>
vars    == <<world, ready, started, retryIn, heartbeatDue, loopCount, errors,
             online, said, did>>

Init ==
  /\ active \in BOOLEAN /\ canUp \in BOOLEAN /\ flags = NoError
  /\ ready = FALSE /\ started = FALSE /\ retryIn = 0
  /\ heartbeatDue = FALSE
  /\ loopCount = 0 /\ canErrorCount = 0 /\ lastCanError = NoError
  /\ diagnose = NoValue /\ online = NoValue
  /\ said = NoValue /\ badChecks = 0 /\ did = {}

-------------------------------------------------------------------------------
(* The world (external).                                                     *)

World ==
  /\ \/ active' = ~active /\ UNCHANGED <<canUp, flags>>
     \/ canUp' = ~canUp /\ UNCHANGED <<active, flags>>
     \/ flags' \in (ErrorFlags \cup {NoError}) \ {flags} /\ UNCHANGED <<active, canUp>>
  /\ did' = {}
  /\ UNCHANGED <<ready, started, retryIn, heartbeatDue, loopCount, errors, online, said>>

\* Time passes; the heartbeat has an interval of its own.
Tick ==
  /\ retryIn' = IF retryIn = 0 THEN 0 ELSE retryIn - 1
  /\ heartbeatDue' \in {heartbeatDue, TRUE}
  /\ did' = {}
  /\ UNCHANGED <<world, ready, started, loopCount, errors, online, said>>

-------------------------------------------------------------------------------
(* loop(): first checkActive(), whose result goes to the online object.      *)

\* A value that differs is sent; if none was, the heartbeat may be due.  An
\* object that was never set sends the FALSE it was created with.
Show(changed, value) ==
  LET sent == changed /\ online # value
      beat == ~sent /\ heartbeatDue
  IN  /\ online' = IF changed THEN value ELSE online
      /\ said' = IF sent THEN value
                 ELSE IF ~beat THEN said
                 ELSE IF online = NoValue THEN FALSE ELSE online
      /\ heartbeatDue' = (heartbeatDue /\ ~beat)

\* Variant: shown only by the call that finds the gateway ready.
UnpoweredWhenReady ==
  /\ ~active
  /\ ready' = FALSE
  /\ retryIn' = IF retryIn = 0 THEN CAN_CONNECT_RETRY_DELAY ELSE retryIn
  /\ Show(retryIn = 0 /\ ready, FALSE)
  /\ did' = {}
  /\ UNCHANGED <<world, started, loopCount, errors>>

\* The device is off: nothing is done, and the transport stays as it is.
Unpowered ==
  /\ ~active
  /\ ready' = FALSE
  /\ retryIn' = IF retryIn = 0 THEN CAN_CONNECT_RETRY_DELAY ELSE retryIn
  /\ Show(retryIn = 0, FALSE)
  /\ did' = {}
  /\ UNCHANGED <<world, started, loopCount, errors>>

\* Not connected, and not yet time to try again.
Wait ==
  /\ active /\ ~ready /\ retryIn > 0
  /\ Show(FALSE, FALSE)
  /\ did' = {}
  /\ UNCHANGED <<world, ready, started, retryIn, loopCount, errors>>

\* connect() stops the transport first.  Its failure is not shown.
ConnectFails ==
  /\ active /\ ~ready /\ retryIn = 0 /\ ~canUp
  /\ started' = FALSE
  /\ retryIn' = CAN_CONNECT_RETRY_DELAY
  /\ Show(FALSE, FALSE)
  /\ did' = {"connect"}
  /\ UNCHANGED <<world, ready, loopCount, errors>>

-------------------------------------------------------------------------------
(* Connected, the call goes on: every CAN_ERROR_LOOP_CNT calls it looks at   *)
(* the errors of the controller, and otherwise, or if there was nothing to   *)
(* report, the handler and then the mapper have their turn.  retry is what   *)
(* checkActive() left in retryIn, done what the call did so far.             *)

\* Variant: every call looks at the errors.
ChecksEachLoop == TRUE

ChecksErrors == (loopCount + 1) % CAN_ERROR_LOOP_CNT = 0

NoCheck(retry, done) ==
  /\ ~ChecksErrors
  /\ ready' = TRUE /\ retryIn' = retry
  /\ did' = done \cup {"hoval"}
  /\ UNCHANGED errors

\* Variant: earlier errors still count.
GoodCheckKeepsCount(retry, done) ==
  /\ ChecksErrors /\ flags = NoError
  /\ ready' = TRUE /\ retryIn' = retry
  /\ lastCanError' = NoError
  /\ badChecks' = 0
  /\ did' \in {done, done \cup {"hoval"}}
  /\ UNCHANGED <<canErrorCount, diagnose>>

\* No error; a report of frames dropped takes the turn of the handler.
GoodCheck(retry, done) ==
  /\ ChecksErrors /\ flags = NoError
  /\ ready' = TRUE /\ retryIn' = retry
  /\ canErrorCount' = 0 /\ lastCanError' = NoError
  /\ badChecks' = 0
  /\ did' \in {done, done \cup {"hoval"}}
  /\ UNCHANGED diagnose

\* Variant: another error starts the count again.
CountPerError == IF flags # lastCanError THEN 1 ELSE canErrorCount + 1

CountError == canErrorCount + 1

TooMany == CountError > CAN_ERROR_LIMIT

Diagnose == IF flags # lastCanError THEN flags ELSE diagnose

BadCheck(retry, done) ==
  /\ ChecksErrors /\ flags # NoError
  /\ diagnose' = Diagnose
  /\ badChecks' = IF badChecks <= CAN_ERROR_LIMIT THEN badChecks + 1 ELSE badChecks
  /\ \/ /\ ~TooMany
        /\ canErrorCount' = CountError /\ lastCanError' = flags
        /\ ready' = TRUE /\ retryIn' = retry
        /\ did' = done
     \/ /\ TooMany          \* the next call reconnects
        /\ canErrorCount' = 0 /\ lastCanError' = NoError
        /\ ready' = FALSE /\ retryIn' = 0
        /\ did' = done \cup {"reset"}

Tasks(retry, done) ==
  /\ loopCount' = (loopCount + 1) % CAN_ERROR_LOOP_CNT
  /\ NoCheck(retry, done) \/ GoodCheck(retry, done) \/ BadCheck(retry, done)

\* Variant: whether the transport could be started is not looked at.
ConnectBlindly ==
  /\ active /\ ~ready /\ retryIn = 0
  /\ started' = canUp
  /\ Show(TRUE, TRUE)
  /\ Tasks(CAN_CONNECT_RETRY_DELAY, {"connect"})
  /\ UNCHANGED world

\* Variant: the new state is not shown.
ConnectUnseen ==
  /\ active /\ ~ready /\ retryIn = 0 /\ canUp
  /\ started' = TRUE
  /\ Show(FALSE, TRUE)
  /\ Tasks(CAN_CONNECT_RETRY_DELAY, {"connect"})
  /\ UNCHANGED world

\* lastReconnectTry keeps the time of this attempt until the next call.
Connect ==
  /\ active /\ ~ready /\ retryIn = 0 /\ canUp
  /\ started' = TRUE
  /\ Show(TRUE, TRUE)
  /\ Tasks(CAN_CONNECT_RETRY_DELAY, {"connect"})
  /\ UNCHANGED world

Work ==
  /\ active /\ ready
  /\ Show(FALSE, TRUE)
  /\ Tasks(0, {})
  /\ UNCHANGED <<world, started>>

loop == Unpowered \/ Wait \/ ConnectFails \/ Connect \/ Work

Next == World \/ Tick \/ loop

Spec == Init /\ [][Next]_vars

\* The main program calls loop() again and again, and time passes.
FairSpec == Spec /\ WF_vars(loop) /\ WF_vars(Tick)

-------------------------------------------------------------------------------
(* Properties.                                                               *)

TypeOK ==
  /\ active \in BOOLEAN /\ canUp \in BOOLEAN /\ flags \in ErrorFlags \cup {NoError}
  /\ ready \in BOOLEAN /\ started \in BOOLEAN /\ heartbeatDue \in BOOLEAN
  /\ retryIn \in 0..CAN_CONNECT_RETRY_DELAY
  /\ loopCount \in 0..(CAN_ERROR_LOOP_CNT - 1)
  /\ canErrorCount \in 0..CAN_ERROR_LIMIT
  /\ lastCanError \in ErrorFlags \cup {NoError}
  /\ diagnose \in ErrorFlags \cup {NoValue}
  /\ online \in BOOLEAN \cup {NoValue} /\ said \in BOOLEAN \cup {NoValue}
  /\ badChecks \in 0..(CAN_ERROR_LIMIT + 1)
  /\ did \subseteq {"connect", "reset", "hoval"}

(* The handler only works on a transport that is started, through every      *)
(* sequence of power cuts, failed attempts and resets.                       *)
(* (HovalGatewayModule.cpp:139-214, HovalProtocolDecoder.cpp:38-46)          *)
ReadyIsStarted == ready => started

(* The CAN bus is reset only after more than CAN_ERROR_LIMIT failing looks   *)
(* at the errors without a good one between them, however many power cuts    *)
(* and reconnects fell between.  (HovalGatewayModule.cpp:100-137)            *)
ResetsAfterErrorsInARow ==
  /\ "reset" \in did => badChecks > CAN_ERROR_LIMIT
  /\ canErrorCount <= badChecks

(* The diagnosis object shows the error counted last, also when errors of    *)
(* different kinds take turns.  (HovalGatewayModule.cpp:118-125)             *)
DiagnoseIsLastError == lastCanError # NoError => diagnose = lastCanError

(* Once the device stays off, KNX is told so, even if it went off right      *)
(* after a connect or while waiting for the next attempt.                    *)
(* (HovalGatewayModule.cpp:151-164, 185-194)                                 *)
OfflineIsSaid == <>[]~active => <>[](said = FALSE)

(* Once the device stays on, the transport can be started and the controller *)
(* has no errors, the gateway is connected and KNX knows.                    *)
(* (HovalGatewayModule.cpp:165-194)                                          *)
OnlineIsSaid ==
  <>[](active /\ canUp /\ flags = NoError) => <>[](ready /\ said = TRUE)

(* Errors that do not end make the gateway connect again and again, also if  *)
(* the flags change all the time.  (HovalGatewayModule.cpp:127-135)          *)
ErrorsForceReconnect ==
  <>[](active /\ flags # NoError) => []<>("connect" \in did)

(* Looking at the errors, which takes the turn of the handler, never keeps   *)
(* it from its work.  (HovalGatewayModule.cpp:78-92)                         *)
HandlerGetsTurns == []<>ready => []<>("hoval" \in did)

(* "Verbindung aktiv senden alle" (HovalGateway.share.xml:249), the object   *)
(* "Online": when the gateway stays disconnected, KNX is not told that it is *)
(* connected for ever.                                                       *)
NotSaidOnlineForEver == <>[]~ready => []<>(said # TRUE)
===============================================================================
