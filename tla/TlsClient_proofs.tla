-------------------------- MODULE TlsClient_proofs ------------------------
(***************************************************************************)
(* For any number of calls: why the task frees nothing that lwIP may still *)
(* use when callbacks run whole for it, and why, however callbacks and the *)
(* task interleave, the time-out is the error that the call returns.       *)
(***************************************************************************)
EXTENDS TlsClient, SequenceTheorems, TLAPS

Steps == {"complete", "close", "close_freed", "timeout", "generic"}

\* What may be left of a callback.
Whole == {Close, PollSteps, ErrSteps}
Rests == {<<"close">>, <<"close_freed", "generic">>, <<"generic">>}

Types ==
  /\ pc \in {"idle", "wait", "free", "config"}
  /\ pcb \in {"null", "new", "connecting", "open"}
  /\ cb \in {<<>>} \cup Whole \cup Rests
  /\ state \in [live : BOOLEAN, complete : BOOLEAN, error : Int] /\ err \in Int
  /\ resolving \in BOOLEAN /\ config \in BOOLEAN /\ atomic \in BOOLEAN
  /\ wild \in BOOLEAN

\* lwIP has something left to do for the task only while the task waits, or
\* has just seen `complete`, the last thing but one that a callback does.
Waiting ==
  /\ cb = <<>> /\ (resolving \/ pcb # "null") => pc = "wait" /\ cause = "none"
  /\ cb # <<>> => pc \in {"wait", "free"} /\ cause # "none"
  /\ resolving => pcb = "new" /\ cb = <<>>
  /\ pc \in {"wait", "free"} => state.live
  /\ pc # "idle" => config
  /\ cb \in Whole => ~state.complete
  /\ cb # <<"generic">>

\* The time-out is on its way into the state, in it, or read from it; no other
\* cause leaves an error behind.
Errors ==
  /\ cb = PollSteps => cause = "timeout"
  /\ pc = "wait" /\ cause = "none" => ~state.complete
  /\ pc = "wait" /\ cause = "timeout" => cb = PollSteps \/ state.error # NoError
  /\ pc = "wait" /\ cause # "timeout" => state.error = NoError
  /\ pc \in {"free", "config"} => cause # "none" /\ (err # NoError <=> cause = "timeout")
  /\ pc = "idle" /\ cause # "none" => (result = "fail" <=> cause = "timeout")

\* No call returns once the behaviour is undefined, except the one that could
\* not ask for the name; nothing is freed then unless a callback was cut.
Undefined ==
  /\ atomic => state.live /\ config
  /\ pc = "idle" => cause = "none"

TInv == Types /\ IF wild THEN Undefined ELSE Waiting /\ Errors

LEMMA CallbackNames ==
  /\ Close = <<"complete", "close">>
  /\ PollSteps = <<"timeout", "complete", "close">>
  /\ ErrSteps = <<"complete", "close_freed", "generic">>
<1>1. ASSUME NEW a \in Steps, NEW b \in Steps, NEW c \in Steps
      PROVE  <<a, b>> \o <<c>> = <<a, b, c>> /\ <<a>> \o <<b, c>> = <<a, b, c>>
  <2> DEFINE s == <<a, b, c>>
  <2>1. {<<a, b>>, <<c>>, <<a>>, <<b, c>>, s} \subseteq Seq(Steps)
    OBVIOUS
  <2>2. Len(<<a, b>> \o <<c>>) = 3 /\ \A i \in 1..3 : (<<a, b>> \o <<c>>)[i] = s[i]
    BY <2>1
  <2>3. Len(<<a>> \o <<b, c>>) = 3 /\ \A i \in 1..3 : (<<a>> \o <<b, c>>)[i] = s[i]
    BY <2>1
  <2>4. <<a, b>> \o <<c>> \in Seq(Steps) /\ <<a>> \o <<b, c>> \in Seq(Steps) /\ Len(s) = 3
    BY <2>1
  <2> QED BY <2>1, <2>2, <2>3, <2>4, SeqEqual
<1> QED BY <1>1 DEF Close, PollSteps, ErrSteps, Steps

\* A step of a callback leaves what may be left of one.
LEMMA CallbackTails ==
  /\ Head(PollSteps) = "timeout" /\ Tail(PollSteps) = Close
  /\ Head(Close) = "complete" /\ Tail(Close) = <<"close">>
  /\ Head(ErrSteps) = "complete" /\ Tail(ErrSteps) = <<"close_freed", "generic">>
  /\ Head(<<"close">>) = "close" /\ Tail(<<"close">>) = <<>>
  /\ Head(<<"close_freed", "generic">>) = "close_freed"
  /\ Tail(<<"close_freed", "generic">>) = <<"generic">>
  /\ Head(<<"generic">>) = "generic" /\ Tail(<<"generic">>) = <<>>
BY CallbackNames

LEMMA CallbacksDiffer ==
  /\ Close # <<>> /\ PollSteps # <<>> /\ ErrSteps # <<>>
  /\ Close # PollSteps /\ Close # ErrSteps /\ PollSteps # ErrSteps
  /\ \A s \in Rests : s # <<>> /\ s \notin Whole
  /\ <<"close">> # <<"close_freed", "generic">> /\ <<"close">> # <<"generic">>
  /\ <<"generic">> \notin {<<>>, Close, PollSteps, ErrSteps}
BY CallbackNames DEF Rests, Whole

LEMMA InitTInv == Init => TInv
<1> SUFFICES ASSUME Init PROVE TInv
  OBVIOUS
<1>1. Types
  <2>1. state \in [live : BOOLEAN, complete : BOOLEAN, error : Int]
    BY DEF Init, NoError
  <2> QED BY <2>1 DEF Init, Types, NoError
<1>2. Waiting
  BY CallbacksDiffer DEF Init, Waiting, Whole
<1>3. Errors
  BY CallbacksDiffer DEF Init, Errors, NoError
<1> QED BY <1>1, <1>2, <1>3 DEF TInv, Init

\* run_tls_client_test().
LEMMA OpenTInv ==
  ASSUME TInv, Open
  PROVE  TInv'
<1> USE DEF TInv, Types, Open, TaskMayRun, NoError
<1>1. Types'
  <2>1. /\ pc' \in {"idle", "wait"} /\ pcb' \in {"null", "new", "connecting", "open"}
        /\ cb' \in {<<>>, Close, cb} /\ resolving' \in BOOLEAN /\ wild' \in BOOLEAN
    BY DEF CannotOpen, Resolve, ConnectAtOnce, DnsRefused
  <2>2. state' \in [live : BOOLEAN, complete : BOOLEAN, error : Int]
    <3>1. state' \in [live : {TRUE}, complete : BOOLEAN, error : {0}]
      OBVIOUS
    <3> HIDE DEF TInv, Types, Open
    <3>2. PICK c \in BOOLEAN : state' = [live |-> TRUE, complete |-> c, error |-> 0]
      BY <3>1
    <3> QED BY <3>2
  <2>3. cb' \in {<<>>} \cup Whole \cup Rests
    BY <2>1 DEF Whole
  <2> QED BY <2>1, <2>2, <2>3
<1>2. cb = <<>> /\ ~wild /\ ~resolving /\ pcb = "null"
  BY DEF Waiting
<1>3. IF wild' THEN Undefined' ELSE Waiting' /\ Errors'
  <2>1. state'.live /\ state'.error = NoError /\ config' /\ cb' = <<>>
    BY <1>2
  <2> HIDE DEF TInv, Types, Open
  <2>2. CASE CannotOpen
    BY <1>2, <2>1, <2>2, CallbacksDiffer DEF CannotOpen, Waiting, Errors, Whole
  <2>3. CASE Resolve
    BY <1>2, <2>1, <2>3, CallbacksDiffer DEF Resolve, Waiting, Errors, Whole
  <2>4. CASE ConnectAtOnce
    BY <1>2, <2>1, <2>4, CallbacksDiffer DEF ConnectAtOnce, Waiting, Errors, Whole
  <2>5. CASE DnsRefused
    BY <2>1, <2>5 DEF DnsRefused, Undefined
  <2> QED BY <2>2, <2>3, <2>4, <2>5 DEF Open
<1> QED BY <1>1, <1>3

LEMMA TaskTInv ==
  ASSUME TInv, Leave \/ Free \/ FreeConfig
  PROVE  TInv'
<1> USE DEF TInv, Types, Waiting, Errors, TaskMayRun, NoError
<1>1. CASE Leave
  <2>1. /\ pc = "wait" /\ state.complete /\ ~wild /\ wild' = FALSE /\ cb \notin Whole
        /\ pc' = "free" /\ err' = state.error
        /\ UNCHANGED <<result, state, pcb, config, resolving, cb, cause, answered, calls, atomic>>
    BY <1>1 DEF Leave
  <2> HIDE DEF TInv, Types, Waiting, Errors, TaskMayRun, NoError
  <2>a. Types /\ Waiting /\ Errors
    BY <2>1 DEF TInv
  <2>b. state.error \in Int
    BY <2>a DEF Types
  <2>2. Types'
    <3>1. /\ pc' \in {"idle", "wait", "free", "config"} /\ err' \in Int
          /\ pcb' = pcb /\ cb' = cb /\ state' = state /\ resolving' = resolving
          /\ config' = config /\ atomic' = atomic /\ wild' \in BOOLEAN
      BY <2>1, <2>b
    <3> QED BY <3>1, <2>a DEF Types
  <2>3. Waiting'
    BY <2>1, <2>a DEF Waiting, Errors
  <2>4. Errors'
    BY <2>1, <2>a DEF Waiting, Errors, Whole
  <2> QED BY <2>1, <2>2, <2>3, <2>4 DEF TInv
<1>2. CASE Free
  <2>1. /\ state' \in [live : BOOLEAN, complete : BOOLEAN, error : Int]
        /\ state'.complete = state.complete /\ state'.error = state.error
    BY <1>2 DEF Free
  <2>2. Types'
    BY <1>2, <2>1 DEF Free
  <2>4. ASSUME cb # <<>> PROVE Undefined' /\ wild'
    BY <1>2, <2>4 DEF Free, Undefined
  <2>5. ASSUME cb = <<>> PROVE ~wild' /\ Waiting' /\ Errors'
    BY <1>2, <2>1, <2>5, CallbacksDiffer DEF Free, Whole
  <2> QED BY <2>2, <2>4, <2>5
<1>3. CASE FreeConfig
  BY <1>3, CallbacksDiffer DEF FreeConfig
<1> QED BY <1>1, <1>2, <1>3

\* lwIP calls back only for a name it resolves or a connection it has.
LEMMA LwipTInv ==
  ASSUME TInv, Lwip
  PROVE  TInv'
<1> USE CallbacksDiffer DEF TInv, Types, Waiting, Errors, LwipMayCall, Reached, NoError, Whole, task
<1>1. CASE DnsFound
  BY <1>1 DEF DnsFound, Connect, NameUnknown, Closes
<1>2. CASE Connected
  BY <1>2 DEF Connected, Closes
<1>3. CASE Poll
  BY <1>3 DEF Poll
<1>4. CASE Err
  BY <1>4 DEF Err
<1>5. CASE RecvData
  BY <1>5 DEF RecvData
<1>6. CASE RecvEnd
  BY <1>6 DEF RecvEnd, Closes
<1> QED BY <1>1, <1>2, <1>3, <1>4, <1>5, <1>6 DEF Lwip

LEMMA CallbackTInv ==
  ASSUME TInv, CallbackStep
  PROVE  TInv'
<1> USE CallbacksDiffer, CallbackTails DEF TInv, Types, Whole, Rests, CallbackStep, task
<1>1. UNCHANGED <<pc, err, result, config, resolving, cause, atomic>> /\ ~wild
  OBVIOUS
<1> DEFINE error == CASE Head(cb) = "timeout" -> PICO_ERROR_TIMEOUT
                      [] Head(cb) = "generic" -> PICO_ERROR_GENERIC
                      [] OTHER -> state.error
<1>a. /\ error \in Int
      /\ Head(cb) \in {"timeout", "generic"} => error # NoError
      /\ Head(cb) \notin {"timeout", "generic"} => error = state.error
  <2>1. CASE Head(cb) = "timeout"
    BY <2>1 DEF PICO_ERROR_TIMEOUT, NoError
  <2>2. CASE Head(cb) = "generic"
    BY <2>2 DEF PICO_ERROR_GENERIC, NoError
  <2>3. CASE Head(cb) \notin {"timeout", "generic"}
    BY <2>3
  <2> QED BY <2>1, <2>2, <2>3
<1>b. state' = [state EXCEPT !.complete = (Head(cb) = "complete") \/ @, !.error = error]
  OBVIOUS
<1> HIDE DEF error
<1>2. /\ Head(cb) = "complete" => state'.complete
      /\ Head(cb) # "complete" => state'.complete = state.complete
      /\ Head(cb) \in {"timeout", "generic"} => state'.error \in Int /\ state'.error # NoError
      /\ Head(cb) \notin {"timeout", "generic"} => state'.error = state.error
      /\ state'.live = state.live
      /\ state' \in [live : BOOLEAN, complete : BOOLEAN, error : Int]
      /\ pcb' = IF Head(cb) \in {"close", "close_freed"} THEN "null" ELSE pcb
      /\ wild' = (Head(cb) = "close_freed")
  BY <1>a, <1>b
<1>3. cb' = Tail(cb) /\ cb # <<>>
  OBVIOUS
<1>4. cb' \in {<<>>, Close, <<"close">>, <<"close_freed", "generic">>, <<"generic">>}
  BY <1>3
<1> HIDE DEF CallbackStep
<1>5. Types'
  BY <1>1, <1>2, <1>4
<1>6. Waiting /\ Errors /\ pc \in {"wait", "free"} /\ state.live /\ config /\ ~resolving /\ cause # "none"
  BY <1>1, <1>3 DEF Waiting
<1>7. CASE cb \in {PollSteps, Close, <<"close">>}
  <2>1. CASE cb = PollSteps
    BY <1>1, <1>2, <1>3, <1>6, <2>1 DEF Waiting, Errors
  <2>2. CASE cb = Close
    BY <1>1, <1>2, <1>3, <1>6, <2>2 DEF Waiting, Errors
  <2>3. CASE cb = <<"close">>
    BY <1>1, <1>2, <1>3, <1>6, <2>3 DEF Waiting, Errors
  <2>4. ~wild'
    BY <1>2, <1>7
  <2> QED BY <1>5, <1>7, <2>1, <2>2, <2>3, <2>4
<1>8. CASE cb = ErrSteps
  <2>1. ~wild' /\ Waiting' /\ Errors'
    BY <1>1, <1>2, <1>3, <1>6, <1>8 DEF Waiting, Errors
  <2> QED BY <1>5, <2>1
<1>9. CASE cb = <<"close_freed", "generic">>
  BY <1>1, <1>2, <1>3, <1>5, <1>6, <1>9 DEF Undefined
<1> QED BY <1>3, <1>6, <1>7, <1>8, <1>9 DEF Waiting

LEMMA StepTInv ==
  ASSUME TInv, [Next]_vars
  PROVE  TInv'
<1>1. CASE UNCHANGED vars
  BY <1>1 DEF vars, TInv, Types, Waiting, Errors, Undefined
<1> QED BY <1>1, OpenTInv, TaskTInv, LwipTInv, CallbackTInv DEF Next, Task

\* The task frees TLS_CLIENT_T and tls_config when nothing can call back any
\* more (run_tls_client_test, tls_client_close).
THEOREM StateAliveCorrect == Spec => []StateAlive
<1>1. TInv => StateAlive
  BY DEF TInv, Types, Waiting, Undefined, StateAlive, Reached
<1> QED BY <1>1, InitTInv, StepTInv, PTL DEF Spec

\* Of the calls that have to wait, those that tls_client_poll has ended fail, and
\* no other: whether callbacks run whole or the task comes between their steps.
THEOREM OnlyTimeoutFailsCorrect == Spec => []OnlyTimeoutFails
<1>1. TInv => OnlyTimeoutFails
  BY DEF TInv, Errors, Undefined, OnlyTimeoutFails
<1> QED BY <1>1, InitTInv, StepTInv, PTL DEF Spec
=============================================================================
