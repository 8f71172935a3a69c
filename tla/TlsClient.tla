---------------------------- MODULE TlsClient -----------------------------
(***************************************************************************)
(* run_tls_client_test(): a task that opens a TLS connection and waits for *)
(* TLS_CLIENT_T.complete, and the lwIP callbacks that set it.  A callback  *)
(* is a few steps long; unless `atomic`, the task may run between them.    *)
(***************************************************************************)
EXTENDS Integers, Sequences

CONSTANT Calls  \* bound on the calls of run_tls_client_test()

VARIABLES
  pc,         \* the task: "idle", "wait", "free", "config"
  err,        \* its local copy of state->error
  result,     \* what the latest call returned: "none", "pass" or "fail"
  state,      \* TLS_CLIENT_T: [live, complete, error]
  pcb,        \* state->pcb: "null", "new", "connecting", "open"
  config,     \* tls_config is allocated
  resolving,  \* lwIP owes a call of tls_client_dns_found
  cb,         \* the rest of the callback that runs: a sequence of steps
  cause,      \* history: what made a callback end the call: "none" yet, or the
              \* "lookup", "connect", "write", "end", "timeout" or "error",
  answered,   \* the server has sent data,
  calls,      \* calls so far
  atomic,     \* callbacks run as a whole for the task (in an interrupt, or in a
              \* thread of higher priority)
  wild        \* what follows is undefined: tls_client_close() was given the
              \* pcb or closed one that lwIP frees, or a callback has
              \* outlived the state

vars == <<pc, err, result, state, pcb, config, resolving, cb, cause, answered, calls, atomic, wild>>
task == <<pc, err, result, config, calls, atomic>>

NoError == 0
PICO_ERROR_TIMEOUT == -1
PICO_ERROR_GENERIC == -2

Init ==
  /\ pc = "idle" /\ err = NoError /\ result = "none"
  /\ state = [live |-> FALSE, complete |-> FALSE, error |-> NoError]
  /\ pcb = "null" /\ config = FALSE /\ resolving = FALSE /\ cb = <<>>
  /\ cause = "none" /\ answered = FALSE /\ calls = 0
  /\ atomic \in BOOLEAN /\ wild = FALSE

\* The steps of tls_client_close(): complete first, then the pcb.
SlipClose == <<"complete">>
Close == <<"complete", "close">>

\* tls_client_poll() writes the error before it closes, tls_client_err() after;
\* and the pcb that tls_client_err() closes is lwIP's to free.
SlipPollSteps == Close \o <<"timeout">>
PollSteps == <<"timeout">> \o Close
ErrSteps == <<"complete", "close_freed", "generic">>

TaskMayRun == ~wild /\ (atomic => cb = <<>>)

\* A callback sets out to close the connection.
Closes(why) == cb' = Close /\ cause' = why

\* run_tls_client_test() up to its loop, tls_client_open() with it.
CannotOpen ==
  /\ pc' = "idle" /\ result' = "fail"   \* state and config are not freed
  /\ state'.complete = FALSE /\ cause' = "none"
  /\ pcb' = "null" /\ UNCHANGED <<resolving, wild>>

Resolve ==
  /\ pc' = "wait" /\ result' = "none" /\ pcb' = "new"
  /\ state'.complete = FALSE /\ cause' = "none"
  /\ resolving' = TRUE /\ UNCHANGED wild

\* altcp_connect() may fail: the task closes the connection and finds the call
\* complete.
ConnectAtOnce ==
  /\ pc' = "wait" /\ result' = "none"
  /\ \/ pcb' = "connecting" /\ state'.complete = FALSE /\ cause' = "none"
     \/ pcb' = "null" /\ state'.complete = TRUE /\ cause' = "connect"
  /\ UNCHANGED <<resolving, wild>>

DnsRefused ==
  /\ pc' = "idle" /\ result' = "fail" /\ pcb' = "new"
  /\ state'.complete = FALSE /\ cause' = "none"
  /\ wild' = TRUE   \* tls_client_close(state->pcb)
  /\ UNCHANGED resolving

Open ==
  /\ pc = "idle" /\ TaskMayRun /\ calls < Calls
  /\ calls' = calls + 1
  /\ config' = TRUE
  /\ state' \in [live : {TRUE}, complete : BOOLEAN, error : {NoError}]
  /\ answered' = FALSE
  /\ UNCHANGED <<err, cb, atomic>>
  /\ CannotOpen \/ Resolve \/ ConnectAtOnce \/ DnsRefused

\* The loop, and the return: error is read, state freed, config freed.
Leave ==
  /\ pc = "wait" /\ TaskMayRun /\ state.complete
  /\ pc' = "free" /\ err' = state.error
  /\ UNCHANGED <<result, state, pcb, config, resolving, cb, cause, answered, calls, atomic, wild>>

Free ==
  /\ pc = "free" /\ TaskMayRun
  /\ state' = [state EXCEPT !.live = FALSE]
  /\ pc' = "config"
  /\ wild' = (cb # <<>>)
  /\ UNCHANGED <<err, result, pcb, config, resolving, cb, cause, answered, calls, atomic>>

FreeConfig ==
  /\ pc = "config" /\ TaskMayRun
  /\ config' = FALSE
  /\ result' = IF err = NoError THEN "pass" ELSE "fail"
  /\ pc' = "idle"
  /\ UNCHANGED <<err, state, pcb, resolving, cb, cause, answered, calls, atomic, wild>>
---------------------------------------------------------------------------
\* lwIP calls one callback at a time.
LwipMayCall == ~wild /\ cb = <<>>
Reached == pcb \in {"connecting", "open"}

SlipNameUnknown == UNCHANGED <<pcb, cb, cause>>
NameUnknown == UNCHANGED pcb /\ Closes("lookup")

\* altcp_connect(): lwIP takes the connection, or the client closes it.
Connect == \/ pcb' = "connecting" /\ UNCHANGED <<cb, cause>>
           \/ UNCHANGED pcb /\ Closes("connect")

DnsFound ==
  /\ LwipMayCall /\ resolving
  /\ resolving' = FALSE
  /\ Connect \/ NameUnknown
  /\ UNCHANGED <<task, state, answered, wild>>

\* The request is written, or the connection or the write has failed.
Connected ==
  /\ LwipMayCall /\ pcb = "connecting"
  /\ pcb' = "open"
  /\ UNCHANGED <<cb, cause>> \/ Closes("write")
  /\ UNCHANGED <<task, state, resolving, answered, wild>>

Poll ==
  /\ LwipMayCall /\ Reached
  /\ cb' = PollSteps /\ cause' = "timeout"
  /\ UNCHANGED <<task, state, pcb, resolving, answered, wild>>

\* lwIP has no more use for the connection when it calls tls_client_err.
Err ==
  /\ LwipMayCall /\ Reached
  /\ cb' = ErrSteps /\ cause' = "error"
  /\ UNCHANGED <<task, state, pcb, resolving, answered, wild>>

RecvData ==
  /\ LwipMayCall /\ pcb = "open"
  /\ answered' = TRUE
  /\ UNCHANGED <<task, state, pcb, resolving, cb, cause, wild>>

RecvEnd ==
  /\ LwipMayCall /\ pcb = "open"
  /\ Closes("end")
  /\ UNCHANGED <<task, state, pcb, resolving, answered, wild>>

CallbackStep ==
  /\ ~wild /\ cb # <<>>
  /\ cb' = Tail(cb)
  /\ LET s == Head(cb) IN
     /\ state' = [state EXCEPT
          !.complete = (s = "complete") \/ @,
          !.error = CASE s = "timeout" -> PICO_ERROR_TIMEOUT
                      [] s = "generic" -> PICO_ERROR_GENERIC
                      [] OTHER -> @]
     /\ pcb' = IF s \in {"close", "close_freed"} THEN "null" ELSE pcb
     /\ wild' = (s = "close_freed")
  /\ UNCHANGED <<task, resolving, cause, answered>>
---------------------------------------------------------------------------
Task == Open \/ Leave \/ Free \/ FreeConfig
Lwip == DnsFound \/ Connected \/ Poll \/ Err \/ RecvData \/ RecvEnd
Next == Task \/ Lwip \/ CallbackStep

\* The task is scheduled; lwIP finishes a callback, answers every DNS query
\* (its own timer ends it) and polls every connection it was asked to open.
Fairness == /\ WF_vars(Leave \/ Free \/ FreeConfig) /\ WF_vars(CallbackStep)
            /\ WF_vars(DnsFound) /\ WF_vars(Poll)

Spec == Init /\ [][Next]_vars /\ Fairness
---------------------------------------------------------------------------
\* When callbacks run whole: nothing that could call back is left when the task
\* frees TLS_CLIENT_T, and no connection when it frees tls_config.
StateAlive == atomic =>
  /\ cb # <<>> \/ resolving \/ Reached => state.live
  /\ pcb # "null" => config

\* What run_tls_client_test() returns of a call that had to wait: it fails when
\* the poll has ended it, and then only.  The time-out is not lost, although the
\* task may read the error between any two steps of the callback; but a failed
\* lookup, connect or write and an end without an answer leave error 0 and
\* pass.  (tls_client_err leads to no result: see `wild`.)
OnlyTimeoutFails ==
  pc = "idle" /\ cause # "none" => (result = "fail" <=> cause = "timeout")

\* run_tls_client_test() returns: the name is resolved or not, the server
\* answers or the poll ends the wait, also when callbacks are interrupted.
WaitEnds == pc = "wait" ~> pc = "idle" \/ wild
=============================================================================
