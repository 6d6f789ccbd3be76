---------------------------- MODULE HelperCalls ----------------------------
(***************************************************************************)
(* A call of one of the agent's helper functions: the agent has a single   *)
(* goroutine, so at most one runs, and a loop of a helper is a step per    *)
(* turn.  TcShow and StringSets say what the helpers do.                   *)
(***************************************************************************)
VARIABLES
  op,    \* the function that was called last, "none" before the first call
  arg,   \* what it was given
  done,  \* it has returned
  ret    \* what it has returned, if it has

callVars == <<op, arg, done, ret>>

Nothing == "nothing"

CallsInit == op = "none" /\ arg = Nothing /\ done = TRUE /\ ret = Nothing

\* A call is made when the last one has returned (the guard `done` of the Next
\* of the modules that make calls).
Call(name, given) == op' = name /\ arg' = given /\ done' = FALSE /\ ret' = Nothing

Running(name) == op = name /\ ~done /\ UNCHANGED <<op, arg>>

\* The call goes on, or it returns.
Continue  == UNCHANGED <<done, ret>>
Return(r) == done' = TRUE /\ ret' = r

Returned(name) == op = name /\ done
=============================================================================
