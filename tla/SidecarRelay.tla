---------------------------- MODULE SidecarRelay ----------------------------
(***************************************************************************)
(* The sidecar's side of a request: Proxy.ChatCompletions of               *)
(* internal/dataplane/proxy.go with relayJSON and relayStream.  The router *)
(* may call several sidecars for one client request; each call is one      *)
(* attempt, handled by one goroutine of the sidecar it is sent to.         *)
(*                                                                         *)
(* The queue appears as what it can answer (AdmissionQueue models it), and *)
(* vLLM as what it can do: refuse the connection, answer with a status,    *)
(* send lines, end the response or break off.  net/http sends the header   *)
(* of a response with its first flush or when the handler returns, and 200 *)
(* when the handler returns without having set a status.                   *)
(***************************************************************************)
EXTENDS Naturals, Sequences, FiniteSets

CONSTANTS
    Attempts,     \* the calls the router may make for the request
    Codes,        \* the statuses vLLM may answer with
    MaxLines      \* bound: the lines of a vLLM response

ASSUME RelayAssumption ==
    /\ Codes \subseteq 200..599
    /\ MaxLines \in Nat

VARIABLES
    stream,       \* the request asks for a stream
    relay,        \* where the handler of each attempt is
    code,         \* the status vLLM answered with, 0 before
    ctxDone,      \* the attempts whose ticket context is done
    final,        \* the states the attempt has passed to Done, in order
    lines,        \* the lines the handler has written
    \* the response, as far as it has left the sidecar
    status, arrived, ended,
    conn          \* the connection: "up", "closed" by the router, or "broken"

responseVars == <<lines, status, arrived, ended>>
relayVars == <<relay, code, ctxDone, final, responseVars, conn>>

RelayInit ==
    /\ stream \in BOOLEAN
    /\ relay = [a \in Attempts |-> "idle"]
    /\ code = [a \in Attempts |-> 0]
    /\ ctxDone = {}
    /\ final = [a \in Attempts |-> <<>>]
    /\ status = [a \in Attempts |-> 0]
    /\ lines = [a \in Attempts |-> 0]
    /\ arrived = [a \in Attempts |-> 0]
    /\ ended = {}
    /\ conn = [a \in Attempts |-> "up"]

Running(a) == relay[a] \in {"queued", "connect", "body", "loop"}

Goto(a, where) == relay' = [relay EXCEPT ![a] = where]

\* Header and lines are flushed; on a dead connection they go nowhere.
Flush(a, st, n) ==
    /\ lines' = [lines EXCEPT ![a] = n]
    /\ IF conn[a] = "up"
       THEN /\ status' = [status EXCEPT ![a] = st]
            /\ arrived' = [arrived EXCEPT ![a] = n]
       ELSE UNCHANGED <<status, arrived>>

\* The handler returns: what it has written is sent, and the response ends.
Return(a, st, n) ==
    /\ Goto(a, "returned")
    /\ Flush(a, st, n)
    /\ ended' = IF conn[a] = "up" THEN ended \cup {a} ELSE ended

Done(a, state) == final' = [final EXCEPT ![a] = Append(@, state)]

-----------------------------------------------------------------------------
(* The queue. *)

Rejected(a) ==
    /\ relay[a] = "queued"
    /\ \E st \in {429, 503} : Return(a, st, 1)
    /\ UNCHANGED <<code, ctxDone, final, conn>>

\* WaitForDispatch returned ErrCancelled: nothing is written.
CancelledInQueue(a) ==
    /\ relay[a] = "queued"
    /\ a \in ctxDone
    /\ Return(a, 200, 0)
    /\ UNCHANGED <<code, ctxDone, final, conn>>

Dispatched(a) ==
    /\ relay[a] = "queued"
    /\ Goto(a, "connect")
    /\ UNCHANGED <<code, ctxDone, final, responseVars, conn>>

-----------------------------------------------------------------------------
(* upstreamRequest. *)

\* vLLM cannot be reached, or the context is done.
ConnectFails(a) ==
    /\ relay[a] = "connect"
    /\ Done(a, "UPSTREAM_FAILED")
    /\ Return(a, 502, 1)
    /\ UNCHANGED <<code, ctxDone, conn>>

\* vLLM answers, with its header.
Answered(a, c) ==
    /\ relay[a] = "connect"
    /\ code' = [code EXCEPT ![a] = c]
    /\ IF stream /\ c # 200
       THEN Done(a, "UPSTREAM_FAILED") /\ Return(a, c, 1)
       ELSE /\ Goto(a, IF stream THEN "loop" ELSE "body")
            /\ UNCHANGED <<final, responseVars>>
    /\ UNCHANGED <<ctxDone, conn>>

\* relayJSON reads the body, to its end or to an error, which is ignored.
BodyRead(a) ==
    /\ relay[a] = "body"
    /\ Done(a, IF code[a] \in 200..299 THEN "COMPLETED" ELSE "UPSTREAM_FAILED")
    /\ Return(a, code[a], 1)
    /\ UNCHANGED <<code, ctxDone, conn>>

-----------------------------------------------------------------------------
(* relayStream's loop. *)

\* A line is written and flushed; then the context is looked at.  (On a dead
\* connection a write may still succeed, into a buffer.)
LineRelayed(a) ==
    /\ relay[a] = "loop"
    /\ lines[a] < MaxLines
    /\ IF a \in ctxDone
       THEN Done(a, "CANCELLED") /\ Return(a, 200, lines[a] + 1)
       ELSE Flush(a, 200, lines[a] + 1) /\ UNCHANGED <<relay, final, ended>>
    /\ UNCHANGED <<code, ctxDone, conn>>

\* The write fails: tk.cancel.
WriteFails(a) ==
    /\ relay[a] = "loop"
    /\ conn[a] # "up"
    /\ ctxDone' = ctxDone \cup {a}
    /\ Done(a, "CANCELLED")
    /\ Return(a, 200, lines[a])
    /\ UNCHANGED <<code, conn>>

StreamEOF(a) ==
    /\ relay[a] = "loop"
    /\ Done(a, "COMPLETED")
    /\ Return(a, 200, lines[a])
    /\ UNCHANGED <<code, ctxDone, conn>>

\* Mutant: the path of a failure before the first event forgets Done.
StreamErrorForgetsDone(a) ==
    /\ relay[a] = "loop"
    /\ IF a \notin ctxDone /\ lines[a] = 0 THEN UNCHANGED final
       ELSE Done(a, IF a \in ctxDone THEN "CANCELLED" ELSE "PARTIAL_STREAM_FAILED")
    /\ Return(a, 200, lines[a])
    /\ UNCHANGED <<code, ctxDone, conn>>

StreamError(a) ==
    /\ relay[a] = "loop"
    /\ Done(a, IF a \in ctxDone THEN "CANCELLED"
               ELSE IF lines[a] = 0 THEN "UPSTREAM_FAILED" ELSE "PARTIAL_STREAM_FAILED")
    /\ Return(a, 200, lines[a])
    /\ UNCHANGED <<code, ctxDone, conn>>

-----------------------------------------------------------------------------
(* What happens to a running handler from outside. *)

\* The server notices that the connection is gone and cancels the context.
ConnectionLost(a) ==
    /\ Running(a)
    /\ conn[a] # "up"
    /\ a \notin ctxDone
    /\ ctxDone' = ctxDone \cup {a}
    /\ UNCHANGED <<relay, code, final, responseVars, conn>>

\* Queue.Close, at shutdown, cancels a ticket that waits.
ClosedInQueue(a) ==
    /\ relay[a] = "queued"
    /\ a \notin ctxDone
    /\ ctxDone' = ctxDone \cup {a}
    /\ UNCHANGED <<relay, code, final, responseVars, conn>>

\* The network between router and sidecar fails.
LinkBreaks(a) ==
    /\ relay[a] # "idle"
    /\ conn[a] = "up"
    /\ conn' = [conn EXCEPT ![a] = "broken"]
    /\ UNCHANGED <<relay, code, ctxDone, final, responseVars>>

\* The sidecar's process dies, with the handler.
SidecarCrash(a) ==
    /\ Running(a)
    /\ Goto(a, "crashed")
    /\ conn' = [conn EXCEPT ![a] = IF @ = "up" THEN "broken" ELSE @]
    /\ UNCHANGED <<code, ctxDone, final, responseVars>>

\* The steps of the handler itself.
Handle(a) ==
    \/ Rejected(a) \/ CancelledInQueue(a) \/ Dispatched(a)
    \/ ConnectFails(a) \/ (\E c \in Codes : Answered(a, c)) \/ BodyRead(a)
    \/ LineRelayed(a) \/ WriteFails(a) \/ StreamEOF(a) \/ StreamError(a)

RelayNext ==
    \E a \in Attempts :
        Handle(a) \/ ConnectionLost(a) \/ ClosedInQueue(a) \/ LinkBreaks(a)
        \/ SidecarCrash(a)

-----------------------------------------------------------------------------
(* A dispatched request gives its slot back exactly once, on every path    *)
(* out of the relay: Done is called when the handler returns and not       *)
(* before, and never for a request that was not dispatched.                *)
DoneExactlyOnce ==
    \A a \in Attempts :
        /\ Len(final[a]) <= 1
        /\ Running(a) => final[a] = <<>>
        /\ relay[a] = "returned" /\ final[a] = <<>> =>
               code[a] = 0 /\ status[a] # 502
=============================================================================
