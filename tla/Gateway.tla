------------------------------ MODULE Gateway ------------------------------
(***************************************************************************)
(* One client request at the router: Gateway.ChatCompletions and forward   *)
(* of internal/router/gateway.go, together with the sidecars it calls      *)
(* (SidecarRelay), the registry that replaces the snapshot meanwhile, and  *)
(* the client, which may go away.                                          *)
(*                                                                         *)
(* A snapshot is the set of its eligible backends, and a policy a choice   *)
(* among them (every policy of policy.go picks from eligible(snap)).  The  *)
(* lines the client gets are recorded by the attempt they come from.  Of   *)
(* the trajectory events, outcome keeps the one that ends the request.     *)
(* forward's "no_flusher" does not happen under net/http, and the backend  *)
(* a policy picks is in the snapshot it picked from.                       *)
(***************************************************************************)
EXTENDS SidecarRelay, Functions

CONSTANTS Backends, NoBackend, MaxRetries

ASSUME GatewayAssumption ==
    /\ MaxRetries \in Nat
    /\ Attempts = 0..MaxRetries
    /\ NoBackend \notin Backends

VARIABLES
    gw,             \* "choose", "waiting", "reading" or "finished"
    snap,           \* the registry's latest snapshot
    view,           \* the snapshot the request works with
    attempt, tried,
    target,         \* the backend of each attempt
    relayed,        \* lines of the current attempt relayed so far
    clientGone,
    \* what the client gets: status and X-Backend-ID of the header, lines
    clientStatus, clientBackend, clientLines,
    outcome

routeVars  == <<view, attempt, tried, target>>
clientVars == <<clientStatus, clientBackend, clientLines>>
gatewayVars == <<stream, gw, snap, routeVars, relayed, clientGone, clientVars, outcome>>
vars == <<relayVars, gatewayVars>>

Init ==
    /\ RelayInit
    /\ gw = "choose"
    /\ snap \in SUBSET Backends
    /\ view = snap
    /\ attempt = 0
    /\ tried = {}
    /\ target = [a \in Attempts |-> NoBackend]
    /\ relayed = 0
    /\ clientGone = FALSE
    /\ clientStatus = 0
    /\ clientBackend = NoBackend
    /\ clientLines = <<>>
    /\ outcome = "none"

-----------------------------------------------------------------------------
(* The response to the client.  The first WriteHeader decides; later ones  *)
(* and the headers set after it have no effect.                            *)

\* Mutant: the header names the backend of the first attempt.
WriteHeaderStale(st, b) ==
    IF clientStatus = 0
    THEN clientStatus' = st /\ clientBackend' = IF attempt > 0 THEN target[0] ELSE b
    ELSE UNCHANGED <<clientStatus, clientBackend>>

WriteHeader(st, b) ==
    IF clientStatus = 0 THEN clientStatus' = st /\ clientBackend' = b
                        ELSE UNCHANGED <<clientStatus, clientBackend>>

\* The source of the error line the router writes itself.
Router == MaxRetries + 1

\* The handler returns; what it leaves unread is closed.
Finish(kind) ==
    /\ gw' = "finished"
    /\ outcome' = kind

\* Mutant: the response body is left open.
CloseConnLeaks(a) == UNCHANGED conn

CloseConn(a) == conn' = [conn EXCEPT ![a] = IF @ = "up" THEN "closed" ELSE @]

OnlyConnChanges == UNCHANGED <<relay, code, ctxDone, final, responseVars>>

httpErr(st) ==
    /\ WriteHeader(st, NoBackend)
    /\ clientLines' = Append(clientLines, Router)
    /\ Finish("ROUTE_ATTEMPT_FAILED")

-----------------------------------------------------------------------------
(* The attempt loop. *)

NoEligibleBackend ==
    /\ gw = "choose"
    /\ view = {}
    /\ httpErr(503)
    /\ UNCHANGED <<relayVars, snap, routeVars, relayed, stream, clientGone>>

\* The policy's choice, or an untried backend in place of a tried one.
Candidates == IF view \subseteq tried THEN view
              ELSE view \ tried

Choose(b) ==
    /\ gw = "choose"
    /\ b \in Candidates
    /\ tried' = tried \cup {b}
    /\ target' = [target EXCEPT ![attempt] = b]
    \* client.Do sends nothing when the context is done
    /\ relay' = [relay EXCEPT ![attempt] = IF clientGone THEN @ ELSE "queued"]
    /\ relayed' = 0
    /\ gw' = "waiting"
    /\ UNCHANGED <<code, ctxDone, final, responseVars, conn, snap, view,
                   attempt, stream, clientGone, clientVars, outcome>>

\* The attempt failed before any byte: the next one, with the newest snapshot.
NextAttempt ==
    IF attempt < MaxRetries
    THEN /\ gw' = "choose"
         /\ attempt' = attempt + 1
         /\ view' = snap
         /\ UNCHANGED <<clientVars, outcome>>
    ELSE httpErr(502) /\ UNCHANGED <<attempt, view>>

AttemptFails ==
    /\ NextAttempt
    /\ CloseConn(attempt)
    /\ OnlyConnChanges
    /\ UNCHANGED <<snap, tried, target, relayed, stream, clientGone>>

-----------------------------------------------------------------------------
(* forward, up to the header of the sidecar's response.                    *)

\* client.Do fails: the connection does, or the client has gone.
DoFails ==
    /\ gw = "waiting"
    /\ conn[attempt] = "broken" \/ clientGone
    /\ AttemptFails

Answers(a) == status[a] # 0

SidecarRejects ==
    /\ gw = "waiting"
    /\ Answers(attempt)
    /\ status[attempt] \in {429, 503}
    /\ AttemptFails

\* Not a stream: the body is read, to its end or to an error, which is
\* ignored, and relayed with its status.
RelayWhole ==
    /\ gw = "waiting"
    /\ Answers(attempt)
    /\ status[attempt] \notin {429, 503}
    /\ ~stream
    /\ WriteHeader(status[attempt], target[attempt])
    /\ clientLines' = Append(clientLines, attempt)
    /\ Finish("REQUEST_COMPLETED")
    /\ CloseConn(attempt)
    /\ OnlyConnChanges
    /\ UNCHANGED <<snap, routeVars, relayed, stream, clientGone>>

StreamOpens ==
    /\ gw = "waiting"
    /\ Answers(attempt)
    /\ status[attempt] \notin {429, 503}
    /\ stream
    /\ WriteHeader(200, target[attempt])
    /\ gw' = "reading"
    /\ UNCHANGED <<relayVars, snap, routeVars, relayed, stream, clientGone, clientLines, outcome>>

-----------------------------------------------------------------------------
(* forward's relay loop. *)

\* The stream ends here, one way or another.
StreamEnds(kind) ==
    /\ Finish(kind)
    /\ CloseConn(attempt)
    /\ OnlyConnChanges
    /\ UNCHANGED <<snap, routeVars, stream, clientGone, clientStatus, clientBackend>>

\* A line arrives and is written; then the client's context is looked at.
LineWritten ==
    /\ gw = "reading"
    /\ relayed < arrived[attempt]
    /\ clientLines' = Append(clientLines, attempt)
    /\ relayed' = relayed + 1
    /\ IF clientGone THEN StreamEnds("CLIENT_CANCELLED")
       ELSE UNCHANGED <<relayVars, gw, snap, routeVars, stream, clientGone, clientStatus,
                        clientBackend, outcome>>

LineWriteFails ==
    /\ gw = "reading"
    /\ relayed < arrived[attempt]
    /\ clientGone
    /\ StreamEnds("CLIENT_CANCELLED")
    /\ UNCHANGED <<relayed, clientLines>>

\* Mutant: the end of the response is taken before its last line.
EndReachedEarly(a) == a \in ended /\ relayed + 1 >= arrived[a]

EndReached(a) == a \in ended /\ relayed = arrived[a]

StreamCompletes ==
    /\ gw = "reading"
    /\ EndReached(attempt)
    /\ StreamEnds("REQUEST_COMPLETED")
    /\ UNCHANGED <<relayed, clientLines>>

\* The read fails: the connection broke, or the client's context is done.
ReadFails == gw = "reading" /\ (conn[attempt] = "broken" \/ clientGone)

ReadFailsTerminal ==
    /\ ReadFails
    /\ relayed > 0 \/ clientGone
    /\ StreamEnds(IF clientGone THEN "CLIENT_CANCELLED" ELSE "PARTIAL_STREAM_FAILED")
    /\ UNCHANGED <<relayed, clientLines>>

\* Mutant: a stream that broke off is retried as long as the client is there.
ReadFailsAlwaysRetryable ==
    /\ ReadFails
    /\ ~clientGone
    /\ AttemptFails

ReadFailsRetryable ==
    /\ ReadFails
    /\ relayed = 0 /\ ~clientGone
    /\ AttemptFails

-----------------------------------------------------------------------------
Refresh ==
    /\ gw # "finished"
    /\ snap' \in SUBSET Backends
    /\ UNCHANGED <<relayVars, gw, routeVars, relayed, stream, clientGone, clientVars, outcome>>

ClientLeaves ==
    /\ gw # "finished"
    /\ ~clientGone
    /\ clientGone' = TRUE
    /\ UNCHANGED <<relayVars, stream, gw, snap, routeVars, relayed, clientVars, outcome>>

Forward ==
    \/ NoEligibleBackend \/ (\E b \in Backends : Choose(b))
    \/ DoFails \/ SidecarRejects \/ RelayWhole \/ StreamOpens
    \/ LineWritten \/ LineWriteFails \/ StreamCompletes
    \/ ReadFailsTerminal \/ ReadFailsRetryable

Next ==
    \/ Forward
    \/ Refresh \/ ClientLeaves
    \/ RelayNext /\ UNCHANGED gatewayVars

Spec == Init /\ [][Next]_vars

(* Goroutines run, and a server notices that its client has gone.  Nothing *)
(* is asked of vLLM, which may hang, nor of the queue: a handler has to    *)
(* move only when its context is done.                                     *)
Stops(a) == a \in ctxDone /\ Handle(a)

Fairness ==
    /\ WF_vars(Forward)
    /\ \A a \in Attempts :
          /\ WF_vars(Stops(a) /\ UNCHANGED gatewayVars)
          /\ WF_vars(ConnectionLost(a) /\ UNCHANGED gatewayVars)

FairSpec == Spec /\ Fairness

-----------------------------------------------------------------------------
(* What a client receives comes from one attempt, whatever failed and was  *)
(* retried: once a line of a response has reached it, no other backend and *)
(* no error body of the router follows (gateway.go: no reroute after the   *)
(* first byte).  And the X-Backend-ID of a response that is not a stream   *)
(* names the backend of that attempt.                                      *)
OneSource ==
    /\ Cardinality(Range(clientLines)) <= 1
    /\ ~stream => \A i \in 1..Len(clientLines) :
          clientLines[i] # Router => clientBackend = target[clientLines[i]]

(* A stream recorded as REQUEST_COMPLETED was relayed whole: its sidecar   *)
(* had finished with it, and the client got every line it had written.     *)
CompleteMeansAll ==
    outcome = "REQUEST_COMPLETED" /\ stream =>
        /\ relay[attempt] = "returned"
        /\ Len(clientLines) = lines[attempt]

(* No sidecar goes on working for a request the router has given up, be it *)
(* because the client left, because the attempt was replaced by a retry or *)
(* because the request is finished, even when vLLM hangs.                  *)
AbandonedWorkStops ==
    \A a \in Attempts :
        (clientGone \/ a < attempt \/ gw = "finished") ~> ~Running(a)

-----------------------------------------------------------------------------
(* What the documents say and the code does not do. *)

(* retry_and_failure_semantics.md says that "Router retries on another     *)
(* backend when [...] vLLM fails before the first response event", and     *)
(* that a later failure is recorded as PARTIAL_STREAM_FAILED: a stream     *)
(* that vLLM did not finish would never be recorded as completed.          *)
FailedStreamNotCompleted ==
    outcome = "REQUEST_COMPLETED" /\ stream =>
        /\ final[attempt] # <<"PARTIAL_STREAM_FAILED">>
        /\ final[attempt] = <<"UPSTREAM_FAILED">> => code[attempt] \notin {0, 200}
=============================================================================
