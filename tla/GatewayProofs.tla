--------------------------- MODULE GatewayProofs ---------------------------
(***************************************************************************)
(* The relay of one request, for any number of backends, retries, lines    *)
(* and statuses: the client is answered from one source, a stream recorded *)
(* as completed was relayed whole, and every dispatched attempt gives its  *)
(* slot back exactly once.                                                 *)
(***************************************************************************)
EXTENDS Gateway, FiniteSetTheorems, TLAPS

-----------------------------------------------------------------------------
(* Sequences. *)

LEMMA EmptySequence ==
    ASSUME NEW T
    PROVE  /\ <<>> \in Seq(T) /\ Len(<<>>) = 0
           /\ \A q \in Seq(T) : q # <<>> => Len(q) \in Nat \ {0}
OBVIOUS

LEMMA Appended ==
    ASSUME NEW T, NEW q \in Seq(T), NEW v \in T
    PROVE  /\ Append(q, v) \in Seq(T) /\ Append(q, v) # <<>>
           /\ Len(Append(q, v)) = Len(q) + 1
           /\ \A j \in 1..Len(q) : Append(q, v)[j] = q[j]
           /\ Append(q, v)[Len(q) + 1] = v
OBVIOUS

Places == {"idle", "queued", "connect", "body", "loop", "returned", "crashed"}

\* The states Done is called with.
Ends == {"COMPLETED", "CANCELLED", "UPSTREAM_FAILED", "PARTIAL_STREAM_FAILED"}

RelayTypeOK ==
    /\ stream \in BOOLEAN
    /\ relay \in [Attempts -> Places]
    /\ code \in [Attempts -> Nat]
    /\ final \in [Attempts -> Seq(Ends)]
    /\ lines \in [Attempts -> Nat]
    /\ status \in [Attempts -> Nat]
    /\ arrived \in [Attempts -> Nat]
    /\ conn \in [Attempts -> {"up", "closed", "broken"}]

\* What holds of every attempt at its sidecar.  A response ends only with its
\* handler, and then all of it has arrived; nothing has been answered while the
\* handler is on its way to vLLM; Done is called by the return.
AttemptInv(a) ==
    /\ a \in ended => relay[a] = "returned" /\ arrived[a] = lines[a]
    /\ relay[a] \in {"idle", "queued", "connect"} => code[a] = 0 /\ status[a] = 0
    /\ relay[a] # "returned" => final[a] = <<>>
    /\ Len(final[a]) <= 1
    /\ relay[a] = "returned" /\ final[a] = <<>> => code[a] = 0 /\ status[a] # 502

RelayInv == RelayTypeOK /\ \A a \in Attempts : AttemptInv(a)

SameSource == \A i, j \in 1..Len(clientLines) : clientLines[i] = clientLines[j]

\* X-Backend-ID names the backend the body comes from.
HeaderNamesSource ==
    ~stream => \A i \in 1..Len(clientLines) :
        clientLines[i] # Router => clientBackend = target[clientLines[i]]

\* A stream is completed only at the end of its sidecar's response.
CompletedWhole ==
    outcome = "REQUEST_COMPLETED" /\ stream =>
        attempt \in ended /\ Len(clientLines) = lines[attempt]

GatewayTypeOK ==
    /\ gw \in {"choose", "waiting", "reading", "finished"}
    /\ attempt \in Attempts
    /\ target \in [Attempts -> Backends \cup {NoBackend}]
    /\ relayed \in Nat
    /\ clientStatus \in Nat
    /\ clientLines \in Seq(Nat)

\* Where the request is decides what the client can have got.
Progress ==
    /\ gw \in {"choose", "waiting"} =>
           clientLines = <<>> /\ (~stream => clientStatus = 0)
    /\ gw = "waiting" => relayed = 0
    /\ gw = "reading" =>
           /\ stream
           /\ Len(clientLines) = relayed
           /\ \A i \in 1..Len(clientLines) : clientLines[i] = attempt
    /\ gw # "finished" => outcome = "none"

\* An attempt not begun yet has no handler.
Unused ==
    \A a \in Attempts :
        a > attempt \/ (a = attempt /\ gw = "choose") => relay[a] = "idle"

(* The inductive invariant. *)
GInv ==
    /\ RelayInv
    /\ GatewayTypeOK
    /\ Progress
    /\ Unused
    /\ SameSource
    /\ HeaderNamesSource
    /\ CompletedWhole

-----------------------------------------------------------------------------
(* The attempts are numbered from 0. *)
LEMMA AttemptsAre == Attempts \subseteq Nat /\ 0 \in Attempts /\ MaxRetries \in Nat
BY GatewayAssumption

(* A sequence of one element, made by Append. *)
LEMMA FirstAppend ==
  ASSUME NEW S, NEW e \in Seq(S), NEW x \in S, Len(e) = 0
  PROVE  Append(e, x) \in Seq(S) /\ Len(Append(e, x)) = 1 /\ Append(e, x)[1] = x
         /\ Append(e, x) # <<>>
<1>1. Append(e, x) \in Seq(S) /\ Len(Append(e, x)) = Len(e) + 1
      /\ Append(e, x)[Len(e) + 1] = x
  BY Appended
<1>2. Len(Append(e, x)) # Len(<<>>)
  BY <1>1, EmptySequence
<1> QED
  BY <1>1, <1>2

\* Done has been called, once, for the attempt.
Reported(a) ==
    /\ final' \in [Attempts -> Seq(Ends)]
    /\ Len(final'[a]) = 1 /\ final'[a] # <<>>
    /\ \A b \in Attempts : b # a => final'[b] = final[b]

(* Done, called for an attempt for which it has not been called yet. *)
LEMMA DoneFacts ==
  ASSUME NEW a \in Attempts, NEW s \in Ends,
         RelayInv, relay[a] # "returned", Done(a, s)
  PROVE  Reported(a)
<1> DEFINE f == Append(final[a], s)
<1>1. final \in [Attempts -> Seq(Ends)] /\ final[a] \in Seq(Ends) /\ Len(final[a]) = 0
  BY EmptySequence DEF RelayInv, RelayTypeOK, AttemptInv
<1>2. f \in Seq(Ends) /\ Len(f) = 1 /\ f # <<>>
  BY <1>1, FirstAppend
<1>3. final' = [final EXCEPT ![a] = f]
  BY DEF Done
<1> HIDE DEF f
<1> QED
  BY <1>1, <1>2, <1>3 DEF Reported

(* The return of a handler: the response is all there, if it is ended. *)
LEMMA ReturnFacts ==
  ASSUME NEW a \in Attempts, NEW st \in Nat, NEW n \in Nat, RelayTypeOK, Return(a, st, n)
  PROVE  /\ relay' \in [Attempts -> Places]
         /\ lines' \in [Attempts -> Nat]
         /\ status' \in [Attempts -> Nat]
         /\ arrived' \in [Attempts -> Nat]
         /\ relay'[a] = "returned"
         /\ status'[a] \in {status[a], st}
         /\ a \in ended' => a \in ended \/ arrived'[a] = lines'[a]
         /\ \A b \in Attempts : b # a =>
               /\ relay'[b] = relay[b] /\ lines'[b] = lines[b]
               /\ status'[b] = status[b] /\ arrived'[b] = arrived[b]
               /\ b \in ended' <=> b \in ended
<1>0. /\ relay \in [Attempts -> Places] /\ lines \in [Attempts -> Nat]
      /\ status \in [Attempts -> Nat] /\ arrived \in [Attempts -> Nat]
      /\ "returned" \in Places
  BY DEF RelayTypeOK, Places
<1>1. relay' = [relay EXCEPT ![a] = "returned"] /\ lines' = [lines EXCEPT ![a] = n]
  BY DEF Return, Flush, Goto
<1>2. CASE conn[a] = "up"
  <2>1. /\ status' = [status EXCEPT ![a] = st] /\ arrived' = [arrived EXCEPT ![a] = n]
        /\ ended' = ended \cup {a}
    BY <1>2 DEF Return, Flush
  <2> QED
    BY <1>0, <1>1, <2>1
<1>3. CASE conn[a] # "up"
  <2>1. UNCHANGED <<status, arrived, ended>>
    BY <1>3 DEF Return, Flush
  <2> QED
    BY <1>0, <1>1, <2>1
<1> QED
  BY <1>2, <1>3

\* What the steps of a sidecar leave alone in the attempts of others, and in
\* those that are over.
RelayFrame ==
    /\ \A a \in Attempts : relay[a] = "idle" => relay'[a] = "idle"
    /\ \A a \in Attempts : a \in ended => a \in ended' /\ lines'[a] = lines[a]

(* A handler that returns keeps the invariant, whether it calls Done or,   *)
(* not having been dispatched, does not.                                   *)
LEMMA ReturnInv ==
  ASSUME RelayInv, stream' = stream, NEW a \in Attempts, NEW st \in Nat, NEW n \in Nat,
         relay[a] # "idle", relay[a] # "returned", Return(a, st, n), conn' = conn,
         code' \in [Attempts -> Nat], \A b \in Attempts : b # a => code'[b] = code[b],
         \/ Reported(a)
         \/ final' = final /\ relay[a] = "queued" /\ code' = code /\ st # 502
  PROVE  RelayInv' /\ RelayFrame
<1>0. RelayTypeOK /\ AttemptInv(a) /\ final[a] = <<>> /\ a \notin ended
  BY DEF RelayInv, AttemptInv
<1>1. /\ final' \in [Attempts -> Seq(Ends)]
      /\ \A b \in Attempts : b # a => final'[b] = final[b]
      /\ Len(final'[a]) <= 1
      /\ final'[a] # <<>> \/ (final' = final /\ relay[a] = "queued" /\ code' = code /\ st # 502)
  <2>1. CASE Reported(a)
    BY <2>1 DEF Reported
  <2>2. CASE final' = final /\ relay[a] = "queued" /\ code' = code /\ st # 502
    BY <1>0, <2>2 DEF RelayTypeOK, AttemptInv
  <2> QED
    BY <2>1, <2>2
<1>2. /\ relay' \in [Attempts -> Places]
      /\ lines' \in [Attempts -> Nat]
      /\ status' \in [Attempts -> Nat]
      /\ arrived' \in [Attempts -> Nat]
      /\ relay'[a] = "returned"
      /\ status'[a] \in {status[a], st}
      /\ a \in ended' => arrived'[a] = lines'[a]
      /\ \A b \in Attempts : b # a =>
            /\ relay'[b] = relay[b] /\ lines'[b] = lines[b]
            /\ status'[b] = status[b] /\ arrived'[b] = arrived[b]
            /\ b \in ended' <=> b \in ended
  BY <1>0, ReturnFacts
<1>3. RelayTypeOK'
  BY <1>0, <1>1, <1>2 DEF RelayTypeOK
<1>4. AttemptInv(a)'
  BY <1>0, <1>1, <1>2 DEF AttemptInv
<1>5. ASSUME NEW b \in Attempts, b # a
      PROVE  AttemptInv(b)'
  <2>1. AttemptInv(b)
    BY DEF RelayInv
  <2> QED
    BY <1>1, <1>2, <1>5, <2>1 DEF AttemptInv
<1>6. RelayFrame
  BY <1>0, <1>2 DEF RelayFrame
<1> QED
  BY <1>3, <1>4, <1>5, <1>6 DEF RelayInv

(* The steps of a handler. *)
LEMMA HandleInv ==
  ASSUME RelayInv, stream' = stream, NEW a \in Attempts, Handle(a)
  PROVE  RelayInv' /\ RelayFrame
<1>0. /\ RelayTypeOK /\ AttemptInv(a)
      /\ code[a] \in Nat /\ lines[a] \in Nat /\ code \in [Attempts -> Nat]
  BY DEF RelayInv, RelayTypeOK
<1>1. CASE Rejected(a)
  <2>1. PICK st \in Nat : st # 502 /\ Return(a, st, 1)
    BY <1>1 DEF Rejected
  <2>2. relay[a] = "queued" /\ final' = final /\ code' = code /\ conn' = conn
    BY <1>1 DEF Rejected
  <2> QED
    BY <1>0, <2>1, <2>2, ReturnInv
<1>2. CASE CancelledInQueue(a)
  <2>1. relay[a] = "queued" /\ final' = final /\ code' = code /\ conn' = conn /\ Return(a, 200, 0)
    BY <1>2 DEF CancelledInQueue
  <2> QED
    BY <1>0, <2>1, ReturnInv
<1>3. CASE Dispatched(a)
  <2>1. /\ relay[a] = "queued" /\ relay' = [relay EXCEPT ![a] = "connect"]
        /\ UNCHANGED <<code, final, lines, status, arrived, ended, conn>>
    BY <1>3 DEF Dispatched, Goto, responseVars
  <2>2. RelayTypeOK'
    BY <1>0, <2>1 DEF RelayTypeOK, Places
  <2>3. \A b \in Attempts : AttemptInv(b)'
    BY <1>0, <2>1 DEF RelayInv, AttemptInv, RelayTypeOK
  <2> QED
    BY <1>0, <2>1, <2>2, <2>3 DEF RelayInv, RelayFrame, RelayTypeOK
<1>4. CASE ConnectFails(a)
  <2>1. /\ relay[a] = "connect" /\ code' = code /\ conn' = conn
        /\ Return(a, 502, 1) /\ Done(a, "UPSTREAM_FAILED")
    BY <1>4 DEF ConnectFails
  <2>2. Reported(a)
    BY <2>1, DoneFacts DEF Ends
  <2> QED
    BY <1>0, <2>1, <2>2, ReturnInv
<1>5. CASE \E c \in Codes : Answered(a, c)
  <2>1. PICK c \in Codes : Answered(a, c)
    BY <1>5
  <2>2. c \in Nat
    BY RelayAssumption
  <2>3. /\ relay[a] = "connect" /\ conn' = conn
        /\ code' = [code EXCEPT ![a] = c]
    BY <2>1 DEF Answered
  <2>4. code' \in [Attempts -> Nat] /\ \A b \in Attempts : b # a => code'[b] = code[b]
    BY <1>0, <2>2, <2>3
  <2>5. CASE stream /\ c # 200
    <3>1. Return(a, c, 1) /\ Done(a, "UPSTREAM_FAILED")
      BY <2>1, <2>5 DEF Answered
    <3>2. Reported(a)
      BY <2>3, <3>1, DoneFacts DEF Ends
    <3> QED
      BY <2>2, <2>3, <2>4, <3>1, <3>2, ReturnInv
  <2>6. CASE ~(stream /\ c # 200)
    <3>1. PICK where \in {"loop", "body"} : relay' = [relay EXCEPT ![a] = where]
      BY <2>1, <2>6 DEF Answered, Goto
    <3>2. UNCHANGED <<final, lines, status, arrived, ended, conn>>
      BY <2>1, <2>3, <2>6 DEF Answered, responseVars
    <3>3. RelayTypeOK'
      BY <1>0, <2>4, <3>1, <3>2 DEF RelayTypeOK, Places
    <3>4. \A b \in Attempts : AttemptInv(b)'
      BY <1>0, <2>3, <2>4, <3>1, <3>2 DEF RelayInv, AttemptInv, RelayTypeOK
    <3> QED
      BY <1>0, <2>3, <3>1, <3>2, <3>3, <3>4 DEF RelayInv, RelayFrame, RelayTypeOK
  <2> QED
    BY <2>5, <2>6
<1>6. CASE BodyRead(a)
  <2>1. /\ relay[a] = "body" /\ code' = code /\ conn' = conn /\ Return(a, code[a], 1)
        /\ Done(a, IF code[a] \in 200..299 THEN "COMPLETED" ELSE "UPSTREAM_FAILED")
    BY <1>6 DEF BodyRead
  <2>2. Done(a, "COMPLETED") \/ Done(a, "UPSTREAM_FAILED")
    BY <2>1
  <2>3. Reported(a)
    BY <2>1, <2>2, DoneFacts DEF Ends
  <2> QED
    BY <1>0, <2>1, <2>3, ReturnInv
<1>7. CASE LineRelayed(a)
  <2>1. relay[a] = "loop" /\ code' = code /\ conn' = conn /\ lines[a] + 1 \in Nat
    BY <1>0, <1>7 DEF LineRelayed
  <2>2. CASE a \in ctxDone
    <3>1. Return(a, 200, lines[a] + 1) /\ Done(a, "CANCELLED")
      BY <1>7, <2>2 DEF LineRelayed
    <3>2. Reported(a)
      BY <2>1, <3>1, DoneFacts DEF Ends
    <3> QED
      BY <1>0, <2>1, <3>1, <3>2, ReturnInv
  <2>3. CASE a \notin ctxDone
    <3>1. Flush(a, 200, lines[a] + 1) /\ UNCHANGED <<relay, final, ended>>
      BY <1>7, <2>3 DEF LineRelayed
    <3>2. /\ lines' \in [Attempts -> Nat]
          /\ status' \in [Attempts -> Nat]
          /\ arrived' \in [Attempts -> Nat]
          /\ \A b \in Attempts : b # a =>
                lines'[b] = lines[b] /\ status'[b] = status[b] /\ arrived'[b] = arrived[b]
      <4>1. lines' = [lines EXCEPT ![a] = lines[a] + 1]
        BY <3>1 DEF Flush
      <4>2. CASE conn[a] = "up"
        <5>1. /\ status' = [status EXCEPT ![a] = 200]
              /\ arrived' = [arrived EXCEPT ![a] = lines[a] + 1]
          BY <3>1, <4>2 DEF Flush
        <5> QED
          BY <1>0, <2>1, <4>1, <5>1 DEF RelayTypeOK
      <4>3. CASE conn[a] # "up"
        BY <1>0, <2>1, <3>1, <4>1, <4>3 DEF Flush, RelayTypeOK
      <4> QED
        BY <4>2, <4>3
    <3>3. RelayTypeOK'
      BY <1>0, <2>1, <3>1, <3>2 DEF RelayTypeOK
    <3>4. a \notin ended
      BY <1>0, <2>1 DEF AttemptInv
    <3>5. AttemptInv(a)'
      BY <1>0, <2>1, <3>1, <3>4 DEF AttemptInv
    <3>6. ASSUME NEW b \in Attempts, b # a
          PROVE  AttemptInv(b)'
      <4>1. AttemptInv(b)
        BY DEF RelayInv
      <4>2. /\ lines'[b] = lines[b] /\ status'[b] = status[b] /\ arrived'[b] = arrived[b]
            /\ relay' = relay /\ final' = final /\ ended' = ended /\ code' = code
        BY <2>1, <3>1, <3>2, <3>6
      <4> QED
        BY <4>1, <4>2 DEF AttemptInv
    <3> QED
      BY <3>1, <3>2, <3>3, <3>4, <3>5, <3>6 DEF RelayInv, RelayFrame
  <2> QED
    BY <2>2, <2>3
<1>8. CASE WriteFails(a) \/ StreamEOF(a) \/ StreamError(a)
  <2>1. relay[a] = "loop" /\ code' = code /\ conn' = conn /\ Return(a, 200, lines[a])
    BY <1>8 DEF WriteFails, StreamEOF, StreamError
  <2>2. \/ Done(a, "CANCELLED") \/ Done(a, "COMPLETED")
        \/ Done(a, "UPSTREAM_FAILED") \/ Done(a, "PARTIAL_STREAM_FAILED")
    BY <1>8 DEF WriteFails, StreamEOF, StreamError
  <2>3. Reported(a)
    BY <2>1, <2>2, DoneFacts DEF Ends
  <2> QED
    BY <1>0, <2>1, <2>3, ReturnInv
<1> QED
  BY <1>1, <1>2, <1>3, <1>4, <1>5, <1>6, <1>7, <1>8 DEF Handle

(* All the steps of the sidecars, and of what happens to them. *)
LEMMA RelayNextInv ==
  ASSUME RelayInv, stream' = stream, RelayNext
  PROVE  RelayInv' /\ RelayFrame
<1>0. PICK a \in Attempts :
        Handle(a) \/ ConnectionLost(a) \/ ClosedInQueue(a) \/ LinkBreaks(a) \/ SidecarCrash(a)
  BY DEF RelayNext
<1>1. CASE Handle(a)
  BY <1>1, HandleInv
<1>2. CASE ConnectionLost(a) \/ ClosedInQueue(a) \/ LinkBreaks(a)
  <2>1. UNCHANGED <<relay, code, final, lines, status, arrived, ended>>
    BY <1>2 DEF ConnectionLost, ClosedInQueue, LinkBreaks, responseVars
  <2>2. conn' \in [Attempts -> {"up", "closed", "broken"}]
    BY <1>2 DEF ConnectionLost, ClosedInQueue, LinkBreaks, RelayInv, RelayTypeOK
  <2> QED
    BY <2>1, <2>2 DEF RelayInv, RelayTypeOK, AttemptInv, RelayFrame
<1>3. CASE SidecarCrash(a)
  <2>1. /\ relay[a] \in {"queued", "connect", "body", "loop"}
        /\ relay' = [relay EXCEPT ![a] = "crashed"]
        /\ UNCHANGED <<code, final, lines, status, arrived, ended>>
    BY <1>3 DEF SidecarCrash, Running, Goto, responseVars
  <2>2. conn' \in [Attempts -> {"up", "closed", "broken"}]
    BY <1>3 DEF SidecarCrash, RelayInv, RelayTypeOK
  <2>3. RelayTypeOK'
    BY <2>1, <2>2 DEF RelayInv, RelayTypeOK, Places
  <2>4. \A b \in Attempts : AttemptInv(b)'
    BY <2>1 DEF RelayInv, AttemptInv, RelayTypeOK
  <2> QED
    BY <2>1, <2>3, <2>4 DEF RelayInv, RelayFrame, RelayTypeOK
<1> QED
  BY <1>0, <1>1, <1>2, <1>3

(* Nothing changes at the sidecars but, perhaps, a connection being closed. *)
LEMMA RelayQuiet ==
  ASSUME RelayInv, stream' = stream, UNCHANGED <<relay, code, final, responseVars>>,
         conn' = conn \/ \E a \in Attempts : CloseConn(a)
  PROVE  RelayInv' /\ RelayFrame
<1>1. UNCHANGED <<lines, status, arrived, ended>>
  BY DEF responseVars
<1>2. conn' \in [Attempts -> {"up", "closed", "broken"}]
  BY DEF CloseConn, RelayInv, RelayTypeOK
<1> QED
  BY <1>1, <1>2 DEF RelayInv, RelayTypeOK, AttemptInv, RelayFrame

-----------------------------------------------------------------------------
(* The gateway. *)

\* The part of the invariant that is about the request.
RequestInv ==
    GatewayTypeOK /\ Progress /\ SameSource /\ HeaderNamesSource /\ CompletedWhole

(* While the client has got nothing, one line more is from one source. *)
LEMMA FirstLine ==
  ASSUME NEW x \in Nat, clientLines = <<>>, clientLines' = Append(clientLines, x)
  PROVE  /\ clientLines' \in Seq(Nat) /\ Len(clientLines') = 1 /\ SameSource'
         /\ \A i \in 1..Len(clientLines') : clientLines'[i] = x
<1>1. clientLines \in Seq(Nat) /\ Len(clientLines) = 0
  BY EmptySequence
<1>2. clientLines' \in Seq(Nat) /\ Len(clientLines') = 1 /\ clientLines'[1] = x
  BY <1>1, FirstAppend
<1>3. \A i \in 1..Len(clientLines') : i = 1
  BY <1>2
<1> QED
  BY <1>2, <1>3 DEF SameSource

(* An empty response is from one source. *)
LEMMA NoLine ==
  ASSUME clientLines = <<>>
  PROVE  Len(clientLines) = 0 /\ SameSource /\ HeaderNamesSource
<1>1. Len(clientLines) = 0
  BY EmptySequence
<1>2. 1..Len(clientLines) = {}
  BY <1>1
<1> QED
  BY <1>1, <1>2 DEF SameSource, HeaderNamesSource

(* The router's own error, sent while the client has got nothing. *)
LEMMA HttpErrInv ==
  ASSUME RequestInv, clientLines = <<>>, NEW st \in Nat, httpErr(st),
         UNCHANGED <<stream, attempt, target, relayed>>
  PROVE  RequestInv'
<1>1. Router \in Nat
  BY GatewayAssumption DEF Router
<1>2. clientLines' = Append(clientLines, Router) /\ gw' = "finished"
      /\ outcome' = "ROUTE_ATTEMPT_FAILED"
  BY DEF httpErr, Finish
<1>3. /\ clientLines' \in Seq(Nat) /\ SameSource'
      /\ \A i \in 1..Len(clientLines') : clientLines'[i] = Router
  BY <1>1, <1>2, FirstLine
<1>4. clientStatus' \in Nat
  BY DEF httpErr, WriteHeader, RequestInv, GatewayTypeOK
<1>5. GatewayTypeOK'
  BY <1>2, <1>3, <1>4 DEF RequestInv, GatewayTypeOK
<1>6. Router' = Router
  BY DEF Router
<1>7. HeaderNamesSource'
  BY <1>3, <1>6 DEF HeaderNamesSource
<1>8. Progress' /\ CompletedWhole'
  BY <1>2 DEF Progress, CompletedWhole
<1> QED
  BY <1>3, <1>5, <1>7, <1>8 DEF RequestInv

(* An attempt that has failed before the client got anything. *)
LEMMA AttemptFailsInv ==
  ASSUME GInv, clientLines = <<>>, gw # "finished",
         stream \/ clientStatus = 0, AttemptFails
  PROVE  GInv'
<1>0. /\ RelayInv /\ GatewayTypeOK /\ Unused /\ RequestInv /\ attempt \in Nat
      /\ outcome = "none"
  BY AttemptsAre DEF GInv, RequestInv, GatewayTypeOK, Progress
<1>1. /\ stream' = stream /\ UNCHANGED <<relay, code, final, responseVars>>
      /\ CloseConn(attempt) /\ UNCHANGED <<target, relayed>>
  BY DEF AttemptFails, OnlyConnChanges
<1>2. RelayInv' /\ RelayFrame
  BY <1>0, <1>1, RelayQuiet DEF GatewayTypeOK
<1>3. CASE attempt < MaxRetries
  <2>1. /\ gw' = "choose" /\ attempt' = attempt + 1
        /\ UNCHANGED <<clientStatus, clientBackend, clientLines, outcome>>
    BY <1>3 DEF AttemptFails, NextAttempt, clientVars
  <2>2. attempt' \in Attempts
    BY <1>0, <1>3, <2>1, GatewayAssumption
  <2>3. GatewayTypeOK'
    BY <1>0, <1>1, <2>1, <2>2 DEF GatewayTypeOK
  <2>4. Progress' /\ CompletedWhole'
    BY <1>0, <1>1, <2>1 DEF Progress, CompletedWhole
  <2>5. SameSource' /\ HeaderNamesSource'
    <3>1. clientLines' = <<>>
      BY <2>1
    <3>2. Len(clientLines') = 0
      BY <3>1, EmptySequence
    <3>3. 1..Len(clientLines') = {}
      BY <3>2
    <3> QED
      BY <3>3 DEF SameSource, HeaderNamesSource
  <2>6. Unused'
    <3>1. ASSUME NEW a \in Attempts, a > attempt + 1 \/ a = attempt + 1
          PROVE  a > attempt
      BY <1>0, <3>1, AttemptsAre
    <3> QED
      BY <1>0, <1>1, <2>1, <3>1 DEF Unused
  <2> QED
    BY <1>2, <2>3, <2>4, <2>5, <2>6 DEF GInv
<1>4. CASE ~(attempt < MaxRetries)
  <2>1. httpErr(502) /\ attempt' = attempt
    BY <1>4 DEF AttemptFails, NextAttempt
  <2>2. RequestInv'
    BY <1>0, <1>1, <2>1, HttpErrInv
  <2>3. gw' = "finished"
    BY <2>1 DEF httpErr, Finish
  <2>4. Unused'
    BY <1>0, <1>1, <2>1, <2>3 DEF Unused
  <2> QED
    BY <1>2, <2>2, <2>4 DEF GInv, RequestInv
<1> QED
  BY <1>3, <1>4

(* The choice of a backend, and the request that is sent to it. *)
LEMMA ChooseInv ==
  ASSUME GInv, NEW b \in Backends, Choose(b)
  PROVE  GInv'
<1>0. RelayInv /\ RelayTypeOK /\ GatewayTypeOK /\ Progress /\ Unused
  BY DEF GInv, RelayInv
<1>1. /\ gw = "choose" /\ gw' = "waiting" /\ relayed' = 0
      /\ target' = [target EXCEPT ![attempt] = b]
      /\ relay' = [relay EXCEPT ![attempt] = IF clientGone THEN @ ELSE "queued"]
      /\ UNCHANGED <<code, final, lines, status, arrived, ended, conn, attempt, stream,
                     clientStatus, clientBackend, clientLines, outcome>>
  BY DEF Choose, responseVars, clientVars
<1>2. attempt \in Attempts /\ relay[attempt] = "idle" /\ attempt \in Nat
  BY <1>0, <1>1, AttemptsAre DEF Unused, GatewayTypeOK
<1>3. /\ relay'[attempt] \in {"idle", "queued"} /\ relay' \in [Attempts -> Places]
      /\ \A a \in Attempts : a # attempt => relay'[a] = relay[a]
  BY <1>0, <1>1, <1>2 DEF RelayTypeOK, Places
<1>4. RelayTypeOK'
  BY <1>0, <1>1, <1>3 DEF RelayTypeOK
<1>5. ASSUME NEW a \in Attempts
      PROVE  AttemptInv(a)'
  <2>1. AttemptInv(a)
    BY <1>0 DEF RelayInv
  <2>2. CASE a = attempt
    BY <1>1, <1>2, <1>3, <2>1, <2>2 DEF AttemptInv
  <2>3. CASE a # attempt
    BY <1>1, <1>3, <2>1, <2>3 DEF AttemptInv
  <2> QED
    BY <2>2, <2>3
<1>6. GatewayTypeOK'
  BY <1>0, <1>1 DEF GatewayTypeOK
<1>7. clientLines = <<>> /\ Progress'
  BY <1>0, <1>1 DEF Progress
<1>8. Unused'
  <2>1. ASSUME NEW a \in Attempts, a > attempt
        PROVE  a # attempt
    BY <1>2, <2>1
  <2> QED
    BY <1>0, <1>1, <1>3, <2>1 DEF Unused
<1>9. SameSource' /\ HeaderNamesSource'
  <2>1. Len(clientLines') = 0
    BY <1>1, <1>7, EmptySequence
  <2>2. 1..Len(clientLines') = {}
    BY <2>1
  <2> QED
    BY <2>2 DEF SameSource, HeaderNamesSource
<1>10. CompletedWhole'
  BY <1>1 DEF CompletedWhole, GInv, Progress
<1> QED
  BY <1>4, <1>5, <1>6, <1>7, <1>8, <1>9, <1>10 DEF GInv, RelayInv

(* The relay loop ends, the client having got all it will get. *)
LEMMA StreamEndsInv ==
  ASSUME GInv, gw = "reading", NEW kind, StreamEnds(kind),
         clientLines' \in Seq(Nat), relayed' \in Nat,
         \A i \in 1..Len(clientLines') : clientLines'[i] = attempt,
         kind = "REQUEST_COMPLETED" => attempt \in ended /\ Len(clientLines') = lines[attempt]
  PROVE  GInv'
<1>0. RelayInv /\ GatewayTypeOK /\ Progress /\ Unused /\ stream
  BY DEF GInv, Progress
<1>1. /\ gw' = "finished" /\ outcome' = kind /\ CloseConn(attempt)
      /\ UNCHANGED <<relay, code, final, responseVars, attempt, target, stream, clientStatus>>
  BY DEF StreamEnds, Finish, OnlyConnChanges, routeVars
<1>2. RelayInv' /\ RelayFrame
  BY <1>0, <1>1, RelayQuiet DEF GatewayTypeOK
<1>3. GatewayTypeOK'
  BY <1>0, <1>1 DEF GatewayTypeOK
<1>4. Progress' /\ HeaderNamesSource'
  BY <1>0, <1>1 DEF Progress, HeaderNamesSource
<1>5. SameSource'
  BY DEF SameSource
<1>6. CompletedWhole'
  BY <1>1 DEF CompletedWhole, responseVars
<1>7. Unused'
  BY <1>0, <1>1 DEF Unused
<1> QED
  BY <1>2, <1>3, <1>4, <1>5, <1>6, <1>7 DEF GInv

(* A line of the stream reaches the client. *)
LEMMA LineWrittenInv ==
  ASSUME GInv, LineWritten
  PROVE  GInv'
<1>0. /\ RelayInv /\ GatewayTypeOK /\ Progress /\ Unused
      /\ attempt \in Nat /\ clientLines \in Seq(Nat) /\ relayed \in Nat
  BY AttemptsAre DEF GInv, GatewayTypeOK
<1>1. /\ gw = "reading" /\ clientLines' = Append(clientLines, attempt)
      /\ relayed' = relayed + 1
  BY DEF LineWritten
<1>2. /\ stream /\ Len(clientLines) = relayed /\ outcome = "none"
      /\ \A i \in 1..Len(clientLines) : clientLines[i] = attempt
  BY <1>0, <1>1 DEF Progress
<1>3. /\ clientLines' \in Seq(Nat) /\ Len(clientLines') = relayed + 1
      /\ \A i \in 1..Len(clientLines) : clientLines'[i] = clientLines[i]
      /\ clientLines'[Len(clientLines) + 1] = attempt
  BY <1>0, <1>1, <1>2, Appended
<1>4. ASSUME NEW i \in 1..Len(clientLines')
      PROVE  clientLines'[i] = attempt
  <2>1. i \in 1..Len(clientLines) \/ i = Len(clientLines) + 1
    BY <1>0, <1>2, <1>3
  <2>2. CASE i \in 1..Len(clientLines)
    BY ONLY <1>2, <1>3, <2>2
  <2>3. CASE i = Len(clientLines) + 1
    BY ONLY <1>3, <2>3
  <2> QED
    BY <2>1, <2>2, <2>3
<1>5. CASE clientGone
  <2>1. StreamEnds("CLIENT_CANCELLED")
    BY <1>5 DEF LineWritten
  <2>2. relayed' \in Nat
    BY <1>0, <1>1
  <2>3. "CLIENT_CANCELLED" # "REQUEST_COMPLETED"
    OBVIOUS
  <2>4. clientLines' \in Seq(Nat) /\ \A i \in 1..Len(clientLines') : clientLines'[i] = attempt
    BY <1>3, <1>4
  <2>5. gw = "reading"
    BY <1>1
  <2> QED
    BY ONLY GInv, <2>1, <2>2, <2>3, <2>4, <2>5, StreamEndsInv
<1>6. CASE ~clientGone
  <2>1. UNCHANGED <<relay, code, final, responseVars, conn, gw, attempt, target, stream,
                    clientStatus, clientBackend, outcome>>
    BY <1>6 DEF LineWritten, relayVars, routeVars
  <2>2. RelayInv'
    BY <1>0, <2>1, RelayQuiet
  <2>3. GatewayTypeOK'
    BY <1>0, <1>1, <1>3, <2>1 DEF GatewayTypeOK
  <2>4. Progress'
    BY <1>1, <1>2, <1>3, <1>4, <2>1 DEF Progress
  <2>5. SameSource' /\ HeaderNamesSource' /\ CompletedWhole'
    BY <1>2, <1>4, <2>1 DEF SameSource, HeaderNamesSource, CompletedWhole
  <2>6. Unused'
    BY <1>0, <2>1 DEF Unused
  <2> QED
    BY <2>2, <2>3, <2>4, <2>5, <2>6 DEF GInv
<1> QED
  BY <1>5, <1>6

(* The loop ends without a line. *)
LEMMA LoopEndsInv ==
  ASSUME GInv, LineWriteFails \/ StreamCompletes \/ ReadFailsTerminal
  PROVE  GInv'
<1>1. gw = "reading" /\ UNCHANGED <<relayed, clientLines>>
  BY DEF LineWriteFails, StreamCompletes, ReadFailsTerminal, ReadFails
<1>2. /\ RelayInv /\ GatewayTypeOK /\ Len(clientLines) = relayed
      /\ \A i \in 1..Len(clientLines) : clientLines[i] = attempt
  BY <1>1 DEF GInv, Progress
<1>3. /\ clientLines' \in Seq(Nat) /\ relayed' \in Nat
      /\ \A i \in 1..Len(clientLines') : clientLines'[i] = attempt
  BY <1>1, <1>2 DEF GatewayTypeOK
<1>4. CASE StreamCompletes
  <2>1. StreamEnds("REQUEST_COMPLETED") /\ attempt \in ended /\ relayed = arrived[attempt]
    BY <1>4 DEF StreamCompletes, EndReached
  <2>2. attempt \in Attempts /\ AttemptInv(attempt)
    BY <1>2 DEF GatewayTypeOK, RelayInv
  <2>3. Len(clientLines') = lines[attempt]
    BY <1>1, <1>2, <2>1, <2>2 DEF AttemptInv
  <2> QED
    BY ONLY GInv, <1>1, <1>3, <2>1, <2>3, StreamEndsInv
<1>5. CASE LineWriteFails \/ ReadFailsTerminal
  <2>1. StreamEnds("CLIENT_CANCELLED") \/ StreamEnds("PARTIAL_STREAM_FAILED")
    BY <1>5 DEF LineWriteFails, ReadFailsTerminal
  <2>2. "CLIENT_CANCELLED" # "REQUEST_COMPLETED" /\ "PARTIAL_STREAM_FAILED" # "REQUEST_COMPLETED"
    OBVIOUS
  <2> QED
    BY ONLY GInv, <1>1, <1>3, <2>1, <2>2, StreamEndsInv
<1> QED
  BY <1>4, <1>5

(* The answer of a sidecar, up to its header. *)
LEMMA AnswerInv ==
  ASSUME GInv, NoEligibleBackend \/ RelayWhole \/ StreamOpens
  PROVE  GInv'
<1>0. /\ RelayInv /\ RelayTypeOK /\ GatewayTypeOK /\ Progress /\ Unused /\ RequestInv
      /\ attempt \in Nat
  BY AttemptsAre DEF GInv, RelayInv, RequestInv, GatewayTypeOK
<1>1. CASE NoEligibleBackend
  <2>1. /\ gw = "choose" /\ httpErr(503)
        /\ UNCHANGED <<relay, code, final, responseVars, conn, stream, attempt, target, relayed>>
    BY <1>1 DEF NoEligibleBackend, relayVars, routeVars
  <2>2. clientLines = <<>>
    BY <1>0, <2>1 DEF Progress
  <2>3. RequestInv'
    BY <1>0, <2>1, <2>2, HttpErrInv
  <2>4. RelayInv'
    BY <1>0, <2>1, RelayQuiet
  <2>5. Unused'
    BY <1>0, <2>1 DEF Unused, httpErr, Finish
  <2> QED
    BY <2>3, <2>4, <2>5 DEF GInv, RequestInv
<1>2. CASE RelayWhole
  <2>1. /\ gw = "waiting" /\ ~stream /\ WriteHeader(status[attempt], target[attempt])
        /\ clientLines' = Append(clientLines, attempt) /\ gw' = "finished"
        /\ CloseConn(attempt)
        /\ UNCHANGED <<relay, code, final, responseVars, stream, attempt, target, relayed>>
    BY <1>2 DEF RelayWhole, Finish, OnlyConnChanges, routeVars
  <2>2. clientLines = <<>> /\ clientStatus = 0
    BY <1>0, <2>1 DEF Progress
  <2>3. clientStatus' = status[attempt] /\ clientBackend' = target[attempt]
    BY <2>1, <2>2 DEF WriteHeader
  <2>4. status[attempt] \in Nat /\ attempt \in Attempts
    BY <1>0 DEF RelayTypeOK, GatewayTypeOK
  <2>5. /\ clientLines' \in Seq(Nat) /\ SameSource'
        /\ \A i \in 1..Len(clientLines') : clientLines'[i] = attempt
    BY <1>0, <2>1, <2>2, FirstLine
  <2>6. RelayInv'
    BY <1>0, <2>1, <2>4, RelayQuiet
  <2>7. GatewayTypeOK'
    BY <1>0, <2>1, <2>3, <2>4, <2>5 DEF GatewayTypeOK
  <2>8. Progress' /\ CompletedWhole' /\ Unused'
    BY <1>0, <2>1 DEF Progress, CompletedWhole, Unused
  <2>9. HeaderNamesSource'
    BY <2>1, <2>3, <2>5 DEF HeaderNamesSource
  <2> QED
    BY <2>5, <2>6, <2>7, <2>8, <2>9 DEF GInv
<1>3. CASE StreamOpens
  <2>1. /\ gw = "waiting" /\ stream /\ WriteHeader(200, target[attempt]) /\ gw' = "reading"
        /\ UNCHANGED <<relay, code, final, responseVars, conn, stream, attempt, target, relayed,
                       clientLines, outcome>>
    BY <1>3 DEF StreamOpens, relayVars, routeVars
  <2>2. clientLines = <<>> /\ relayed = 0 /\ outcome = "none"
    BY <1>0, <2>1 DEF Progress
  <2>3. Len(clientLines) = 0
    BY <2>2, NoLine
  <2>4. 1..Len(clientLines) = {}
    BY <2>3
  <2>5. clientStatus' \in Nat
    BY <1>0, <2>1 DEF WriteHeader, GatewayTypeOK
  <2>6. RelayInv'
    BY <1>0, <2>1, RelayQuiet
  <2>7. GatewayTypeOK'
    BY <1>0, <2>1, <2>5 DEF GatewayTypeOK
  <2>8. Progress'
    BY <2>1, <2>2, <2>3, <2>4 DEF Progress
  <2>9. CompletedWhole' /\ Unused'
    BY <1>0, <2>1, <2>2 DEF CompletedWhole, Unused
  <2>10. SameSource' /\ HeaderNamesSource'
    BY <2>1, <2>4 DEF SameSource, HeaderNamesSource
  <2> QED
    BY <2>6, <2>7, <2>8, <2>9, <2>10 DEF GInv
<1> QED
  BY <1>1, <1>2, <1>3

-----------------------------------------------------------------------------
LEMMA InitGInv == Init => GInv
<1> SUFFICES ASSUME Init PROVE GInv
  OBVIOUS
<1> USE DEF Init, RelayInit
<1>1. RelayTypeOK
  <2>1. <<>> \in Seq(Ends)
    BY EmptySequence
  <2> QED
    BY <2>1 DEF RelayTypeOK, Places
<1>2. Len(<<>>) = 0 /\ <<>> \in Seq(Nat)
  BY EmptySequence
<1>3. \A a \in Attempts : AttemptInv(a)
  BY <1>2 DEF AttemptInv
<1>4. GatewayTypeOK
  BY <1>2, AttemptsAre DEF GatewayTypeOK
<1>5. Progress /\ CompletedWhole
  BY DEF Progress, CompletedWhole
<1>6. Unused
  BY DEF Unused
<1>7. SameSource /\ HeaderNamesSource
  BY NoLine
<1> QED
  BY <1>1, <1>3, <1>4, <1>5, <1>6, <1>7 DEF GInv, RelayInv

(* Every step of the request, of its sidecars and of the world around it   *)
(* keeps the invariant.                                                    *)
LEMMA NextGInv == GInv /\ [Next]_vars => GInv'
<1> SUFFICES ASSUME GInv, [Next]_vars
             PROVE  GInv'
  OBVIOUS
<1>1. CASE NoEligibleBackend \/ RelayWhole \/ StreamOpens
  BY <1>1, AnswerInv
<1>2. CASE \E b \in Backends : Choose(b)
  BY <1>2, ChooseInv
<1>3. CASE DoFails \/ SidecarRejects
  <2>1. gw = "waiting" /\ AttemptFails
    BY <1>3 DEF DoFails, SidecarRejects
  <2>2. clientLines = <<>> /\ (stream \/ clientStatus = 0)
    BY <2>1 DEF GInv, Progress
  <2> QED
    BY <2>1, <2>2, AttemptFailsInv
<1>4. CASE ReadFailsRetryable
  <2>1. gw = "reading" /\ relayed = 0 /\ AttemptFails
    BY <1>4 DEF ReadFailsRetryable, ReadFails
  <2>2. stream /\ Len(clientLines) = 0 /\ clientLines \in Seq(Nat)
    BY <2>1 DEF GInv, Progress, GatewayTypeOK
  <2>3. clientLines = <<>>
    BY <2>2, EmptySequence
  <2> QED
    BY <2>1, <2>2, <2>3, AttemptFailsInv
<1>5. CASE LineWritten
  BY <1>5, LineWrittenInv
<1>6. CASE LineWriteFails \/ StreamCompletes \/ ReadFailsTerminal
  BY <1>6, LoopEndsInv
<1>7. CASE (RelayNext /\ UNCHANGED gatewayVars) \/ Refresh \/ ClientLeaves \/ UNCHANGED vars
  <2>1. UNCHANGED <<stream, gw, attempt, target, relayed, clientStatus, clientBackend,
                    clientLines, outcome>>
    BY <1>7 DEF gatewayVars, routeVars, clientVars, Refresh, ClientLeaves, vars
  <2>2. RelayInv' /\ RelayFrame
    <3>1. CASE RelayNext
      BY <2>1, <3>1, RelayNextInv DEF GInv
    <3>2. CASE Refresh \/ ClientLeaves \/ UNCHANGED vars
      <4>1. UNCHANGED <<relay, code, final, responseVars, conn>>
        BY <3>2 DEF Refresh, ClientLeaves, vars, relayVars
      <4> QED
        BY <2>1, <4>1, RelayQuiet DEF GInv
    <3> QED
      BY <1>7, <3>1, <3>2
  <2>3. GatewayTypeOK' /\ Progress' /\ SameSource'
    BY <2>1 DEF GInv, GatewayTypeOK, Progress, SameSource
  <2>4. Unused'
    BY <2>1, <2>2 DEF GInv, Unused, RelayFrame
  <2>5. CompletedWhole'
    BY <2>1, <2>2 DEF GInv, CompletedWhole, RelayFrame, GatewayTypeOK
  <2>6. HeaderNamesSource'
    BY <2>1 DEF GInv, HeaderNamesSource, Router
  <2> QED
    BY <2>2, <2>3, <2>4, <2>5, <2>6 DEF GInv
<1> QED
  BY <1>1, <1>2, <1>3, <1>4, <1>5, <1>6, <1>7 DEF Next, Forward

(* GInv is an invariant of the request (gateway.go:63-245, proxy.go).      *)
THEOREM GatewayInvariance == Spec => []GInv
<1>1. Init => GInv
  BY InitGInv
<1>2. GInv /\ [Next]_vars => GInv'
  BY NextGInv
<1> QED
  BY <1>1, <1>2, PTL DEF Spec

(* Whatever fails and is retried, the client is answered from one source,  *)
(* and X-Backend-ID names it (gateway.go:160-245: no reroute after the     *)
(* first byte).                                                            *)
THEOREM OneSourceAlways == Spec => []OneSource
<1>1. GInv => OneSource
  <2> SUFFICES ASSUME GInv PROVE OneSource
    OBVIOUS
  <2>1. Cardinality(Range(clientLines)) <= 1
    <3>1. CASE Len(clientLines) = 0
      <4>1. DOMAIN clientLines = {}
        BY <3>1 DEF GInv, GatewayTypeOK
      <4>2. Range(clientLines) = {}
        BY <4>1 DEF Range
      <4> QED
        BY <4>2, FS_EmptySet
    <3>2. CASE Len(clientLines) # 0
      <4>1. DOMAIN clientLines = 1..Len(clientLines) /\ 1 \in 1..Len(clientLines)
        BY <3>2 DEF GInv, GatewayTypeOK
      <4>2. Range(clientLines) = {clientLines[1]}
        BY <4>1 DEF Range, GInv, SameSource
      <4>3. Cardinality({clientLines[1]}) = 1
        BY FS_Singleton
      <4> QED
        BY <4>2, <4>3
    <3> QED
      BY <3>1, <3>2
  <2> QED
    BY <2>1 DEF OneSource, GInv, HeaderNamesSource
<1> QED
  BY <1>1, GatewayInvariance, PTL

(* A stream recorded as completed was relayed to its last line             *)
(* (gateway.go:200-245).                                                   *)
THEOREM CompletedStreamsAreWhole == Spec => []CompleteMeansAll
<1>1. GInv => CompleteMeansAll
  BY DEF GInv, CompletedWhole, CompleteMeansAll, RelayInv, AttemptInv, GatewayTypeOK
<1> QED
  BY <1>1, GatewayInvariance, PTL

(* A dispatched attempt calls Done once, on every way out of the relay,    *)
(* and an attempt that was not dispatched never does (proxy.go).           *)
THEOREM DoneIsCalledOnce == Spec => []DoneExactlyOnce
<1>1. GInv => DoneExactlyOnce
  BY DEF GInv, RelayInv, AttemptInv, DoneExactlyOnce, Running
<1> QED
  BY <1>1, GatewayInvariance, PTL
=============================================================================
