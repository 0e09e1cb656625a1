----------------------------- MODULE ServiceEdge -----------------------------
(***************************************************************************)
(* The HTTP edge of one process: http_metrics_layer around every route     *)
(* (br-util-observability), the readiness gate and its probe               *)
(* (br-util-axum-readiness), and the log lines of both and of the service. *)
(*                                                                         *)
(* A request is its method, the path the client sent and the template the  *)
(* router matched.  Durations and the bucket layout are left out.          *)
(***************************************************************************)
EXTENDS Naturals, Sequences, FiniteSets, FiniteSetsExt, SequencesExt

CONSTANTS
  Request,
  Targets,     \* what a request may be: [method, path, template]
  NoRoute,     \* no template matched
  Statuses,    \* what the service's own handlers answer
  Task,        \* tasks that hold a clone of the readiness handle
  Reasons,
  Component,   \* the name given to init_logging
  Events,      \* events of the service: [level, fields], a field being [name, kind, value]
  MaxSets,     \* bound: calls of set_ready and set_not_ready
  MaxEvents    \* bound: events of the service

VARIABLES
  stage,      \* per request: idle, called, entered, counted, left
  target,     \* per request, its target
  reply,      \* per request, the status its future yielded, 0 for none
  gauge,      \* http_requests_in_flight
  total,      \* http_requests_total, and the count of http_request_duration_seconds
  readiness,  \* Readiness: "ready" or the reason
  owed,       \* per task: the transition it has still to log
  lines,      \* per event that was logged, [event, line]
  turns,      \* transitions of the gate (history)
  sets,
  seen        \* per request, what the gate was at some moment since it was entered (history)

http == <<stage, target, reply, gauge, total>>
gate == <<readiness, owed, turns, sets>>
vars == <<http, gate, lines, seen>>

Ready == "ready"
Gate == {Ready} \cup Reasons
NoTarget == [method |-> "none", path |-> "none", template |-> NoRoute]
Unmatched == "<unmatched>"

\* mutant: a request without a template is labelled with its path
RouteLabelPath(t) == IF t.template = NoRoute THEN t.path ELSE t.template

\* route_label
RouteLabel(t) == IF t.template = NoRoute THEN Unmatched ELSE t.template

Label(t) == [method |-> t.method, route |-> RouteLabel(t)]
Labels == {Label(t) : t \in Targets}
Answers == Statuses \cup {200, 404, 503}

\* init_metrics: a recorder in which nothing is recorded yet.
InitMetrics ==
  /\ gauge = [l \in Labels |-> 0]
  /\ total = [ls \in Labels \X Answers |-> 0]

\* A service starts with its gate open, or shut for a reason.
Init ==
  /\ InitMetrics
  /\ stage = [r \in Request |-> "idle"]
  /\ target = [r \in Request |-> NoTarget]
  /\ reply = [r \in Request |-> 0]
  /\ readiness \in Gate
  /\ owed = [t \in Task |-> "none"]
  /\ turns = 0 /\ sets = 0
  /\ lines = <<>>
  /\ seen = [r \in Request |-> {}]

-----------------------------------------------------------------------------
(* Log lines *)

Reserved == {"ts", "level", "component", "msg"}
NoMessage == "none"

\* A map with another's entries, its own before them.
Over(own, other) ==
  [name \in DOMAIN own \cup DOMAIN other |->
     IF name \in DOMAIN own THEN own[name] ELSE other[name]]

\* JsonVisitor: the first text called message is the message; every other field goes to the
\* map, a later one over an earlier one, and a number that is not finite as null.
Record(visitor, field) ==
  LET value == IF field.value = "NaN" THEN "null" ELSE field.value IN
  IF field.name = "message" /\ field.kind \in {"str", "debug"} /\ visitor.message = NoMessage
    THEN [visitor EXCEPT !.message = value]
    ELSE [visitor EXCEPT !.fields = Over([name \in {field.name} |-> value], @)]

Visited(event) == FoldLeft(Record, [message |-> NoMessage, fields |-> <<>>], event.fields)

\* mutant: the fields are inserted whatever they are called
RenderLineClobbered(level, visitor) ==
  Over(visitor.fields, [ts |-> "now", level |-> level, component |-> Component])

\* render_line: the fields with a reserved name are skipped.
RenderLine(level, visitor) ==
  LET own == [ts |-> "now", level |-> level, component |-> Component]
      msg == IF visitor.message = NoMessage THEN <<>> ELSE [msg |-> visitor.message]
      kept == [name \in DOMAIN visitor.fields \ Reserved |-> visitor.fields[name]] IN
  Over(Over(own, msg), kept)

\* JsonEventFormatter::format_event
FormatEvent(event) == RenderLine(event.level, Visited(event))

Write(event) == lines' = Append(lines, [event |-> event, line |-> FormatEvent(event)])

Log(event) ==
  /\ Cardinality({n \in DOMAIN lines : lines[n].event \in Events}) < MaxEvents
  /\ Write(event)
  /\ UNCHANGED <<http, gate, seen>>

-----------------------------------------------------------------------------
(* The readiness gate *)

Text(text) == [name |-> "message", kind |-> "debug", value |-> text]
Up == [level |-> "INFO", fields |-> <<Text("readiness: UP")>>]
Down(reason) ==
  [level |-> "WARN", fields |-> <<Text("readiness: DOWN"),
                                  [name |-> "reason", kind |-> "debug", value |-> reason]>>]

\* The write under the lock; whether it was a transition is read under the same lock.
Turn(t, to) ==
  /\ sets < MaxSets /\ owed[t] = "none"
  /\ sets' = sets + 1
  /\ readiness' = to
  /\ owed' = [owed EXCEPT ![t] = IF readiness = to THEN "none" ELSE to]
  /\ turns' = IF readiness = to THEN turns ELSE turns + 1
  /\ seen' = [r \in Request |-> IF stage[r] = "entered" THEN seen[r] \cup {to} ELSE seen[r]]
  /\ UNCHANGED <<http, lines>>

\* ReadinessHandle::set_ready
SetReady(t) == Turn(t, Ready)

\* ReadinessHandle::set_not_ready: another reason is a transition too.
SetNotReady(t, reason) == Turn(t, reason)

\* mutant: the line is written whether or not the state changed
TurnedTwice(t) ==
  /\ owed[t] # "none"
  /\ Write(IF owed[t] = Ready THEN Up ELSE Down(owed[t]))
  /\ UNCHANGED <<http, readiness, owed, turns, sets, seen>>

\* The transition is logged after the lock was released.
Turned(t) ==
  /\ owed[t] # "none"
  /\ Write(IF owed[t] = Ready THEN Up ELSE Down(owed[t]))
  /\ owed' = [owed EXCEPT ![t] = "none"]
  /\ UNCHANGED <<http, readiness, turns, sets, seen>>

-----------------------------------------------------------------------------
(* Requests *)

\* HttpMetricsService::call: the labels are taken, the future is made.
Call(r, t) ==
  /\ stage[r] = "idle"
  /\ stage' = [stage EXCEPT ![r] = "called"]
  /\ target' = [target EXCEPT ![r] = t]
  /\ UNCHANGED <<reply, gauge, total, gate, lines, seen>>

\* InFlightGuard::enter, at the first poll of the future
Enter(r) ==
  /\ stage[r] = "called"
  /\ stage' = [stage EXCEPT ![r] = "entered"]
  /\ gauge' = [gauge EXCEPT ![Label(target[r])] = @ + 1]
  /\ seen' = [seen EXCEPT ![r] = {readiness}]
  /\ UNCHANGED <<target, reply, total, gate, lines>>

LivenessRoute == {200}
MetricsRoute == {200}

\* The gate was read at some moment since the request was entered.
ReadinessRoute(r) == {IF g = Ready THEN 200 ELSE 503 : g \in seen[r]}

\* The routers of the three crates, the service's own routes, and axum's fallback.
Handled(r) == LET template == target[r].template IN
  CASE template = "/livez" -> LivenessRoute
    [] template = "/readyz" -> ReadinessRoute(r)
    [] template = "/metrics" -> MetricsRoute
    [] template = NoRoute -> {404}
    [] OTHER -> Statuses

\* The inner service answered: the counter and the histogram, in one poll.
Count(r) ==
  /\ stage[r] = "entered"
  /\ stage' = [stage EXCEPT ![r] = "counted"]
  /\ \E status \in Handled(r) :
       /\ reply' = [reply EXCEPT ![r] = status]
       /\ total' = [total EXCEPT ![<<Label(target[r]), status>>] = @ + 1]
  /\ UNCHANGED <<target, gauge, gate, lines, seen>>

\* InFlightGuard::drop
DropGuard(r) == gauge' = [gauge EXCEPT ![Label(target[r])] = @ - 1]

\* mutant: the gauge is decremented after the await, and not where the future is dropped
LeaveAnswered(r) ==
  /\ stage[r] \in {"entered", "counted"}
  /\ stage' = [stage EXCEPT ![r] = "left"]
  /\ IF stage[r] = "counted" THEN DropGuard(r) ELSE UNCHANGED gauge
  /\ UNCHANGED <<target, reply, total, gate, lines, seen>>

\* The future ends with the response; or with the inner service's error or panic; or the
\* client goes away and it is dropped.
Leave(r) ==
  /\ stage[r] \in {"entered", "counted"}
  /\ stage' = [stage EXCEPT ![r] = "left"]
  /\ DropGuard(r)
  /\ UNCHANGED <<target, reply, total, gate, lines, seen>>

\* A future that is dropped before its first poll never entered.
Abandon(r) ==
  /\ stage[r] = "called"
  /\ stage' = [stage EXCEPT ![r] = "left"]
  /\ UNCHANGED <<target, reply, gauge, total, gate, lines, seen>>

Next ==
  \/ \E event \in Events : Log(event)
  \/ \E t \in Task : SetReady(t) \/ Turned(t) \/ \E reason \in Reasons : SetNotReady(t, reason)
  \/ \E r \in Request :
       Enter(r) \/ Count(r) \/ Leave(r) \/ Abandon(r) \/ \E t \in Targets : Call(r, t)

Spec == Init /\ [][Next]_vars

-----------------------------------------------------------------------------
(* Properties *)

TypeOK ==
  /\ stage \in [Request -> {"idle", "called", "entered", "counted", "left"}]
  /\ target \in [Request -> Targets \cup {NoTarget}]
  /\ reply \in [Request -> Answers \cup {0}]
  /\ gauge \in [Labels -> Nat] /\ total \in [Labels \X Answers -> Nat]
  /\ readiness \in Gate /\ owed \in [Task -> Gate \cup {"none"}]

\* README.md:108-109 of br-util-observability: on every exit path (answer, error, panic,
\* cancellation, a future never polled) the gauge comes back down, and the counter has the
\* completed requests only; a request is never in neither while it is being answered.
GaugeFollowsRequests ==
  \A l \in Labels :
    /\ gauge[l] = Cardinality({r \in Request : /\ stage[r] \in {"entered", "counted"}
                                              /\ Label(target[r]) = l})
    /\ \A s \in Answers : total[<<l, s>>] = Cardinality({r \in Request : /\ reply[r] = s
                                                                     /\ Label(target[r]) = l})

\* README.md:84-97 of br-util-observability: no label is a path a client chose.
NoPathInLabels ==
  \A r \in Request : stage[r] # "idle" =>
    Label(target[r]).route \in {t.template : t \in Targets} \cup {Unmatched}

\* A line has its own canonical values, the first text called message, and the last value of
\* every field whose name is not one of theirs.
LineIsOurs(event, line) ==
  LET fields == event.fields
      texts == {i \in DOMAIN fields :
                  fields[i].name = "message" /\ fields[i].kind \in {"str", "debug"}} IN
  /\ line["level"] = event.level /\ line["component"] = Component /\ line["ts"] = "now"
  /\ "msg" \in DOMAIN line <=> texts # {}
  /\ texts # {} => line["msg"] = fields[Min(texts)].value
  /\ \A i \in DOMAIN fields :
       /\ fields[i].name \notin Reserved \cup {"message"}
       /\ \A j \in DOMAIN fields : j > i => fields[j].name # fields[i].name
       => line[fields[i].name] = IF fields[i].value = "NaN" THEN "null" ELSE fields[i].value

\* README.md:51-55 of br-util-observability: no field of an event takes the place of a
\* canonical one, and none is lost.
LinesAreOurs == \A n \in DOMAIN lines : LineIsOurs(lines[n].event, lines[n].line)

\* README.md:28 of br-util-axum-readiness: the transitions, and nothing else, are in the log.
EveryTransitionLoggedOnce ==
  turns = Cardinality({n \in DOMAIN lines : lines[n].event \notin Events})
          + Cardinality({t \in Task : owed[t] # "none"})

-----------------------------------------------------------------------------
(* The inductive invariant *)

GateEvents == {Up} \cup {Down(reason) : reason \in Reasons}

Typed ==
  /\ TypeOK
  /\ turns \in Nat
  /\ lines \in Seq({[event |-> event, line |-> FormatEvent(event)] : event \in Events \cup GateEvents})

\* A request is counted only after it was made, and answered only after it was entered.
Asked ==
  \A r \in Request :
    /\ stage[r] # "idle" => target[r] \in Targets
    /\ stage[r] \in {"idle", "called", "entered"} => reply[r] = 0

Inv == Typed /\ Asked /\ GaugeFollowsRequests /\ EveryTransitionLoggedOnce
=============================================================================
