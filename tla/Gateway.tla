------------------------------- MODULE Gateway -------------------------------
(***************************************************************************)
(* How an operator's request travels: cratonctl (cratonctl/client.rs) over *)
(* a connection to the one HTTP thread (http.rs), through the event        *)
(* channel to the control loop (runtime.rs), and back through a response   *)
(* channel.  Every hop has a timeout of its own: 5 s for the client, 10 s  *)
(* for the HTTP thread, 30 s for systemd's watchdog, none for the loop.    *)
(* Which of two timeouts ends first is left open.                          *)
(*                                                                         *)
(* What a command does is the subject of the other modules; here the loop  *)
(* is waiting, busy or hung.  How GET /health reads its clocks is modelled *)
(* in ControlLoop; here a published snapshot may be good or not.           *)
(***************************************************************************)
EXTENDS Naturals, Sequences, SequencesExt, FiniteSets

CONSTANTS
    Invocations,    \* processes cratonctl that an operator starts
    MayAsk,         \* the commands each of them may be started with
    Tokens,         \* well-formed remediation tokens
    MaxFaults,      \* bound: crashes, shutdowns and edits of the token file
    None            \* no reply, no connection, no snapshot, no token

Reads == {"health", "state", "diagnose"}
Mutations == {"trigger", "remediate", "malformed"}
Commands == Reads \cup Mutations \cup {"status", "doctor"}

Connections == Invocations \X {1, 2}

Statuses == {"200", "400", "401", "409", "500", "503", "504"}
Verdicts == {"accepted", "rejected"}
Outcomes == {"ok", "rejected", "unavailable", "late", "unauthorized", "denied",
             "broken", "no_token"}

ASSUME GatewayAssumption ==
    /\ MayAsk \in [Invocations -> SUBSET Commands]
    /\ MaxFaults \in Nat
    /\ "blank" \notin Tokens
    /\ "shutdown" \notin Invocations
    /\ None \notin Tokens \cup Connections \cup Outcomes \cup Statuses
                \cup {"empty", "open", "accepted", "rejected", "error", "gone", "blank"}

VARIABLES
    \* the clients
    command,        \* what each invocation asks for
    stage,          \* how far it is
    leg,            \* which of its requests it is at
    bearer,         \* the token it resolved
    outcome,        \* what it tells the operator
    \* the HTTP thread
    backlog,        \* connections it has not taken yet
    serving,        \* the connection it works on
    reply,          \* the status it wrote on each connection
    ack,            \* the response channel of each mutating request
    \* the control loop and its process
    daemon,         \* how far the process is
    loop,           \* what its main thread does
    channel,        \* the event channel: commands and a signal
    lastRecord,     \* the newest record of remediation_log
    snapshot,       \* SharedSnapshot: none yet, of a running or a leaving loop
    token,          \* the token of the running process
    tokenFile,      \* ai.token_path
    faults,
    \* observers
    applied,        \* what the reducer made of each command, each time
    edited          \* somebody has changed the token file by hand

clientVars == <<command, stage, leg, bearer, outcome>>
serverVars == <<backlog, serving, reply, ack>>
loopVars == <<loop, channel, lastRecord, applied, snapshot>>
processVars == <<daemon, token, tokenFile, faults, edited>>
vars == <<clientVars, serverVars, loopVars, processVars>>

\* The requests a command sends, in order (run_cli, handle_status, handle_doctor).
Requests(c) == IF c \in {"status", "doctor"} THEN <<"health", "state">> ELSE <<c>>

Path(c) == Requests(command[c[1]])[c[2]]

-----------------------------------------------------------------------------

Init ==
    /\ command = [r \in Invocations |-> "health"]
    /\ stage = [r \in Invocations |-> "idle"]
    /\ leg = [r \in Invocations |-> 1]
    /\ bearer = [r \in Invocations |-> None]
    /\ outcome = [r \in Invocations |-> None]
    /\ backlog = <<>> /\ serving = None
    /\ reply = [c \in Connections |-> None]
    /\ ack = [r \in Invocations |-> None]
    /\ daemon = "down" /\ loop = "off" /\ channel = <<>>
    /\ lastRecord = None /\ snapshot = None
    /\ token = None /\ tokenFile = None
    /\ faults = 0
    /\ applied = [r \in Invocations |-> <<>>]
    /\ edited = FALSE

-----------------------------------------------------------------------------
(* The clients *)

\* auth::resolve and require_token: a mutating command needs a token from its
\* arguments, its environment or the token file; a read-only one needs none.
Resolve(r, c) ==
    /\ stage[r] = "idle"
    /\ command' = [command EXCEPT ![r] = c]
    /\ IF c \in Mutations /\ tokenFile \in {None, "blank"}
       THEN /\ stage' = [stage EXCEPT ![r] = "over"]
            /\ outcome' = [outcome EXCEPT ![r] = "no_token"]
            /\ UNCHANGED bearer
       ELSE /\ stage' = [stage EXCEPT ![r] = "resolved"]
            /\ bearer' = [bearer EXCEPT ![r] = IF c \in Mutations THEN tokenFile ELSE None]
            /\ UNCHANGED outcome
    /\ UNCHANGED <<leg, serverVars, loopVars, processVars>>

HttpUp == daemon \in {"bound", "up", "leaving"}

\* What a request means for the operator, and whether another one follows:
\* doctor asks its second question whatever became of the first.
Conclude(r, result) ==
    LET more == /\ leg[r] < Len(Requests(command[r]))
                /\ result = "ok" \/ command[r] = "doctor"
    IN  /\ stage' = [stage EXCEPT ![r] = IF more THEN "resolved" ELSE "over"]
        /\ leg' = [leg EXCEPT ![r] = IF more THEN 2 ELSE @]
        /\ outcome' = [outcome EXCEPT ![r] = IF @ \in {None, "ok"} THEN result ELSE @]

\* Client::send_request up to the flush.
Connect(r) ==
    /\ stage[r] = "resolved" /\ HttpUp
    /\ stage' = [stage EXCEPT ![r] = "sent"]
    /\ backlog' = Append(backlog, <<r, leg[r]>>)
    /\ UNCHANGED <<command, leg, bearer, outcome, serving, reply, ack,
                   loopVars, processVars>>

\* Nobody listens on the port.
CannotConnect(r) ==
    /\ stage[r] = "resolved" /\ ~HttpUp
    /\ Conclude(r, "broken")
    /\ UNCHANGED <<command, bearer, serverVars, loopVars, processVars>>

\* The read timeout of 5 s is over, or the connection is reset.
GiveUp(r) ==
    /\ stage[r] = "sent" /\ reply[<<r, leg[r]>>] = None
    /\ Conclude(r, "broken")
    /\ UNCHANGED <<command, bearer, serverVars, loopVars, processVars>>

\* decode_json_response and daemon_error_message.  A state that was never
\* published is {} and does not parse: dto::StateSnapshot wants its fields.
Meaning(status) ==
    CASE status = "200" -> "ok"
      [] status = "401" -> "unauthorized"
      [] status = "409" -> "rejected"
      [] status = "503" -> "unavailable"
      [] status = "504" -> "late"
      [] status = "empty" -> "broken"
      [] OTHER -> "denied"

Receive(r) ==
    /\ stage[r] = "sent" /\ reply[<<r, leg[r]>>] # None
    /\ Conclude(r, Meaning(reply[<<r, leg[r]>>]))
    /\ reply' = [reply EXCEPT ![<<r, leg[r]>>] = None]
    /\ UNCHANGED <<command, bearer, backlog, serving, ack, loopVars, processVars>>

-----------------------------------------------------------------------------
(* The HTTP thread: one request at a time (serve) *)

\* health_response: it is never good before the first snapshot and after the
\* last one.
HealthStatuses == IF snapshot = "running" THEN {"200", "503"} ELSE {"503"}
StateStatus == IF snapshot = None THEN "empty" ELSE "200"

\* The next connection, on a path for which paths holds.
Takes(c, paths) ==
    /\ HttpUp /\ serving = None
    /\ backlog # <<>> /\ c = Head(backlog)
    /\ Path(c) \in paths
    /\ backlog' = Tail(backlog)

\* A response to somebody who has given up goes nowhere.
Respond(c, status) ==
    reply' = IF stage[c[1]] = "sent" /\ leg[c[1]] = c[2]
             THEN [reply EXCEPT ![c] = status] ELSE reply

ServeRead(c) ==
    /\ Takes(c, {"health", "state"})
    /\ \E status \in IF Path(c) = "health" THEN HealthStatuses ELSE {StateStatus} :
        Respond(c, status)
    /\ UNCHANGED <<serving, ack, clientVars, loopVars, processVars>>

\* handle_diagnose runs systemctl and journalctl, for 20 s at the most.
ServeDiagnose(c) ==
    /\ Takes(c, {"diagnose"})
    /\ serving' = c
    /\ UNCHANGED <<reply, ack, clientVars, loopVars, processVars>>

Diagnosed ==
    /\ serving # None /\ Path(serving) = "diagnose"
    /\ Respond(serving, "200")
    /\ serving' = None
    /\ UNCHANGED <<backlog, ack, clientVars, loopVars, processVars>>

\* is_authorized_bearer
Authorized(c) == token # None /\ bearer[c[1]] = token

\* handle_trigger and handle_remediate before they send anything.
Refuse(c) ==
    /\ Takes(c, Mutations)
    /\ ~Authorized(c) \/ Path(c) = "malformed"
    /\ Respond(c, IF ~Authorized(c) THEN "401" ELSE "400")
    /\ UNCHANGED <<serving, ack, clientVars, loopVars, processVars>>

\* event_tx.send fails once the loop has dropped its receiver.
ServeUnsent(c) ==
    /\ Takes(c, Mutations)
    /\ Authorized(c) /\ Path(c) # "malformed"
    /\ daemon = "leaving"
    /\ Respond(c, "503")
    /\ UNCHANGED <<serving, ack, clientVars, loopVars, processVars>>

\* The command goes to the loop, and the thread waits for the response.
Forward(c) ==
    /\ Takes(c, Mutations)
    /\ Authorized(c) /\ Path(c) # "malformed"
    /\ daemon # "leaving"
    /\ channel' = Append(channel, c[1])
    /\ ack' = [ack EXCEPT ![c[1]] = "open"]
    /\ serving' = c
    /\ UNCHANGED <<reply, clientVars, loop, lastRecord, applied, snapshot,
                   processVars>>

AckStatus(a) ==
    CASE a = "accepted" -> "200"
      [] a = "rejected" -> "409"
      [] a = "error" -> "500"
      [] a = "gone" -> "503"

Acknowledged ==
    /\ serving # None /\ Path(serving) # "diagnose"
    /\ ack[serving[1]] # "open"
    /\ Respond(serving, AckStatus(ack[serving[1]]))
    /\ ack' = [ack EXCEPT ![serving[1]] = None]
    /\ serving' = None
    /\ UNCHANGED <<backlog, clientVars, loopVars, processVars>>

\* (mutant) recv instead of recv_timeout
AckTimeoutNever == FALSE

\* (mutant) the timeout is reported like a channel that is gone
AckTimeoutAsGone ==
    /\ serving # None /\ Path(serving) # "diagnose"
    /\ ack[serving[1]] = "open"
    /\ Respond(serving, "503")
    /\ ack' = [ack EXCEPT ![serving[1]] = None]
    /\ serving' = None
    /\ UNCHANGED <<backlog, clientVars, loopVars, processVars>>

\* recv_timeout is over after 10 s.  The command stays in the channel.
AckTimeout ==
    /\ serving # None /\ Path(serving) # "diagnose"
    /\ ack[serving[1]] = "open"
    /\ Respond(serving, "504")
    /\ ack' = [ack EXCEPT ![serving[1]] = None]
    /\ serving' = None
    /\ UNCHANGED <<backlog, clientVars, loopVars, processVars>>

-----------------------------------------------------------------------------
(* The control loop *)

\* (mutant) a record that is there counts as accepted
ResponseAccepted(c, record) ==
    IF c # "trigger" /\ record = None THEN "error" ELSE "accepted"

\* http_command_response: a trigger is always accepted, a remediation as its
\* record says, which is the last one of the log.
Response(c, record) ==
    IF c = "trigger" THEN "accepted" ELSE IF record = None THEN "error" ELSE record

\* The response is sent if the HTTP thread still waits; otherwise it is logged
\* that its receiver is gone.
Answer(r, response) ==
    ack' = [ack EXCEPT ![r] = IF @ = "open" THEN response ELSE @]

\* (mutant) a command nobody waits for any more is dropped
TakeCommandIfAwaited ==
    /\ loop = "waiting" /\ channel # <<>> /\ Head(channel) # "shutdown"
    /\ channel' = Tail(channel)
    /\ LET r == Head(channel)
       IN  IF ack[r] # "open" THEN UNCHANGED <<applied, lastRecord, ack>>
           ELSE /\ applied' = [applied EXCEPT ![r] = Append(@, "accepted")]
                /\ lastRecord' = "accepted"
                /\ Answer(r, "accepted")
    /\ loop' = "busy"
    /\ UNCHANGED <<snapshot, clientVars, backlog, serving, reply, processVars>>

\* recv_timeout returns a command: reduce, answer, and then execute.
TakeCommand ==
    /\ loop = "waiting" /\ channel # <<>> /\ Head(channel) # "shutdown"
    /\ channel' = Tail(channel)
    /\ \E decision \in Verdicts :
        LET r == Head(channel)
            record == IF command[r] = "trigger" THEN lastRecord ELSE decision
        IN  /\ command[r] = "trigger" => decision = "accepted"
            /\ applied' = [applied EXCEPT ![r] = Append(@, decision)]
            /\ lastRecord' = record
            /\ Answer(r, Response(command[r], record))
    /\ loop' = "busy"
    /\ UNCHANGED <<snapshot, clientVars, backlog, serving, reply, processVars>>

\* Due tasks, or an event that is no command; also the timeout of 1 s.
OtherWork ==
    /\ loop = "waiting"
    /\ loop' = "busy"
    /\ UNCHANGED <<channel, lastRecord, applied, snapshot, clientVars, serverVars,
                   processVars>>

\* The commands are executed; the loop publishes and waits again.
Turn ==
    /\ loop = "busy"
    /\ loop' = "waiting"
    /\ snapshot' = "running"
    /\ UNCHANGED <<channel, lastRecord, applied, clientVars, serverVars, processVars>>

\* A call into the system does not come back.
Hang ==
    /\ loop = "busy"
    /\ loop' = "hung"
    /\ UNCHANGED <<channel, lastRecord, applied, snapshot, clientVars, serverVars,
                   processVars>>

\* The signal is an event like the others: the loop leaves, publishes for the
\* last time and drops its receiver, and with it every command behind the
\* signal.
TakeShutdown ==
    /\ loop = "waiting" /\ channel # <<>> /\ Head(channel) = "shutdown"
    /\ loop' = "off" /\ daemon' = "leaving"
    /\ channel' = <<>>
    /\ ack' = [r \in Invocations |->
                  IF r \in ToSet(channel) /\ ack[r] = "open" THEN "gone" ELSE ack[r]]
    /\ snapshot' = "stopping"
    /\ UNCHANGED <<lastRecord, applied, clientVars, backlog, serving, reply,
                   token, tokenFile, faults, edited>>

-----------------------------------------------------------------------------
(* The process and the world *)

\* main::run up to the token.
BeginStart ==
    /\ daemon = "down"
    /\ daemon' = "starting"
    /\ UNCHANGED <<token, tokenFile, faults, edited, clientVars, serverVars, loopVars>>

\* (mutant) a new token is generated although there is one
LoadTokenAlwaysNew ==
    /\ daemon = "starting"
    /\ \E t \in Tokens :
        token' = t /\ tokenFile' = t /\ daemon' = "authed"
    /\ UNCHANGED <<faults, edited, clientVars, serverVars, loopVars>>

\* load_or_create_token: a file of blanks ends the start, a missing one is made.
LoadToken ==
    /\ daemon = "starting"
    /\ \/ /\ tokenFile = "blank"
          /\ daemon' = "down"
          /\ channel' = <<>>
          /\ UNCHANGED <<token, tokenFile>>
       \/ /\ tokenFile = None
          /\ \E t \in Tokens : tokenFile' = t /\ token' = t
          /\ daemon' = "authed"
          /\ UNCHANGED channel
       \/ /\ tokenFile \in Tokens
          /\ token' = tokenFile
          /\ daemon' = "authed"
          /\ UNCHANGED <<tokenFile, channel>>
    /\ UNCHANGED <<faults, edited, clientVars, serverVars,
                   loop, lastRecord, applied, snapshot>>

\* spawn_http_thread; the loop then loads, compensates and probes.
BindHttp ==
    /\ daemon = "authed"
    /\ daemon' = "bound"
    /\ loop' = "starting"
    /\ UNCHANGED <<channel, lastRecord, applied, snapshot, token, tokenFile, faults, edited,
                   clientVars, serverVars>>

\* run_control_loop up to READY=1.
Ready ==
    /\ daemon = "bound"
    /\ daemon' = "up"
    /\ loop' = "waiting"
    /\ snapshot' = "running"
    /\ UNCHANGED <<channel, lastRecord, applied, token, tokenFile, faults, edited,
                   clientVars, serverVars>>

\* What the process holds is gone, and so are its connections.
Gone ==
    /\ daemon' = "down" /\ loop' = "off" /\ channel' = <<>>
    /\ backlog' = <<>> /\ serving' = None
    /\ ack' = [r \in Invocations |-> None]
    /\ token' = None /\ lastRecord' = None /\ snapshot' = None
    /\ UNCHANGED <<reply, applied, tokenFile, edited, clientVars>>

ProcessEnds == daemon = "leaving" /\ Gone /\ UNCHANGED faults

Crash ==
    /\ daemon # "down" /\ faults < MaxFaults
    /\ faults' = faults + 1
    /\ Gone

\* A loop that does not come back sends no WATCHDOG=1 (WatchdogSec=30).
WatchdogKills == loop = "hung" /\ Gone /\ UNCHANGED faults

\* SIGTERM reaches the signal thread, and the adapter the channel.
Signal ==
    /\ daemon \in {"starting", "authed", "bound", "up"} /\ faults < MaxFaults
    /\ faults' = faults + 1
    /\ channel' = Append(channel, "shutdown")
    /\ UNCHANGED <<loop, lastRecord, applied, snapshot, daemon, token, tokenFile, edited,
                   clientVars, serverVars>>

\* Somebody replaces, empties or removes the token file.
EditToken ==
    /\ faults < MaxFaults
    /\ faults' = faults + 1
    /\ tokenFile' \in Tokens \cup {None, "blank"}
    /\ edited' = TRUE
    /\ UNCHANGED <<daemon, token, clientVars, serverVars, loopVars>>

-----------------------------------------------------------------------------

Server ==
    \/ \E c \in Connections :
        ServeRead(c) \/ ServeDiagnose(c) \/ Refuse(c) \/ ServeUnsent(c) \/ Forward(c)
    \/ Diagnosed \/ Acknowledged \/ AckTimeout

Loop == TakeCommand \/ Turn \/ TakeShutdown

Start == BeginStart \/ LoadToken \/ BindHttp \/ Ready

Next ==
    \/ \E r \in Invocations :
        \/ \E c \in MayAsk[r] : Resolve(r, c)
        \/ Connect(r) \/ CannotConnect(r) \/ GiveUp(r) \/ Receive(r)
    \/ Server \/ Loop \/ Start
    \/ OtherWork \/ Hang \/ ProcessEnds \/ WatchdogKills
    \/ Crash \/ Signal \/ EditToken

Spec == Init /\ [][Next]_vars

\* The HTTP thread and a main thread that is not hung run; both wait with a
\* timeout only.  The loop takes an event that is there: other work comes
\* between two of them, but not for ever.
FairSpec ==
    /\ Spec
    /\ WF_vars(Server) /\ WF_vars(Turn) /\ WF_vars(Ready)
    /\ SF_vars(TakeCommand) /\ SF_vars(TakeShutdown)

-----------------------------------------------------------------------------
(* Properties *)

TypeOK ==
    /\ command \in [Invocations -> Commands]
    /\ stage \in [Invocations -> {"idle", "resolved", "sent", "over"}]
    /\ leg \in [Invocations -> {1, 2}]
    /\ bearer \in [Invocations -> Tokens \cup {None}]
    /\ outcome \in [Invocations -> Outcomes \cup {None}]
    /\ backlog \in Seq(Connections) /\ serving \in Connections \cup {None}
    /\ reply \in [Connections -> Statuses \cup {"empty", None}]
    /\ ack \in [Invocations -> Verdicts \cup {"open", "error", "gone", None}]
    /\ daemon \in {"down", "starting", "authed", "bound", "up", "leaving"}
    /\ loop \in {"off", "starting", "waiting", "busy", "hung"}
    /\ channel \in Seq(Invocations \cup {"shutdown"})
    /\ lastRecord \in Verdicts \cup {None}
    /\ snapshot \in {"running", "stopping", None}
    /\ edited \in BOOLEAN
    /\ token \in Tokens \cup {None} /\ tokenFile \in Tokens \cup {None, "blank"}
    /\ faults \in 0 .. MaxFaults
    /\ applied \in [Invocations -> Seq(Verdicts)]

\* What cratonctl says of a mutating command is what the reducer decided about
\* that command, and not about another one (http_command_response reads the
\* last record; client.rs maps the status).
ToldTheTruth ==
    \A r \in Invocations : command[r] \in Mutations =>
        /\ outcome[r] = "ok" => applied[r] = <<"accepted">>
        /\ outcome[r] = "rejected" => applied[r] = <<"rejected">>

\* A command that was denied, or answered with "unavailable", was not applied
\* and never will be: only 504 and a broken connection leave it open.
RefusedIsUntouched ==
    \A r \in Invocations :
        outcome[r] \in {"unauthorized", "denied", "unavailable", "no_token"} /\ command[r] \in Mutations
            => applied[r] = <<>> /\ r \notin ToSet(channel)

\* The token cratonctl finds by itself is the daemon's, through restarts and
\* the first start, unless somebody has edited the file.
TokenWorks ==
    \A r \in Invocations : outcome[r] = "unauthorized" => edited

\* The HTTP thread comes back to its listener even if the loop never answers.
ServerComesBack == serving # None ~> serving = None

\* A command in the channel is applied, unless the process leaves or hangs.
Heard ==
    \A r \in Invocations :
        r \in ToSet(channel) ~> (applied[r] # <<>> \/ loop \in {"off", "hung"})

=============================================================================
