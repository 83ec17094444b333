--------------------------- MODULE Gateway_proofs ---------------------------
(***************************************************************************)
(* For any operators, tokens, crashes, signals and edits: cratonctl tells  *)
(* of a mutating command what was decided about it, a command it reports   *)
(* as refused is never applied, and the token works.  The inductive        *)
(* invariant says that a request is in one place at a time - a connection  *)
(* waiting, the thread, the channel - and what its being there, its        *)
(* response or its outcome implies.                                        *)
(***************************************************************************)
EXTENDS Gateway, TLAPS

Typed ==
    /\ command \in [Invocations -> Commands]
    /\ stage \in [Invocations -> {"idle", "resolved", "sent", "over"}]
    /\ leg \in [Invocations -> {1, 2}]
    /\ bearer \in [Invocations -> Tokens \cup {None}]
    /\ outcome \in [Invocations -> Outcomes \cup {None}]
    /\ backlog \in Seq(Connections) /\ serving \in Connections \cup {None}
    /\ reply \in [Connections -> Statuses \cup {"empty", None}]
    /\ ack \in [Invocations -> Verdicts \cup {"open", "gone", None}]
    /\ daemon \in {"down", "starting", "authed", "bound", "up", "leaving"}
    /\ channel \in Seq(Invocations \cup {"shutdown"})
    /\ edited \in BOOLEAN
    /\ token \in Tokens \cup {None} /\ tokenFile \in Tokens \cup {None, "blank"}
    /\ applied \in [Invocations -> Seq(Verdicts)]

\* No member of S is in the sequence twice.
Once(s, S) == \A i, j \in 1 .. Len(s) : s[i] = s[j] /\ s[i] \in S => i = j

Mutating(r) == command[r] \in Mutations
Waits(c) == c \in ToSet(backlog)
Queued(r) == r \in ToSet(channel)

\* A connection is one that its client has made, is at one place, and is
\* answered only while the client listens.
Connection(c) ==
    /\ Waits(c) \/ serving = c =>
            \/ c[2] < leg[c[1]]
            \/ c[2] = leg[c[1]] /\ stage[c[1]] \in {"sent", "over"}
    /\ serving = c => ~Waits(c) /\ Path(c) \in Mutations \cup {"diagnose"}
    /\ reply[c] # None => /\ stage[c[1]] = "sent" /\ leg[c[1]] = c[2]
                          /\ ~Waits(c) /\ serving # c

\* Nothing more happens to a command that has this result.
Final(r, result) ==
    /\ result \in {"ok", "rejected", "unauthorized", "denied", "unavailable", "no_token"} =>
            ~Queued(r) /\ ~Waits(<<r, 1>>) /\ serving # <<r, 1>>
    /\ result = "ok" => applied[r] = <<"accepted">>
    /\ result = "rejected" => applied[r] = <<"rejected">>
    /\ result \in {"unauthorized", "denied", "unavailable", "no_token"} => applied[r] = <<>>

Untouched(r) == applied[r] = <<>> /\ ~Queued(r) /\ ack[r] = None

\* How far an invocation is.
Client(r) ==
    /\ leg[r] = 2 => command[r] \in {"status", "doctor"}
    /\ stage[r] = "idle" => leg[r] = 1 /\ outcome[r] = None
    /\ Mutating(r) /\ stage[r] # "over" => outcome[r] = None
    /\ Mutating(r) => /\ reply[<<r, 1>>] \in {"200", "400", "401", "409", "503", "504", None}
                      /\ Final(r, outcome[r])
                      /\ reply[<<r, 1>>] # None => Final(r, Meaning(reply[<<r, 1>>]))

\* How far its command is.
Command(r) ==
    /\ ~Mutating(r) \/ stage[r] \in {"idle", "resolved"} \/ Waits(<<r, 1>>) => Untouched(r)
    /\ Queued(r) => applied[r] = <<>>
    /\ Mutating(r) /\ serving = <<r, 1>> => ack[r] # None
    /\ ack[r] # None => serving = <<r, 1>> /\ (ack[r] # "open" => ~Queued(r))
    /\ ack[r] = "gone" => applied[r] = <<>>
    /\ ack[r] \in Verdicts => applied[r] = <<ack[r]>>

\* Who knows the token; the loop runs once the process has it.
Token ==
    /\ daemon \notin {"down", "starting"} => token # None
    /\ daemon \in {"down", "starting"} => loop = "off"
    /\ ~edited => /\ tokenFile # "blank" /\ (token # None => token = tokenFile)
                  /\ \A r \in Invocations :
                        Mutating(r) /\ stage[r] # "idle" /\ outcome[r] # "no_token" =>
                            bearer[r] = tokenFile /\ tokenFile # None
                  /\ \A c \in Connections : reply[c] # "401"
                  /\ \A r \in Invocations : outcome[r] # "unauthorized"

Request(r) == Client(r) /\ Command(r) /\ Connection(<<r, 1>>) /\ Connection(<<r, 2>>)

Alls ==
    /\ \A r \in Invocations : Request(r)
    /\ Once(backlog, Connections) /\ Once(channel, Invocations)

IInv == Typed /\ Alls /\ Token

\* A step that does not concern r.
Same(r) ==
    /\ command'[r] = command[r] /\ stage'[r] = stage[r] /\ leg'[r] = leg[r]
    /\ outcome'[r] = outcome[r] /\ applied'[r] = applied[r] /\ ack'[r] = ack[r]
    /\ Queued(r)' <=> Queued(r)
    /\ \A k \in {1, 2} :
            /\ reply'[<<r, k>>] = reply[<<r, k>>]
            /\ Waits(<<r, k>>)' <=> Waits(<<r, k>>)
            /\ serving' = <<r, k>> <=> serving = <<r, k>>

-----------------------------------------------------------------------------
(* Sequences *)

LEMMA AppendOnce ==
    ASSUME NEW S, NEW X, NEW s \in Seq(S), NEW e \in S
    PROVE  /\ Append(s, e) \in Seq(S)
           /\ \A x : x \in ToSet(Append(s, e)) <=> x \in ToSet(s) \/ x = e
           /\ Once(s, X) /\ (e \in X => e \notin ToSet(s)) => Once(Append(s, e), X)
<1>1. /\ Append(s, e) \in Seq(S)
      /\ Len(Append(s, e)) = Len(s) + 1 /\ Len(s) \in Nat
      /\ \A i \in 1 .. Len(s) : Append(s, e)[i] = s[i]
      /\ Append(s, e)[Len(s) + 1] = e
  OBVIOUS
<1>2. DOMAIN s = 1 .. Len(s) /\ DOMAIN Append(s, e) = 1 .. Len(s) + 1
  BY <1>1
<1>3. \A x : x \in ToSet(Append(s, e)) <=> x \in ToSet(s) \/ x = e
  <2>1. ASSUME NEW x, x \in ToSet(s) \/ x = e PROVE x \in ToSet(Append(s, e))
    BY <1>1, <1>2, <2>1 DEF ToSet
  <2>2. ASSUME NEW x, x \in ToSet(Append(s, e)) PROVE x \in ToSet(s) \/ x = e
    <3>1. PICK i \in 1 .. Len(s) + 1 : x = Append(s, e)[i]
      BY <1>2, <2>2 DEF ToSet
    <3>2. i \in 1 .. Len(s) \/ i = Len(s) + 1
      BY <1>1
    <3> QED
      BY <1>1, <1>2, <3>1, <3>2 DEF ToSet
  <2> QED
    BY <2>1, <2>2
<1>4. ASSUME Once(s, X), e \in X => e \notin ToSet(s) PROVE Once(Append(s, e), X)
  <2> SUFFICES ASSUME NEW i \in 1 .. Len(s) + 1, NEW j \in 1 .. Len(s) + 1,
                      Append(s, e)[i] = Append(s, e)[j], Append(s, e)[i] \in X
      PROVE  i = j
    BY <1>1 DEF Once
  <2>1. \A k \in 1 .. Len(s) : s[k] \in ToSet(s)
    BY <1>2 DEF ToSet
  <2>2. \A k \in 1 .. Len(s) + 1 : k \in 1 .. Len(s) \/ k = Len(s) + 1
    BY <1>1
  <2> QED
    BY <1>1, <1>4, <2>1, <2>2 DEF Once
<1> QED
  BY <1>1, <1>3, <1>4

LEMMA TailOnce ==
    ASSUME NEW S, NEW X, NEW s \in Seq(S), s # <<>>
    PROVE  /\ Tail(s) \in Seq(S) /\ Head(s) \in S
           /\ \A x : x \in ToSet(s) <=> x \in ToSet(Tail(s)) \/ x = Head(s)
           /\ Once(s, X) => /\ Once(Tail(s), X)
                            /\ Head(s) \in X => Head(s) \notin ToSet(Tail(s))
<1>1. /\ Tail(s) \in Seq(S) /\ Head(s) \in S
      /\ Len(s) \in Nat \ {0} /\ Len(Tail(s)) = Len(s) - 1
      /\ \A i \in 1 .. Len(s) - 1 : Tail(s)[i] = s[i + 1]
      /\ Head(s) = s[1]
  OBVIOUS
<1>2. DOMAIN s = 1 .. Len(s) /\ DOMAIN Tail(s) = 1 .. Len(s) - 1
  BY <1>1
<1>3. \A i \in 1 .. Len(s) : i = 1 \/ (i - 1 \in 1 .. Len(s) - 1 /\ Tail(s)[i - 1] = s[i])
  BY <1>1
<1>4. \A i \in 1 .. Len(s) - 1 : i + 1 \in 1 .. Len(s) /\ i + 1 # 1
  BY <1>1
<1>5. \A x : x \in ToSet(s) <=> x \in ToSet(Tail(s)) \/ x = Head(s)
  <2>1. ASSUME NEW x, x \in ToSet(s) PROVE x \in ToSet(Tail(s)) \/ x = Head(s)
    <3>1. PICK i \in 1 .. Len(s) : x = s[i]
      BY <1>2, <2>1 DEF ToSet
    <3> QED
      BY <1>1, <1>2, <1>3, <3>1 DEF ToSet
  <2>2. ASSUME NEW x, x \in ToSet(Tail(s)) \/ x = Head(s) PROVE x \in ToSet(s)
    <3>1. CASE x = Head(s)
      BY <1>1, <1>2, <3>1 DEF ToSet
    <3>2. CASE x \in ToSet(Tail(s))
      BY <1>1, <1>2, <1>4, <3>2 DEF ToSet
    <3> QED
      BY <2>2, <3>1, <3>2
  <2> QED
    BY <2>1, <2>2
<1>6. ASSUME Once(s, X) PROVE Once(Tail(s), X)
  <2> SUFFICES ASSUME NEW i \in 1 .. Len(s) - 1, NEW j \in 1 .. Len(s) - 1,
                      Tail(s)[i] = Tail(s)[j], Tail(s)[i] \in X
      PROVE  i = j
    BY <1>1 DEF Once
  <2>1. i + 1 = j + 1
    BY <1>1, <1>4, <1>6 DEF Once
  <2> QED
    BY <2>1
<1>7. ASSUME Once(s, X), Head(s) \in X PROVE Head(s) \notin ToSet(Tail(s))
  <2> SUFFICES ASSUME NEW i \in 1 .. Len(s) - 1, Tail(s)[i] = Head(s) PROVE FALSE
    BY <1>2 DEF ToSet
  <2>1. s[i + 1] = s[1] /\ i + 1 \in 1 .. Len(s) /\ 1 \in 1 .. Len(s)
    BY <1>1, <1>4
  <2> QED
    BY <1>1, <1>4, <1>7, <2>1 DEF Once
<1> QED
  BY <1>1, <1>5, <1>6, <1>7

LEMMA EmptyOnce ==
    ASSUME NEW X
    PROVE  ToSet(<<>>) = {} /\ Once(<<>>, X)
BY DEF ToSet, Once

-----------------------------------------------------------------------------
(* Requests and connections *)

LEMMA Pairs ==
    /\ \A r \in Invocations, k \in {1, 2} :
            <<r, k>> \in Connections /\ <<r, k>>[1] = r /\ <<r, k>>[2] = k
    /\ \A c \in Connections : c[1] \in Invocations /\ c[2] \in {1, 2} /\ c = <<c[1], c[2]>>
    /\ None \notin Connections
BY GatewayAssumption DEF Connections

LEMMA SameKeeps ==
    ASSUME NEW r \in Invocations, Request(r), Same(r)
    PROVE  Request(r)'
<1> USE DEF Request, Same
<1>1. /\ reply'[<<r, 1>>] = reply[<<r, 1>>] /\ reply'[<<r, 2>>] = reply[<<r, 2>>]
      /\ Waits(<<r, 1>>)' <=> Waits(<<r, 1>>)
      /\ Waits(<<r, 2>>)' <=> Waits(<<r, 2>>)
      /\ serving' = <<r, 1>> <=> serving = <<r, 1>>
      /\ serving' = <<r, 2>> <=> serving = <<r, 2>>
  OBVIOUS
<1>2. Client(r)'
  BY <1>1 DEF Client, Mutating, Final, Meaning, Waits, Queued
<1>3. Command(r)'
  BY <1>1 DEF Command, Mutating, Untouched, Waits, Queued
<1>4. \A k \in {1, 2} : Path(<<r, k>>)' = Path(<<r, k>>)
  BY Pairs DEF Path
<1>5. Connection(<<r, 1>>)'
  BY <1>1, <1>4, Pairs DEF Connection, Waits
<1>6. Connection(<<r, 2>>)'
  BY <1>1, <1>4, Pairs DEF Connection, Waits
<1> QED
  BY <1>2, <1>3, <1>5, <1>6

\* A mutating command has one request, which is the command.
LEMMA PathOf ==
    ASSUME Typed, NEW r \in Invocations, NEW k \in {1, 2}, Client(r), k <= leg[r]
    PROVE  /\ Mutating(r) <=> Path(<<r, k>>) \in Mutations
           /\ Mutating(r) => k = 1 /\ leg[r] = 1 /\ Path(<<r, k>>) = command[r]
<1>1. Path(<<r, k>>) = Requests(command[r])[k]
  BY Pairs DEF Path
<1>2. CASE command[r] \in {"status", "doctor"}
  <2>1. Requests(command[r]) = <<"health", "state">>
    BY <1>2 DEF Requests
  <2>2. Path(<<r, k>>) \in {"health", "state"}
    BY <1>1, <2>1
  <2> QED
    BY <1>2, <2>2 DEF Mutating, Mutations
<1>3. CASE command[r] \notin {"status", "doctor"}
  <2>1. Requests(command[r]) = <<command[r]>>
    BY <1>3 DEF Requests
  <2>2. leg[r] = 1 /\ k = 1
    BY <1>3 DEF Client, Typed
  <2>3. Path(<<r, k>>) = command[r]
    BY <1>1, <2>1, <2>2
  <2> QED
    BY <2>2, <2>3 DEF Mutating
<1> QED
  BY <1>2, <1>3

\* Conclude ends a mutating command with the result.
LEMMA Concluded ==
    ASSUME Typed, NEW r \in Invocations, Client(r), NEW result \in Outcomes,
           stage[r] # "over", Conclude(r, result)
    PROVE  /\ stage' \in [Invocations -> {"idle", "resolved", "sent", "over"}]
           /\ leg' \in [Invocations -> {1, 2}]
           /\ outcome' \in [Invocations -> Outcomes \cup {None}]
           /\ \A s \in Invocations \ {r} :
                  stage'[s] = stage[s] /\ leg'[s] = leg[s] /\ outcome'[s] = outcome[s]
           /\ outcome'[r] \in {outcome[r], result}
           /\ \/ stage'[r] = "over" /\ leg'[r] = leg[r]
              \/ /\ stage'[r] = "resolved" /\ leg[r] = 1 /\ leg'[r] = 2
                 /\ command[r] \in {"status", "doctor"}
           /\ Mutating(r) => outcome'[r] = result
<1> DEFINE more == /\ leg[r] < Len(Requests(command[r]))
                   /\ result = "ok" \/ command[r] = "doctor"
<1>1. more => leg[r] = 1 /\ command[r] \in {"status", "doctor"}
  BY DEF Requests, Typed
<1>2. /\ stage' = [stage EXCEPT ![r] = IF more THEN "resolved" ELSE "over"]
      /\ leg' = [leg EXCEPT ![r] = IF more THEN 2 ELSE @]
      /\ outcome' = [outcome EXCEPT ![r] = IF @ \in {None, "ok"} THEN result ELSE @]
  BY DEF Conclude
<1>3. Mutating(r) => outcome[r] = None
  BY DEF Client
<1> HIDE DEF more
<1> QED
  BY <1>1, <1>2, <1>3 DEF Typed

\* What Respond does to the replies.
LEMMA Responded ==
    ASSUME Typed, NEW r \in Invocations, NEW k \in {1, 2},
           NEW status \in Statuses \cup {"empty"}, Respond(<<r, k>>, status)
    PROVE  /\ reply' \in [Connections -> Statuses \cup {"empty", None}]
           /\ \A c \in Connections : c # <<r, k>> => reply'[c] = reply[c]
           /\ \/ reply'[<<r, k>>] = reply[<<r, k>>]
              \/ reply'[<<r, k>>] = status /\ stage[r] = "sent" /\ leg[r] = k
BY Pairs DEF Respond, Typed

LEMMA OneChanged ==
    ASSUME Alls, NEW r \in Invocations, Request(r)',
           \A s \in Invocations \ {r} : Same(s),
           Once(backlog', Connections), Once(channel', Invocations)
    PROVE  Alls'
<1>1. \A s \in Invocations : Request(s)'
  BY SameKeeps DEF Alls
<1> QED
  BY <1>1 DEF Alls

LEMMA NoneChanged ==
    ASSUME Alls, \A s \in Invocations : Same(s),
           Once(backlog', Connections), Once(channel', Invocations)
    PROVE  Alls'
<1>1. \A s \in Invocations : Request(s)'
  BY SameKeeps DEF Alls
<1> QED
  BY <1>1 DEF Alls

LEMMA NoneIsApart ==
    /\ None \notin Tokens /\ "blank" \notin Tokens /\ None # "blank"
    /\ None \notin Outcomes /\ None \notin Statuses /\ None # "empty"
    /\ None \notin Verdicts /\ None # "open" /\ None # "gone"
    /\ "shutdown" \notin Invocations
BY GatewayAssumption DEF Verdicts

LEMMA NoResult ==
    \A r : \A result \in {None, "late", "broken"} : Final(r, result) /\ Final(r, result)'
BY GatewayAssumption DEF Final, Outcomes

LEMMA InitInv == Init => IInv
<1> SUFFICES ASSUME Init PROVE IInv
  OBVIOUS
<1> USE NoneIsApart, Pairs DEF Init
<1>1. Typed
  <2>1. edited \in BOOLEAN
    OBVIOUS
  <2>2. "health" \in Commands
    BY DEF Commands, Reads
  <2>3. /\ backlog \in Seq(Connections) /\ channel \in Seq(Invocations \cup {"shutdown"})
        /\ applied \in [Invocations -> Seq(Verdicts)]
    OBVIOUS
  <2> QED
    BY <2>1, <2>2, <2>3 DEF Typed
<1>2. Alls
  <2>1. ToSet(backlog) = {} /\ Once(backlog, Connections)
    BY EmptyOnce
  <2>2. ToSet(channel) = {} /\ Once(channel, Invocations)
    BY EmptyOnce
  <2>3. ASSUME NEW r \in Invocations PROVE Request(r)
    <3> USE <2>1, <2>2 DEF Waits, Queued
    <3>1. Client(r)
      BY DEF Client, Final, Outcomes, Mutating, Mutations
    <3>2. Command(r)
      BY DEF Command, Untouched
    <3>3. Connection(<<r, 1>>) /\ Connection(<<r, 2>>)
      BY DEF Connection
    <3> QED
      BY <3>1, <3>2, <3>3 DEF Request
  <2> QED
    BY <2>1, <2>2, <2>3 DEF Alls
<1>3. Token
  BY DEF Token, Mutating, Outcomes, Statuses
<1> QED
  BY <1>1, <1>2, <1>3 DEF IInv

-----------------------------------------------------------------------------
(* The clients *)

LEMMA ResolveInv ==
    ASSUME IInv, NEW r \in Invocations, NEW c \in Commands, Resolve(r, c)
    PROVE  IInv'
<1> USE NoneIsApart DEF IInv
<1>1. /\ stage[r] = "idle" /\ leg[r] = 1 /\ outcome[r] = None
      /\ UNCHANGED <<leg, serverVars, loopVars, processVars>>
      /\ command' = [command EXCEPT ![r] = c]
      /\ Request(r) /\ Client(r) /\ Command(r)
  BY DEF Resolve, Alls, Request, Client
<1>2. /\ \/ /\ c \in Mutations /\ outcome' = [outcome EXCEPT ![r] = "no_token"]
            /\ stage' = [stage EXCEPT ![r] = "over"] /\ UNCHANGED bearer
         \/ /\ c \in Mutations => tokenFile \in Tokens
            /\ stage' = [stage EXCEPT ![r] = "resolved"] /\ UNCHANGED outcome
            /\ bearer' = [bearer EXCEPT ![r] = IF c \in Mutations THEN tokenFile ELSE None]
  BY DEF Resolve, Typed
<1>3. Typed'
  <2>1. edited' \in BOOLEAN
    BY <1>1 DEF Typed, processVars
  <2>2. bearer' \in [Invocations -> Tokens \cup {None}]
    BY <1>2 DEF Typed
  <2>3. stage' \in [Invocations -> {"idle", "resolved", "sent", "over"}]
    BY <1>2 DEF Typed
  <2>4. outcome' \in [Invocations -> Outcomes \cup {None}]
    BY <1>2 DEF Typed, Outcomes
  <2> QED
    BY <1>1, <2>1, <2>2, <2>3, <2>4 DEF Typed, serverVars, loopVars, processVars
<1>4. \A s \in Invocations \ {r} : Same(s)
  BY <1>1, <1>2 DEF Same, Typed, Queued, Waits, serverVars, loopVars
<1>5. Untouched(r) /\ \A k \in {1, 2} : ~Waits(<<r, k>>) /\ serving # <<r, k>> /\ reply[<<r, k>>] = None
  BY <1>1, Pairs DEF Request, Command, Connection
<1>6. Untouched(r)' /\ \A k \in {1, 2} : ~Waits(<<r, k>>)' /\ serving' # <<r, k>> /\ reply'[<<r, k>>] = None
  BY <1>1, <1>5 DEF Untouched, Waits, Queued, serverVars, loopVars
<1>7. Request(r)'
  <2>1. Client(r)'
    BY <1>1, <1>2, <1>6 DEF Client, Typed, Final, Mutating, Untouched, Outcomes, Mutations
  <2>2. Command(r)'
    BY <1>1, <1>6 DEF Command, Untouched
  <2>3. Connection(<<r, 1>>)' /\ Connection(<<r, 2>>)'
    BY <1>6 DEF Connection
  <2> QED
    BY <2>1, <2>2, <2>3 DEF Request
<1>8. Alls'
  BY <1>1, <1>4, <1>7, OneChanged DEF Alls, serverVars, loopVars
<1>9. Token'
  BY <1>1, <1>2 DEF Token, Typed, Mutating, serverVars, loopVars, processVars
<1> QED
  BY <1>3, <1>8, <1>9

LEMMA ConnectInv ==
    ASSUME IInv, NEW r \in Invocations, Connect(r)
    PROVE  IInv'
<1> USE NoneIsApart DEF IInv
<1> DEFINE c == <<r, leg[r]>>
<1>1. /\ stage[r] = "resolved" /\ stage' = [stage EXCEPT ![r] = "sent"]
      /\ backlog' = Append(backlog, c) /\ c \in Connections /\ leg[r] \in {1, 2}
      /\ Request(r) /\ Client(r) /\ Command(r)
      /\ UNCHANGED <<command, leg, bearer, outcome, serving, reply, ack, loopVars, processVars>>
  BY Pairs DEF Connect, Typed, Alls, Request
<1>2. ~Waits(c) /\ serving # c /\ reply[c] = None
  <2>1. Connection(c) /\ c[1] = r /\ c[2] = leg[r]
    BY <1>1, Pairs DEF Request
  <2> QED
    BY <1>1, <2>1 DEF Connection
<1>3. /\ backlog' \in Seq(Connections) /\ Once(backlog', Connections)
      /\ \A d : Waits(d)' <=> Waits(d) \/ d = c
  <2>1. backlog \in Seq(Connections) /\ c \notin ToSet(backlog) /\ Once(backlog, Connections)
    BY <1>2 DEF Typed, Alls, Waits
  <2> HIDE DEF c
  <2> QED
    BY <1>1, <2>1, AppendOnce DEF Waits
<1>4. Typed'
  <2>1. edited' \in BOOLEAN
    BY <1>1 DEF Typed, processVars
  <2> QED
    BY <1>1, <1>3, <2>1 DEF Typed, loopVars, processVars
<1>5. \A s \in Invocations \ {r} : Same(s)
  BY <1>1, <1>3, Pairs DEF Same, Typed, Queued, loopVars
<1>6. Request(r)'
  <2>1. Client(r)'
    <3>1. stage'[r] = "sent" /\ leg'[r] = leg[r] /\ outcome'[r] = outcome[r]
      BY <1>1 DEF Typed
    <3>2. Mutating(r) =>
              /\ leg[r] = 1 /\ outcome[r] = None /\ reply[<<r, 1>>] = None
      BY <1>1, <1>2 DEF Client, Typed, Mutating, Mutations
    <3> QED
      BY <1>1, <3>1, <3>2, NoResult DEF Client, Mutating
  <2>2. Command(r)'
    BY <1>1, <1>2, <1>3 DEF Command, Untouched, Typed, Mutating, Queued, loopVars
  <2>3. \A k \in {1, 2} : Connection(<<r, k>>)'
    BY <1>1, <1>2, <1>3, Pairs DEF Request, Connection, Typed, Path
  <2> QED
    BY <2>1, <2>2, <2>3 DEF Request
<1>7. Alls'
  BY <1>1, <1>3, <1>5, <1>6, OneChanged DEF Alls, loopVars
<1>8. Token'
  BY <1>1 DEF Token, Typed, Mutating, loopVars, processVars
<1> QED
  BY <1>4, <1>7, <1>8

\* The end of a request, for whatever reason.
LEMMA ConcludeInv ==
    ASSUME IInv, NEW r \in Invocations, NEW result \in Outcomes \ {"no_token"},
           stage[r] \in {"resolved", "sent"}, Conclude(r, result),
           reply' \in [Connections -> Statuses \cup {"empty", None}],
           reply'[<<r, leg[r]>>] = None,
           \A c \in Connections : c # <<r, leg[r]>> => reply'[c] = reply[c],
           UNCHANGED <<command, bearer, backlog, serving, ack, loopVars, processVars>>,
           Mutating(r) => Final(r, result),
           result = "unauthorized" => edited
    PROVE  IInv'
<1> USE NoneIsApart DEF IInv, loopVars, processVars
<1>1. /\ Request(r) /\ Client(r) /\ Command(r) /\ Typed
      /\ leg[r] \in {1, 2}
  BY DEF Alls, Request, Typed
<1>2. /\ stage' \in [Invocations -> {"idle", "resolved", "sent", "over"}]
      /\ leg' \in [Invocations -> {1, 2}]
      /\ outcome' \in [Invocations -> Outcomes \cup {None}]
      /\ \A s \in Invocations \ {r} :
            stage'[s] = stage[s] /\ leg'[s] = leg[s] /\ outcome'[s] = outcome[s]
      /\ outcome'[r] \in {outcome[r], result}
      /\ \/ stage'[r] = "over" /\ leg'[r] = leg[r]
         \/ /\ stage'[r] = "resolved" /\ leg[r] = 1 /\ leg'[r] = 2
            /\ command[r] \in {"status", "doctor"}
      /\ Mutating(r) => outcome'[r] = result
  <2>1. stage[r] # "over" /\ result \in Outcomes
    OBVIOUS
  <2> QED
    BY ONLY <1>1, <2>1, Concluded, r \in Invocations, Conclude(r, result)
<1>3. Typed'
  <2>1. edited' \in BOOLEAN
    BY DEF Typed
  <2> QED
    BY <1>2, <2>1 DEF Typed
<1>4. \A s \in Invocations \ {r} : Same(s)
  BY <1>1, <1>2, Pairs DEF Same, Queued, Waits
<1>5. Request(r)'
  <2>1. Mutating(r) => leg[r] = 1 /\ leg'[r] = 1 /\ stage'[r] = "over"
    BY <1>1, <1>2 DEF Client, Mutating, Mutations
  <2>2. Client(r)'
    <3>1. Mutating(r) => reply'[<<r, 1>>] = None /\ Final(r, outcome[r])'
      BY <1>2, <2>1 DEF Final, Queued, Waits
    <3> QED
      BY <1>1, <1>2, <2>1, <3>1 DEF Client, Mutating
  <2>3. Command(r)'
    BY <1>1, <1>2, <2>1 DEF Command, Untouched, Mutating, Queued, Waits
  <2>4. \A k \in {1, 2} : Connection(<<r, k>>)'
    <3> SUFFICES ASSUME NEW k \in {1, 2} PROVE Connection(<<r, k>>)'
      OBVIOUS
    <3>1. Connection(<<r, k>>) /\ <<r, k>>[1] = r /\ <<r, k>>[2] = k /\ <<r, k>> \in Connections
      BY <1>1, Pairs DEF Request
    <3>2. reply'[<<r, k>>] = None
      BY <1>1, <3>1, Pairs DEF Connection
    <3>3. Path(<<r, k>>)' = Path(<<r, k>>)
      BY DEF Path
    <3> QED
      BY <1>1, <1>2, <3>1, <3>2, <3>3 DEF Connection, Waits
  <2> QED
    BY <2>2, <2>3, <2>4 DEF Request
<1>6. Alls'
  BY <1>4, <1>5, OneChanged DEF Alls
<1>7. Token'
  <2>1. \A s \in Invocations : stage'[s] # "idle" => stage[s] # "idle"
    BY <1>2
  <2>2. \A c \in Connections : reply'[c] \in {reply[c], None}
    BY <1>1, Pairs
  <2>3. \A s \in Invocations : outcome'[s] \in {outcome[s], result}
    BY <1>2
  <2>4. ASSUME NEW s \in Invocations, Mutating(s), outcome'[s] # "no_token"
        PROVE  outcome[s] # "no_token"
    <3>1. CASE s = r
      BY <1>1, <2>4, <3>1 DEF Client, Outcomes
    <3>2. CASE s # r
      BY <1>2, <2>4, <3>2
    <3> QED
      BY <3>1, <3>2
  <2> QED
    BY <2>1, <2>2, <2>3, <2>4 DEF Token, Mutating, Statuses
<1> QED
  BY <1>3, <1>6, <1>7

LEMMA CannotConnectInv ==
    ASSUME IInv, NEW r \in Invocations, CannotConnect(r)
    PROVE  IInv'
<1>1. /\ stage[r] = "resolved" /\ Conclude(r, "broken") /\ reply' = reply
      /\ UNCHANGED <<command, bearer, backlog, serving, ack, loopVars, processVars>>
  BY DEF CannotConnect, serverVars
<1>2. reply[<<r, leg[r]>>] = None
  <2>1. leg[r] \in {1, 2} /\ Connection(<<r, 1>>) /\ Connection(<<r, 2>>)
    BY DEF IInv, Typed, Alls, Request
  <2> QED
    BY <1>1, <2>1, Pairs DEF Connection
<1>3. reply \in [Connections -> Statuses \cup {"empty", None}]
  BY DEF IInv, Typed
<1>4. "broken" \in Outcomes \ {"no_token"}
  BY DEF Outcomes
<1> QED
  BY <1>1, <1>2, <1>3, <1>4, NoResult, ConcludeInv

LEMMA GiveUpInv ==
    ASSUME IInv, NEW r \in Invocations, GiveUp(r)
    PROVE  IInv'
<1>1. /\ stage[r] = "sent" /\ Conclude(r, "broken") /\ reply' = reply
      /\ reply[<<r, leg[r]>>] = None
      /\ UNCHANGED <<command, bearer, backlog, serving, ack, loopVars, processVars>>
  BY DEF GiveUp, serverVars
<1>2. reply \in [Connections -> Statuses \cup {"empty", None}]
  BY DEF IInv, Typed
<1>3. "broken" \in Outcomes \ {"no_token"}
  BY DEF Outcomes
<1> QED
  BY <1>1, <1>2, <1>3, NoResult, ConcludeInv

LEMMA ReceiveInv ==
    ASSUME IInv, NEW r \in Invocations, Receive(r)
    PROVE  IInv'
<1> DEFINE c == <<r, leg[r]>>
           result == Meaning(reply[c])
<1>1. /\ stage[r] = "sent" /\ Conclude(r, result) /\ reply[c] # None
      /\ reply' = [reply EXCEPT ![c] = None]
      /\ UNCHANGED <<command, bearer, backlog, serving, ack, loopVars, processVars>>
  BY DEF Receive
<1>2. /\ leg[r] \in {1, 2} /\ c \in Connections /\ Client(r) /\ Typed
      /\ reply \in [Connections -> Statuses \cup {"empty", None}]
  BY Pairs DEF IInv, Typed, Alls, Request
<1>3. result \in Outcomes \ {"no_token"} /\ (result = "unauthorized" => reply[c] = "401")
  BY DEF Meaning, Outcomes
<1>4. Mutating(r) => Final(r, result)
  <2>1. Mutating(r) => leg[r] = 1
    BY <1>2 DEF Client, Mutating, Mutations
  <2> QED
    BY <1>1, <1>2, <2>1 DEF Client
<1>5. result = "unauthorized" => edited
  BY <1>2, <1>3 DEF IInv, Token
<1>6. /\ reply' \in [Connections -> Statuses \cup {"empty", None}]
      /\ reply'[c] = None
      /\ \A d \in Connections : d # c => reply'[d] = reply[d]
  BY <1>1, <1>2
<1> HIDE DEF result
<1> QED
  BY <1>1, <1>3, <1>4, <1>5, <1>6, ConcludeInv

-----------------------------------------------------------------------------
(* The HTTP thread *)

\* What Takes says of the connection it takes.
LEMMA Taken ==
    ASSUME IInv, NEW r \in Invocations, NEW k \in {1, 2}, NEW paths,
           Takes(<<r, k>>, paths)
    PROVE  /\ HttpUp /\ serving = None /\ Path(<<r, k>>) \in paths
           /\ backlog' \in Seq(Connections) /\ Once(backlog', Connections)
           /\ Waits(<<r, k>>) /\ ~Waits(<<r, k>>)'
           /\ \A d \in Connections : d # <<r, k>> => (Waits(d)' <=> Waits(d))
           /\ k <= leg[r] /\ reply[<<r, k>>] = None
           /\ k = leg[r] => stage[r] \in {"sent", "over"}
           /\ Mutating(r) <=> Path(<<r, k>>) \in Mutations
           /\ Mutating(r) => k = 1 /\ leg[r] = 1 /\ Path(<<r, k>>) = command[r]
<1> DEFINE c == <<r, k>>
<1>1. /\ HttpUp /\ serving = None /\ Path(c) \in paths
      /\ backlog # <<>> /\ c = Head(backlog) /\ backlog' = Tail(backlog)
  BY DEF Takes
<1>2. /\ c \in Connections /\ c[1] = r /\ c[2] = k
      /\ backlog \in Seq(Connections) /\ Once(backlog, Connections)
      /\ Typed /\ Client(r) /\ Connection(c) /\ leg[r] \in {1, 2}
  BY Pairs DEF IInv, Typed, Alls, Request
<1>3. /\ backlog' \in Seq(Connections) /\ Once(backlog', Connections)
      /\ \A d : Waits(d) <=> Waits(d)' \/ d = c
      /\ ~Waits(c)'
  <2> HIDE DEF c
  <2> QED
    BY <1>1, <1>2, TailOnce DEF Waits
<1>4. Waits(c)
  BY <1>3
<1>5. /\ k <= leg[r] /\ reply[c] = None
      /\ k = leg[r] => stage[r] \in {"sent", "over"}
  <2>1. \/ k < leg[r]
        \/ k = leg[r] /\ stage[r] \in {"sent", "over"}
    BY <1>2, <1>4 DEF Connection
  <2>2. reply[c] = None
    BY <1>2, <1>4 DEF Connection
  <2>3. k \in Nat /\ leg[r] \in Nat
    BY <1>2
  <2> QED
    BY <2>1, <2>2, <2>3
<1>6. /\ Mutating(r) <=> Path(c) \in Mutations
      /\ Mutating(r) => k = 1 /\ leg[r] = 1 /\ Path(c) = command[r]
  BY <1>2, <1>5, PathOf
<1> QED
  BY <1>1, <1>3, <1>4, <1>5, <1>6

\* A request that is answered at once.
LEMMA AnsweredInv ==
    ASSUME IInv, NEW r \in Invocations, NEW k \in {1, 2}, NEW paths,
           Takes(<<r, k>>, paths),
           NEW status \in Statuses \cup {"empty"}, Respond(<<r, k>>, status),
           UNCHANGED <<serving, ack, clientVars, loopVars, processVars>>,
           Mutating(r) => status \in {"400", "401", "503"},
           status = "401" => edited
    PROVE  IInv'
<1> USE NoneIsApart DEF IInv, clientVars, loopVars, processVars
<1> DEFINE c == <<r, k>>
<1>1. /\ c \in Connections /\ c[1] = r /\ c[2] = k
      /\ Request(r) /\ Client(r) /\ Command(r) /\ Typed
  BY Pairs DEF Alls, Request
<1>2. /\ serving = None
      /\ backlog' \in Seq(Connections) /\ Once(backlog', Connections)
      /\ Waits(c) /\ ~Waits(c)'
      /\ \A d \in Connections : d # c => (Waits(d)' <=> Waits(d))
      /\ k <= leg[r] /\ reply[c] = None
      /\ k = leg[r] => stage[r] \in {"sent", "over"}
      /\ Mutating(r) => k = 1 /\ leg[r] = 1
  BY Taken
<1>3. /\ reply' \in [Connections -> Statuses \cup {"empty", None}]
      /\ \A d \in Connections : d # c => reply'[d] = reply[d]
      /\ \/ reply'[c] = reply[c]
         \/ reply'[c] = status /\ stage[r] = "sent" /\ leg[r] = k
  BY ONLY <1>1, Responded, r \in Invocations, k \in {1, 2},
          status \in Statuses \cup {"empty"}, Respond(<<r, k>>, status)
<1> HIDE DEF c
<1>4. Typed'
  <2>1. edited' \in BOOLEAN
    BY DEF Typed
  <2> QED
    BY <1>2, <1>3, <2>1 DEF Typed
<1>5. \A s \in Invocations \ {r} : Same(s)
  <2>1. \A s \in Invocations \ {r}, j \in {1, 2} : <<s, j>> \in Connections /\ <<s, j>> # c
    BY <1>1, Pairs
  <2> QED
    BY <1>2, <1>3, <2>1 DEF Same, Queued
<1>6. Request(r)'
  <2>1. Mutating(r) => c = <<r, 1>> /\ Untouched(r)
    BY <1>1, <1>2 DEF Command, c
  <2>2. Client(r)'
    <3>1. Mutating(r) => Final(r, outcome[r])'
      BY <1>1, <1>2, <2>1 DEF Client, Final, Queued
    <3>2. Mutating(r) /\ reply'[c] # None => Final(r, Meaning(reply[c]))'
      <4>1. SUFFICES ASSUME Mutating(r), reply'[c] # None
            PROVE  Final(r, Meaning(reply[c]))'
        OBVIOUS
      <4>2. reply'[c] \in {"400", "401", "503"}
        BY <1>2, <1>3, <4>1
      <4>3. Meaning(reply'[c]) \in {"denied", "unauthorized", "unavailable"}
        BY <4>2 DEF Meaning
      <4>4. ~Queued(r)' /\ ~Waits(<<r, 1>>)' /\ serving' # <<r, 1>> /\ applied'[r] = <<>>
        BY <1>1, <1>2, <2>1, <4>1, Pairs DEF Untouched, Queued
      <4> QED
        BY <4>3, <4>4 DEF Final
    <3>3. Mutating(r) => reply'[<<r, 1>>] \in {"200", "400", "401", "409", "503", "504", None}
      BY <1>2, <1>3, <2>1
    <3> QED
      BY <1>1, <2>1, <3>1, <3>2, <3>3 DEF Client, Mutating
  <2>3. Command(r)'
    BY <1>1, <1>2, <2>1 DEF Command, Untouched, Mutating, Queued
  <2>4. \A j \in {1, 2} : Connection(<<r, j>>)'
    <3> SUFFICES ASSUME NEW j \in {1, 2} PROVE Connection(<<r, j>>)'
      OBVIOUS
    <3>1. Connection(<<r, j>>) /\ <<r, j>>[1] = r /\ <<r, j>>[2] = j /\ <<r, j>> \in Connections
      BY <1>1, Pairs DEF Request
    <3>2. CASE <<r, j>> = c
      <4>1. serving' # c /\ ~Waits(c)' /\ j = k
        BY <1>1, <1>2, <3>1, <3>2, Pairs
      <4> QED
        BY <1>2, <1>3, <3>1, <3>2, <4>1 DEF Connection
    <3>3. CASE <<r, j>> # c
      <4>1. serving' # <<r, j>> /\ reply'[<<r, j>>] = reply[<<r, j>>]
        BY <1>2, <1>3, <3>1, <3>3, Pairs
      <4> QED
        BY <1>2, <3>1, <3>3, <4>1 DEF Connection
    <3> QED
      BY <3>2, <3>3
  <2> QED
    BY <2>2, <2>3, <2>4 DEF Request
<1>7. Alls'
  BY <1>2, <1>5, <1>6, OneChanged DEF Alls
<1>8. Token'
  <2>1. \A d \in Connections : reply'[d] = "401" => reply[d] = "401" \/ edited
    BY <1>1, <1>3
  <2> QED
    BY <2>1 DEF Token, Mutating
<1> QED
  BY <1>4, <1>7, <1>8

LEMMA ServeReadInv ==
    ASSUME IInv, NEW r \in Invocations, NEW k \in {1, 2}, ServeRead(<<r, k>>)
    PROVE  IInv'
<1> DEFINE c == <<r, k>>
<1>1. /\ Takes(c, {"health", "state"})
      /\ UNCHANGED <<serving, ack, clientVars, loopVars, processVars>>
  BY DEF ServeRead
<1>2. PICK status \in IF Path(c) = "health" THEN HealthStatuses ELSE {StateStatus} :
        Respond(c, status)
  BY DEF ServeRead
<1>3. status \in {"200", "503", "empty"}
  BY <1>2 DEF HealthStatuses, StateStatus
<1>4. status \in Statuses \cup {"empty"} /\ status # "401"
  BY <1>3 DEF Statuses
<1>5. ~Mutating(r)
  <2>1. Path(c) \in {"health", "state"} /\ (Mutating(r) <=> Path(c) \in Mutations)
    BY <1>1, Taken
  <2> QED
    BY <2>1 DEF Mutations
<1> QED
  BY <1>1, <1>2, <1>4, <1>5, AnsweredInv

LEMMA RefuseInv ==
    ASSUME IInv, NEW r \in Invocations, NEW k \in {1, 2}, Refuse(<<r, k>>)
    PROVE  IInv'
<1> DEFINE c == <<r, k>>
           status == IF ~Authorized(c) THEN "401" ELSE "400"
<1>1. /\ Takes(c, Mutations) /\ Respond(c, status)
      /\ UNCHANGED <<serving, ack, clientVars, loopVars, processVars>>
  BY DEF Refuse
<1>2. status \in {"400", "401"} /\ status \in Statuses
  BY DEF Statuses
<1>3. status = "401" => edited
  <2> SUFFICES ASSUME ~edited PROVE Authorized(c)
    OBVIOUS
  <2>1. /\ HttpUp /\ Waits(c) /\ c = <<r, 1>> /\ Mutating(r)
        /\ stage[r] \in {"sent", "over"}
    BY <1>1, Taken
  <2>2. token # None /\ token = tokenFile
    BY <2>1 DEF IInv, Token, HttpUp
  <2>3. outcome[r] # "no_token"
    BY <2>1 DEF IInv, Alls, Request, Client, Final
  <2>4. bearer[r] = tokenFile
    BY <2>1, <2>3 DEF IInv, Token
  <2> QED
    BY <2>2, <2>4, Pairs DEF Authorized
<1> HIDE DEF status
<1> QED
  BY <1>1, <1>2, <1>3, AnsweredInv

LEMMA ServeUnsentInv ==
    ASSUME IInv, NEW r \in Invocations, NEW k \in {1, 2}, ServeUnsent(<<r, k>>)
    PROVE  IInv'
<1>1. /\ Takes(<<r, k>>, Mutations) /\ Respond(<<r, k>>, "503")
      /\ UNCHANGED <<serving, ack, clientVars, loopVars, processVars>>
  BY DEF ServeUnsent
<1>2. "503" \in Statuses
  BY DEF Statuses
<1> QED
  BY <1>1, <1>2, AnsweredInv

\* A connection that goes from the listener to the thread.
LEMMA HeldInv ==
    ASSUME IInv, NEW r \in Invocations, NEW k \in {1, 2}, NEW paths,
           Takes(<<r, k>>, paths), paths \subseteq Mutations \cup {"diagnose"},
           serving' = <<r, k>>, UNCHANGED <<reply, clientVars>>
    PROVE  /\ backlog' \in Seq(Connections) /\ Once(backlog', Connections)
           /\ serving' \in Connections
           /\ Connection(<<r, 1>>)' /\ Connection(<<r, 2>>)'
           /\ \A s \in Invocations \ {r}, j \in {1, 2} :
                  /\ Waits(<<s, j>>)' <=> Waits(<<s, j>>)
                  /\ serving' = <<s, j>> <=> serving = <<s, j>>
<1> DEFINE c == <<r, k>>
<1>1. /\ c \in Connections /\ c[1] = r /\ c[2] = k /\ Request(r)
  BY Pairs DEF IInv, Alls
<1>2. /\ serving = None /\ Path(c) \in paths
      /\ backlog' \in Seq(Connections) /\ Once(backlog', Connections)
      /\ Waits(c) /\ ~Waits(c)'
      /\ \A d \in Connections : d # c => (Waits(d)' <=> Waits(d))
      /\ reply[c] = None
  BY Taken
<1>3. \A j \in {1, 2} : Connection(<<r, j>>)'
  <2> SUFFICES ASSUME NEW j \in {1, 2} PROVE Connection(<<r, j>>)'
    OBVIOUS
  <2>1. Connection(<<r, j>>) /\ <<r, j>>[1] = r /\ <<r, j>>[2] = j /\ <<r, j>> \in Connections
    BY <1>1, Pairs DEF Request
  <2>2. Path(<<r, j>>)' = Path(<<r, j>>)
    BY DEF Path, clientVars
  <2>3. CASE j = k
    BY <1>1, <1>2, <2>1, <2>2, <2>3 DEF Connection, clientVars
  <2>4. CASE j # k
    <3>1. serving' # <<r, j>> /\ (Waits(<<r, j>>)' <=> Waits(<<r, j>>))
      BY <1>1, <1>2, <2>1, <2>4
    <3>2. serving # <<r, j>>
      BY <1>2, <2>1, Pairs
    <3> QED
      BY <2>1, <3>1, <3>2 DEF Connection, clientVars
  <2> QED
    BY <2>3, <2>4
<1>4. \A s \in Invocations \ {r}, j \in {1, 2} : <<s, j>> # c /\ <<s, j>> # None /\ <<s, j>> \in Connections
  BY Pairs
<1> HIDE DEF c
<1> QED
  BY <1>1, <1>2, <1>3, <1>4 DEF c

LEMMA ServeDiagnoseInv ==
    ASSUME IInv, NEW r \in Invocations, NEW k \in {1, 2}, ServeDiagnose(<<r, k>>)
    PROVE  IInv'
<1> USE DEF clientVars, loopVars, processVars
<1>1. /\ Takes(<<r, k>>, {"diagnose"}) /\ serving' = <<r, k>>
      /\ UNCHANGED <<reply, ack, clientVars, loopVars, processVars>>
  BY DEF ServeDiagnose
<1>2. /\ backlog' \in Seq(Connections) /\ Once(backlog', Connections)
      /\ serving' \in Connections
      /\ Connection(<<r, 1>>)' /\ Connection(<<r, 2>>)'
      /\ \A s \in Invocations \ {r}, j \in {1, 2} :
            /\ Waits(<<s, j>>)' <=> Waits(<<s, j>>)
            /\ serving' = <<s, j>> <=> serving = <<s, j>>
  BY ONLY <1>1, HeldInv, IInv, r \in Invocations, k \in {1, 2} DEF clientVars
<1> USE DEF IInv
<1>3. ~Mutating(r)
  <2>1. Path(<<r, k>>) \in {"diagnose"} /\ (Mutating(r) <=> Path(<<r, k>>) \in Mutations)
    BY <1>1, Taken
  <2> QED
    BY <2>1 DEF Mutations
<1>4. Typed'
  <2>1. edited' \in BOOLEAN
    BY <1>1 DEF Typed
  <2> QED
    BY <1>1, <1>2, <2>1 DEF Typed
<1>5. \A s \in Invocations \ {r} : Same(s)
  BY <1>1, <1>2 DEF Same, Queued, Typed
<1>6. Request(r)'
  <2>1. Client(r) /\ Command(r)
    BY DEF Alls, Request
  <2>2. Client(r)' /\ Command(r)'
    BY <1>1, <1>3, <2>1 DEF Client, Command, Mutating, Untouched, Queued
  <2> QED
    BY <1>2, <2>2 DEF Request
<1>7. Alls'
  BY <1>1, <1>2, <1>5, <1>6, OneChanged DEF Alls
<1>8. Token'
  BY <1>1 DEF Token, Mutating
<1> QED
  BY <1>4, <1>7, <1>8

LEMMA ForwardInv ==
    ASSUME IInv, NEW r \in Invocations, NEW k \in {1, 2}, Forward(<<r, k>>)
    PROVE  IInv'
<1> USE NoneIsApart DEF IInv, clientVars, processVars
<1>1. /\ Takes(<<r, k>>, Mutations) /\ serving' = <<r, k>>
      /\ channel' = Append(channel, r) /\ ack' = [ack EXCEPT ![r] = "open"]
      /\ UNCHANGED <<reply, clientVars, applied, processVars>>
  BY Pairs DEF Forward
<1>2. /\ backlog' \in Seq(Connections) /\ Once(backlog', Connections)
      /\ serving' \in Connections
      /\ Connection(<<r, 1>>)' /\ Connection(<<r, 2>>)'
      /\ \A s \in Invocations \ {r}, j \in {1, 2} :
            /\ Waits(<<s, j>>)' <=> Waits(<<s, j>>)
            /\ serving' = <<s, j>> <=> serving = <<s, j>>
  BY <1>1, HeldInv
<1>3. /\ Mutating(r) /\ k = 1 /\ leg[r] = 1 /\ Waits(<<r, 1>>) /\ ~Waits(<<r, 1>>)'
      /\ reply[<<r, 1>>] = None /\ stage[r] \in {"sent", "over"}
  BY <1>1, Taken
<1>4. Client(r) /\ Command(r) /\ Untouched(r)
  BY <1>3 DEF Alls, Request, Command
<1>5. /\ channel' \in Seq(Invocations \cup {"shutdown"}) /\ Once(channel', Invocations)
      /\ \A x : x \in ToSet(channel') <=> x \in ToSet(channel) \/ x = r
  <2>1. r \in Invocations \cup {"shutdown"} /\ r \notin ToSet(channel)
    BY <1>4 DEF Untouched, Queued
  <2> QED
    BY <1>1, <2>1, AppendOnce DEF Typed, Alls
<1>6. Typed'
  <2>1. edited' \in BOOLEAN
    BY <1>1 DEF Typed
  <2> QED
    BY <1>1, <1>2, <1>5, <2>1 DEF Typed
<1>7. \A s \in Invocations \ {r} : Same(s)
  BY <1>1, <1>2, <1>5 DEF Same, Queued, Typed
<1>8. Request(r)'
  <2>1. ack'[r] = "open"
    BY <1>1 DEF Typed
  <2>2. Client(r)'
    <3>1. outcome[r] \notin {"ok", "rejected", "unauthorized", "denied", "unavailable", "no_token"}
      BY <1>3, <1>4 DEF Client, Final
    <3>2. Final(r, outcome[r])'
      BY <1>1, <3>1 DEF Final
    <3> QED
      BY <1>1, <1>3, <1>4, <3>2 DEF Client, Mutating
  <2>3. Command(r)'
    BY <1>1, <1>3, <1>4, <2>1 DEF Command, Untouched, Mutating, Verdicts
  <2> QED
    BY <1>2, <2>2, <2>3 DEF Request
<1>9. Alls'
  BY <1>2, <1>5, <1>7, <1>8, OneChanged DEF Alls
<1>10. Token'
  BY <1>1 DEF Token, Mutating, Forward
<1> QED
  BY <1>6, <1>9, <1>10

\* The end of a request that the thread held.
LEMMA ServedInv ==
    ASSUME IInv, NEW r \in Invocations, NEW k \in {1, 2}, serving = <<r, k>>,
           NEW status \in Statuses \ {"401"}, Respond(<<r, k>>, status),
           serving' = None,
           ack' \in [Invocations -> Verdicts \cup {"open", "gone", None}],
           ack'[r] = None, \A s \in Invocations \ {r} : ack'[s] = ack[s],
           UNCHANGED <<backlog, clientVars, loopVars, processVars>>,
           Mutating(r) => /\ status \in {"200", "409", "503", "504"}
                          /\ status # "504" => ~Queued(r)
                          /\ status = "200" => applied[r] = <<"accepted">>
                          /\ status = "409" => applied[r] = <<"rejected">>
                          /\ status = "503" => applied[r] = <<>>
    PROVE  IInv'
<1> USE NoneIsApart DEF IInv, clientVars, loopVars, processVars
<1> DEFINE c == <<r, k>>
<1>1. /\ c \in Connections /\ c[1] = r /\ c[2] = k
      /\ Request(r) /\ Client(r) /\ Command(r) /\ Connection(c) /\ Typed
      /\ leg[r] \in {1, 2}
  BY Pairs DEF Alls, Request, Typed
<1>2. /\ ~Waits(c) /\ reply[c] = None
      /\ k < leg[r] \/ (k = leg[r] /\ stage[r] \in {"sent", "over"})
  BY <1>1 DEF Connection
<1>3. Mutating(r) => k = 1 /\ leg[r] = 1
  <2>1. k <= leg[r]
    BY <1>1, <1>2
  <2> QED
    BY <1>1, <2>1, PathOf
<1>4. /\ reply' \in [Connections -> Statuses \cup {"empty", None}]
      /\ \A d \in Connections : d # c => reply'[d] = reply[d]
      /\ \/ reply'[c] = reply[c]
         \/ reply'[c] = status /\ stage[r] = "sent" /\ leg[r] = k
  <2>1. status \in Statuses \cup {"empty"}
    OBVIOUS
  <2> QED
    BY ONLY <1>1, <2>1, Responded, r \in Invocations, k \in {1, 2}, Respond(<<r, k>>, status)
<1>5. \A s \in Invocations, j \in {1, 2} :
          /\ <<s, j>> \in Connections /\ serving' # <<s, j>>
          /\ serving = <<s, j>> <=> (s = r /\ j = k)
          /\ <<s, j>> = c <=> (s = r /\ j = k)
  <2> SUFFICES ASSUME NEW s \in Invocations, NEW j \in {1, 2}
               PROVE  /\ <<s, j>> \in Connections /\ serving' # <<s, j>>
                      /\ <<s, j>> = c <=> (s = r /\ j = k)
    OBVIOUS
  <2>1. <<s, j>> \in Connections /\ <<s, j>>[1] = s /\ <<s, j>>[2] = j
    BY Pairs
  <2>2. serving' # <<s, j>>
    BY <2>1, Pairs
  <2> QED
    BY <1>1, <2>1, <2>2
<1> HIDE DEF c
<1>6. Typed'
  <2>1. edited' \in BOOLEAN
    BY DEF Typed
  <2> QED
    BY <1>4, <2>1 DEF Typed
<1>7. \A s \in Invocations \ {r} : Same(s)
  BY <1>4, <1>5 DEF Same, Queued, Waits
<1>8. Request(r)'
  <2>1. Mutating(r) => c = <<r, 1>> /\ serving' # <<r, 1>> /\ ~Waits(<<r, 1>>)'
    BY <1>2, <1>3, <1>5 DEF c, Waits
  <2>2. Client(r)'
    <3>1. Mutating(r) => Final(r, outcome[r])'
      BY <1>1, <2>1 DEF Client, Final, Queued, Waits
    <3>2. Mutating(r) /\ reply'[c] # None => Final(r, Meaning(reply[c]))'
      <4>1. SUFFICES ASSUME Mutating(r), reply'[c] # None
            PROVE  Final(r, Meaning(reply[c]))'
        OBVIOUS
      <4>2. reply'[c] = status
        BY <1>2, <1>4, <4>1
      <4>3. CASE status = "504"
        <5>1. Meaning(reply'[c]) = "late"
          BY <4>2, <4>3 DEF Meaning
        <5> QED
          BY <5>1 DEF Final
      <4>4. CASE status # "504"
        <5>1. /\ status = "200" => Meaning(reply'[c]) = "ok"
              /\ status = "409" => Meaning(reply'[c]) = "rejected"
              /\ status = "503" => Meaning(reply'[c]) = "unavailable"
          BY <4>2 DEF Meaning
        <5>2. ~Queued(r)'
          BY <4>1, <4>4 DEF Queued
        <5> QED
          BY <2>1, <4>1, <4>4, <5>1, <5>2 DEF Final
      <4> QED
        BY <4>3, <4>4
    <3>3. Mutating(r) => reply'[<<r, 1>>] \in {"200", "400", "401", "409", "503", "504", None}
      BY <1>2, <1>4, <2>1
    <3>4. reply'[<<r, 1>>] # None /\ Mutating(r) => Final(r, Meaning(reply[<<r, 1>>]))'
      BY <2>1, <3>2
    <3> QED
      BY <1>1, <3>1, <3>3, <3>4 DEF Client, Mutating
  <2>3. Command(r)'
    BY <1>1, <1>2, <2>1 DEF Command, Untouched, Mutating, Queued, Waits
  <2>4. \A j \in {1, 2} : Connection(<<r, j>>)'
    <3> SUFFICES ASSUME NEW j \in {1, 2} PROVE Connection(<<r, j>>)'
      OBVIOUS
    <3>1. /\ Connection(<<r, j>>) /\ <<r, j>>[1] = r /\ <<r, j>>[2] = j
          /\ <<r, j>> \in Connections /\ serving' # <<r, j>>
      BY <1>1, <1>5, Pairs DEF Request
    <3>2. CASE j = k
      <4>1. <<r, j>> = c
        BY <1>5, <3>2
      <4> QED
        BY <1>2, <1>4, <3>1, <3>2, <4>1 DEF Connection, Waits
    <3>3. CASE j # k
      <4>1. serving # <<r, j>> /\ reply'[<<r, j>>] = reply[<<r, j>>]
        BY <1>4, <1>5, <3>1, <3>3
      <4> QED
        BY <3>1, <4>1 DEF Connection, Waits
    <3> QED
      BY <3>2, <3>3
  <2> QED
    BY <2>2, <2>3, <2>4 DEF Request
<1>9. Alls'
  BY <1>7, <1>8, OneChanged DEF Alls
<1>10. Token'
  <2>1. \A d \in Connections : reply'[d] = "401" => reply[d] = "401"
    BY <1>4
  <2> QED
    BY <2>1 DEF Token, Mutating
<1> QED
  BY <1>6, <1>9, <1>10

\* Who the thread works for, if anybody.
LEMMA Serving ==
    ASSUME IInv, serving # None
    PROVE  /\ serving[1] \in Invocations /\ serving[2] \in {1, 2}
           /\ serving = <<serving[1], serving[2]>>
           /\ Path(serving) \in Mutations \cup {"diagnose"}
           /\ Mutating(serving[1]) <=> Path(serving) # "diagnose"
           /\ Mutating(serving[1]) => ack[serving[1]] # None
           /\ Command(serving[1])
<1> DEFINE r == serving[1]
           k == serving[2]
<1>1. /\ r \in Invocations /\ k \in {1, 2} /\ serving = <<r, k>>
  BY Pairs DEF IInv, Typed
<1>2. /\ Client(r) /\ Command(r) /\ Connection(<<r, k>>) /\ leg[r] \in {1, 2}
      /\ Typed
  BY <1>1 DEF IInv, Typed, Alls, Request
<1>3. k <= leg[r] /\ Path(serving) \in Mutations \cup {"diagnose"}
  <2>1. <<r, k>>[1] = r /\ <<r, k>>[2] = k
    OBVIOUS
  <2>2. k < leg[r] \/ k = leg[r]
    BY <1>1, <1>2, <2>1 DEF Connection
  <2>3. k \in Nat /\ leg[r] \in Nat
    BY <1>1, <1>2
  <2> QED
    BY <1>1, <1>2, <2>2, <2>3 DEF Connection
<1> HIDE DEF r, k
<1>4. /\ Mutating(r) <=> Path(serving) \in Mutations
      /\ Mutating(r) => k = 1
  BY <1>1, <1>2, <1>3, PathOf
<1>5. "diagnose" \notin Mutations
  BY DEF Mutations
<1>6. Mutating(r) => ack[r] # None
  BY <1>1, <1>2, <1>4 DEF Command
<1> QED
  BY <1>1, <1>2, <1>3, <1>4, <1>5, <1>6 DEF r, k

LEMMA DiagnosedInv == IInv /\ Diagnosed => IInv'
<1> SUFFICES ASSUME IInv, Diagnosed PROVE IInv'
  OBVIOUS
<1> DEFINE r == serving[1]
           k == serving[2]
<1>1. /\ serving # None /\ Path(serving) = "diagnose" /\ Respond(serving, "200")
      /\ serving' = None /\ ack' = ack
      /\ UNCHANGED <<backlog, clientVars, loopVars, processVars>>
  BY DEF Diagnosed
<1>2. /\ r \in Invocations /\ k \in {1, 2} /\ serving = <<r, k>>
      /\ ~Mutating(r) /\ Command(r)
  BY <1>1, Serving
<1> HIDE DEF r, k
<1>3. ack[r] = None
  BY <1>2 DEF Command, Untouched
<1>4. "200" \in Statuses \ {"401"}
  BY DEF Statuses
<1>5. ack \in [Invocations -> Verdicts \cup {"open", "gone", None}]
  BY DEF IInv, Typed
<1> QED
  BY <1>1, <1>2, <1>3, <1>4, <1>5, ServedInv

LEMMA AcknowledgedInv == IInv /\ Acknowledged => IInv'
<1> SUFFICES ASSUME IInv, Acknowledged PROVE IInv'
  OBVIOUS
<1> DEFINE r == serving[1]
           k == serving[2]
           status == AckStatus(ack[r])
<1>1. /\ serving # None /\ Path(serving) # "diagnose" /\ Respond(serving, status)
      /\ ack[r] # "open"
      /\ serving' = None /\ ack' = [ack EXCEPT ![r] = None]
      /\ UNCHANGED <<backlog, clientVars, loopVars, processVars>>
  BY DEF Acknowledged
<1>2. /\ r \in Invocations /\ k \in {1, 2} /\ serving = <<r, k>>
      /\ Mutating(r) /\ Command(r) /\ ack[r] # None
  BY <1>1, Serving
<1> HIDE DEF r, k
<1>3. ack \in [Invocations -> Verdicts \cup {"open", "gone", None}]
  BY DEF IInv, Typed
<1>4. ack[r] \in {"accepted", "rejected", "gone"}
  BY <1>1, <1>2, <1>3 DEF Verdicts
<1>5. /\ status \in Statuses \ {"401"} /\ status \in {"200", "409", "503", "504"}
      /\ status = "200" => ack[r] = "accepted"
      /\ status = "409" => ack[r] = "rejected"
      /\ status = "503" => ack[r] = "gone"
  BY <1>4 DEF AckStatus, Statuses
<1>6. /\ ~Queued(r)
      /\ status = "200" => applied[r] = <<"accepted">>
      /\ status = "409" => applied[r] = <<"rejected">>
      /\ status = "503" => applied[r] = <<>>
  BY <1>1, <1>2, <1>4, <1>5 DEF Command, Verdicts
<1>7. /\ ack' \in [Invocations -> Verdicts \cup {"open", "gone", None}]
      /\ ack'[r] = None /\ \A s \in Invocations \ {r} : ack'[s] = ack[s]
  BY <1>1, <1>2, <1>3
<1> HIDE DEF status
<1> QED
  BY <1>1, <1>2, <1>5, <1>6, <1>7, ServedInv

LEMMA AckTimeoutInv == IInv /\ AckTimeout => IInv'
<1> SUFFICES ASSUME IInv, AckTimeout PROVE IInv'
  OBVIOUS
<1> DEFINE r == serving[1]
           k == serving[2]
<1>1. /\ serving # None /\ Respond(serving, "504")
      /\ serving' = None /\ ack' = [ack EXCEPT ![r] = None]
      /\ UNCHANGED <<backlog, clientVars, loopVars, processVars>>
  BY DEF AckTimeout
<1>2. r \in Invocations /\ k \in {1, 2} /\ serving = <<r, k>>
  BY <1>1, Serving
<1> HIDE DEF r, k
<1>3. ack \in [Invocations -> Verdicts \cup {"open", "gone", None}]
  BY DEF IInv, Typed
<1>4. /\ ack' \in [Invocations -> Verdicts \cup {"open", "gone", None}]
      /\ ack'[r] = None /\ \A s \in Invocations \ {r} : ack'[s] = ack[s]
  BY <1>1, <1>2, <1>3
<1>5. "504" \in Statuses \ {"401"}
  BY DEF Statuses
<1> QED
  BY <1>1, <1>2, <1>4, <1>5, ServedInv

-----------------------------------------------------------------------------
(* The control loop *)

LEMMA TakeCommandInv == IInv /\ TakeCommand => IInv'
<1> SUFFICES ASSUME IInv, TakeCommand PROVE IInv'
  OBVIOUS
<1> USE NoneIsApart DEF IInv, clientVars, processVars
<1>1. /\ channel # <<>> /\ Head(channel) # "shutdown" /\ channel' = Tail(channel)
      /\ UNCHANGED <<clientVars, backlog, serving, reply, processVars>>
  BY DEF TakeCommand
<1>2. PICK r \in Invocations :
        /\ r = Head(channel)
        /\ channel' \in Seq(Invocations \cup {"shutdown"}) /\ Once(channel', Invocations)
        /\ \A x : x \in ToSet(channel) <=> x \in ToSet(channel') \/ x = r
        /\ r \notin ToSet(channel')
  <2>1. /\ channel' \in Seq(Invocations \cup {"shutdown"})
        /\ Head(channel) \in Invocations \cup {"shutdown"}
        /\ \A x : x \in ToSet(channel) <=> x \in ToSet(channel') \/ x = Head(channel)
        /\ Once(channel', Invocations)
        /\ Head(channel) \in Invocations => Head(channel) \notin ToSet(channel')
    BY <1>1, TailOnce DEF Typed, Alls
  <2> QED
    BY <1>1, <2>1
<1>3. PICK decision \in Verdicts :
        /\ command[r] = "trigger" => decision = "accepted"
        /\ applied' = [applied EXCEPT ![r] = Append(@, decision)]
        /\ Answer(r, Response(command[r],
                              IF command[r] = "trigger" THEN lastRecord ELSE decision))
  BY <1>2 DEF TakeCommand
<1>4. ack' = [ack EXCEPT ![r] = IF @ = "open" THEN decision ELSE @]
  BY <1>3 DEF Answer, Response
<1>5. /\ r \in Invocations /\ Queued(r) /\ ~Queued(r)'
      /\ \A s \in Invocations : s # r => (Queued(s)' <=> Queued(s))
  BY <1>1, <1>2 DEF Queued
<1>6. /\ Request(r) /\ Client(r) /\ Command(r) /\ Mutating(r) /\ ~Untouched(r)
      /\ applied[r] = <<>> /\ ack[r] \in {None, "open"}
  BY <1>5 DEF Alls, Request, Command, Untouched
<1>7. Typed'
  <2>1. edited' \in BOOLEAN
    BY <1>1 DEF Typed
  <2>2. applied' \in [Invocations -> Seq(Verdicts)]
    BY <1>3 DEF Typed
  <2>3. ack' \in [Invocations -> Verdicts \cup {"open", "gone", None}]
    BY <1>4 DEF Typed
  <2> QED
    BY <1>1, <1>2, <2>1, <2>2, <2>3 DEF Typed
<1>8. \A s \in Invocations \ {r} : Same(s)
  BY <1>1, <1>3, <1>4, <1>5 DEF Same, Typed, Waits
<1>9. Request(r)'
  <2>1. /\ applied'[r] = << decision >>
        /\ ack'[r] = IF ack[r] = "open" THEN decision ELSE None
    <3>1. applied'[r] = Append(applied[r], decision)
      BY <1>3, <1>5 DEF Typed
    <3> QED
      BY <1>4, <1>5, <1>6, <3>1 DEF Typed
  <2>2. Client(r)'
    <3>1. outcome[r] \notin {"ok", "rejected", "unauthorized", "denied", "unavailable", "no_token"}
      BY <1>5, <1>6 DEF Client, Final
    <3>2. reply[<<r, 1>>] # None =>
            Meaning(reply[<<r, 1>>])
                \notin {"ok", "rejected", "unauthorized", "denied", "unavailable", "no_token"}
      BY <1>5, <1>6 DEF Client, Final
    <3>3. Final(r, outcome[r])' /\ (reply[<<r, 1>>] # None => Final(r, Meaning(reply[<<r, 1>>]))')
      BY <1>1, <3>1, <3>2 DEF Final, Meaning
    <3> QED
      BY <1>1, <1>6, <3>3 DEF Client, Mutating
  <2>3. Command(r)'
    BY <1>1, <1>5, <1>6, <2>1 DEF Command, Mutating, Untouched, Waits, Verdicts
  <2>4. Connection(<<r, 1>>)' /\ Connection(<<r, 2>>)'
    BY <1>1, <1>6 DEF Request, Connection, Waits, Path
  <2> QED
    BY <2>2, <2>3, <2>4 DEF Request
<1>10. Alls'
  BY <1>1, <1>2, <1>5, <1>8, <1>9, OneChanged DEF Alls
<1>11. Token'
  BY <1>1 DEF Token, Mutating, TakeCommand
<1> QED
  BY <1>7, <1>10, <1>11

\* A step that concerns no command.
LEMMA KeptInv ==
    ASSUME IInv, UNCHANGED <<clientVars, serverVars, channel, applied>>,
           daemon' \in {"down", "starting", "authed", "bound", "up", "leaving"},
           token' \in Tokens \cup {None}, tokenFile' \in Tokens \cup {None, "blank"},
           edited' \in BOOLEAN, Token'
    PROVE  IInv'
<1> USE DEF IInv, clientVars, serverVars
<1>1. Typed'
  BY DEF Typed
<1>2. \A s \in Invocations : Same(s)
  BY DEF Same, Queued, Waits
<1>3. Alls'
  BY <1>2, NoneChanged DEF Alls
<1> QED
  BY <1>1, <1>3

\* The commands in the channel are lost; whoever waits for one may be told.
LEMMA DrainedInv ==
    ASSUME IInv, UNCHANGED <<clientVars, backlog, serving, reply, applied, token,
                             tokenFile, edited>>,
           channel' = <<>>,
           ack' \in [Invocations -> Verdicts \cup {"open", "gone", None}],
           \A s \in Invocations :
               \/ ack'[s] = ack[s]
               \/ Queued(s) /\ ack[s] = "open" /\ ack'[s] = "gone",
           daemon' \in {"down", "starting", "leaving"},
           daemon' = "leaving" => token # None,
           daemon' \in {"down", "starting"} => loop' = "off"
    PROVE  IInv'
<1> USE NoneIsApart DEF IInv, clientVars
<1>1. Typed'
  <2>1. edited' \in BOOLEAN
    BY DEF Typed
  <2>2. channel' \in Seq(Invocations \cup {"shutdown"})
    OBVIOUS
  <2> QED
    BY <2>1, <2>2 DEF Typed
<1>2. \A s : ~Queued(s)'
  BY EmptyOnce DEF Queued
<1>3. ASSUME NEW s \in Invocations PROVE Request(s)'
  <2>1. Client(s) /\ Command(s) /\ Connection(<<s, 1>>) /\ Connection(<<s, 2>>)
    BY DEF Alls, Request
  <2>2. Client(s)'
    BY <1>2, <2>1 DEF Client, Mutating, Final, Meaning, Waits
  <2>3. Command(s)'
    BY <1>2, <2>1 DEF Command, Mutating, Untouched, Waits, Verdicts
  <2>4. Connection(<<s, 1>>)' /\ Connection(<<s, 2>>)'
    BY <2>1 DEF Connection, Waits, Path
  <2> QED
    BY <2>2, <2>3, <2>4 DEF Request
<1>4. Alls'
  BY <1>3, EmptyOnce DEF Alls
<1>5. Token'
  BY DEF Token, Mutating
<1> QED
  BY <1>1, <1>4, <1>5

LEMMA TakeShutdownInv == IInv /\ TakeShutdown => IInv'
<1> SUFFICES ASSUME IInv, TakeShutdown PROVE IInv'
  OBVIOUS
<1>1. /\ channel' = <<>> /\ daemon' = "leaving"
      /\ ack' = [r \in Invocations |->
                    IF r \in ToSet(channel) /\ ack[r] = "open" THEN "gone" ELSE ack[r]]
      /\ UNCHANGED <<clientVars, backlog, serving, reply, applied, token, tokenFile, edited>>
  BY DEF TakeShutdown
<1>2. ack' \in [Invocations -> Verdicts \cup {"open", "gone", None}]
  BY <1>1 DEF IInv, Typed
<1>3. \A s \in Invocations :
        \/ ack'[s] = ack[s]
        \/ Queued(s) /\ ack[s] = "open" /\ ack'[s] = "gone"
  BY <1>1 DEF Queued
<1>4. token # None
  BY DEF TakeShutdown, IInv, Typed, Token
<1> QED
  BY <1>1, <1>2, <1>3, <1>4, DrainedInv

-----------------------------------------------------------------------------
(* Steps that concern no command *)

LEMMA LoopRunsInv == IInv /\ (OtherWork \/ Turn \/ Hang) => IInv'
<1> SUFFICES ASSUME IInv, OtherWork \/ Turn \/ Hang PROVE IInv'
  OBVIOUS
<1>1. /\ UNCHANGED <<clientVars, serverVars, channel, applied, processVars>>
      /\ loop # "off"
  BY DEF OtherWork, Turn, Hang
<1>2. Token'
  BY <1>1 DEF IInv, Token, Mutating, clientVars, serverVars, processVars
<1>3. /\ daemon' \in {"down", "starting", "authed", "bound", "up", "leaving"}
      /\ token' \in Tokens \cup {None} /\ tokenFile' \in Tokens \cup {None, "blank"}
  BY <1>1 DEF IInv, Typed, processVars
<1>4. edited' \in BOOLEAN
  BY <1>1 DEF IInv, Typed, processVars
<1> QED
  BY <1>1, <1>2, <1>3, <1>4, KeptInv

LEMMA StartInv == IInv /\ (BeginStart \/ BindHttp \/ Ready) => IInv'
<1> SUFFICES ASSUME IInv, BeginStart \/ BindHttp \/ Ready PROVE IInv'
  OBVIOUS
<1>1. /\ UNCHANGED <<clientVars, serverVars, channel, applied, token, tokenFile, edited>>
      /\ \/ daemon = "down" /\ daemon' = "starting" /\ loop' = loop
         \/ daemon = "authed" /\ daemon' = "bound"
         \/ daemon = "bound" /\ daemon' = "up"
  BY DEF BeginStart, BindHttp, Ready, loopVars
<1>2. Token'
  BY <1>1 DEF IInv, Token, Mutating, clientVars, serverVars
<1>3. /\ daemon' \in {"down", "starting", "authed", "bound", "up", "leaving"}
      /\ token' \in Tokens \cup {None} /\ tokenFile' \in Tokens \cup {None, "blank"}
  BY <1>1 DEF IInv, Typed
<1>4. edited' \in BOOLEAN
  BY <1>1 DEF IInv, Typed
<1> QED
  BY <1>1, <1>2, <1>3, <1>4, KeptInv

LEMMA LoadTokenInv == IInv /\ LoadToken => IInv'
<1> SUFFICES ASSUME IInv, LoadToken PROVE IInv'
  OBVIOUS
<1> USE NoneIsApart
<1>1. /\ daemon = "starting"
      /\ UNCHANGED <<clientVars, serverVars, loop, applied, edited>>
  BY DEF LoadToken
<1>2. CASE /\ tokenFile = "blank" /\ daemon' = "down" /\ channel' = <<>>
           /\ UNCHANGED <<token, tokenFile>>
  <2>1. ack' = ack /\ ack \in [Invocations -> Verdicts \cup {"open", "gone", None}]
    BY <1>1 DEF IInv, Typed, serverVars
  <2>2. loop' = "off"
    BY <1>1 DEF IInv, Token
  <2> QED
    BY <1>1, <1>2, <2>1, <2>2, DrainedInv DEF serverVars
<1>3. CASE /\ UNCHANGED channel /\ daemon' = "authed"
           /\ tokenFile' \in Tokens /\ token' = tokenFile'
           /\ tokenFile = None \/ tokenFile' = tokenFile
  <2>1. Token'
    BY <1>1, <1>3 DEF IInv, Token, Mutating, clientVars, serverVars
  <2>2. edited' \in BOOLEAN
    BY <1>1 DEF IInv, Typed
  <2> QED
    BY <1>1, <1>3, <2>1, <2>2, KeptInv
<1>4. \/ /\ tokenFile = "blank" /\ daemon' = "down" /\ channel' = <<>>
         /\ UNCHANGED <<token, tokenFile>>
      \/ /\ UNCHANGED channel /\ daemon' = "authed"
         /\ tokenFile' \in Tokens /\ token' = tokenFile'
         /\ tokenFile = None \/ tokenFile' = tokenFile
  BY DEF LoadToken
<1> QED
  BY <1>2, <1>3, <1>4

LEMMA GoneInv == IInv /\ Gone => IInv'
<1> SUFFICES ASSUME IInv, Gone PROVE IInv'
  OBVIOUS
<1> USE NoneIsApart, Pairs DEF IInv, clientVars
<1>1. /\ daemon' = "down" /\ loop' = "off" /\ channel' = <<>>
      /\ backlog' = <<>> /\ serving' = None /\ token' = None
      /\ ack' = [r \in Invocations |-> None]
      /\ UNCHANGED <<reply, applied, tokenFile, edited, clientVars>>
  BY DEF Gone
<1>2. Typed'
  <2>1. edited' \in BOOLEAN
    BY <1>1 DEF Typed
  <2>2. /\ channel' \in Seq(Invocations \cup {"shutdown"})
        /\ backlog' \in Seq(Connections)
    BY <1>1
  <2> QED
    BY <1>1, <2>1, <2>2 DEF Typed
<1>3. /\ \A s : ~Queued(s)'
      /\ \A c : ~Waits(c)'
  BY <1>1, EmptyOnce DEF Queued, Waits
<1>4. ASSUME NEW s \in Invocations PROVE Request(s)'
  <2>1. Client(s) /\ Command(s) /\ Connection(<<s, 1>>) /\ Connection(<<s, 2>>)
    BY DEF Alls, Request
  <2>2. Client(s)'
    BY <1>1, <1>3, <2>1 DEF Client, Mutating, Final, Meaning
  <2>3. Command(s)'
    BY <1>1, <1>3, <2>1 DEF Command, Mutating, Untouched
  <2>4. Connection(<<s, 1>>)' /\ Connection(<<s, 2>>)'
    BY <1>1, <1>3, <2>1 DEF Connection
  <2> QED
    BY <2>2, <2>3, <2>4 DEF Request
<1>5. Alls'
  BY <1>1, <1>4, EmptyOnce DEF Alls
<1>6. Token'
  BY <1>1 DEF Token, Mutating
<1> QED
  BY <1>2, <1>5, <1>6

LEMMA SignalInv == IInv /\ Signal => IInv'
<1> SUFFICES ASSUME IInv, Signal PROVE IInv'
  OBVIOUS
<1> USE NoneIsApart DEF IInv, clientVars, serverVars
<1>1. /\ channel' = Append(channel, "shutdown")
      /\ UNCHANGED <<loop, applied, daemon, token, tokenFile, edited, clientVars, serverVars>>
  BY DEF Signal
<1>2. /\ channel' \in Seq(Invocations \cup {"shutdown"}) /\ Once(channel', Invocations)
      /\ \A x : x \in ToSet(channel') <=> x \in ToSet(channel) \/ x = "shutdown"
  <2>1. /\ "shutdown" \in Invocations \cup {"shutdown"} /\ Once(channel, Invocations)
        /\ channel \in Seq(Invocations \cup {"shutdown"})
    BY DEF Typed, Alls
  <2> QED
    BY <1>1, <2>1, AppendOnce
<1>3. Typed'
  <2>1. edited' \in BOOLEAN
    BY <1>1 DEF Typed
  <2> QED
    BY <1>1, <1>2, <2>1 DEF Typed
<1>4. \A s \in Invocations : Same(s)
  BY <1>1, <1>2 DEF Same, Queued, Waits
<1>5. Alls'
  BY <1>1, <1>2, <1>4, NoneChanged DEF Alls
<1>6. Token'
  BY <1>1 DEF Token, Mutating
<1> QED
  BY <1>3, <1>5, <1>6

LEMMA EditTokenInv == IInv /\ EditToken => IInv'
<1> SUFFICES ASSUME IInv, EditToken PROVE IInv'
  OBVIOUS
<1>1. /\ tokenFile' \in Tokens \cup {None, "blank"} /\ edited' = TRUE
      /\ UNCHANGED <<clientVars, serverVars, loop, channel, applied, daemon, token>>
  BY DEF EditToken, loopVars
<1>2. Token'
  BY <1>1 DEF IInv, Token
<1>3. /\ daemon' \in {"down", "starting", "authed", "bound", "up", "leaving"}
      /\ token' \in Tokens \cup {None}
  BY <1>1 DEF IInv, Typed
<1> QED
  BY <1>1, <1>2, <1>3, KeptInv

LEMMA StutterInv == IInv /\ UNCHANGED vars => IInv'
<1> SUFFICES ASSUME IInv, UNCHANGED vars PROVE IInv'
  OBVIOUS
<1>1. UNCHANGED <<clientVars, serverVars, loop, channel, applied, daemon, token, tokenFile, edited>>
  BY DEF vars, loopVars, processVars
<1>2. Token'
  BY <1>1 DEF IInv, Token, Mutating, clientVars, serverVars
<1>3. /\ daemon' \in {"down", "starting", "authed", "bound", "up", "leaving"}
      /\ token' \in Tokens \cup {None} /\ tokenFile' \in Tokens \cup {None, "blank"}
  BY <1>1 DEF IInv, Typed
<1>4. edited' \in BOOLEAN
  BY <1>1 DEF IInv, Typed
<1> QED
  BY <1>1, <1>2, <1>3, <1>4, KeptInv

-----------------------------------------------------------------------------

LEMMA ClientStepInv ==
    ASSUME IInv, NEW r \in Invocations,
           (\E c \in MayAsk[r] : Resolve(r, c))
               \/ Connect(r) \/ CannotConnect(r) \/ GiveUp(r) \/ Receive(r)
    PROVE  IInv'
<1>1. MayAsk[r] \subseteq Commands
  BY GatewayAssumption
<1> QED
  BY <1>1, ResolveInv, ConnectInv, CannotConnectInv, GiveUpInv, ReceiveInv

LEMMA ServerInv == IInv /\ Server => IInv'
<1> SUFFICES ASSUME IInv, Server PROVE IInv'
  OBVIOUS
<1>1. ASSUME NEW c \in Connections,
             ServeRead(c) \/ ServeDiagnose(c) \/ Refuse(c) \/ ServeUnsent(c) \/ Forward(c)
      PROVE  IInv'
  <2>1. PICK r \in Invocations, k \in {1, 2} : c = <<r, k>>
    BY Pairs
  <2> QED
    BY <1>1, <2>1, ServeReadInv, ServeDiagnoseInv, RefuseInv, ServeUnsentInv, ForwardInv
<1> QED
  BY <1>1, DiagnosedInv, AcknowledgedInv, AckTimeoutInv DEF Server

LEMMA StepInv == IInv /\ [Next]_vars => IInv'
<1> SUFFICES ASSUME IInv, [Next]_vars PROVE IInv'
  OBVIOUS
<1>1. CASE Gone
  BY <1>1, GoneInv
<1>2. ProcessEnds \/ WatchdogKills \/ Crash => Gone
  BY DEF ProcessEnds, WatchdogKills, Crash
<1> QED
  BY <1>1, <1>2, ClientStepInv, ServerInv, TakeCommandInv, LoopRunsInv, TakeShutdownInv,
     StartInv, LoadTokenInv, SignalInv, EditTokenInv, StutterInv
     DEF Next, Loop, Start

THEOREM Invariance == Spec => []IInv
<1> QED
  BY InitInv, StepInv, PTL DEF Spec

\* What cratonctl says of a mutating command is what the reducer decided of
\* that command, although the loop answers with the last record of the log
\* and although requests overtake one another's timeouts.
THEOREM TellsTheTruth == Spec => []ToldTheTruth
<1>1. IInv => ToldTheTruth
  BY DEF IInv, Alls, Request, Client, Final, Mutating, ToldTheTruth
<1> QED
  BY <1>1, Invariance, PTL

\* A command that cratonctl reports as refused or unavailable was not applied
\* and waits nowhere: it may be repeated without being done twice.
THEOREM RefusalIsFinal == Spec => []RefusedIsUntouched
<1>1. IInv => RefusedIsUntouched
  BY DEF IInv, Alls, Request, Client, Final, Mutating, Queued, RefusedIsUntouched
<1> QED
  BY <1>1, Invariance, PTL

\* As long as nobody edits the file, no request is turned down for its token,
\* whenever the daemon makes one, starts, dies or is killed.
THEOREM TokenIsGood == Spec => []TokenWorks
<1>1. IInv => TokenWorks
  BY DEF IInv, Token, TokenWorks
<1> QED
  BY <1>1, Invariance, PTL
=============================================================================
