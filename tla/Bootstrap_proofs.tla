-------------------------- MODULE Bootstrap_proofs --------------------------
(***************************************************************************)
(* For any number of inits, failures, kills and power losses: what the     *)
(* operator has reviewed stays, and a running daemon and its file agree on *)
(* the token.  The inductive invariant says that an init which has not     *)
(* reached a file yet has either seen it or found nothing there that could *)
(* appear in between; and that, while directories are synced, the token is *)
(* on the disk for good before there is a unit.                            *)
(***************************************************************************)
EXTENDS Bootstrap, TLAPS

Contents == {None, "commented", "enabled", "edited", "unit"} \cup Tokens

\* Files are whole at any time, also after a power loss.
Typed ==
    /\ name \in [Files -> Contents] /\ disk \in [Files -> SUBSET Contents]
    /\ step \in [Writers -> {"none", "written", "synced", "renamed"}]
    /\ tmp \in [Writers -> Contents]
    /\ setup \in {"none", "state dir", "runtime dir", "config dir", "reload"} \cup Files
    /\ saw \subseteq Files
    /\ made \subseteq Tokens

\* Who writes has something to write, and init only what it did not see.
Writing ==
    /\ step["init"] # "none" => setup \in Files /\ setup \notin saw /\ tmp["init"] # None
    /\ step["init"] = "renamed" => name[setup] # None
    /\ step["daemon"] # "none" => daemon = "writing" /\ tmp["daemon"] # None

\* Where init is when the file is still to come.
Upto(file) ==
    {"state dir", "runtime dir", "config dir", "config"}
        \cup (IF file = "token" THEN {"token"} ELSE {})

\* A file that init has not seen is not there before it writes it.
Unseen(file) ==
    setup \in Upto(file) /\ file \notin saw /\ name[file] # None
        => setup = file /\ step["init"] = "renamed"

Reviewed ==
    /\ saw \subseteq {f \in Files : name[f] # None}
    /\ Unseen("config")
    /\ edited => name["config"] = "edited" /\ disk["config"] = {"edited"}

\* What needs the token, or comes after it.
TokenNeeded == name["unit"] # None \/ daemon # "off" \/ setup \in {"unit", "reload"}

Settled ==
    ~unsynced =>
        /\ step["daemon"] = "none" /\ daemon # "writing"
        /\ \A f \in Files : disk[f] = {name[f]} \/ (setup = f /\ step["init"] = "renamed")
        /\ TokenNeeded => name["token"] # None /\ ~(setup = "token" /\ step["init"] # "none")
        /\ Unseen("token")
        /\ daemon = "up" => name["token"] = token

IInv == Typed /\ Writing /\ Reviewed /\ Settled

-----------------------------------------------------------------------------

LEMMA Distinct ==
    /\ None \notin Tokens /\ None \notin {"commented", "enabled", "edited", "unit"}
    /\ None \in Contents
BY BootstrapAssumption DEF Contents

LEMMA InitInv == Init => IInv
<1> SUFFICES ASSUME Init PROVE IInv
  OBVIOUS
<1> USE Distinct DEF Init
<1>1. Typed
  BY DEF Typed
<1>2. Writing /\ Reviewed /\ Settled
  BY DEF Writing, Reviewed, Unseen, Upto, Settled, TokenNeeded, Files, Writers
<1> QED
  BY <1>1, <1>2 DEF IInv

\* init goes from one thing to the next.
LEMMA MoveInv ==
    ASSUME IInv, SetupBegins \/ EnsureDirectory \/ Skip \/ SetupEnds
    PROVE  IInv'
<1> USE DEF IInv
<1>1. /\ UNCHANGED <<name, disk, step, tmp, daemon, token, made, edited, unsynced>>
      /\ step["init"] = "none"
      /\ \/ setup = "none" /\ setup' = "state dir" /\ saw' = {f \in Files : name[f] # None}
         \/ /\ setup \in {"state dir", "runtime dir", "config dir"} /\ saw' = saw
            /\ setup' = After(setup)
         \/ setup \in Files /\ setup \in saw /\ saw' = saw /\ setup' = After(setup)
         \/ setup = "reload" /\ setup' = "none" /\ saw' = {}
  BY DEF SetupBegins, EnsureDirectory, Skip, SetupEnds, Writing, writeVars, fileVars,
         cratondVars, seenVars, Exists, Files
<1>2. Typed'
  BY <1>1 DEF Typed, After, Files
<1>3. Writing'
  BY <1>1 DEF Writing
<1>4. Reviewed'
  BY <1>1 DEF Reviewed, Unseen, Upto, After, Typed, Files
<1>5. Settled'
  BY <1>1 DEF Settled, TokenNeeded, Reviewed, Unseen, Upto, After, Typed, Files
<1> QED
  BY <1>2, <1>3, <1>4, <1>5

LEMMA Rendered ==
    ASSUME NEW file \in Files, NEW data \in Render(file)
    PROVE  data \in Contents /\ data # None /\ (file = "token" => data \in Tokens)
BY Distinct DEF Render, NewTokens, Contents, Files

LEMMA SetupWritesInv ==
    ASSUME IInv, SetupWrites
    PROVE  IInv'
<1> USE DEF IInv
<1>1. PICK data \in Render(setup) : 
        /\ Create("init", data)
        /\ made' = IF setup = "token" THEN made \cup {data} ELSE made
  BY DEF SetupWrites
<1>2. /\ UNCHANGED <<name, disk, setup, saw, daemon, token, edited, unsynced>>
      /\ setup \in Files /\ setup \notin saw /\ step["init"] = "none"
      /\ data \in Contents /\ data # None /\ (setup = "token" => data \in Tokens)
  BY Rendered DEF SetupWrites, fileVars, initVars, cratondVars, seenVars
<1>3. /\ step' \in [Writers -> {"none", "written", "synced", "renamed"}]
      /\ tmp' \in [Writers -> Contents]
      /\ step'["init"] = "written" /\ tmp'["init"] = data
      /\ step'["daemon"] = step["daemon"] /\ tmp'["daemon"] = tmp["daemon"]
  BY <1>1, <1>2 DEF Create, Typed, Writers
<1>4. Typed'
  BY <1>1, <1>2, <1>3 DEF Typed
<1>5. Writing' /\ Reviewed'
  BY <1>2, <1>3 DEF Writing, Reviewed, Unseen, Upto, Typed
<1>6. Settled'
  BY <1>2, <1>3 DEF Settled, TokenNeeded, Unseen, Upto, Typed
<1> QED
  BY <1>4, <1>5, <1>6

LEMMA SyncInv ==
    ASSUME IInv, NEW w \in Writers, Sync(w)
    PROVE  IInv'
<1> USE DEF IInv
<1>1. /\ UNCHANGED <<name, disk, tmp, setup, saw, daemon, token, made, edited, unsynced>>
      /\ step[w] = "written" /\ step' = [step EXCEPT ![w] = "synced"]
  BY DEF Sync, Forward, fileVars, initVars, cratondVars, seenVars
<1>2. Typed'
  BY <1>1 DEF Typed
<1>3. \A v \in Writers :
        /\ step'[v] # "none" <=> step[v] # "none"
        /\ step'[v] = "renamed" <=> step[v] = "renamed"
  BY <1>1 DEF Typed
<1>4. Writing' /\ Reviewed' /\ Settled'
  BY <1>1, <1>3 DEF Writing, Reviewed, Settled, TokenNeeded, Unseen, Upto, Writers
<1> QED
  BY <1>2, <1>4

\* The file that init renames was not there, and the one of cratond is not
\* synced.
LEMMA RenameInv ==
    ASSUME IInv, NEW w \in Writers, Rename(w)
    PROVE  IInv'
<1> USE DEF IInv
<1>1. /\ UNCHANGED <<tmp, setup, saw, daemon, token, made, edited, unsynced>>
      /\ step[w] = "synced" /\ step' = [step EXCEPT ![w] = "renamed"]
      /\ name' = [name EXCEPT ![Target(w)] = tmp[w]]
      /\ disk' = [disk EXCEPT ![Target(w)] = @ \cup {tmp[w]}]
  BY DEF Rename, Forward, initVars, cratondVars, seenVars
<1>2. Target(w) \in Files /\ tmp[w] # None /\ tmp[w] \in Contents
  BY <1>1 DEF Target, Writing, Writers, Files, Typed
<1>3. Typed'
  <2>1. name' \in [Files -> Contents]
    BY <1>1, <1>2 DEF Typed
  <2>2. disk' \in [Files -> SUBSET Contents]
    BY <1>1, <1>2 DEF Typed
  <2> QED
    BY <1>1, <2>1, <2>2 DEF Typed
<1>4. Writing'
  BY <1>1, <1>2 DEF Writing, Typed, Writers, Target
<1>5. /\ \A f \in Files \ {Target(w)} : name'[f] = name[f] /\ disk'[f] = disk[f]
      /\ name'[Target(w)] # None
  BY <1>1, <1>2 DEF Typed
<1>6. CASE w = "init"
  <2>1. /\ setup \in Files /\ setup \notin saw /\ Target(w) = setup
        /\ step'["init"] = "renamed" /\ step'["daemon"] = step["daemon"]
    BY <1>1, <1>6 DEF Writing, Target, Typed, Writers
  <2>2. edited => setup # "config"
    BY <1>1, <1>6, <2>1, Distinct DEF Reviewed, Unseen, Upto
  <2>3. Reviewed'
    BY <1>1, <1>5, <2>1, <2>2 DEF Reviewed, Unseen, Upto, Files
  <2>4. Settled'
    BY <1>1, <1>5, <1>6, <2>1 DEF Settled, TokenNeeded, Unseen, Upto, Files
  <2> QED
    BY <1>3, <1>4, <2>3, <2>4
<1>7. CASE w = "daemon"
  <2>1. /\ Target(w) = "token" /\ unsynced
        /\ step'["init"] = step["init"]
    BY <1>1, <1>7 DEF Target, Settled, Typed, Writers
  <2>2. Reviewed'
    BY <1>1, <1>5, <2>1 DEF Reviewed, Unseen, Upto, Files
  <2> QED
    BY <1>1, <1>3, <1>4, <2>1, <2>2 DEF Settled
<1> QED
  BY <1>6, <1>7 DEF Writers

LEMMA SetupWroteInv ==
    ASSUME IInv, SetupWrote
    PROVE  IInv'
<1> USE DEF IInv
<1>1. /\ UNCHANGED <<name, tmp, saw, daemon, token, made, edited, unsynced>>
      /\ step["init"] = "renamed" /\ step' = [step EXCEPT !["init"] = "none"]
      /\ disk' = [disk EXCEPT ![setup] = {name[setup]}]
      /\ setup \in Files /\ setup \notin saw /\ setup' = After(setup)
  BY DEF SetupWrote, DirectorySynced, Forward, Target, cratondVars, seenVars, Writing
<1>2. /\ step'["init"] = "none" /\ step'["daemon"] = step["daemon"]
      /\ disk'[setup] = {name[setup]}
      /\ \A f \in Files \ {setup} : disk'[f] = disk[f]
  BY <1>1 DEF Typed, Writers
<1>3. Typed'
  <2>1. disk' \in [Files -> SUBSET Contents]
    BY <1>1 DEF Typed
  <2> QED
    BY <1>1, <2>1 DEF Typed, After, Files
<1>4. Writing' /\ Reviewed'
  BY <1>1, <1>2 DEF Writing, Reviewed, Unseen, Upto, After, Files
<1>5. name[setup] # None
  BY <1>1 DEF Writing
<1>6. Settled'
  BY <1>1, <1>2, <1>5 DEF Settled, TokenNeeded, Unseen, Upto, After, Files
<1> QED
  BY <1>3, <1>4, <1>6

\* init ends without success: what it renamed may be lost.
LEMMA SetupStopsInv ==
    ASSUME IInv, SetupFails \/ SetupKilled
    PROVE  IInv'
<1> USE DEF IInv
<1>1. /\ UNCHANGED <<name, disk, tmp, daemon, token, made, edited>>
      /\ step' = [step EXCEPT !["init"] = "none"]
      /\ setup' = "none" /\ saw' = {}
      /\ unsynced' = (unsynced \/ step["init"] = "renamed")
  BY DEF SetupFails, SetupKilled, Forward, fileVars, cratondVars
<1>2. step'["init"] = "none" /\ step'["daemon"] = step["daemon"]
  BY <1>1 DEF Typed, Writers
<1>3. Typed'
  BY <1>1 DEF Typed
<1>4. Writing' /\ Reviewed'
  BY <1>1, <1>2 DEF Writing, Reviewed, Unseen, Upto
<1>5. ~unsynced' => ~unsynced /\ step["init"] # "renamed"
  BY <1>1
<1>6. Settled'
  BY <1>1, <1>2, <1>5 DEF Settled, TokenNeeded, Unseen, Upto
<1> QED
  BY <1>3, <1>4, <1>6

LEMMA OperatorInv ==
    ASSUME IInv, Review \/ Enable
    PROVE  IInv'
<1> USE DEF IInv
<1>1. CASE Enable
  <2>1. UNCHANGED <<name, disk, step, tmp, setup, saw, daemon, token, made, edited, unsynced>>
    BY <1>1 DEF Enable, fileVars, writeVars, initVars, cratondVars, seenVars
  <2> QED
    BY <2>1 DEF Typed, Writing, Reviewed, Settled, TokenNeeded, Unseen
<1>2. CASE Review
  <2>1. /\ UNCHANGED <<step, tmp, setup, saw, daemon, token, made, unsynced>>
        /\ name["config"] # None
        /\ name' = [name EXCEPT !["config"] = "edited"]
        /\ disk' = [disk EXCEPT !["config"] = {"edited"}]
    BY <1>2 DEF Review, Exists, writeVars, initVars, cratondVars
  <2>2. "edited" \in Contents /\ "edited" # None
    BY Distinct DEF Contents
  <2>3. /\ \A f \in {"token", "unit"} : name'[f] = name[f] /\ disk'[f] = disk[f]
        /\ name'["config"] = "edited" /\ disk'["config"] = {"edited"}
    BY <2>1 DEF Typed, Files
  <2>4. Typed'
    <3>1. name' \in [Files -> Contents] /\ disk' \in [Files -> SUBSET Contents]
      BY <2>1, <2>2 DEF Typed
    <3> QED
      BY <2>1, <3>1 DEF Typed
  <2>a. \A f \in Files : name[f] # None => name'[f] # None
    BY <2>2, <2>3 DEF Files
  <2>b. Writing'
    BY <2>1, <2>a DEF Writing
  <2>5. Writing' /\ Reviewed'
    BY <2>1, <2>2, <2>3, <2>a, <2>b DEF Reviewed, Unseen, Upto
  <2>6. Settled'
    BY <2>1, <2>2, <2>3 DEF Settled, TokenNeeded, Unseen, Upto, Files
  <2> QED
    BY <2>4, <2>5, <2>6
<1> QED
  BY <1>1, <1>2

\* cratond comes up with the token that is in the file, since the file is
\* there before the unit that starts it.
LEMMA DaemonInv ==
    ASSUME IInv, DaemonStarts \/ LoadConfig \/ EnsureRuntimeDirs \/ LoadToken
    PROVE  IInv'
<1> USE DEF IInv
<1>1. /\ UNCHANGED <<name, disk, step, tmp, setup, saw, made, edited, unsynced>>
      /\ daemon # "writing" /\ daemon' # "writing"
      /\ daemon' # "off" => daemon # "off" \/ name["unit"] # None
      /\ daemon' = "up" => token' = name["token"]
  BY Distinct DEF DaemonStarts, LoadConfig, EnsureRuntimeDirs, LoadToken, fileVars, writeVars,
                  initVars, seenVars
<1>2. Typed' /\ Writing' /\ Reviewed'
  BY <1>1 DEF Typed, Writing, Reviewed, Unseen
<1>3. Settled'
  BY <1>1 DEF Settled, TokenNeeded, Unseen
<1> QED
  BY <1>2, <1>3

LEMMA TokenInv ==
    ASSUME IInv, CreateToken \/ TokenCreated
    PROVE  IInv'
<1> USE DEF IInv
<1>1. unsynced /\ unsynced' = unsynced
  <2>1. CASE CreateToken
    BY <2>1 DEF CreateToken, Exists, Settled, TokenNeeded, seenVars
  <2>2. CASE TokenCreated
    BY <2>2 DEF TokenCreated, DirectorySynced, Settled, seenVars
  <2> QED
    BY <2>1, <2>2
<1>2. Settled'
  BY <1>1 DEF Settled
<1>3. UNCHANGED <<name, setup, saw, edited>>
  BY DEF CreateToken, TokenCreated, DirectorySynced, fileVars, initVars, seenVars
<1>4. CASE CreateToken
  <2>1. PICK new \in NewTokens : Create("daemon", new) /\ made' = made \cup {new}
    BY <1>4 DEF CreateToken
  <2>2. new \in Tokens /\ new \in Contents /\ new # None
    BY Distinct DEF NewTokens, Contents
  <2>3. /\ step' = [step EXCEPT !["daemon"] = "written"]
        /\ tmp' = [tmp EXCEPT !["daemon"] = new]
        /\ disk' = disk /\ daemon' = "writing"
    BY <1>4, <2>1 DEF Create, CreateToken, fileVars
  <2>4. step'["init"] = step["init"] /\ tmp'["init"] = tmp["init"] /\ tmp'["daemon"] = new
    BY <2>3 DEF Typed, Writers
  <2>5. Typed'
    <3>1. tmp' \in [Writers -> Contents]
      BY <2>2, <2>3 DEF Typed
    <3> QED
      BY <1>3, <2>1, <2>2, <2>3, <3>1 DEF Typed
  <2>6. Writing' /\ Reviewed'
    BY <1>3, <2>2, <2>3, <2>4 DEF Writing, Reviewed, Unseen
  <2> QED
    BY <1>2, <2>5, <2>6
<1>5. CASE TokenCreated
  <2>1. /\ step' = [step EXCEPT !["daemon"] = "none"]
        /\ disk' = [disk EXCEPT !["token"] = {name["token"]}]
        /\ UNCHANGED <<tmp, made>>
    BY <1>5 DEF TokenCreated, DirectorySynced, Forward, Target
  <2>2. step'["init"] = step["init"] /\ step'["daemon"] = "none"
    BY <2>1 DEF Typed, Writers
  <2>3. disk'["config"] = disk["config"]
    BY <2>1 DEF Typed, Files
  <2>4. Typed'
    <3>1. disk' \in [Files -> SUBSET Contents]
      BY <2>1 DEF Typed, Files
    <3> QED
      BY <1>3, <2>1, <3>1 DEF Typed
  <2>5. Writing' /\ Reviewed'
    BY <1>3, <2>1, <2>2, <2>3 DEF Writing, Reviewed, Unseen
  <2> QED
    BY <1>2, <2>4, <2>5
<1> QED
  BY <1>4, <1>5

LEMMA DaemonStopsInv ==
    ASSUME IInv, StartFails \/ DaemonKilled
    PROVE  IInv'
<1> USE DEF IInv
<1>1. /\ UNCHANGED <<name, disk, tmp, setup, saw, made, edited>>
      /\ step' = [step EXCEPT !["daemon"] = "none"]
      /\ daemon' = "off"
      /\ unsynced' = (unsynced \/ step["daemon"] = "renamed")
  BY DEF StartFails, DaemonKilled, Forward, fileVars, initVars
<1>2. step'["init"] = step["init"] /\ step'["daemon"] = "none"
  BY <1>1 DEF Typed, Writers
<1>3. Typed'
  BY <1>1 DEF Typed
<1>4. Writing' /\ Reviewed'
  BY <1>1, <1>2 DEF Writing, Reviewed, Unseen
<1>5. ~unsynced' => ~unsynced
  BY <1>1
<1>6. Settled'
  BY <1>1, <1>2, <1>5 DEF Settled, TokenNeeded, Unseen
<1> QED
  BY <1>3, <1>4, <1>6

\* With the power goes what was not synced: the token only while nothing that
\* needs it is there, and never the config that was reviewed.
LEMMA PowerLossInv ==
    ASSUME IInv, PowerLoss
    PROVE  IInv'
<1> USE DEF IInv
<1>1. /\ UNCHANGED <<tmp, made, edited, unsynced>>
      /\ step' = [w \in Writers |-> "none"]
      /\ setup' = "none" /\ saw' = {} /\ daemon' = "off"
      /\ disk' = [f \in Files |-> {name'[f]}]
  BY DEF PowerLoss, seenVars
<1>2. /\ name' \in [Files -> Contents]
      /\ \A f \in Files : name'[f] \in disk[f]
  BY DEF PowerLoss, Typed, Files
<1>3. Typed'
  BY <1>1, <1>2 DEF Typed
<1>4. Writing' /\ Reviewed'
  BY <1>1, <1>2 DEF Writing, Reviewed, Unseen, Upto, Files, Writers
<1>5. ASSUME ~unsynced PROVE name'["unit"] # None => name'["token"] # None
  <2>1. CASE setup = "unit"
    BY <1>2, <1>5, <2>1 DEF Settled, TokenNeeded, Files
  <2>2. CASE setup # "unit"
    BY <1>2, <1>5, <2>2 DEF Settled, TokenNeeded, Files
  <2> QED
    BY <2>1, <2>2
<1>6. Settled'
  BY <1>1, <1>5 DEF Settled, TokenNeeded, Unseen, Upto, Writers
<1> QED
  BY <1>3, <1>4, <1>6

LEMMA StepInv == IInv /\ [Next]_vars => IInv'
<1> SUFFICES ASSUME IInv, [Next]_vars PROVE IInv'
  OBVIOUS
<1>1. CASE UNCHANGED vars
  BY <1>1 DEF vars, fileVars, writeVars, initVars, cratondVars, seenVars, IInv, Typed, Writing,
              Reviewed, Settled, TokenNeeded, Unseen
<1>2. CASE Next
  BY <1>2, MoveInv, SetupWritesInv, SyncInv, RenameInv, SetupWroteInv, SetupStopsInv,
     OperatorInv, DaemonInv, TokenInv, DaemonStopsInv, PowerLossInv
     DEF Next, SetupStep, DaemonStep
<1> QED
  BY <1>1, <1>2

\* What init, operator and cratond know of the files, whatever cuts them short.
THEOREM BootstrapInductive == Spec => []IInv
BY InitInv, StepInv, PTL DEF Spec

\* init::run looks at what exists once, before everything: the reviewed config
\* survives it all the same.
THEOREM ReviewIsKept == Spec => []ReviewSurvives
<1>1. IInv => ReviewSurvives
  BY DEF IInv, Reviewed, ReviewSurvives
<1> QED
  BY <1>1, BootstrapInductive, PTL

\* init::run and load_or_create_token: the file holds the token of the daemon
\* that runs.
THEOREM OneToken == Spec => []TokensAgree
<1>1. IInv => TokensAgree
  BY DEF IInv, Settled, TokensAgree
<1> QED
  BY <1>1, BootstrapInductive, PTL
=============================================================================
