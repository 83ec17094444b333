----------------------------- MODULE Bootstrap -----------------------------
(***************************************************************************)
(* The way to a running daemon: cratonctl init, which writes the config,   *)
(* the token and the unit that are not there yet; an operator who reviews  *)
(* the config and enables the unit; and the start of cratond up to its     *)
(* token.  Any of it may fail or be cut short and is then done again.      *)
(*                                                                         *)
(* One init runs at a time, in the default directories.                    *)
(***************************************************************************)
EXTENDS Naturals

CONSTANTS
    None, Torn,     \* no file; a file of which only a part reached the disk
    Tokens,         \* bound: those that may be made
    MaxSetups,      \* bound: how often init is run
    MaxErrors,      \* bound: system calls and commands that fail
    MaxFaults       \* bound: processes killed, power lost

Files == {"config", "token", "unit"}
Directories == {"state", "runtime", "config"}
Writers == {"init", "daemon"}

ASSUME BootstrapAssumption ==
    /\ None # Torn
    /\ {None, Torn} \cap (Tokens \cup {"commented", "enabled", "edited", "unit"}) = {}
    /\ {MaxSetups, MaxErrors, MaxFaults} \subseteq Nat

VARIABLES
    dirs,           \* the directories that exist
    name,           \* what each file shows to whoever reads it now
    disk,           \* what a power loss may leave of it
    step, tmp,      \* how far the write of each process is, and what it writes
    setup,          \* where init is, "none" when there is none
    saw,            \* the files that existed when it looked
    daemon,         \* where the start of cratond is
    token,          \* the one it has in memory
    enabled,        \* systemctl enable --now
    made,           \* the tokens made so far
    setups, errors, faults,
    \* observers
    done,           \* an init has ended well
    edited,         \* the operator has reviewed the config
    unsynced        \* the fsync of a directory failed, or did not happen

writeVars == <<step, tmp>>
fileVars == <<dirs, name, disk>>
initVars == <<setup, saw>>
cratondVars == <<daemon, token>>
boundVars == <<setups, errors, faults>>
seenVars == <<done, edited, unsynced>>
vars == <<fileVars, writeVars, initVars, cratondVars, enabled, made, boundVars, seenVars>>

Exists(file) == name[file] # None

\* from_toml: [ntfy] is required, and the template of init has it commented.
Accepted(config) == config \in {"enabled", "edited"}

Init ==
    /\ dirs = {}
    /\ name = [f \in Files |-> None]
    /\ disk = [f \in Files |-> {None}]
    /\ step = [w \in Writers |-> "none"]
    /\ tmp = [w \in Writers |-> None]
    /\ setup = "none" /\ saw = {}
    /\ daemon = "off" /\ token = None
    /\ enabled = FALSE
    /\ made = {}
    /\ setups = 0 /\ errors = 0 /\ faults = 0
    /\ done = FALSE /\ edited = FALSE /\ unsynced = FALSE

\* A token that was not made before; which one makes no difference.
NewTokens == {t \in Tokens \ made : t = CHOOSE new \in Tokens \ made : TRUE}

-----------------------------------------------------------------------------
(* A file is written: atomic_write_text of init, atomic_write of cratond *)

\* A temporary file is created, and the data written into it.
Create(w, data) ==
    /\ step' = [step EXCEPT ![w] = "written"]
    /\ tmp' = [tmp EXCEPT ![w] = data]

Target(w) == IF w = "init" THEN setup ELSE "token"

Forward(w, at) == step' = [step EXCEPT ![w] = at] /\ UNCHANGED tmp

Sync(w) ==
    /\ step[w] = "written"
    /\ Forward(w, "synced")
    /\ UNCHANGED <<fileVars, initVars, cratondVars, enabled, made, boundVars, seenVars>>

\* (mutant) the data is not synced first
RenameUnsynced(w) ==
    /\ step[w] = "written"
    /\ Forward(w, "renamed")
    /\ name' = [name EXCEPT ![Target(w)] = tmp[w]]
    /\ disk' = [disk EXCEPT ![Target(w)] = @ \cup {tmp[w], Torn}]
    /\ UNCHANGED <<dirs, initVars, cratondVars, enabled, made, boundVars, seenVars>>

Rename(w) ==
    /\ step[w] = "synced"
    /\ Forward(w, "renamed")
    /\ name' = [name EXCEPT ![Target(w)] = tmp[w]]
    /\ disk' = [disk EXCEPT ![Target(w)] = @ \cup {tmp[w]}]
    /\ UNCHANGED <<dirs, initVars, cratondVars, enabled, made, boundVars, seenVars>>

DirectorySynced(w) ==
    /\ step[w] = "renamed"
    /\ Forward(w, "none")
    /\ disk' = [disk EXCEPT ![Target(w)] = {name[Target(w)]}]
    /\ UNCHANGED <<dirs, name>>

-----------------------------------------------------------------------------
(* cratonctl init *)

\* (mutant) the unit alone tells whether all has been done
SetupBeginsByUnit ==
    /\ setup = "none" /\ setups < MaxSetups
    /\ setup' = "state dir"
    /\ saw' = IF Exists("unit") THEN Files ELSE {}
    /\ setups' = setups + 1
    /\ UNCHANGED <<fileVars, writeVars, cratondVars, enabled, made, errors, faults, seenVars>>

\* What exists is looked up before anything else.
SetupBegins ==
    /\ setup = "none" /\ setups < MaxSetups
    /\ setup' = "state dir"
    /\ saw' = {f \in Files : Exists(f)}
    /\ setups' = setups + 1
    /\ UNCHANGED <<fileVars, writeVars, cratondVars, enabled, made, errors, faults, seenVars>>

\* (mutant) the unit is installed before the token is there
AfterUnitFirst(at) ==
    CASE at = "state dir" -> "runtime dir" [] at = "runtime dir" -> "config dir"
      [] at = "config dir" -> "config" [] at = "config" -> "unit"
      [] at = "unit" -> "token" [] at = "token" -> "reload"

After(at) ==
    CASE at = "state dir" -> "runtime dir" [] at = "runtime dir" -> "config dir"
      [] at = "config dir" -> "config" [] at = "config" -> "token"
      [] at = "token" -> "unit" [] at = "unit" -> "reload"

\* ensure_directory
EnsureDirectory ==
    /\ setup \in {"state dir", "runtime dir", "config dir"}
    /\ dirs' = dirs \cup {CASE setup = "state dir" -> "state"
                            [] setup = "runtime dir" -> "runtime"
                            [] setup = "config dir" -> "config"}
    /\ setup' = After(setup)
    /\ UNCHANGED <<name, disk, writeVars, saw, cratondVars, enabled, made, boundVars, seenVars>>

\* "already exists"
Skip ==
    /\ setup \in Files /\ setup \in saw
    /\ setup' = After(setup)
    /\ UNCHANGED <<fileVars, writeVars, saw, cratondVars, enabled, made, boundVars, seenVars>>

\* render_config_template, after the prompt for the topic of ntfy if there is
\* one; generate_token_hex; render_unit_template
Render(file) ==
    CASE file = "config" -> {"commented", "enabled"}
      [] file = "token" -> NewTokens
      [] file = "unit" -> {"unit"}

SetupWrites ==
    /\ setup \in Files /\ setup \notin saw /\ step["init"] = "none"
    /\ \E data \in Render(setup) :
        /\ Create("init", data)
        /\ made' = IF setup = "token" THEN made \cup {data} ELSE made
    /\ UNCHANGED <<fileVars, initVars, cratondVars, enabled, boundVars, seenVars>>

SetupWrote ==
    /\ DirectorySynced("init")
    /\ setup' = After(setup)
    /\ UNCHANGED <<saw, cratondVars, enabled, made, boundVars, seenVars>>

\* systemctl daemon-reload if the unit was created, and the report.
SetupEnds ==
    /\ setup = "reload"
    /\ setup' = "none" /\ saw' = {}
    /\ done' = TRUE
    /\ UNCHANGED <<fileVars, writeVars, cratondVars, enabled, made, boundVars, edited, unsynced>>

\* Any call may fail: the answer to the prompt is not a URL, the disk is full,
\* systemctl fails or takes longer than 15 s.  What was done stays.
SetupFails ==
    /\ setup # "none" /\ errors < MaxErrors
    /\ setup' = "none" /\ saw' = {}
    /\ Forward("init", "none")
    /\ errors' = errors + 1
    /\ unsynced' = (unsynced \/ step["init"] = "renamed")
    /\ UNCHANGED <<fileVars, cratondVars, enabled, made, setups, faults, done, edited>>

SetupKilled ==
    /\ setup # "none" /\ faults < MaxFaults
    /\ setup' = "none" /\ saw' = {}
    /\ Forward("init", "none")
    /\ faults' = faults + 1
    /\ unsynced' = (unsynced \/ step["init"] = "renamed")
    /\ UNCHANGED <<fileVars, cratondVars, enabled, made, setups, errors, done, edited>>

-----------------------------------------------------------------------------
(* The operator *)

\* The config that is there is reviewed, and [ntfy] filled in.
Review ==
    /\ Exists("config") /\ ~edited
    /\ edited' = TRUE
    /\ name' = [name EXCEPT !["config"] = "edited"]
    /\ disk' = [disk EXCEPT !["config"] = {"edited"}]
    /\ UNCHANGED <<dirs, writeVars, initVars, cratondVars, enabled, made, boundVars, done, unsynced>>

Enable ==
    /\ name["unit"] = "unit" /\ ~enabled
    /\ enabled' = TRUE
    /\ UNCHANGED <<fileVars, writeVars, initVars, cratondVars, made, boundVars, seenVars>>

-----------------------------------------------------------------------------
(* cratond and systemd *)

\* systemctl start, or Restart=on-failure
DaemonStarts ==
    /\ enabled /\ name["unit"] = "unit" /\ daemon = "off"
    /\ daemon' = "config"
    /\ UNCHANGED <<fileVars, writeVars, initVars, token, enabled, made, boundVars, seenVars>>

LoadConfig ==
    /\ daemon = "config"
    /\ daemon' = IF Accepted(name["config"]) THEN "dirs" ELSE "off"
    /\ UNCHANGED <<fileVars, writeVars, initVars, token, enabled, made, boundVars, seenVars>>

EnsureRuntimeDirs ==
    /\ daemon = "dirs"
    /\ dirs' = dirs \cup {"state", "runtime"}
    /\ daemon' = "token"
    /\ UNCHANGED <<name, disk, writeVars, initVars, token, enabled, made, boundVars, seenVars>>

\* load_or_create_token; an empty file is refused.
LoadToken ==
    /\ daemon = "token" /\ Exists("token")
    /\ IF name["token"] = Torn THEN daemon' = "off" /\ UNCHANGED token
       ELSE daemon' = "up" /\ token' = name["token"]
    /\ UNCHANGED <<fileVars, writeVars, initVars, enabled, made, boundVars, seenVars>>

CreateToken ==
    /\ daemon = "token" /\ ~Exists("token")
    /\ \E new \in NewTokens : Create("daemon", new) /\ made' = made \cup {new}
    /\ daemon' = "writing"
    /\ UNCHANGED <<fileVars, initVars, token, enabled, boundVars, seenVars>>

TokenCreated ==
    /\ DirectorySynced("daemon")
    /\ daemon' = "up" /\ token' = tmp["daemon"]
    /\ UNCHANGED <<initVars, enabled, made, boundVars, seenVars>>

\* A call fails: exit code 1.
StartFails ==
    /\ daemon \notin {"off", "up"} /\ errors < MaxErrors
    /\ daemon' = "off"
    /\ Forward("daemon", "none")
    /\ errors' = errors + 1
    /\ unsynced' = (unsynced \/ step["daemon"] = "renamed")
    /\ UNCHANGED <<fileVars, initVars, token, enabled, made, setups, faults, done, edited>>

DaemonKilled ==
    /\ daemon # "off" /\ faults < MaxFaults
    /\ daemon' = "off"
    /\ Forward("daemon", "none")
    /\ faults' = faults + 1
    /\ unsynced' = (unsynced \/ step["daemon"] = "renamed")
    /\ UNCHANGED <<fileVars, initVars, token, enabled, made, setups, errors, done, edited>>

\* /run is gone, and what is not synced may be.
PowerLoss ==
    /\ faults < MaxFaults
    /\ faults' = faults + 1
    /\ \E c \in disk["config"], t \in disk["token"], u \in disk["unit"] :
            name' = [f \in Files |-> CASE f = "config" -> c [] f = "token" -> t
                                         [] f = "unit" -> u]
    /\ disk' = [f \in Files |-> {name'[f]}]
    /\ dirs' = dirs \ {"runtime"}
    /\ step' = [w \in Writers |-> "none"] /\ UNCHANGED tmp
    /\ setup' = "none" /\ saw' = {}
    /\ daemon' = "off"
    /\ UNCHANGED <<token, enabled, made, setups, errors, seenVars>>

-----------------------------------------------------------------------------

SetupStep ==
    \/ SetupBegins \/ EnsureDirectory \/ Skip \/ SetupWrites \/ SetupWrote \/ SetupEnds
    \/ SetupFails \/ SetupKilled

DaemonStep ==
    \/ DaemonStarts \/ LoadConfig \/ EnsureRuntimeDirs
    \/ LoadToken \/ CreateToken \/ TokenCreated

Next ==
    \/ SetupStep \/ DaemonStep
    \/ \E w \in Writers : Sync(w) \/ Rename(w)
    \/ Review \/ Enable
    \/ StartFails \/ DaemonKilled \/ PowerLoss

Spec == Init /\ [][Next]_vars

\* systemd restarts what fails (RestartSec=5s is too slow for the limit on
\* starts), and cratond goes on once it is started.
FairSpec ==
    /\ Spec
    /\ WF_vars(DaemonStep) /\ WF_vars(Sync("daemon") \/ Rename("daemon"))

-----------------------------------------------------------------------------
(* Properties *)

\* An init that is run again, after whatever cut an earlier one short, leaves
\* the config alone that the operator has reviewed in between (INIT_HELP:
\* "Existing config, token, and unit files are left untouched").
ReviewSurvives == edited => name["config"] = "edited"

\* A running daemon checks the token that cratonctl finds in the file: no init
\* replaces the one that cratond has made, since the unit comes last.  (A
\* token whose directory was not synced may be lost with power, and made by
\* both.)
TokensAgree == daemon = "up" /\ ~unsynced => name["token"] = token

\* When init has ended well, the config has [ntfy] and the unit is enabled,
\* the daemon comes up, through failures, kills and power losses.
Starts ==
    done /\ enabled /\ Accepted(name["config"]) ~> daemon = "up" \/ unsynced

=============================================================================
