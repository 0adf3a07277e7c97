--------------------------- MODULE ManagementService ---------------------------
(***************************************************************************)
(* The desktop's commands that install, restart and remove the service on  *)
(* the game server, step by step over SSH, together with the daemon they   *)
(* start and stop (DaemonApi) and the host's init system, which is         *)
(* external: systemd or OpenRC.                                            *)
(***************************************************************************)
EXTENDS DaemonApi

CONSTANTS
  Versions,   \* the versions of the desktops in use, each with its bundled binary
  OldVersion, \* the version an earlier desktop may have installed
  Tokens,     \* the command tokens an operator enters
  Builtin     \* the token of a daemon that finds none

ASSUME VersionAssumption == Versions \cup {OldVersion} \subseteq Nat \ {0}

VARIABLES
  files, \* on the host: init system, directories, binary, unit, token
  runs,  \* what the running process was started from: version and token
  op     \* the command each desktop has under way

vars == <<apiVars, files, runs, op>>

Absent == 0
NoOp == [pc |-> "idle"]
Host(init, set, binary) == [init |-> init, dirs |-> set, binary |-> binary, unit |-> set,
                            token |-> None]

\* resolve_command_auth_token(): the file, else the built-in.
Resolved(token) == IF token = None THEN Builtin ELSE token

\* (A bug: the service that runs is not stopped first.)
InstallStepsOnline == <<"discover", "prepare", "upload", "token", "init", "start", "verify">>

InstallSteps == <<"discover", "stop", "prepare", "upload", "token", "init", "start", "verify">>
Steps(kind) == CASE kind = "install"   -> InstallSteps
                 [] kind = "restart"   -> <<"restart">>
                 [] kind = "uninstall" -> <<"disable", "remove">>

MSInit ==
  /\ Init
  /\ \E init \in {"systemd", "openrc"} :
       \/ files = Host(init, FALSE, Absent)
       \/ files = Host(init, TRUE, OldVersion)
  /\ runs = [version |-> Absent, token |-> None]
  /\ op = [p \in Procs |-> NoOp]

--------------------------------------------------------------------------------
(* The commands.                                                            *)

Busy(p) == op[p] # NoOp
InProgress == {p \in Procs : Busy(p)}

\* Other commands, faults and saved settings end the quiet of a command.
Disturb(o) == [p \in Procs |-> IF o[p] = NoOp THEN NoOp ELSE [o[p] EXCEPT !.quiet = FALSE]]

Begins(p, kind, version, token) ==
  /\ issued < MaxCommands
  /\ req[p] = NoRequest /\ ~Busy(p)
  /\ issued' = issued + 1
  /\ op' = [Disturb(op) EXCEPT ![p] =
              [pc |-> 1, kind |-> kind, version |-> version, token |-> token,
               halted |-> FALSE, quiet |-> InProgress = {}]]
  /\ UNCHANGED <<phase, env, store, game, excused, req, faults, files, runs>>

Step(p, name) == Busy(p) /\ Steps(op[p].kind)[op[p].pc] = name
Passes(p) ==
  op' = IF op[p].pc = Len(Steps(op[p].kind)) THEN [op EXCEPT ![p] = NoOp]
        ELSE [op EXCEPT ![p].pc = @ + 1, ![p].halted = FALSE]
Fails(p) == op' = [op EXCEPT ![p] = NoOp]
Waits(p) == op' = [op EXCEPT ![p].halted = TRUE]

HostUnchanged == UNCHANGED <<store, game, excused, req, issued, faults>>

\* Asking the account of the game server changes nothing.
Discovers(p) ==
  Step(p, "discover") /\ Passes(p) /\ UNCHANGED <<phase, env, files, runs>> /\ HostUnchanged

\* The init system stops the service: the command waits for it to be down.  A
\* service that waits to be started again after a crash is just down.
Stopped(p) ==
  \/ phase = "up" /\ Terminates /\ Waits(p)
  \/ phase \in {"down", "failed"} /\ phase' = "down" /\ Passes(p) /\ UNCHANGED env

Stops(p) ==
  /\ \/ Step(p, "stop")
     \/ Step(p, "disable")
  /\ Stopped(p)
  /\ UNCHANGED <<files, runs>> /\ HostUnchanged

\* The directories of the unit's ReadWritePaths.
Prepares(p) ==
  /\ Step(p, "prepare")
  /\ files' = [files EXCEPT !.dirs = TRUE]
  /\ Passes(p) /\ UNCHANGED <<phase, env, runs>> /\ HostUnchanged

\* The bytes are counted before the binary is put in place.
Uploads(p) ==
  /\ Step(p, "upload")
  /\ files' = [files EXCEPT !.binary = op[p].version]
  /\ Passes(p) /\ UNCHANGED <<phase, env, runs>> /\ HostUnchanged

WritesToken(p) ==
  /\ Step(p, "token")
  /\ files' = IF op[p].token = None THEN files ELSE [files EXCEPT !.token = op[p].token]
  /\ Passes(p) /\ UNCHANGED <<phase, env, runs>> /\ HostUnchanged

InstallsUnit(p) ==
  /\ Step(p, "init")
  /\ files' = [files EXCEPT !.unit = TRUE]
  /\ Passes(p) /\ UNCHANGED <<phase, env, runs>> /\ HostUnchanged

\* The process starts if its unit, its binary and its directories are there; a
\* missing directory or binary lets it fail after the init system has answered.
Bootable == files.unit /\ files.dirs /\ files.binary # Absent
Started ==
  IF Bootable THEN Boots /\ runs' = [version |-> files.binary, token |-> Resolved(files.token)]
              ELSE phase' = "down" /\ UNCHANGED <<env, runs>>

\* `systemctl enable --now`: nothing happens to a service that is active.
Enables(p) ==
  /\ Step(p, "start") /\ files.init = "systemd"
  /\ phase # "stopping"
  /\ CASE ~files.unit    -> Fails(p) /\ UNCHANGED <<phase, env, runs>>
       [] phase = "up"   -> Passes(p) /\ UNCHANGED <<phase, env, runs>>
       [] OTHER          -> Passes(p) /\ Started
  /\ UNCHANGED files /\ HostUnchanged

\* `systemctl restart`, and on OpenRC `rc-service restart`: a stop, and a start
\* once it is down.
Restarts(p) ==
  /\ \/ Step(p, "restart")
     \/ Step(p, "start") /\ files.init = "openrc"
  /\ phase # "stopping"
  /\ CASE ~files.unit                     -> Fails(p) /\ UNCHANGED <<phase, env, runs>>
       [] phase = "up" /\ op[p].halted    -> Passes(p) /\ UNCHANGED <<phase, env, runs>>
       [] phase = "up" /\ ~op[p].halted   -> Terminates /\ Waits(p) /\ UNCHANGED runs
       [] OTHER                           -> Passes(p) /\ Started
  /\ UNCHANGED files /\ HostUnchanged

\* What install_inner() answers: whether the service is active, and the version
\* of the binary on the disk.
Verifies(p) ==
  /\ Step(p, "verify")
  /\ Passes(p)
  /\ UNCHANGED <<phase, env, files, runs>> /\ HostUnchanged

\* The rest of the uninstall: settings, history, token and directories stay.
Removes(p) ==
  /\ Step(p, "remove")
  /\ files' = [files EXCEPT !.unit = FALSE, !.binary = Absent]
  /\ Passes(p) /\ UNCHANGED <<phase, env, runs>> /\ HostUnchanged

--------------------------------------------------------------------------------
(* What goes wrong.                                                         *)

\* A step fails and ends the command: nothing is undone.
StepFails(p) ==
  /\ Busy(p) /\ Fault
  /\ op' = [Disturb(op) EXCEPT ![p] = NoOp]
  /\ UNCHANGED <<phase, env, store, game, excused, req, issued, files, runs>>

\* A connection lost without an exit status counts as success, and so does a stop
\* that fails, whose script ignores errors: the command goes on.  Only the answers
\* of discover and verify are read.
Ignorable == {"stop", "prepare", "upload", "token", "init", "start", "restart",
              "disable", "remove"}
StepIgnored(p) ==
  /\ Busy(p) /\ Steps(op[p].kind)[op[p].pc] \in Ignorable
  /\ Fault
  /\ LET o == Disturb(op)
     IN  op' = IF o[p].pc = Len(Steps(o[p].kind)) THEN [o EXCEPT ![p] = NoOp]
               ELSE [o EXCEPT ![p].pc = @ + 1, ![p].halted = FALSE]
  /\ UNCHANGED <<phase, env, store, game, excused, req, issued, files, runs>>

\* systemd starts a crashed service again, from the files as they are by then;
\* OpenRC's supervisor does the same.
Respawns ==
  /\ phase = "failed"
  /\ Started
  /\ UNCHANGED <<files, op>> /\ HostUnchanged

\* The boot of the host starts a service that is installed.
HostBoots ==
  /\ phase = "down" /\ issued = 0 /\ Bootable
  /\ Started
  /\ UNCHANGED <<files, op>> /\ HostUnchanged

\* A step of the API, which every command under way notices by what it changes.
ApiSteps ==
  /\ ApiNext
  /\ op' = IF conf' # conf \/ faults' # faults THEN Disturb(op) ELSE op
  /\ UNCHANGED <<files, runs>>

Commands(p) ==
  \/ \E version \in Versions, token \in Tokens \cup {None} :
        Begins(p, "install", version, token)
  \/ \E kind \in {"restart", "uninstall"} : Begins(p, kind, Absent, None)
  \/ Discovers(p) \/ Stops(p) \/ Prepares(p) \/ Uploads(p) \/ WritesToken(p)
  \/ InstallsUnit(p) \/ Enables(p) \/ Restarts(p) \/ Verifies(p) \/ Removes(p)
  \/ StepFails(p) \/ StepIgnored(p)

MSNext ==
  \/ ApiSteps
  \/ \E p \in Procs : Commands(p)
  \/ Respawns \/ HostBoots

Spec == MSInit /\ [][MSNext]_vars

--------------------------------------------------------------------------------
(* What the commands promise.                                               *)

TypeOK ==
  /\ ApiTypeOK
  /\ files.binary \in Versions \cup {OldVersion, Absent}
  /\ files.token \in Tokens \cup {None}
  /\ runs.version \in Versions \cup {OldVersion, Absent}
  /\ \A p \in Procs : Busy(p) => op[p].pc \in DOMAIN Steps(op[p].kind)

Ends(p, kind) == Busy(p) /\ op[p].kind = kind /\ op'[p] = NoOp /\ op[p].quiet

\* A command that nothing disturbed has done what its user reads from its answer.
\* An install leaves the desktop's version running, with its token and the stored
\* settings, and so does a restart with the files as they were; after it no setting
\* waits for a restart, but for a list that does not parse.  After an uninstall
\* nothing runs or starts again (management_service.rs:192, :158, :594).
\* Neither holds once two commands overlap or a step was lost: enable --now does
\* not touch a service that runs.
Current == env = Load(conf) /\ (StoredActions(conf) \in ActionLists \cup {None}
                                  => ~RestartRequired(conf, env))
QuietCommandsTakeEffect ==
  [][\A p \in Procs :
       /\ Ends(p, "install") /\ UNCHANGED faults =>
            /\ phase = "up" /\ runs.version = op[p].version /\ Current
            /\ runs.token = Resolved(files.token)
            /\ op[p].token # None => runs.token = op[p].token
       /\ Ends(p, "restart") /\ UNCHANGED faults /\ Bootable =>
            phase' = "up" /\ runs'.version = files.binary /\ Current'
       /\ Ends(p, "uninstall") /\ UNCHANGED faults =>
            phase' = "down" /\ ~files'.unit /\ files'.binary = Absent]_vars

================================================================================
