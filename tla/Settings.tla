------------------------------ MODULE Settings ------------------------------
(***************************************************************************)
(* The settings of the program (clash-tui/src/actions/config.rs, system.rs,*)
(* validation.rs, clash-core/src/config/app_settings.rs, store.rs): one    *)
(* file of optional fields, changed by patches without a lock; a change is *)
(* generated into the runtime configuration and brought to the core or to  *)
(* the desktop, and some are taken back when that fails.  A look at the    *)
(* settings may change them too.                                           *)
(*                                                                         *)
(* One client changes settings, step by step, as the keys of the interface *)
(* and the commands do; the core starts, ends, is taken over, and answers  *)
(* or not; a file operation, a restart or a desktop command may fail.      *)
(* Kernel has the core itself, RuntimeDocument the generated file.         *)
(***************************************************************************)
EXTENDS Integers, FiniteSets

CONSTANTS
    Ports,         \* ports for the controller, DefaultPort among them
    DefaultControllerPort,
    Foreign,       \* what cores started by somebody else listen on: [on, port, safe]
    Absent,        \* a field of the file that was never set
    Unreadable,    \* the file cannot be parsed
    MaxChanges     \* bound: operations of the client

VARIABLES
    stored,        \* the settings file
    generated,     \* what the runtime configuration file says
    core,          \* the core: its state, owner, and what it was started with
    desktop,       \* the proxy of the desktop: "none", "manual", or "half" set
    client,        \* what the client does, and what its last operation reported
    wish,          \* observer: what the user last made of the external controller
    changes        \* operations started

settingsVars == <<stored, generated, core, desktop, client, wish, changes>>

\* "plain" stands for the fields of the display, which only the interface reads.
Switches == {"tun", "dns", "proxy", "controller", "direct", "corelog", "plain"}
Fields == Switches \cup {"port"}
NoFields == [f \in Fields |-> Absent]
Only(f, value) == [NoFields EXCEPT ![f] = value]
Values(f) == IF f = "port" THEN Ports ELSE BOOLEAN

\* What may be in the file, if it can be parsed.
File(switches, port) == [f \in Fields |-> IF f = "port" THEN port ELSE switches[f]]
Files == {File(s, p) : s \in [Switches -> BOOLEAN \cup {Absent}], p \in Ports \cup {Absent}}

ASSUME SettingsAssumption ==
    /\ DefaultControllerPort \in Ports /\ MaxChanges \in Nat
    /\ Foreign \subseteq [on : BOOLEAN, port : Ports, safe : BOOLEAN]
    /\ Absent \notin BOOLEAN /\ Absent \notin Ports /\ Unreadable \notin Files

Effective(s, f) == IF s[f] # Absent THEN s[f] ELSE IF f = "port" THEN DefaultControllerPort ELSE FALSE

\* Mutant: the fields a patch does not have are reset.
ReplaceConfig(s, patch) == patch

\* A patch cannot take back a field: one it does not have stays as it is.
PatchConfig(s, patch) == [f \in Fields |-> IF patch[f] = Absent THEN s[f] ELSE patch[f]]

\* A file that cannot be read counts as empty for a patch, and is an error for everybody else.
LoadedOrDefault == IF stored = Unreadable THEN NoFields ELSE stored

-----------------------------------------------------------------------------
(* The core, and what it tells of its controller.                          *)

Stopped == [state |-> "stopped"]
Active == core.state # "stopped"

\* What a core is started with: the fields that reach the core, and where it listens.
Config(s, dns) ==
    [tun |-> Effective(s, "tun"), dns |-> dns, direct |-> Effective(s, "direct"),
     corelog |-> Effective(s, "corelog"),
     listens |-> [on |-> Effective(s, "controller"), port |-> Effective(s, "port"), safe |-> TRUE]]
OwnConfig == Config(stored, Effective(stored, "dns"))
Running(owner, config) == [state |-> "running", owner |-> owner, config |-> config]

\* The answer of a running core; none while it starts, none when it does not answer.
Silent == [on |-> FALSE, port |-> 0, safe |-> FALSE]
Echoes == {Silent} \cup (IF core.state = "running" THEN {core.config.listens} ELSE {})
Exposes(echo) == echo # Silent /\ echo.on /\ echo.safe

\* Mutant: a restart does not generate the file again.
RestartedAsBefore == Running("own", IF core = Stopped THEN OwnConfig ELSE core.config)

Restarted == Running("own", OwnConfig)

\* What a restart comes to.  It generates the file anew, and refuses cores that others own; it
\* may fail before the old core is stopped or after; it is not accepted beside another operation.
RestartAccepted ==
    /\ ~(Active /\ core.owner = "foreign") /\ stored # Unreadable
    /\ generated' = OwnConfig /\ core' = Restarted
RestartNotAccepted == UNCHANGED <<generated, core>>
RestartFails ==
    \/ UNCHANGED <<generated, core>>
    \/ ~(Active /\ core.owner = "foreign") /\ core' = Stopped /\ UNCHANGED generated

-----------------------------------------------------------------------------
(* The operations of the client.                                           *)

Done(outcome) ==
    [phase |-> "idle", field |-> "none", to |-> FALSE, patch |-> NoFields, prior |-> NoFields,
     wasActive |-> FALSE, outcome |-> outcome]
Phase(phase) == client.phase = phase
Goto(phase) == client' = [client EXCEPT !.phase = phase]
Ends(outcome) == client' = Done(outcome)

\* Operations that first look at what the settings were.
Careful == {"tun", "dns", "proxy", "controller", "direct", "port"}

\* A new port for the controller keeps a controller that is on, in the settings or in the core.
PreserveEnabled(echo) == IF Effective(stored, "controller") \/ Exposes(echo) THEN TRUE ELSE Absent

Begin(f, value, patch, prior) ==
    client' = [phase |-> "save", field |-> f, to |-> value, patch |-> patch, prior |-> prior,
               wasActive |-> Active, outcome |-> "none"]

Change(f, value) ==
    /\ Phase("idle") /\ changes < MaxChanges /\ changes' = changes + 1
    /\ UNCHANGED <<stored, generated, core, desktop, wish>>
    /\ \/ f \in Careful /\ stored = Unreadable /\ Ends("failed")
       \/ f \in Careful \ {"port"} /\ stored # Unreadable /\ Begin(f, value, Only(f, value), stored)
       \/ f \notin Careful /\ Begin(f, value, Only(f, value), NoFields)
       \/ /\ f = "port" /\ stored # Unreadable
          /\ \E echo \in Echoes :
                Begin(f, value, [Only(f, value) EXCEPT !["controller"] = PreserveEnabled(echo)], stored)

Look ==
    /\ Phase("idle")
    /\ client' = [Done("none") EXCEPT !.phase = "read"]
    /\ UNCHANGED <<stored, generated, core, desktop, wish, changes>>

AfterSave == CASE client.field \in {"tun", "dns", "direct", "controller", "port"} -> "generate"
               [] client.field = "proxy" -> "desktop"
               [] OTHER -> "read"

\* The file is written in place: a failure may leave it cut off.
Write(patch) == stored' = PatchConfig(LoadedOrDefault, patch)
WriteFails == stored' \in {stored, Unreadable}

SaveChange ==
    /\ Phase("save")
    /\ \/ Write(client.patch) /\ Goto(AfterSave) /\ wish' = IF client.field = "controller" THEN client.to ELSE wish
       \/ WriteFails /\ Ends("failed") /\ UNCHANGED wish
    /\ UNCHANGED <<generated, core, desktop, changes>>

\* The switch for DNS is passed on, the other fields are read from the file again.
GenerateChange ==
    /\ Phase("generate")
    /\ \/ /\ stored # Unreadable
          /\ generated' = Config(stored, IF client.field = "dns" THEN client.to ELSE Effective(stored, "dns"))
          /\ Goto("apply")
       \/ UNCHANGED generated /\ Goto("rollback")
    /\ UNCHANGED <<stored, core, desktop, wish, changes>>

ApplyDns ==
    /\ client.field = "dns"
    /\ IF core.state # "running" THEN UNCHANGED <<generated, core>> /\ Goto("read")
       ELSE \/ (RestartAccepted \/ RestartNotAccepted) /\ Goto("read")
            \/ RestartFails /\ Goto("rollback")

ApplyTun ==
    /\ client.field = "tun"
    /\ IF ~Active THEN UNCHANGED <<generated, core>> /\ Ends("saved")
       ELSE \/ RestartAccepted /\ Ends("applied")
            \/ RestartNotAccepted /\ Ends("saved")
            \/ RestartFails /\ Ends("failed")

\* A port alone needs no restart while the controller is off.
ApplyController ==
    /\ client.field \in {"controller", "port"}
    /\ IF ~Active THEN UNCHANGED <<generated, core>> /\ Ends("saved")
       ELSE IF ~Effective(stored, "controller") /\ client.patch["controller"] = Absent
       THEN UNCHANGED <<generated, core>> /\ Ends("applied")
       ELSE \/ RestartAccepted /\ Goto("wait")
            \/ RestartNotAccepted /\ Ends("saved")
            \/ RestartFails /\ Ends("failed")

\* The file is checked and loaded by the core, which may load it and not say so.
ApplyDirect ==
    /\ client.field = "direct" /\ UNCHANGED generated
    /\ \/ UNCHANGED core /\ Goto("rollback")
       \/ ~Active /\ UNCHANGED core /\ Goto("read")
       \/ core.state = "running" /\ core' = [core EXCEPT !.config = generated]
          /\ (Goto("read") \/ Goto("rollback"))

ApplyChange ==
    /\ Phase("apply")
    /\ ApplyDns \/ ApplyTun \/ ApplyController \/ ApplyDirect
    /\ UNCHANGED <<stored, desktop, wish, changes>>

\* The target holds when the core says so, or when its port is open or closed as it should be.
EchoMatches(echo) ==
    /\ echo # Silent
    /\ IF Effective(stored, "controller")
       THEN Exposes(echo) /\ echo.port = Effective(stored, "port") ELSE ~echo.on
PortOpen == core.state = "running" /\ core.config.listens.on /\ core.config.listens.port = Effective(stored, "port")

WaitForController ==
    /\ Phase("wait")
    /\ \/ \E echo \in Echoes : EchoMatches(echo) /\ Ends("applied")
       \/ (Effective(stored, "controller") <=> PortOpen) /\ Ends("applied")
       \/ Ends("saved")
    /\ UNCHANGED <<stored, generated, core, desktop, wish, changes>>

\* Eight commands switch the desktop's proxy on, the mode before the host, and one off.
SetDesktop ==
    /\ Phase("desktop")
    /\ \/ desktop' = (IF client.to THEN "manual" ELSE "none") /\ Ends("applied")
       \/ desktop' = desktop /\ Goto("rollback")
       \/ client.to /\ desktop' = "half" /\ Goto("rollback")
    /\ UNCHANGED <<stored, generated, core, wish, changes>>

\* What is patched back: nothing, for a DNS switch that was never set.
Back(f, prior) ==
    CASE f = "dns" -> Only("dns", prior["dns"])
      [] f \in {"controller", "port"} ->
            [Only("controller", Effective(prior, "controller")) EXCEPT !["port"] = Effective(prior, "port")]
      [] OTHER -> Only(f, Effective(prior, f))

\* Only the switch of the desktop tells a rollback that was written from one that was not: DNS and
\* the download strategy report one in either case, the others the failure they met and no more.
RollbackReport(written) ==
    CASE client.field \in {"dns", "direct"} -> "reverted"
      [] client.field = "proxy" -> IF written THEN "reverted" ELSE "failed"
      [] OTHER -> "failed"
RollbackWritten == Write(Back(client.field, client.prior)) /\ Ends(RollbackReport(TRUE))
RollbackLost == WriteFails /\ Ends(RollbackReport(FALSE))

\* A download strategy is also generated and loaded again, if that can be.
Rollback ==
    /\ Phase("rollback")
    /\ RollbackWritten \/ RollbackLost
    /\ IF client.field = "direct" /\ stored' # Unreadable
       THEN LET again == Config(stored', Effective(stored', "dns"))
            IN \/ UNCHANGED <<generated, core>>
               \/ generated' = again
                  /\ core' \in {core} \cup (IF core.state = "running" THEN {[core EXCEPT !.config = again]} ELSE {})
       ELSE UNCHANGED <<generated, core>>
    /\ wish' = (wish \/ (client.field = "controller" /\ stored' # Unreadable /\ Effective(stored', "controller")))
    /\ UNCHANGED <<desktop, changes>>

\* Where a running core listens becomes the setting, if it is a local address.
Sync(echo) ==
    IF ~Exposes(echo) THEN NoFields
    ELSE [NoFields EXCEPT
             !["controller"] = IF stored["controller"] = TRUE THEN Absent ELSE TRUE,
             !["port"] = IF Effective(stored, "port") = echo.port THEN Absent ELSE echo.port]

\* The look at the settings that ends most operations, and every refresh of the screen.
AfterRead == IF client.field = "corelog" /\ client.wasActive THEN Goto("restart") ELSE Ends("saved")
ReadSettings ==
    /\ Phase("read")
    /\ UNCHANGED <<generated, core, desktop, wish, changes>>
    /\ \/ stored = Unreadable /\ UNCHANGED stored /\ Ends("failed")
       \/ /\ stored # Unreadable
          /\ \E echo \in Echoes :
                \/ stored' = PatchConfig(stored, Sync(echo)) /\ AfterRead
                \/ Sync(echo) # NoFields /\ WriteFails /\ Ends("failed")

RestartForLog ==
    /\ Phase("restart")
    /\ \/ (RestartAccepted \/ RestartNotAccepted) /\ client' = [Done("none") EXCEPT !.phase = "read"]
       \/ RestartFails /\ Ends("failed")
    /\ UNCHANGED <<stored, desktop, wish, changes>>

-----------------------------------------------------------------------------
(* What happens around the client.                                         *)

\* A start by a key or a command, by the service, or by somebody else.
CoreStarts ==
    /\ core = Stopped
    /\ \/ stored # Unreadable /\ generated' = OwnConfig /\ core' = Running("own", OwnConfig)
       \/ /\ UNCHANGED generated
          /\ \E l \in Foreign : core' = Running("foreign", [Config(NoFields, FALSE) EXCEPT !.listens = l])
    /\ UNCHANGED <<stored, desktop, client, wish, changes>>

CoreEnds == core # Stopped /\ core' = Stopped /\ UNCHANGED <<stored, generated, desktop, client, wish, changes>>

\* Somebody edits the file by hand and makes a mistake.
EditWrongly ==
    /\ Phase("idle") /\ stored' = Unreadable
    /\ UNCHANGED <<generated, core, desktop, client, wish, changes>>

\* A validation of the DNS file generates with DNS on, over the file of the core.
ValidateDns ==
    /\ stored # Unreadable /\ generated' = Config(stored, TRUE)
    /\ UNCHANGED <<stored, core, desktop, client, wish, changes>>

SettingsInit ==
    /\ stored = NoFields
    /\ generated = OwnConfig
    /\ core = Stopped /\ desktop = "none"
    /\ client = Done("none")
    /\ wish = FALSE
    /\ changes = 0

SettingsNext ==
    \/ \E f \in Fields : \E value \in Values(f) : Change(f, value)
    \/ Look \/ SaveChange \/ GenerateChange \/ ApplyChange \/ WaitForController \/ SetDesktop \/ Rollback \/ ReadSettings \/ RestartForLog
    \/ CoreStarts \/ CoreEnds \/ EditWrongly \/ ValidateDns

SettingsSpec == SettingsInit /\ [][SettingsNext]_settingsVars

-----------------------------------------------------------------------------
(* Properties.                                                             *)

SettingsTypeOK ==
    /\ stored = Unreadable \/ \A f \in Fields : stored[f] \in Values(f) \cup {Absent}
    /\ core = Stopped \/ core.owner \in {"own", "foreign"}
    /\ desktop \in {"none", "manual", "half"}
    /\ client.phase \in {"idle", "save", "generate", "apply", "wait", "desktop", "rollback", "read", "restart"}
    /\ wish \in BOOLEAN /\ changes \in 0..MaxChanges

\* A rollback that is written leaves every setting as it was before the operation, one that was
\* never made at its default, and the switch of the desktop's proxy is reported as rolled back
\* only then.  (A DNS switch that had never been set is the exception: a patch cannot take it
\* back.)  Of DNS and the download strategy no more can be said: they report a rollback whose
\* write failed as well, and the change stays.
RevertedMeansRestored ==
    [][Phase("rollback") /\ client'.phase = "idle" /\ (RollbackWritten \/ (client.field = "proxy" /\ client'.outcome = "reverted")) =>
          \A f \in Fields : f # "dns" \/ client.field # "dns" \/ client.prior["dns"] # Absent
                            => Effective(stored', f) = Effective(client.prior, f)]_settingsVars

\* When a switch is reported as applied, it is in force: the core that runs, if one of ours
\* runs, has the TUN setting, or listens where the settings say; the desktop's proxy is set.
AppliedMeansInForce ==
    [][client.outcome # "applied" /\ client'.outcome = "applied" =>
          LET ours == core'.state = "running" /\ core'.owner = "own"
          IN CASE client.field = "tun" -> ours /\ core'.config.tun = client.to
               [] client.field \in {"controller", "port"} ->
                     ours /\ Effective(stored', "controller") =>
                         core'.config.listens = [on |-> TRUE, port |-> Effective(stored', "port"), safe |-> TRUE]
               [] client.field = "proxy" -> (desktop' = "manual") = client.to
               [] OTHER -> TRUE]_settingsVars

\* "mihomo's external controller is only enabled when the user explicitly turns it on"
\* (README.en.md): the setting is on only if the user last switched it on, or was told that
\* switching it off failed.
ControllerOnlyWhenAsked == stored # Unreadable /\ Effective(stored, "controller") => wish
=============================================================================
