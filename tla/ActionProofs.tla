---------------------------- MODULE ActionProofs ----------------------------
(***************************************************************************)
(* Theorems about Settings, Selections and Subscription: what an operation *)
(* of the user, or one that the clock starts, reports is what holds after  *)
(* it.  The parts share no state, so each has a specification, an          *)
(* invariant and theorems of its own.                                      *)
(***************************************************************************)
EXTENDS Settings, Selections, Subscription, TLAPS

-----------------------------------------------------------------------------
(***************************************************************************)
(* Settings: the invariant.                                                *)

\* Where a core may listen, what it may run with (one of ours is only safe with an address of its own),
\* and what may run.
Addresses == [on : BOOLEAN, port : Ports, safe : BOOLEAN]
AnyConfigs == [tun : BOOLEAN, dns : BOOLEAN, direct : BOOLEAN, corelog : BOOLEAN, listens : Addresses]
OwnConfigs == {c \in AnyConfigs : c.listens.safe}
Runs(whose, configs) == [state : {"running"}, owner : {whose}, config : configs]
Cores == {Stopped} \cup Runs("own", OwnConfigs) \cup Runs("foreign", AnyConfigs)

\* The two files, the core and the desktop.
World ==
    /\ stored \in Files \cup {Unreadable}
    /\ generated \in OwnConfigs
    /\ core \in Cores
    /\ desktop \in {"none", "manual", "half"}
    /\ wish \in BOOLEAN /\ changes \in 0..MaxChanges

\* The operation under way.
Phases == {"idle", "save", "generate", "apply", "wait", "desktop", "rollback", "read", "restart"}
Outcomes == {"none", "failed", "saved", "applied", "reverted"}
SettingsClients(values) ==
    [phase : Phases, field : Fields \cup {"none"}, to : values, patch : Files, prior : Files,
     wasActive : BOOLEAN, outcome : Outcomes]

\* The fields an operation may change that is in a phase.
FieldsIn(phase) ==
    CASE phase \in {"generate", "apply"} -> {"tun", "dns", "direct", "controller", "port"}
      [] phase = "wait" -> {"controller", "port"}
      [] phase = "desktop" -> {"proxy"}
      [] phase = "rollback" -> Careful
      [] phase = "save" -> Fields
      [] OTHER -> Fields \cup {"none"}

\* What an operation writes over the settings: a new port switches the controller on, if it was off.
Patches(f, value) ==
    {Only(f, value)} \cup (IF f = "port" THEN {[Only(f, value) EXCEPT !["controller"] = TRUE]} ELSE {})

\* An operation is between its request and its report.
Working == client.phase \notin {"idle", "read", "restart"}

\* While it is, the settings on the disk are those it found with its patch over them, and before it has
\* written them, those it will roll back to.
Asking ==
    /\ client \in SettingsClients(Values(client.field))
    /\ client.field \in FieldsIn(client.phase)
    /\ Working => client.patch \in Patches(client.field, client.to) /\ client.outcome = "none"
    /\ client.phase = "save" /\ client.field \in Careful => stored = client.prior
    /\ Working /\ client.phase # "save" => stored = PatchConfig(client.prior, client.patch)

SettingsInv == World /\ Asking

-----------------------------------------------------------------------------
(* Types of the operators of Settings.                                     *)

LEMMA FilesAre ==
    \A s : s \in Files <=>
        /\ s = [f \in Fields |-> s[f]]
        /\ \A f \in Fields : s[f] \in Values(f) \cup {Absent}
<1>1. ASSUME NEW s, s \in Files
      PROVE  s = [f \in Fields |-> s[f]] /\ \A f \in Fields : s[f] \in Values(f) \cup {Absent}
  <2>1. PICK b \in [Switches -> BOOLEAN \cup {Absent}], p \in Ports \cup {Absent} : s = File(b, p)
    BY <1>1 DEF Files
  <2> QED BY <2>1 DEF File, Fields, Switches, Values
<1>2. ASSUME NEW s, s = [f \in Fields |-> s[f]], \A f \in Fields : s[f] \in Values(f) \cup {Absent}
      PROVE  s \in Files
  <2> DEFINE b == [f \in Switches |-> s[f]]
  <2>1. b \in [Switches -> BOOLEAN \cup {Absent}] /\ s["port"] \in Ports \cup {Absent}
    BY <1>2 DEF Fields, Switches, Values
  <2>2. File(b, s["port"]) = [f \in Fields |-> s[f]]
    BY DEF File, Fields, Switches
  <2> QED BY <1>2, <2>1, <2>2 DEF Files
<1> QED BY <1>1, <1>2

LEMMA PatchConfigType == \A s, patch \in Files : PatchConfig(s, patch) \in Files
  BY FilesAre DEF PatchConfig

LEMMA NoFieldsType == NoFields \in Files
  BY FilesAre DEF NoFields

LEMMA OnlyType == \A f \in Fields : \A v \in Values(f) \cup {Absent} : Only(f, v) \in Files
  BY FilesAre DEF Only, NoFields

LEMMA PatchesType == \A f \in Fields : \A v \in Values(f) : Patches(f, v) \subseteq Files
  BY OnlyType, FilesAre DEF Patches, Only, NoFields, Values

LEMMA EffectiveType == \A s \in Files : \A f \in Fields : Effective(s, f) \in Values(f)
  BY FilesAre, SettingsAssumption DEF Effective, Values

LEMMA ConfigType == \A s \in Files : \A dns \in BOOLEAN : Config(s, dns) \in OwnConfigs
  BY EffectiveType DEF Config, OwnConfigs, AnyConfigs, Addresses, Fields, Switches, Values

LEMMA BackType == \A s \in Files : \A f \in Careful : Back(f, s) \in Files
<1> SUFFICES ASSUME NEW s \in Files, NEW f \in Careful
             PROVE  Back(f, s) \in Files
  OBVIOUS
<1>1. \A g \in Fields : Effective(s, g) \in Values(g) /\ s[g] \in Values(g) \cup {Absent}
  BY EffectiveType, FilesAre
<1>2. CASE f \in {"controller", "port"}
  <2>1. Back(f, s) = [Only("controller", Effective(s, "controller")) EXCEPT !["port"] = Effective(s, "port")]
    BY <1>2 DEF Back
  <2> QED BY <1>1, <2>1, FilesAre DEF Only, NoFields, Fields, Switches
<1>3. CASE f \notin {"controller", "port"}
  <2>1. Back(f, s) \in {Only("dns", s["dns"]), Only(f, Effective(s, f))} /\ f \in Fields /\ "dns" \in Fields
    BY <1>3 DEF Back, Careful, Fields, Switches
  <2>2. CASE f = "dns"
    BY <1>1, <2>1, <2>2, OnlyType
  <2>3. CASE f # "dns"
    BY <1>1, <2>1, <2>3, OnlyType DEF Back
  <2> QED BY <2>2, <2>3
<1> QED BY <1>2, <1>3

LEMMA EchoesType == core \in Cores => Echoes \subseteq {Silent} \cup Addresses
  BY DEF Cores, Runs, Stopped, AnyConfigs, OwnConfigs, Echoes

LEMMA SyncType == stored \in Files => \A echo \in {Silent} \cup Addresses : Sync(echo) \in Files
<1> SUFFICES ASSUME stored \in Files, NEW echo \in {Silent} \cup Addresses, Exposes(echo)
             PROVE  Sync(echo) \in Files
  BY NoFieldsType DEF Sync
<1>1. echo.port \in Ports
  BY DEF Exposes, Addresses
<1> DEFINE c == IF stored["controller"] = TRUE THEN Absent ELSE TRUE
           p == IF Effective(stored, "port") = echo.port THEN Absent ELSE echo.port
<1>2. Sync(echo) = [NoFields EXCEPT !["controller"] = c, !["port"] = p]
  BY DEF Sync
<1>3. c \in BOOLEAN \cup {Absent} /\ p \in Ports \cup {Absent}
  BY <1>1
<1> HIDE DEF c, p
<1> QED BY <1>2, <1>3, FilesAre DEF NoFields, Values, Fields, Switches

-----------------------------------------------------------------------------
\* The client ends its operation, or goes on with it.
LEMMA RestKeeps ==
    ASSUME NEW phase \in {"idle", "read"}, NEW outcome \in Outcomes,
           client' = [phase |-> phase, field |-> "none", to |-> FALSE, patch |-> NoFields,
                      prior |-> NoFields, wasActive |-> FALSE, outcome |-> outcome]
    PROVE  Asking'
<1>1. /\ client'.field = "none" /\ client'.phase = phase
      /\ client' \in SettingsClients(BOOLEAN)
  BY NoFieldsType DEF SettingsClients, Phases
<1>2. "none" \in FieldsIn(phase) /\ Values("none") = BOOLEAN
  BY DEF FieldsIn, Values
<1> QED BY <1>1, <1>2 DEF Asking, Working

LEMMA EndsKeeps == ASSUME NEW outcome \in Outcomes, Ends(outcome) PROVE Asking'
  BY RestKeeps DEF Ends, Done

LEMMA ReadKeeps == ASSUME client' = [Done("none") EXCEPT !.phase = "read"] PROVE Asking'
<1> DEFINE done == [phase |-> "idle", field |-> "none", to |-> FALSE, patch |-> NoFields,
                    prior |-> NoFields, wasActive |-> FALSE, outcome |-> "none"]
<1>1. client' = [done EXCEPT !.phase = "read"]
  BY Zenon DEF Done
<1> QED BY <1>1, RestKeeps DEF Outcomes

LEMMA GotoKeeps ==
    ASSUME Asking, NEW phase \in Phases, Goto(phase), client.field \in FieldsIn(phase),
           phase \notin {"idle", "read", "restart", "save"} =>
               Working /\ stored' = PatchConfig(client.prior, client.patch),
           phase # "save"
    PROVE  Asking'
<1>1. client' = [client EXCEPT !.phase = phase]
  BY DEF Goto
<1>2. /\ client' \in SettingsClients(Values(client.field)) /\ client'.phase = phase
      /\ \A g \in {"field", "to", "patch", "prior", "outcome"} : client'[g] = client[g]
  BY <1>1 DEF Asking, SettingsClients
<1> QED BY <1>2 DEF Asking, Working

LEMMA RestartKeeps ==
    World /\ (RestartAccepted \/ RestartNotAccepted \/ RestartFails)
        => generated' \in OwnConfigs /\ core' \in Cores
<1> SUFFICES ASSUME World, RestartAccepted \/ RestartNotAccepted \/ RestartFails
             PROVE  generated' \in OwnConfigs /\ core' \in Cores
  OBVIOUS
<1>1. CASE RestartAccepted
  <2>1. stored \in Files /\ Effective(stored, "dns") \in BOOLEAN
    BY <1>1, EffectiveType DEF World, RestartAccepted, Fields, Switches, Values
  <2>2. OwnConfig \in OwnConfigs
    BY <2>1, ConfigType DEF OwnConfig
  <2> QED BY <1>1, <2>2 DEF RestartAccepted, Restarted, Running, Cores, Runs
<1>2. CASE RestartNotAccepted
  BY <1>2 DEF RestartNotAccepted, World
<1>3. CASE RestartFails
  BY <1>3 DEF RestartFails, World, Cores
<1> QED BY <1>1, <1>2, <1>3

\* What a busy client knows of the file.
LEMMA WhileBusy ==
    ASSUME SettingsInv, Working
    PROVE  /\ client.field \in Fields /\ client.to \in Values(client.field)
           /\ client.patch \in Files /\ client.prior \in Files
           /\ client.phase # "save" => stored \in Files
<1>1. client.field \in Fields /\ client.to \in Values(client.field)
      /\ client.prior \in Files /\ client.patch \in Files
  BY DEF SettingsInv, Asking, SettingsClients, FieldsIn, Phases, Working, Careful, Fields, Switches
<1> QED BY <1>1, PatchConfigType DEF SettingsInv, Asking, Working

LEMMA ChangeKeeps ==
    ASSUME SettingsInv, NEW f \in Fields, NEW value \in Values(f), Change(f, value)
    PROVE  SettingsInv'
<1>1. World'
  BY SettingsAssumption DEF SettingsInv, World, Change
<1>2. ASSUME NEW patch \in Patches(f, value), NEW prior \in Files, Begin(f, value, patch, prior),
             f \in Careful => stored' = prior
      PROVE  Asking'
  <2>1. client' = [phase |-> "save", field |-> f, to |-> value, patch |-> patch, prior |-> prior,
                   wasActive |-> Active, outcome |-> "none"]
    BY <1>2 DEF Begin
  <2>2. patch \in Files /\ Active \in BOOLEAN
    BY PatchesType DEF Active
  <2> QED BY <1>2, <2>1, <2>2 DEF Asking, SettingsClients, Phases, FieldsIn, Working, Outcomes
<1>3. stored # Unreadable => stored \in Files
  BY DEF SettingsInv, World
<1>4. stored' = stored
  BY DEF Change
<1>5. CASE f \in Careful /\ stored = Unreadable /\ Ends("failed")
  BY <1>1, <1>5, EndsKeeps DEF SettingsInv, Outcomes
<1>6. CASE f \in Careful \ {"port"} /\ stored # Unreadable /\ Begin(f, value, Only(f, value), stored)
  BY <1>1, <1>2, <1>3, <1>4, <1>6 DEF SettingsInv, Patches
<1>7. CASE f \notin Careful /\ Begin(f, value, Only(f, value), NoFields)
  BY <1>1, <1>2, <1>7, NoFieldsType DEF SettingsInv, Patches
<1>8. ASSUME f = "port", stored # Unreadable, NEW echo \in Echoes,
             Begin(f, value, [Only(f, value) EXCEPT !["controller"] = PreserveEnabled(echo)], stored)
      PROVE  SettingsInv'
  <2>1. [Only(f, value) EXCEPT !["controller"] = PreserveEnabled(echo)] \in Patches(f, value)
    BY <1>8 DEF PreserveEnabled, Patches, Only, NoFields, Fields, Switches
  <2> QED BY <1>1, <1>2, <1>3, <1>4, <1>8, <2>1 DEF SettingsInv
<1> QED BY <1>5, <1>6, <1>7, <1>8 DEF Change

LEMMA SaveKeeps == SettingsInv /\ SaveChange => SettingsInv'
<1> SUFFICES ASSUME SettingsInv, SaveChange
             PROVE  SettingsInv'
  OBVIOUS
<1>1. Working /\ client.phase = "save"
  BY DEF SaveChange, Phase, Working
<1>2. CASE WriteFails /\ Ends("failed") /\ UNCHANGED wish
  <2>1. Asking'
    BY <1>2, EndsKeeps DEF Outcomes
  <2> QED BY <1>2, <2>1 DEF SettingsInv, World, WriteFails, SaveChange
<1>3. CASE /\ Write(client.patch) /\ Goto(AfterSave)
           /\ wish' = IF client.field = "controller" THEN client.to ELSE wish
  <2>1. client.field \in Fields /\ client.patch \in Files /\ client.to \in Values(client.field)
    BY <1>1, WhileBusy
  <2>2. LoadedOrDefault \in Files
    BY NoFieldsType DEF LoadedOrDefault, SettingsInv, World
  <2>3. stored' \in Files
    BY <1>3, <2>1, <2>2, PatchConfigType DEF Write
  <2>4. World'
    BY <1>3, <2>1, <2>3 DEF SettingsInv, World, SaveChange, Values
  <2>5. AfterSave \in Phases /\ AfterSave # "save" /\ client.field \in FieldsIn(AfterSave)
    BY <2>1 DEF AfterSave, Phases, FieldsIn, Fields, Switches
  <2>6. CASE client.field \in Careful
    <3>1. LoadedOrDefault = client.prior
      BY <1>1, <2>6, WhileBusy, SettingsAssumption
         DEF LoadedOrDefault, SettingsInv, Asking
    <3>2. stored' = PatchConfig(client.prior, client.patch)
      BY <1>3, <3>1 DEF Write
    <3>3. Asking'
      BY <1>1, <1>3, <2>5, <3>2, GotoKeeps DEF SettingsInv
    <3> QED BY <2>4, <3>3 DEF SettingsInv
  <2>7. CASE client.field \notin Careful
    <3>1. AfterSave = "read"
      BY <2>7 DEF AfterSave, Careful
    <3>2. Asking'
      BY <1>3, <2>5, <3>1, GotoKeeps DEF SettingsInv
    <3> QED BY <2>4, <3>2 DEF SettingsInv
  <2> QED BY <2>6, <2>7
<1> QED BY <1>2, <1>3 DEF SaveChange

LEMMA LookKeeps == SettingsInv /\ Look => SettingsInv'
  BY ReadKeeps DEF SettingsInv, World, Look

LEMMA GenerateKeeps == SettingsInv /\ GenerateChange => SettingsInv'
<1> SUFFICES ASSUME SettingsInv, GenerateChange
             PROVE  SettingsInv'
  OBVIOUS
<1>1. /\ Working /\ client.phase = "generate" /\ stored' = stored
      /\ stored = PatchConfig(client.prior, client.patch)
  BY DEF GenerateChange, Phase, Working, SettingsInv, Asking
<1>2. client.field \in FieldsIn("apply") /\ client.field \in FieldsIn("rollback")
  BY <1>1 DEF SettingsInv, Asking, FieldsIn, Careful
<1>3. generated' \in OwnConfigs
  <2>1. \A dns \in BOOLEAN : Config(stored, dns) \in OwnConfigs
    BY <1>1, WhileBusy, ConfigType
  <2>2. Effective(stored, "dns") \in BOOLEAN /\ (client.field = "dns" => client.to \in BOOLEAN)
    BY <1>1, WhileBusy, EffectiveType DEF Values, Fields, Switches
  <2> QED BY <2>1, <2>2 DEF GenerateChange, SettingsInv, World
<1>4. World'
  BY <1>3 DEF SettingsInv, World, GenerateChange
<1>5. Asking'
  BY <1>1, <1>2, GotoKeeps DEF GenerateChange, SettingsInv, Phases
<1> QED BY <1>4, <1>5 DEF SettingsInv

LEMMA ApplyChangeKeeps == SettingsInv /\ ApplyChange => SettingsInv'
<1> SUFFICES ASSUME SettingsInv, ApplyChange
             PROVE  SettingsInv'
  OBVIOUS
<1>1. /\ Working /\ client.phase = "apply" /\ stored' = stored
      /\ stored = PatchConfig(client.prior, client.patch)
      /\ UNCHANGED <<desktop, wish, changes>>
  BY DEF ApplyChange, Phase, Working, SettingsInv, Asking
<1>2. /\ client.field \in FieldsIn("rollback") /\ client.field \in FieldsIn("read")
      /\ client.field \in {"controller", "port"} => client.field \in FieldsIn("wait")
  BY <1>1 DEF SettingsInv, Asking, FieldsIn, Careful, Fields, Switches
<1>3. \A next \in {"rollback", "read"} : Goto(next) => Asking'
  BY <1>1, <1>2, GotoKeeps DEF SettingsInv, Phases
<1>4. \A outcome \in Outcomes : Ends(outcome) => Asking'
  BY EndsKeeps
<1>5. client.field \in {"controller", "port"} /\ Goto("wait") => Asking'
  BY <1>1, <1>2, GotoKeeps DEF SettingsInv, Phases
<1>6. generated' \in OwnConfigs /\ core' \in Cores => World'
  BY <1>1 DEF SettingsInv, World
<1>7. UNCHANGED <<generated, core>> => generated' \in OwnConfigs /\ core' \in Cores
  BY DEF SettingsInv, World
<1>8. RestartAccepted \/ RestartNotAccepted \/ RestartFails
        => generated' \in OwnConfigs /\ core' \in Cores
  BY RestartKeeps DEF SettingsInv
<1>9. CASE ApplyDns
  BY <1>3, <1>6, <1>7, <1>8, <1>9 DEF ApplyDns, SettingsInv
<1>10. CASE ApplyTun
  BY <1>4, <1>6, <1>7, <1>8, <1>10 DEF ApplyTun, SettingsInv, Outcomes
<1>11. CASE ApplyController
  BY <1>4, <1>5, <1>6, <1>7, <1>8, <1>11 DEF ApplyController, SettingsInv, Outcomes
<1>12. CASE ApplyDirect
  <2>1. core' = [core EXCEPT !.config = generated] /\ core.state = "running" => core' \in Cores
    BY DEF SettingsInv, World, Cores, Runs, Stopped, OwnConfigs
  <2> QED BY <1>3, <1>6, <1>7, <1>12, <2>1 DEF ApplyDirect, SettingsInv, World
<1> QED BY <1>9, <1>10, <1>11, <1>12 DEF ApplyChange

LEMMA WaitKeeps == SettingsInv /\ WaitForController => SettingsInv'
<1> SUFFICES ASSUME SettingsInv, WaitForController
             PROVE  SettingsInv'
  OBVIOUS
<1>1. Ends("applied") \/ Ends("saved")
  BY DEF WaitForController
<1>2. Asking'
  BY <1>1, EndsKeeps DEF Outcomes
<1> QED BY <1>2 DEF SettingsInv, World, WaitForController

LEMMA DesktopKeeps == SettingsInv /\ SetDesktop => SettingsInv'
<1> SUFFICES ASSUME SettingsInv, SetDesktop
             PROVE  SettingsInv'
  OBVIOUS
<1>1. /\ Working /\ client.phase = "desktop" /\ stored' = stored
      /\ stored = PatchConfig(client.prior, client.patch)
  BY DEF SetDesktop, Phase, Working, SettingsInv, Asking
<1>2. client.field \in FieldsIn("rollback")
  BY <1>1 DEF SettingsInv, Asking, FieldsIn, Careful
<1>3. Goto("rollback") => Asking'
  BY <1>1, <1>2, GotoKeeps DEF SettingsInv, Phases
<1>4. Ends("applied") => Asking'
  BY EndsKeeps DEF Outcomes
<1> QED BY <1>3, <1>4 DEF SettingsInv, World, SetDesktop

LEMMA RollbackWrites ==
    ASSUME SettingsInv, Rollback
    PROVE  /\ Working /\ client.phase = "rollback" /\ client.field \in Careful
           /\ client.prior \in Files /\ stored \in Files
           /\ stored = PatchConfig(client.prior, client.patch)
           /\ Write(Back(client.field, client.prior))
                => stored' = PatchConfig(stored, Back(client.field, client.prior)) /\ stored' \in Files
<1>1. Working /\ client.phase = "rollback" /\ stored = PatchConfig(client.prior, client.patch)
  BY DEF Rollback, Phase, Working, SettingsInv, Asking
<1>2. client.field \in Careful /\ stored \in Files /\ client.prior \in Files
  BY <1>1, WhileBusy DEF SettingsInv, Asking, FieldsIn
<1>3. LoadedOrDefault = stored
  BY <1>2, SettingsAssumption DEF LoadedOrDefault
<1> QED BY <1>1, <1>2, <1>3, BackType, PatchConfigType DEF Write

LEMMA RollbackKeeps == SettingsInv /\ Rollback => SettingsInv'
<1> SUFFICES ASSUME SettingsInv, Rollback
             PROVE  SettingsInv'
  OBVIOUS
<1>1. stored' \in Files \cup {Unreadable} /\ Asking'
  BY RollbackWrites, EndsKeeps
     DEF Rollback, RollbackWritten, RollbackLost, RollbackReport, WriteFails, SettingsInv, World, Outcomes
<1>2. generated' \in OwnConfigs /\ core' \in Cores
  <2>1. CASE UNCHANGED <<generated, core>>
    BY <2>1 DEF SettingsInv, World
  <2>2. CASE ~UNCHANGED <<generated, core>>
    <3> DEFINE again == Config(stored', Effective(stored', "dns"))
    <3>1. /\ stored' # Unreadable /\ generated' = again
          /\ core' = core \/ (core.state = "running" /\ core' = [core EXCEPT !.config = again])
      BY <2>2 DEF Rollback
    <3>2. again \in OwnConfigs
      BY <1>1, <3>1, ConfigType, EffectiveType DEF Fields, Switches, Values
    <3> HIDE DEF again
    <3>3. core.state = "running" => [core EXCEPT !.config = again] \in Cores
      BY <3>2 DEF SettingsInv, World, Cores, Runs, Stopped, OwnConfigs
    <3> QED BY <3>1, <3>2, <3>3 DEF SettingsInv, World
  <2> QED BY <2>1, <2>2
<1>3. wish' \in BOOLEAN
  BY DEF Rollback
<1> QED BY <1>1, <1>2, <1>3 DEF SettingsInv, World, Rollback

LEMMA ReadSettingsKeeps == SettingsInv /\ ReadSettings => SettingsInv'
<1> SUFFICES ASSUME SettingsInv, ReadSettings
             PROVE  SettingsInv'
  OBVIOUS
<1>1. stored' \in Files \cup {Unreadable}
  <2>1. ASSUME stored # Unreadable, NEW echo \in Echoes, stored' = PatchConfig(stored, Sync(echo))
        PROVE  stored' \in Files
    BY <2>1, SyncType, EchoesType, PatchConfigType DEF SettingsInv, World
  <2> QED BY <2>1 DEF ReadSettings, WriteFails, SettingsInv, World
<1>2. client.field \in FieldsIn("restart")
  BY DEF SettingsInv, Asking, SettingsClients, FieldsIn
<1>3. Goto("restart") => Asking'
  BY <1>2, GotoKeeps DEF SettingsInv, Phases
<1>4. \A outcome \in Outcomes : Ends(outcome) => Asking'
  BY EndsKeeps
<1>5. Asking'
  BY <1>3, <1>4 DEF ReadSettings, AfterRead, Outcomes
<1> QED BY <1>1, <1>5 DEF SettingsInv, World, ReadSettings

LEMMA RestartForLogKeeps == SettingsInv /\ RestartForLog => SettingsInv'
<1> SUFFICES ASSUME SettingsInv, RestartForLog
             PROVE  SettingsInv'
  OBVIOUS
<1>1. generated' \in OwnConfigs /\ core' \in Cores
  BY RestartKeeps DEF SettingsInv, RestartForLog
<1>2. Asking'
  BY ReadKeeps, EndsKeeps DEF RestartForLog, Outcomes
<1> QED BY <1>1, <1>2 DEF SettingsInv, World, RestartForLog

LEMMA AroundKeeps == SettingsInv /\ (CoreStarts \/ CoreEnds \/ EditWrongly \/ ValidateDns) => SettingsInv'
<1> SUFFICES ASSUME SettingsInv, CoreStarts \/ CoreEnds \/ EditWrongly \/ ValidateDns
             PROVE  SettingsInv'
  OBVIOUS
<1>1. \A dns \in BOOLEAN : stored # Unreadable => Config(stored, dns) \in OwnConfigs /\ OwnConfig \in OwnConfigs
  BY ConfigType, EffectiveType DEF SettingsInv, World, OwnConfig, Fields, Switches, Values
<1>2. CASE CoreStarts
  <2>1. stored # Unreadable => Running("own", OwnConfig) \in Cores /\ OwnConfig \in OwnConfigs
    BY <1>1 DEF Running, Cores, Runs
  <2>2. Config(NoFields, FALSE) \in AnyConfigs
    BY ConfigType, NoFieldsType DEF OwnConfigs
  <2>3. \A l \in Foreign : Running("foreign", [Config(NoFields, FALSE) EXCEPT !.listens = l]) \in Cores
    BY <2>2, SettingsAssumption DEF Running, Cores, Runs, AnyConfigs, Addresses
  <2>4. generated' \in OwnConfigs /\ core' \in Cores
    BY <1>2, <2>1, <2>3 DEF CoreStarts, SettingsInv, World
  <2> QED BY <1>2, <2>4 DEF CoreStarts, SettingsInv, World, Asking, Working
<1>3. CASE CoreEnds
  BY <1>3 DEF CoreEnds, SettingsInv, World, Asking, Cores, Working
<1>4. CASE EditWrongly
  BY <1>4 DEF EditWrongly, SettingsInv, World, Asking, Working, Phase
<1>5. CASE ValidateDns
  BY <1>1, <1>5 DEF ValidateDns, SettingsInv, World, Asking, Working
<1> QED BY <1>2, <1>3, <1>4, <1>5

LEMMA SettingsStart == SettingsInit => SettingsInv
<1> SUFFICES ASSUME SettingsInit
             PROVE  SettingsInv
  OBVIOUS
<1>1. client = [phase |-> "idle", field |-> "none", to |-> FALSE, patch |-> NoFields,
                prior |-> NoFields, wasActive |-> FALSE, outcome |-> "none"]
  BY DEF SettingsInit, Done
<1>2. client \in SettingsClients(BOOLEAN) /\ "none" \in FieldsIn("idle") /\ Values("none") = BOOLEAN
  BY <1>1, NoFieldsType DEF SettingsClients, Phases, Outcomes, FieldsIn, Values
<1>3. Asking
  BY <1>1, <1>2 DEF Asking, Working
<1>4. Effective(NoFields, "dns") \in BOOLEAN
  BY EffectiveType, NoFieldsType DEF Fields, Switches, Values
<1>5. Config(NoFields, Effective(NoFields, "dns")) \in OwnConfigs
  BY <1>4, ConfigType, NoFieldsType
<1>6. generated \in OwnConfigs
  BY <1>5, Zenon DEF SettingsInit, OwnConfig
<1>7. core \in Cores /\ changes \in 0..MaxChanges
  BY SettingsAssumption DEF SettingsInit, Cores
<1> QED BY <1>3, <1>6, <1>7, NoFieldsType DEF SettingsInv, World, SettingsInit

LEMMA SettingsStep == SettingsInv /\ [SettingsNext]_settingsVars => SettingsInv'
<1>1. SettingsInv /\ UNCHANGED settingsVars => SettingsInv'
  BY DEF SettingsInv, World, Asking, settingsVars, Working
<1> QED BY <1>1, ChangeKeeps, LookKeeps, SaveKeeps, GenerateKeeps, ApplyChangeKeeps, WaitKeeps,
           DesktopKeeps, RollbackKeeps, ReadSettingsKeeps, RestartForLogKeeps, AroundKeeps
        DEF SettingsNext

\* The invariant of the settings: whichever operation is where, its record agrees with the file it has
\* written and the one it would put back (actions/config.rs).
THEOREM SettingsInvariant == SettingsSpec => []SettingsInv
  BY SettingsStart, SettingsStep, PTL DEF SettingsSpec

\* Type correctness of the settings, for any ports, bound of changes and cores of others.
THEOREM SettingsTypeCorrect == SettingsSpec => []SettingsTypeOK
<1>1. SettingsInv => SettingsTypeOK
  <2> SUFFICES ASSUME SettingsInv
               PROVE  SettingsTypeOK
    OBVIOUS
  <2>1. stored = Unreadable \/ \A f \in Fields : stored[f] \in Values(f) \cup {Absent}
    BY FilesAre DEF SettingsInv, World
  <2>2. core = Stopped \/ core.owner \in {"own", "foreign"}
    BY DEF SettingsInv, World, Cores, Runs
  <2>3. client.phase \in Phases
    BY DEF SettingsInv, Asking, SettingsClients
  <2> QED BY <2>1, <2>2, <2>3 DEF SettingsTypeOK, SettingsInv, World, Phases
<1> QED BY <1>1, SettingsInvariant, PTL

\* What a rollback patches back is, for every field, what the field was.
LEMMA BackRestores ==
    ASSUME NEW s \in Files, NEW f \in Careful, NEW value \in Values(f), NEW patch \in Patches(f, value),
           NEW g \in Fields, g # "dns" \/ f # "dns" \/ s["dns"] # Absent
    PROVE  Effective(PatchConfig(PatchConfig(s, patch), Back(f, s)), g) = Effective(s, g)
<1>1. \A h \in Fields : s[h] \in Values(h) \cup {Absent} /\ Effective(s, h) \in Values(h)
  BY FilesAre, EffectiveType
<1>2. \A h \in Fields : Effective(s, h) # Absent
  BY <1>1, SettingsAssumption DEF Values
<1> DEFINE b == Back(f, s)
           after == PatchConfig(PatchConfig(s, patch), b)
<1>3. after[g] = IF b[g] # Absent THEN b[g] ELSE IF patch[g] # Absent THEN patch[g] ELSE s[g]
  BY DEF PatchConfig
<1>4. CASE f \in {"controller", "port"}
  <2>1. b = [Only("controller", Effective(s, "controller")) EXCEPT !["port"] = Effective(s, "port")]
    BY <1>4 DEF Back
  <2>2. CASE g \in {"controller", "port"}
    <3>1. b[g] = Effective(s, g)
      BY <2>1, <2>2 DEF Only, NoFields, Fields, Switches
    <3> QED BY <1>2, <1>3, <3>1 DEF Effective
  <2>3. CASE g \notin {"controller", "port"}
    <3>1. b[g] = Absent
      BY <2>1, <2>3 DEF Only, NoFields, Fields, Switches
    <3>2. patch[g] = Absent
      BY <1>4, <2>3 DEF Patches, Only, NoFields, Fields, Switches
    <3> QED BY <1>3, <3>1, <3>2 DEF Effective
  <2> QED BY <2>2, <2>3
<1>5. CASE f \notin {"controller", "port"}
  <2>1. b = Only(f, IF f = "dns" THEN s["dns"] ELSE Effective(s, f)) /\ f \in Fields
    BY <1>5 DEF Back, Careful, Fields, Switches
  <2>2. CASE g = f
    <3>1. b[g] = IF f = "dns" THEN s["dns"] ELSE Effective(s, f)
      BY <2>1, <2>2 DEF Only, NoFields
    <3> QED BY <1>2, <1>3, <2>2, <3>1 DEF Effective
  <2>3. CASE g # f
    <3>1. b[g] = Absent
      BY <2>1, <2>3 DEF Only, NoFields
    <3>2. patch[g] = Absent
      BY <1>5, <2>3 DEF Patches, Only, NoFields
    <3> QED BY <1>3, <3>1, <3>2 DEF Effective
  <2> QED BY <2>2, <2>3
<1> QED BY <1>4, <1>5

\* A rollback that is written has left the settings as they were before the change, and so has one that the
\* switch of the desktop reports (the rollbacks of actions/config.rs and system.rs), for every field that has a
\* rollback and everything the file may say.
THEOREM SettingsReverted == SettingsSpec => RevertedMeansRestored
<1> DEFINE Restores ==
        Phase("rollback") /\ client'.phase = "idle" /\ (RollbackWritten \/ (client.field = "proxy" /\ client'.outcome = "reverted")) =>
            \A f \in Fields : f # "dns" \/ client.field # "dns" \/ client.prior["dns"] # Absent
                                => Effective(stored', f) = Effective(client.prior, f)
<1>1. SettingsInv /\ [SettingsNext]_settingsVars => [Restores]_settingsVars
  <2> SUFFICES ASSUME SettingsInv, SettingsNext, Phase("rollback"), client'.phase = "idle",
                      RollbackWritten \/ (client.field = "proxy" /\ client'.outcome = "reverted")
               PROVE  Restores
    OBVIOUS
  <2>1. client.outcome = "none" /\ Working /\ client.phase = "rollback"
    BY DEF Phase, Working, SettingsInv, Asking
  <2>2. client' # client
    BY <2>1
  <2>3. Rollback
    BY <2>1, <2>2 DEF SettingsNext, Change, Look, SaveChange, GenerateChange, ApplyChange,
                WaitForController, SetDesktop, ReadSettings, RestartForLog, CoreStarts, CoreEnds,
                EditWrongly, ValidateDns, Phase
  <2>4. Write(Back(client.field, client.prior))
    <3>1. CASE RollbackWritten
      BY <3>1 DEF RollbackWritten
    <3>2. CASE client.field = "proxy" /\ client'.outcome = "reverted"
      <4>1. RollbackLost => client'.outcome = "failed"
        BY <3>2 DEF RollbackLost, RollbackReport, Ends, Done
      <4> QED BY <2>3, <3>2, <4>1 DEF Rollback, RollbackWritten
    <3> QED BY <3>1, <3>2
  <2>5. stored' = PatchConfig(PatchConfig(client.prior, client.patch), Back(client.field, client.prior))
    BY <2>3, <2>4, RollbackWrites
  <2>6. /\ client.prior \in Files /\ client.field \in Careful /\ client.to \in Values(client.field)
        /\ client.patch \in Patches(client.field, client.to)
    BY <2>1, <2>3, RollbackWrites, WhileBusy DEF SettingsInv, Asking
  <2> QED BY <2>5, <2>6, BackRestores
<1> HIDE DEF Restores
<1>2. SettingsSpec => [][Restores]_settingsVars
  BY <1>1, SettingsInvariant, PTL DEF SettingsSpec
<1> QED BY <1>2 DEF Restores, RevertedMeansRestored

\* An echo that matches comes from a core that listens where the settings say.
LEMMA ListensAsStored ==
    ASSUME SettingsInv, core.state = "running", core.owner = "own", Effective(stored, "controller"),
           (\E echo \in Echoes : EchoMatches(echo)) \/ PortOpen
    PROVE  core.config.listens = [on |-> TRUE, port |-> Effective(stored, "port"), safe |-> TRUE]
<1>1. core.config \in OwnConfigs
  BY DEF SettingsInv, World, Cores, Runs, Stopped
<1>2. core.config.listens \in Addresses /\ core.config.listens.safe = TRUE
  BY <1>1 DEF OwnConfigs, AnyConfigs, Addresses
<1>3. core.config.listens.on = TRUE /\ core.config.listens.port = Effective(stored, "port")
  <2>1. CASE PortOpen
    BY <1>2, <2>1 DEF PortOpen, Addresses
  <2>2. ASSUME NEW echo \in Echoes, EchoMatches(echo)
        PROVE  echo = core.config.listens /\ Exposes(echo) /\ echo.port = Effective(stored, "port")
    BY <2>2 DEF EchoMatches, Echoes
  <2> QED BY <1>2, <2>1, <2>2 DEF Exposes, Addresses
<1> QED BY <1>2, <1>3 DEF Addresses

\* Where a core that was restarted with the settings listens.
LEMMA RestartedAsStored ==
    ASSUME SettingsInv, RestartAccepted
    PROVE  core' = [state |-> "running", owner |-> "own", config |-> OwnConfig]
  BY DEF RestartAccepted, Restarted, Running

\* What an operation reports.
LEMMA Reports ==
    /\ \A phase : SettingsInv /\ Goto(phase) => client'.outcome = client.outcome
    /\ \A outcome : Ends(outcome) => client'.outcome = outcome
    /\ client' = [Done("none") EXCEPT !.phase = "read"] => client'.outcome = "none"
<1>1. ASSUME NEW phase, SettingsInv, Goto(phase)
      PROVE  client'.outcome = client.outcome
  BY <1>1 DEF Goto, SettingsInv, Asking, SettingsClients
<1>2. \A outcome : Ends(outcome) => client'.outcome = outcome
  BY DEF Ends, Done
<1>3. ASSUME client' = [Done("none") EXCEPT !.phase = "read"]
      PROVE  client'.outcome = "none"
  <2> DEFINE done == [phase |-> "idle", field |-> "none", to |-> FALSE, patch |-> NoFields,
                      prior |-> NoFields, wasActive |-> FALSE, outcome |-> "none"]
  <2>1. client' = [done EXCEPT !.phase = "read"]
    BY <1>3, Zenon DEF Done
  <2> QED BY <2>1
<1> QED BY <1>1, <1>2, <1>3

\* The steps that report a change as applied.
LEMMA WhoApplies ==
    ASSUME SettingsInv, SettingsNext, client.outcome # "applied", client'.outcome = "applied"
    PROVE  /\ Working /\ stored' = stored
           /\ \/ client.phase = "apply" /\ client.field = "tun" /\ RestartAccepted
              \/ /\ client.phase = "apply" /\ client.field \in {"controller", "port"}
                 /\ ~Effective(stored, "controller")
              \/ WaitForController /\ client.phase = "wait"
              \/ SetDesktop /\ Ends("applied") /\ client.phase = "desktop"
<1>1. /\ \A phase : ~Goto(phase)
      /\ \A outcome : Ends(outcome) => outcome = "applied"
      /\ client' # [Done("none") EXCEPT !.phase = "read"]
      /\ client' # client
  BY Reports
<1>2. \A f, value, patch, prior : ~Begin(f, value, patch, prior)
  BY DEF Begin
<1>3. ~(\E f \in Fields : \E value \in Values(f) : Change(f, value))
  BY <1>1, <1>2 DEF Change
<1>4. ~(Look \/ SaveChange \/ GenerateChange \/ Rollback \/ ReadSettings \/ RestartForLog)
  BY <1>1 DEF Look, SaveChange, GenerateChange, Rollback, RollbackWritten, RollbackLost, RollbackReport,
             ReadSettings, AfterRead, RestartForLog
<1>5. ~(CoreStarts \/ CoreEnds \/ EditWrongly \/ ValidateDns)
  BY <1>1 DEF CoreStarts, CoreEnds, EditWrongly, ValidateDns
<1>6. ApplyChange \/ WaitForController \/ SetDesktop
  BY <1>3, <1>4, <1>5 DEF SettingsNext
<1>7. CASE ApplyChange
  <2>1. Phase("apply") /\ stored' = stored /\ ~ApplyDns /\ ~ApplyDirect
    BY <1>1, <1>7 DEF ApplyChange, ApplyDns, ApplyDirect
  <2>2. CASE ApplyTun
    BY <1>1, <2>1, <2>2 DEF ApplyTun, Phase, Working
  <2>3. CASE ApplyController
    BY <1>1, <2>1, <2>3 DEF ApplyController, Phase, Working
  <2> QED BY <1>7, <2>1, <2>2, <2>3 DEF ApplyChange
<1>8. CASE WaitForController
  BY <1>8 DEF WaitForController, Phase, Working
<1>9. CASE SetDesktop
  BY <1>1, <1>9 DEF SetDesktop, Phase, Working
<1> QED BY <1>6, <1>7, <1>8, <1>9

\* An operation that reports its change as applied has brought it into force.
LEMMA AppliedInForce ==
    ASSUME SettingsInv, SettingsNext, client.outcome # "applied", client'.outcome = "applied"
    PROVE  LET ours == core'.state = "running" /\ core'.owner = "own"
           IN CASE client.field = "tun" -> ours /\ core'.config.tun = client.to
                [] client.field \in {"controller", "port"} ->
                      ours /\ Effective(stored', "controller") =>
                          core'.config.listens = [on |-> TRUE, port |-> Effective(stored', "port"), safe |-> TRUE]
                [] client.field = "proxy" -> (desktop' = "manual") = client.to
                [] OTHER -> TRUE
<1>1. Working /\ stored' = stored /\ client.to \in Values(client.field)
  BY WhoApplies, WhileBusy
<1>2. CASE client.phase = "apply" /\ client.field = "tun" /\ RestartAccepted
  <2>1. core'.state = "running" /\ core'.owner = "own" /\ core'.config = OwnConfig
    BY <1>2, RestartedAsStored
  <2>2. stored = PatchConfig(client.prior, client.patch) /\ client.patch = Only("tun", client.to)
    BY <1>1, <1>2 DEF SettingsInv, Asking, Patches
  <2>3. client.to # Absent
    BY <1>1, <1>2, SettingsAssumption DEF Values
  <2>4. Effective(stored, "tun") = client.to
    BY <2>2, <2>3 DEF PatchConfig, Effective, Only, NoFields, Fields, Switches
  <2>5. core'.config.tun = client.to
    BY <2>1, <2>4 DEF OwnConfig, Config
  <2> QED BY <1>2, <2>1, <2>5
<1>3. CASE client.phase = "apply" /\ client.field \in {"controller", "port"} /\ ~Effective(stored, "controller")
  BY <1>1, <1>3
<1>4. CASE WaitForController /\ client.phase = "wait"
  <2>1. client.field \in {"controller", "port"} /\ core' = core
    BY <1>4 DEF SettingsInv, Asking, FieldsIn, WaitForController
  <2>2. Effective(stored, "controller") => (\E echo \in Echoes : EchoMatches(echo)) \/ PortOpen
    BY <1>4, Reports DEF WaitForController
  <2> QED BY <1>1, <2>1, <2>2, ListensAsStored
<1>5. CASE SetDesktop /\ Ends("applied") /\ client.phase = "desktop"
  <2>1. client.field = "proxy" /\ client.to \in BOOLEAN
    BY <1>1, <1>5 DEF SettingsInv, Asking, FieldsIn, Values
  <2>2. desktop' = IF client.to THEN "manual" ELSE "none"
    BY <1>5, Reports DEF SetDesktop
  <2> QED BY <2>1, <2>2
<1> QED BY <1>2, <1>3, <1>4, <1>5, WhoApplies

\* A change that is reported as applied is in force: in the core that runs, where it listens, or on the
\* desktop (actions/config.rs and actions/system.rs).
THEOREM SettingsApplied == SettingsSpec => AppliedMeansInForce
<1> DEFINE Applied == client.outcome # "applied" /\ client'.outcome = "applied"
           InForce ==
             LET ours == core'.state = "running" /\ core'.owner = "own"
             IN CASE client.field = "tun" -> ours /\ core'.config.tun = client.to
                  [] client.field \in {"controller", "port"} ->
                        ours /\ Effective(stored', "controller") =>
                            core'.config.listens = [on |-> TRUE, port |-> Effective(stored', "port"), safe |-> TRUE]
                  [] client.field = "proxy" -> (desktop' = "manual") = client.to
                  [] OTHER -> TRUE
<1>1. SettingsInv /\ [SettingsNext]_settingsVars => [Applied => InForce]_settingsVars
  BY AppliedInForce
<1> HIDE DEF Applied, InForce
<1>2. SettingsSpec => [][Applied => InForce]_settingsVars
  BY <1>1, SettingsInvariant, PTL DEF SettingsSpec
<1> QED BY <1>2 DEF Applied, InForce, AppliedMeansInForce

-----------------------------------------------------------------------------
(***************************************************************************)
(* Selections: the invariant.                                              *)

\* Selections that may be asked for, or that earlier runs may have left; a list of them with one for a
\* group; the catalog's lists; and the groups of a core.
Offered == SelectionWishes \cup UNION {ToSet(before[o]) : before \in SavedBefore, o \in Owners}
IsList(list) == list \in Seq(Offered) /\ OncePerGroup(list)
AreLists(lists) == lists = [o \in Owners |-> lists[o]] /\ \A o \in Owners : IsList(lists[o])
AreGroups(groups) ==
    /\ groups = [n \in DOMAIN groups |-> groups[n]]
    /\ \A n \in DOMAIN groups :
         groups[n] = [all |-> groups[n].all, kind |-> groups[n].kind, now |-> groups[n].now]

\* What a worker has with it, where it is.
Carries(who, w) ==
    /\ who.at \in {"idle", "reading", "listing", "applying"}
         \cup (IF w = "user" THEN {"selecting", "previewing", "saving", "writing"} ELSE {"updating"})
    /\ who.at \in {"listing", "applying"} => IsList(who.picks) /\ who.picks # <<>>
    /\ who.at \in {"selecting", "previewing", "saving", "writing"} => Pair(who.group, who.node) \in Offered
    /\ who.at \in {"saving", "writing"} => who.applied \in BOOLEAN
    /\ who.at = "writing" =>
         /\ who.uid = owner /\ owner \in Owners
         /\ IsList(who.list) /\ Contains(who.list, Pair(who.group, who.node))
    /\ who.at = "updating" => AreLists(who.before)

Shapes ==
    /\ owner \in Owners \cup {NoOwner}
    /\ AreLists(saved)
    /\ mihomo = [at |-> mihomo.at, groups |-> mihomo.groups] /\ AreGroups(mihomo.groups)
    /\ mihomo.at \in {"down", "loading", "up"}
    /\ worker = [w \in Workers |-> worker[w]]
    /\ \A w \in Workers : Carries(worker[w], w)

\* The node that the core was told by a selection that is not saved yet is the one it runs.
Told ==
    InTransit(WishedGroup) /\ worker.user.applied /\ CoreUp
        /\ WishedGroup \in DOMAIN mihomo.groups /\ WishedGroup \notin unsure
      => mihomo.groups[WishedGroup].now = WishedNode

\* A worker is on its way to tell the core this selection.
WillTell(who, s) ==
    \/ who.at = "reading"
    \/ who.at = "listing" /\ Contains(who.picks, s)
    \/ /\ who.at = "applying" /\ Contains(who.picks, s)
       /\ s.group \in DOMAIN who.groups /\ SelectableGroup(who.groups[s.group])
       /\ s.node \in who.groups[s.group].all /\ who.groups[s.group].now # s.node

Covered(s) ==
    Accepts(mihomo.groups, s.group, s.node) /\ s.group \notin unsure /\ ~InTransit(s.group)
        => mihomo.groups[s.group].now = s.node \/ \E w \in Workers : WillTell(worker[w], s)

AllCovered == CoreUp => \A s \in ToSet(SavedFor(owner, saved)) : Covered(s)

ChoicesInv == Shapes /\ Told /\ AllCovered

-----------------------------------------------------------------------------
(* What UpsertSelection leaves, and steps of the user.                     *)

\* What RemoveFirstMatch leaves: all but the first place of the group.
LEMMA UpsertIsList ==
    ASSUME NEW list, IsList(list), NEW group, NEW node, Pair(group, node) \in Offered
    PROVE  LET new == UpsertSelection(list, group, node)
           IN /\ IsList(new) /\ Contains(new, Pair(group, node))
              /\ \A s \in ToSet(new) : s \in ToSet(list) \/ s = Pair(group, node)
<1> DEFINE Same(s) == s.group = group
           new == UpsertSelection(list, group, node)
           kept == RemoveFirstMatch(list, Same)
           pair == Pair(group, node)
<1>1. list \in Seq(Offered) /\ pair.group = group /\ pair \in Offered
  BY DEF IsList, Pair
<1>2. new = Append(kept, pair)
  BY DEF UpsertSelection
<1>3. /\ kept \in Seq(Offered)
      /\ \A i \in DOMAIN kept : ~Same(kept[i])
      /\ \A i \in DOMAIN kept : \E j \in DOMAIN list : kept[i] = list[j]
      /\ \A i, k \in DOMAIN kept : kept[i].group = kept[k].group => i = k
  <2>1. CASE ~\E i \in 1..Len(list) : Same(list[i])
    <3>1. kept = list
      <4>1. kept = IF \E i \in 1..Len(list) : Same(list[i])
                   THEN RemoveAt(list, SelectInSeq(list, Same)) ELSE list
        BY Zenon DEF RemoveFirstMatch
      <4> HIDE DEF kept
      <4> QED BY <2>1, <4>1
    <3> HIDE DEF kept
    <3> QED BY <1>1, <2>1, <3>1 DEF IsList, OncePerGroup
  <2>2. CASE \E i \in 1..Len(list) : Same(list[i])
    <3> DEFINE at == SelectInSeq(list, Same)
    <3>1. at \in 1..Len(list) /\ Same(list[at])
      <4> DEFINE places == {i \in 1..Len(list) : Same(list[i])}
      <4>1. PICK i \in 1..Len(list) : Same(list[i])
        BY <2>2
      <4>2. places = {i}
        BY <1>1, <4>1 DEF IsList, OncePerGroup
      <4>3. at = Min(places)
        BY <4>1, <4>2, Zenon DEF SelectInSeq
      <4>4. Min(places) = i
        BY <4>2 DEF Min
      <4> QED BY <4>1, <4>3, <4>4
    <3>2. kept = SubSeq(list, 1, at - 1) \o SubSeq(list, at + 1, Len(list))
      BY <2>2, Zenon DEF RemoveFirstMatch, RemoveAt
    <3> HIDE DEF at
    <3>3. /\ kept \in Seq(Offered) /\ Len(kept) = Len(list) - 1
          /\ \A i \in 1..Len(kept) : kept[i] = IF i < at THEN list[i] ELSE list[i + 1]
      <4> DEFINE front == SubSeq(list, 1, at - 1)
                 back == SubSeq(list, at + 1, Len(list))
      <4>1. /\ front \in Seq(Offered) /\ Len(front) = at - 1
            /\ \A i \in 1..(at - 1) : front[i] = list[i]
        BY <1>1, <3>1
      <4>2. /\ back \in Seq(Offered) /\ Len(back) = Len(list) - at
            /\ \A i \in 1..(Len(list) - at) : back[i] = list[i + at]
        BY <1>1, <3>1
      <4> HIDE DEF front, back, kept
      <4>3. /\ kept \in Seq(Offered) /\ Len(kept) = Len(front) + Len(back)
            /\ \A i \in 1..Len(kept) :
                   kept[i] = IF i <= Len(front) THEN front[i] ELSE back[i - Len(front)]
        BY <3>2, <4>1, <4>2 DEF front, back
      <4>4. Len(list) \in Nat /\ at \in Nat /\ Len(kept) = Len(list) - 1
        BY <1>1, <3>1, <4>1, <4>2, <4>3
      <4>5. ASSUME NEW i \in 1..Len(kept)
            PROVE  kept[i] = IF i < at THEN list[i] ELSE list[i + 1]
        <5>1. CASE i < at
          BY <3>1, <4>1, <4>3, <4>4, <5>1
        <5>2. CASE ~(i < at)
          <6>1. i - Len(front) \in 1..(Len(list) - at) /\ (i - Len(front)) + at = i + 1
            BY <3>1, <4>1, <4>4, <5>2
          <6>2. kept[i] = back[i - Len(front)]
            BY <3>1, <4>1, <4>3, <4>4, <5>2
          <6> QED BY <4>2, <5>2, <6>1, <6>2
        <5> QED BY <5>1, <5>2
      <4> QED BY <4>3, <4>4, <4>5
    <3> HIDE DEF kept
    <3>4. /\ Len(list) \in Nat /\ DOMAIN kept = 1..(Len(list) - 1) /\ DOMAIN list = 1..Len(list)
          /\ \A i \in DOMAIN kept : \E j \in DOMAIN list :
                j = (IF i < at THEN i ELSE i + 1) /\ j # at /\ kept[i] = list[j]
      BY <1>1, <3>1, <3>3
    <3>5. \A i, j \in DOMAIN list : list[i].group = list[j].group => i = j
      BY DEF IsList, OncePerGroup
    <3>6. \A i \in DOMAIN kept : ~Same(kept[i])
      BY <3>1, <3>4, <3>5
    <3>7. ASSUME NEW i \in DOMAIN kept, NEW k \in DOMAIN kept, kept[i].group = kept[k].group
          PROVE  i = k
      BY <3>1, <3>4, <3>5, <3>7
    <3> QED BY <3>3, <3>4, <3>6, <3>7
  <2> QED BY <2>1, <2>2
<1> HIDE DEF kept
<1>4. /\ new \in Seq(Offered) /\ Len(new) = Len(kept) + 1
      /\ \A i \in 1..Len(new) : new[i] = IF i <= Len(kept) THEN kept[i] ELSE pair
  BY <1>1, <1>2, <1>3
<1> HIDE DEF new, pair
<1>5. OncePerGroup(new)
  BY <1>1, <1>3, <1>4 DEF OncePerGroup
<1>6. Contains(new, pair)
  BY <1>3, <1>4 DEF Contains
<1>7. \A s \in ToSet(new) : s \in ToSet(list) \/ s = pair
  BY <1>3, <1>4 DEF ToSet
<1> QED BY <1>4, <1>5, <1>6, <1>7 DEF IsList, new, pair

-----------------------------------------------------------------------------
LEMMA SavedIsList == Shapes => IsList(SavedFor(owner, saved))
  BY DEF Shapes, SavedFor, AreLists, IsList, OncePerGroup

\* The user goes on, and the core, the catalog and the other worker stay.
LEMMA UserGoesOn ==
    ASSUME ChoicesInv, NEW next, Carries(next, "user"), owner' = owner,
           worker' = [worker EXCEPT !.user = next]
    PROVE  /\ worker'.user = next /\ worker'["user"] = next /\ worker'["job"] = worker["job"]
           /\ worker' = [w \in Workers |-> worker'[w]]
           /\ \A w \in Workers : Carries(worker[w], w)' <=> Carries(worker'[w], w)
           /\ \A w \in Workers : Carries(worker'[w], w)
<1>1. worker = [w \in Workers |-> worker[w]] /\ \A w \in Workers : Carries(worker[w], w)
  BY DEF ChoicesInv, Shapes
<1>2. /\ worker'.user = next /\ worker'["user"] = next /\ worker'["job"] = worker["job"]
      /\ worker' = [w \in Workers |-> worker'[w]]
  BY <1>1 DEF Workers
<1>3. \A w \in Workers : Carries(worker[w], w)' <=> Carries(worker'[w], w)
  BY DEF Carries
<1> QED BY <1>1, <1>2, <1>3 DEF Workers

LEMMA WorkerGoesOn ==
    ASSUME ChoicesInv, NEW w \in Workers, NEW next, Carries(next, w), owner' = owner,
           worker' = [worker EXCEPT ![w] = next]
    PROVE  /\ worker'[w] = next /\ \A v \in Workers \ {w} : worker'[v] = worker[v]
           /\ worker' = [v \in Workers |-> worker'[v]]
           /\ \A v \in Workers : Carries(worker[v], v)'
<1>1. worker = [v \in Workers |-> worker[v]] /\ \A v \in Workers : Carries(worker[v], v)
  BY DEF ChoicesInv, Shapes
<1>2. /\ worker'[w] = next /\ \A v \in Workers \ {w} : worker'[v] = worker[v]
      /\ worker' = [v \in Workers |-> worker'[v]]
  BY <1>1
<1>3. \A v \in Workers : Carries(worker[v], v)' <=> Carries(worker'[v], v)
  BY DEF Carries
<1> QED BY <1>1, <1>2, <1>3

\* Steps of a user who tells the core nothing, beside the selection being saved.
LEMMA QuietUserKeeps ==
    ASSUME ChoicesInv, UNCHANGED <<owner, saved, mihomo, unsure>>,
           NEW next, Carries(next, "user"), worker' = [worker EXCEPT !.user = next],
           worker.user.at \notin {"reading", "listing", "applying"},
           worker.user.at \in {"saving", "writing"} =>
               \/ SavedFor(owner, saved) = <<>>
               \/ /\ next.at \in {"saving", "writing"} /\ next.group = worker.user.group
                  /\ next.node = worker.user.node /\ next.applied = worker.user.applied,
           next.at \in {"saving", "writing"} /\ next.applied => worker.user.at \in {"saving", "writing"}
               /\ next.group = worker.user.group /\ next.node = worker.user.node
               /\ next.applied = worker.user.applied
    PROVE  ChoicesInv'
<1>1. /\ worker'.user = next /\ worker'["job"] = worker["job"]
      /\ worker' = [w \in Workers |-> worker'[w]]
      /\ \A w \in Workers : Carries(worker[w], w)'
  BY UserGoesOn
<1>2. Shapes'
  BY <1>1 DEF ChoicesInv, Shapes
<1>3. Told'
  <2> SUFFICES ASSUME next.at \in {"saving", "writing"}, next.applied, CoreUp,
                      next.group \in DOMAIN mihomo.groups, next.group \notin unsure
               PROVE  mihomo.groups[next.group].now = next.node
    BY <1>1 DEF Told, InTransit, WishedGroup, WishedNode, CoreUp
  <2>1. /\ worker.user.at \in {"saving", "writing"} /\ worker.user.applied
        /\ next.group = worker.user.group /\ next.node = worker.user.node
    OBVIOUS
  <2>2. mihomo.groups[worker.user.group].now = worker.user.node
    BY <2>1 DEF ChoicesInv, Told, InTransit, WishedGroup, WishedNode
  <2> QED BY <2>1, <2>2
<1>4. AllCovered'
  <2> SUFFICES ASSUME CoreUp, NEW s \in ToSet(SavedFor(owner, saved))
               PROVE  Covered(s)'
    BY DEF AllCovered, CoreUp, SavedFor
  <2>1. Covered(s)
    BY DEF ChoicesInv, AllCovered
  <2>2. InTransit(s.group) => InTransit(s.group)'
    BY <1>1 DEF InTransit, SavedFor, ToSet
  <2>3. \A w \in Workers : WillTell(worker[w], s) => WillTell(worker'[w], s)
    BY <1>1 DEF WillTell, Workers
  <2> QED BY <2>1, <2>2, <2>3 DEF Covered
<1> QED BY <1>2, <1>3, <1>4 DEF ChoicesInv

LEMMA Wishes ==
    ASSUME NEW c \in SelectionWishes
    PROVE  c = Pair(c.group, c.node) /\ c \in Offered
<1>1. PICK o \in Owners :
        c \in {Pair(n, v) : n \in DOMAIN PreviewOf(RuntimeOf[o]),
                            v \in UNION {PreviewOf(RuntimeOf[o])[m] : m \in DOMAIN PreviewOf(RuntimeOf[o])}}
  BY DEF SelectionWishes
<1>2. PICK n, v : c = Pair(n, v)
  BY <1>1
<1> QED BY <1>2 DEF Pair, Offered

\* The user's part of the invariant.
LEMMA UserCarries ==
    ASSUME ChoicesInv
    PROVE  /\ Carries(worker.user, "user") /\ Carries(Resting, "user") /\ Carries(Applying, "user")
           /\ worker.user.at \in {"selecting", "previewing"} =>
                /\ Carries(Wish("previewing"), "user")
                /\ \A applied \in BOOLEAN : Carries(Saving(applied), "user")
<1>1. Carries(worker.user, "user")
  BY DEF ChoicesInv, Shapes, Workers
<1>2. Carries(Resting, "user") /\ Carries(Applying, "user")
  BY DEF Carries, Resting, Applying
<1>3. ASSUME worker.user.at \in {"selecting", "previewing"}
      PROVE  Pair(WishedGroup, WishedNode) \in Offered
  BY <1>1, <1>3 DEF Carries, WishedGroup, WishedNode
<1> QED BY <1>1, <1>2, <1>3 DEF Carries, Wish, Saving

LEMMA WishKeeps ==
    ASSUME ChoicesInv, NEW c \in SelectionWishes,
           SelectOrPreselect(c.group, c.node) \/ PreselectInRows(c.group, c.node)
    PROVE  ChoicesInv'
<1> DEFINE next == IF SelectOrPreselect(c.group, c.node)
                   THEN [at |-> "selecting", group |-> c.group, node |-> c.node]
                   ELSE [at |-> "saving", group |-> c.group, node |-> c.node, applied |-> FALSE]
<1>1. /\ worker.user = Resting /\ worker' = [worker EXCEPT !.user = next]
      /\ UNCHANGED <<owner, saved, mihomo, unsure>>
  BY DEF SelectOrPreselect, PreselectInRows, UserStep
<1>2. Pair(c.group, c.node) \in Offered
  BY Wishes
<1>3. Carries(next, "user") /\ (next.at = "saving" => next.applied = FALSE)
      /\ next.at \in {"selecting", "saving"}
  BY <1>2 DEF Carries
<1> HIDE DEF next
<1> QED BY <1>1, <1>3, QuietUserKeeps DEF Resting

LEMMA QuietSteps ==
    ChoicesInv /\ (PutRefused \/ PutNotConnected \/ EnsurePreviewContains) => ChoicesInv'
<1> SUFFICES ASSUME ChoicesInv, PutRefused \/ PutNotConnected \/ EnsurePreviewContains
             PROVE  ChoicesInv'
  OBVIOUS
<1>1. /\ UNCHANGED <<owner, saved, mihomo, unsure>>
      /\ worker.user.at \in {"selecting", "previewing"}
      /\ \E next \in {Resting, Wish("previewing"), Saving(FALSE)} :
            worker' = [worker EXCEPT !.user = next]
  BY DEF PutRefused, PutNotConnected, EnsurePreviewContains, UserGoes, Selecting
<1>2. PICK next \in {Resting, Wish("previewing"), Saving(FALSE)} :
            worker' = [worker EXCEPT !.user = next]
  BY <1>1
<1>3. Carries(next, "user")
  BY <1>1, UserCarries
<1>4. ~(next.at \in {"saving", "writing"} /\ next.applied)
  BY DEF Resting, Wish, Saving
<1> QED BY <1>1, <1>2, <1>3, <1>4, QuietUserKeeps

LEMMA RefreshRowsKeeps == ChoicesInv /\ RefreshRows => ChoicesInv'
  BY DEF RefreshRows, ChoicesInv, Shapes, Told, AllCovered, Covered, Carries, InTransit, CoreUp,
         WishedGroup, WishedNode

LEMMA SaveReadsKeeps == ChoicesInv /\ SaveSelectionReads => ChoicesInv'
<1> SUFFICES ASSUME ChoicesInv, SaveSelectionReads
             PROVE  ChoicesInv'
  OBVIOUS
<1> DEFINE next == IF owner = NoOwner THEN Resting
                   ELSE [at |-> "writing", group |-> WishedGroup, node |-> WishedNode,
                         applied |-> worker.user.applied, uid |-> owner,
                         list |-> UpsertSelection(saved[owner], WishedGroup, WishedNode)]
<1>1. /\ UNCHANGED <<owner, saved, mihomo, unsure>>
      /\ worker.user.at = "saving" /\ worker' = [worker EXCEPT !.user = next]
  BY DEF SaveSelectionReads, UserGoes, Selecting
<1>2. Pair(WishedGroup, WishedNode) \in Offered /\ worker.user.applied \in BOOLEAN
  BY <1>1, UserCarries DEF Carries, WishedGroup, WishedNode
<1>3. owner = NoOwner => SavedFor(owner, saved) = <<>> /\ next = Resting
  BY DEF SavedFor
<1>4. CASE owner = NoOwner
  BY <1>1, <1>3, <1>4, UserCarries, QuietUserKeeps DEF Resting
<1>5. CASE owner # NoOwner
  <2>1. owner \in Owners /\ IsList(saved[owner])
    BY <1>5 DEF ChoicesInv, Shapes, AreLists
  <2> DEFINE list == UpsertSelection(saved[owner], WishedGroup, WishedNode)
  <2>2. IsList(list) /\ Contains(list, Pair(WishedGroup, WishedNode))
    BY <1>2, <2>1, UpsertIsList
  <2> HIDE DEF list
  <2>3. next = [at |-> "writing", group |-> WishedGroup, node |-> WishedNode,
                applied |-> worker.user.applied, uid |-> owner, list |-> list]
    BY <1>5 DEF list
  <2> HIDE DEF next
  <2>4. Carries(next, "user")
    BY <1>2, <2>1, <2>2, <2>3 DEF Carries
  <2> QED BY <1>1, <2>3, <2>4, QuietUserKeeps DEF WishedGroup, WishedNode
<1> QED BY <1>4, <1>5

-----------------------------------------------------------------------------
\* A group that the core was told to change.
LEMMA Chosen ==
    ASSUME Shapes, NEW group \in DOMAIN mihomo.groups, NEW node, CoreChooses(group, node)
    PROVE  /\ mihomo' = [at |-> mihomo.at, groups |-> mihomo'.groups] /\ AreGroups(mihomo'.groups)
           /\ DOMAIN mihomo'.groups = DOMAIN mihomo.groups /\ mihomo'.groups[group].now = node
           /\ \A n \in DOMAIN mihomo.groups :
                /\ mihomo'.groups[n].all = mihomo.groups[n].all
                /\ mihomo'.groups[n].kind = mihomo.groups[n].kind
                /\ n # group => mihomo'.groups[n] = mihomo.groups[n]
<1> DEFINE g == mihomo.groups
           chosen == [g EXCEPT ![group].now = node]
<1>1. /\ mihomo = [at |-> mihomo.at, groups |-> g] /\ g = [n \in DOMAIN g |-> g[n]]
      /\ \A n \in DOMAIN g : g[n] = [all |-> g[n].all, kind |-> g[n].kind, now |-> g[n].now]
  BY DEF Shapes, AreGroups
<1>2. mihomo' = [mihomo EXCEPT !.groups = chosen]
  BY DEF CoreChooses
<1> HIDE DEF g
<1>3. /\ DOMAIN chosen = DOMAIN g
      /\ \A n \in DOMAIN g : n # group => chosen[n] = g[n]
      /\ chosen[group] = [all |-> g[group].all, kind |-> g[group].kind, now |-> node]
      /\ chosen = [n \in DOMAIN chosen |-> chosen[n]]
  BY <1>1 DEF g
<1> HIDE DEF chosen
<1>4. mihomo' = [at |-> mihomo.at, groups |-> chosen]
  BY <1>1, <1>2
<1>5. AreGroups(chosen)
  BY <1>1, <1>3 DEF AreGroups
<1> QED BY <1>1, <1>3, <1>4, <1>5 DEF g

\* The core has chosen the node of a group, or not; the selection of another
\* group is covered as before.
LEMMA OthersCovered ==
    ASSUME ChoicesInv, NEW s, Covered(s), NEW group, s.group # group,
           UNCHANGED mihomo \/ \E node : group \in DOMAIN mihomo.groups /\ CoreChooses(group, node),
           s.group \in unsure => s.group \in unsure',
           InTransit(s.group) => InTransit(s.group)',
           \A w \in Workers : WillTell(worker[w], s) => WillTell(worker'[w], s)
    PROVE  Covered(s)'
<1>1. /\ DOMAIN mihomo'.groups = DOMAIN mihomo.groups
      /\ s.group \in DOMAIN mihomo.groups => mihomo'.groups[s.group] = mihomo.groups[s.group]
  BY Chosen DEF ChoicesInv
<1>2. Accepts(mihomo'.groups, s.group, s.node)
        => Accepts(mihomo.groups, s.group, s.node) /\ s.group \in DOMAIN mihomo.groups
  BY <1>1 DEF Accepts
<1> QED BY <1>1, <1>2 DEF Covered

LEMMA PutKeeps == ChoicesInv /\ PutSelection => ChoicesInv'
<1> SUFFICES ASSUME ChoicesInv, PutSelection
             PROVE  ChoicesInv'
  OBVIOUS
<1>1. /\ worker.user.at = "selecting" /\ CoreUp /\ Accepts(mihomo.groups, WishedGroup, WishedNode)
      /\ CoreChooses(WishedGroup, WishedNode) /\ worker' = [worker EXCEPT !.user = Saving(TRUE)]
      /\ unsure' = unsure \ {WishedGroup} /\ UNCHANGED <<owner, saved>>
  BY DEF PutSelection, Selecting, UserGoes
<1>2. /\ worker'.user = Saving(TRUE) /\ worker'["user"] = Saving(TRUE) /\ worker'["job"] = worker["job"]
      /\ worker' = [w \in Workers |-> worker'[w]]
      /\ \A w \in Workers : Carries(worker[w], w)'
  BY <1>1, UserCarries, UserGoesOn
<1>3. WishedGroup \in DOMAIN mihomo.groups
  BY <1>1 DEF Accepts
<1>4. Shapes'
  <2>1. Shapes
    BY DEF ChoicesInv
  <2>2. /\ mihomo' = [at |-> mihomo.at, groups |-> mihomo'.groups] /\ AreGroups(mihomo'.groups)
    BY <1>1, <1>3, <2>1, Chosen
  <2>3. mihomo'.at = mihomo.at
    BY <2>2
  <2> QED BY <1>1, <1>2, <2>1, <2>2, <2>3 DEF Shapes
<1>5. Told'
  BY <1>1, <1>2, <1>3, Chosen DEF Told, InTransit, WishedGroup, WishedNode, Saving, ChoicesInv
<1>6. \A n : InTransit(n)' <=> n = WishedGroup
  BY <1>2 DEF InTransit, Saving, WishedGroup
<1>7. \A n : ~InTransit(n)
  BY <1>1 DEF InTransit
<1>8. \A s : \A w \in Workers : WillTell(worker[w], s) => WillTell(worker'[w], s)
  BY <1>1, <1>2 DEF WillTell, Workers, Saving
<1>9. AllCovered'
  <2> SUFFICES ASSUME NEW s \in ToSet(SavedFor(owner, saved))
               PROVE  Covered(s)'
    BY <1>1 DEF AllCovered, SavedFor
  <2>1. CASE s.group = WishedGroup
    BY <1>6, <2>1 DEF Covered
  <2>2. CASE s.group # WishedGroup
    <3>1. Covered(s)
      BY <1>1 DEF ChoicesInv, AllCovered
    <3> QED BY <1>1, <1>3, <1>7, <1>8, <2>2, <3>1, OthersCovered
  <2> QED BY <2>1, <2>2
<1> QED BY <1>4, <1>5, <1>9 DEF ChoicesInv

\* The core as an action leaves it that chooses a node, or does not.
LEMMA CoreKeepsShape ==
    ASSUME ChoicesInv, NEW group, NEW node,
           UNCHANGED mihomo \/ (group \in DOMAIN mihomo.groups /\ CoreChooses(group, node))
    PROVE  /\ mihomo' = [at |-> mihomo'.at, groups |-> mihomo'.groups] /\ AreGroups(mihomo'.groups)
           /\ mihomo'.at = mihomo.at
<1>1. Shapes
  BY DEF ChoicesInv
<1>2. CASE UNCHANGED mihomo
  BY <1>1, <1>2 DEF Shapes
<1>3. CASE group \in DOMAIN mihomo.groups /\ CoreChooses(group, node)
  <2>1. mihomo' = [at |-> mihomo.at, groups |-> mihomo'.groups] /\ AreGroups(mihomo'.groups)
    BY <1>1, <1>3, Chosen
  <2> QED BY <2>1
<1> QED BY <1>2, <1>3

LEMMA UnansweredKeeps == ChoicesInv /\ PutUnanswered => ChoicesInv'
<1> SUFFICES ASSUME ChoicesInv, PutUnanswered
             PROVE  ChoicesInv'
  OBVIOUS
<1>1. /\ worker.user.at = "selecting" /\ CoreUp /\ WishedGroup \in DOMAIN mihomo.groups
      /\ CoreChooses(WishedGroup, WishedNode) \/ UNCHANGED mihomo
      /\ unsure' = unsure \cup {WishedGroup} /\ UNCHANGED <<owner, saved>>
  BY DEF PutUnanswered, Selecting, Accepts
<1>2. PICK next \in {Resting, Wish("previewing")} : worker' = [worker EXCEPT !.user = next]
  BY DEF PutUnanswered, UserGoes
<1>3. Carries(next, "user") /\ next.at \notin {"saving", "writing"}
  BY <1>1, UserCarries DEF Resting, Wish
<1>4. /\ worker'.user = next /\ worker'["user"] = next /\ worker'["job"] = worker["job"]
      /\ worker' = [w \in Workers |-> worker'[w]]
      /\ \A w \in Workers : Carries(worker[w], w)'
  BY <1>1, <1>2, <1>3, UserGoesOn
<1>5. Shapes'
  BY <1>1, <1>4, CoreKeepsShape DEF Shapes, ChoicesInv
<1>6. Told'
  BY <1>3, <1>4 DEF Told, InTransit
<1>7. \A n : ~InTransit(n)
  BY <1>1 DEF InTransit
<1>8. \A s : \A w \in Workers : WillTell(worker[w], s) => WillTell(worker'[w], s)
  BY <1>1, <1>4 DEF WillTell, Workers
<1>9. AllCovered'
  <2> SUFFICES ASSUME NEW s \in ToSet(SavedFor(owner, saved))
               PROVE  Covered(s)'
    BY <1>1 DEF AllCovered, SavedFor
  <2>1. CASE s.group = WishedGroup
    BY <1>1, <2>1 DEF Covered
  <2>2. CASE s.group # WishedGroup
    <3>1. Covered(s)
      BY <1>1 DEF ChoicesInv, AllCovered
    <3> QED BY <1>1, <1>7, <1>8, <2>2, <3>1, OthersCovered
  <2> QED BY <2>1, <2>2
<1> QED BY <1>5, <1>6, <1>9 DEF ChoicesInv

LEMMA FailsKeeps == ChoicesInv /\ SaveSelectionFails => ChoicesInv'
<1> SUFFICES ASSUME ChoicesInv, SaveSelectionFails
             PROVE  ChoicesInv'
  OBVIOUS
<1>1. /\ worker.user.at = "writing" /\ UNCHANGED mihomo
      /\ unsure' = unsure \cup {WishedGroup} /\ UNCHANGED <<owner, saved>>
      /\ worker' = [worker EXCEPT !.user = Resting]
  BY DEF SaveSelectionFails, Selecting, UserGoes
<1>2. /\ worker'.user = Resting /\ worker'["user"] = Resting /\ worker'["job"] = worker["job"]
      /\ worker' = [w \in Workers |-> worker'[w]]
      /\ \A w \in Workers : Carries(worker[w], w)'
  BY <1>1, UserCarries, UserGoesOn
<1>3. Shapes'
  BY <1>1, <1>2 DEF Shapes, ChoicesInv
<1>4. Told'
  BY <1>2 DEF Told, InTransit, Resting
<1>5. \A n : n # WishedGroup => ~InTransit(n)
  BY DEF InTransit, WishedGroup
<1>6. \A s : \A w \in Workers : WillTell(worker[w], s) => WillTell(worker'[w], s)
  BY <1>1, <1>2 DEF WillTell, Workers
<1>7. AllCovered'
  <2> SUFFICES ASSUME CoreUp, NEW s \in ToSet(SavedFor(owner, saved))
               PROVE  Covered(s)'
    BY <1>1 DEF AllCovered, SavedFor, CoreUp
  <2>1. CASE s.group = WishedGroup
    BY <1>1, <2>1 DEF Covered
  <2>2. CASE s.group # WishedGroup
    <3>1. Covered(s)
      BY DEF ChoicesInv, AllCovered
    <3> QED BY <1>1, <1>5, <1>6, <2>2, <3>1, OthersCovered
  <2> QED BY <2>1, <2>2
<1> QED BY <1>3, <1>4, <1>7 DEF ChoicesInv

LEMMA WritesKeeps == ChoicesInv /\ SaveSelectionWrites => ChoicesInv'
<1> SUFFICES ASSUME ChoicesInv, SaveSelectionWrites
             PROVE  ChoicesInv'
  OBVIOUS
<1> DEFINE list == worker.user.list
<1>1. /\ worker.user.at = "writing" /\ UNCHANGED mihomo
      /\ unsure' = unsure \cup PutBack \cup (IF worker.user.applied THEN {} ELSE {WishedGroup})
      /\ saved' = [saved EXCEPT ![worker.user.uid] = list] /\ UNCHANGED owner
      /\ worker' = [worker EXCEPT !.user = Resting]
  BY DEF SaveSelectionWrites, Selecting, UserGoes
<1>2. /\ worker'.user = Resting /\ worker'["user"] = Resting /\ worker'["job"] = worker["job"]
      /\ worker' = [w \in Workers |-> worker'[w]]
      /\ \A w \in Workers : Carries(worker[w], w)'
  BY <1>1, UserCarries, UserGoesOn
<1>3. /\ worker.user.uid = owner /\ owner \in Owners /\ IsList(list)
      /\ Contains(list, Pair(WishedGroup, WishedNode)) /\ worker.user.applied \in BOOLEAN
  BY <1>1, UserCarries DEF Carries, WishedGroup, WishedNode
<1>4. SavedFor(owner, saved) = saved[owner] /\ SavedFor(owner, saved)' = list /\ AreLists(saved')
  BY <1>1, <1>3, SelectionsAssumption DEF SavedFor, ChoicesInv, Shapes, AreLists
<1>5. Shapes'
  BY <1>1, <1>2, <1>4 DEF Shapes, ChoicesInv
<1>6. Told'
  BY <1>2 DEF Told, InTransit, Resting
<1>7. \A n : n # WishedGroup => ~InTransit(n)
  BY DEF InTransit, WishedGroup
<1>8. \A s : \A w \in Workers : WillTell(worker[w], s) => WillTell(worker'[w], s)
  BY <1>1, <1>2 DEF WillTell, Workers
<1>9. AllCovered'
  <2> SUFFICES ASSUME CoreUp, NEW s \in ToSet(list)
               PROVE  Covered(s)'
    <3>1. CoreUp' <=> CoreUp
      BY <1>1 DEF CoreUp
    <3> QED BY <1>4, <3>1 DEF AllCovered
  <2>1. CASE s.group = WishedGroup
    <3>1. s.node = WishedNode
      BY <1>3, <2>1 DEF IsList, OncePerGroup, Contains, Pair, ToSet
    <3>2. worker.user.applied \/ WishedGroup \in unsure'
      BY <1>1
    <3>3. worker.user.applied /\ WishedGroup \in DOMAIN mihomo.groups /\ WishedGroup \notin unsure
            => mihomo.groups[WishedGroup].now = WishedNode
      BY <1>1 DEF ChoicesInv, Told, InTransit, WishedGroup
    <3>4. WishedGroup \in unsure => WishedGroup \in unsure'
      BY <1>1
    <3> QED BY <1>1, <2>1, <3>1, <3>2, <3>3, <3>4 DEF Covered, Accepts
  <2>2. CASE s.group # WishedGroup
    <3>1. s # Pair(WishedGroup, WishedNode)
      BY <2>2 DEF Pair
    <3>2. s.group \in unsure' \/ s \in ToSet(saved[owner])
      BY <1>1, <1>3, <3>1 DEF PutBack
    <3>3. s \in ToSet(saved[owner]) => Covered(s)
      BY <1>4 DEF ChoicesInv, AllCovered
    <3>4. Covered(s) => Covered(s)'
      BY <1>1, <1>7, <1>8, <2>2, OthersCovered
    <3> QED BY <3>2, <3>3, <3>4 DEF Covered
  <2> QED BY <2>1, <2>2
<1> QED BY <1>5, <1>6, <1>9 DEF ChoicesInv

-----------------------------------------------------------------------------
\* A worker that applies the saved selections goes on.
LEMMA ApplierGoesOn ==
    ASSUME ChoicesInv, NEW w \in Workers, worker[w].at \in {"reading", "listing", "applying"},
           NEW next, Carries(next, w), next.at \in {"idle", "reading", "listing", "applying"},
           worker' = [worker EXCEPT ![w] = next], UNCHANGED <<owner, saved>>,
           NEW group, NEW node,
           UNCHANGED mihomo \/ (group \in DOMAIN mihomo.groups /\ CoreChooses(group, node))
    PROVE  /\ worker'[w] = next /\ \A v \in Workers \ {w} : worker'[v] = worker[v]
           /\ Shapes' /\ CoreUp' = CoreUp
           /\ \A n : InTransit(n)' <=> InTransit(n)
           /\ \A n : InTransit(n) => w # "user" /\ UNCHANGED worker.user
<1>1. /\ worker'[w] = next /\ \A v \in Workers \ {w} : worker'[v] = worker[v]
      /\ worker' = [v \in Workers |-> worker'[v]]
      /\ \A v \in Workers : Carries(worker[v], v)'
  BY WorkerGoesOn
<1>2. Shapes' /\ CoreUp' = CoreUp
  BY <1>1, CoreKeepsShape DEF Shapes, ChoicesInv, CoreUp
<1>3. \A n : InTransit(n)' <=> InTransit(n)
  <2>1. CASE w = "user"
    BY <1>1, <2>1 DEF InTransit
  <2>2. CASE w # "user"
    BY <1>1, <2>2 DEF InTransit, Workers
  <2> QED BY <2>1, <2>2
<1>4. \A n : InTransit(n) => w # "user" /\ UNCHANGED worker.user
  BY <1>1 DEF InTransit, Workers
<1> QED BY <1>1, <1>2, <1>3, <1>4

\* Steps of such a worker that leave the core alone and tell it no less.
LEMMA QuietApplierKeeps ==
    ASSUME ChoicesInv, NEW w \in Workers, worker[w].at \in {"reading", "listing", "applying"},
           NEW next, Carries(next, w), next.at \in {"idle", "reading", "listing", "applying"},
           worker' = [worker EXCEPT ![w] = next], UNCHANGED <<owner, saved, mihomo>>,
           \A n \in DOMAIN mihomo.groups : n \in unsure => n \in unsure',
           \A s \in ToSet(SavedFor(owner, saved)) :
               Accepts(mihomo.groups, s.group, s.node) /\ s.group \notin unsure' /\ WillTell(worker[w], s)
                   => mihomo.groups[s.group].now = s.node \/ WillTell(next, s)
    PROVE  ChoicesInv'
<1>1. /\ worker'[w] = next /\ \A v \in Workers \ {w} : worker'[v] = worker[v]
      /\ Shapes' /\ CoreUp' = CoreUp
      /\ \A n : InTransit(n)' <=> InTransit(n)
      /\ \A n : InTransit(n) => w # "user" /\ UNCHANGED worker.user
  BY ApplierGoesOn
<1>2. Told'
  <2> SUFFICES ASSUME InTransit(WishedGroup)', worker.user.applied', CoreUp',
                      WishedGroup' \in DOMAIN mihomo.groups', WishedGroup' \notin unsure'
               PROVE  (mihomo.groups[WishedGroup].now = WishedNode)'
    BY DEF Told
  <2>1. UNCHANGED worker.user /\ InTransit(WishedGroup)
    BY <1>1 DEF InTransit, WishedGroup
  <2> QED BY <1>1, <2>1 DEF Told, ChoicesInv, WishedGroup, WishedNode
<1>3. AllCovered'
  <2> SUFFICES ASSUME CoreUp, NEW s \in ToSet(SavedFor(owner, saved))
               PROVE  Covered(s)'
    BY <1>1 DEF AllCovered, SavedFor
  <2> SUFFICES ASSUME Accepts(mihomo.groups, s.group, s.node), s.group \notin unsure',
                      ~InTransit(s.group)
               PROVE  mihomo.groups[s.group].now = s.node \/ \E v \in Workers : WillTell(worker'[v], s)
    BY <1>1 DEF Covered
  <2>1. Covered(s) /\ s.group \notin unsure
    BY DEF ChoicesInv, AllCovered, Accepts
  <2>2. CASE mihomo.groups[s.group].now = s.node
    BY <2>2
  <2>3. ASSUME NEW v \in Workers, WillTell(worker[v], s)
        PROVE  mihomo.groups[s.group].now = s.node \/ \E u \in Workers : WillTell(worker'[u], s)
    <3>1. CASE v = w
      BY <1>1, <2>3, <3>1
    <3>2. CASE v # w
      <4>1. worker'[v] = worker[v]
        BY <1>1, <3>2
      <4>2. WillTell(worker'[v], s)
        BY <2>3, <4>1
      <4> QED BY <4>2
    <3> QED BY <3>1, <3>2
  <2> QED BY <2>1, <2>2, <2>3 DEF Covered
<1> QED BY <1>1, <1>2, <1>3 DEF ChoicesInv

LEMMA SavedSelectionsKeeps ==
    ASSUME ChoicesInv, NEW w \in Workers, SavedSelections(w)
    PROVE  ChoicesInv'
<1> DEFINE picks == SavedFor(owner, saved)
           next == IF picks = <<>> THEN Resting ELSE [at |-> "listing", picks |-> picks]
<1>1. /\ worker[w].at = "reading" /\ worker' = [worker EXCEPT ![w] = next]
      /\ UNCHANGED <<owner, saved, mihomo, unsure>>
  BY DEF SavedSelections, Hears
<1>2. IsList(picks)
  BY SavedIsList DEF ChoicesInv
<1> HIDE DEF picks
<1>3. Carries(next, w) /\ next.at \in {"idle", "listing"}
  BY <1>2 DEF Carries, Resting
<1>4. \A s \in ToSet(picks) : WillTell(next, s)
  BY <1>2 DEF WillTell, Contains, ToSet, IsList
<1> HIDE DEF next
<1> QED BY <1>1, <1>3, <1>4, QuietApplierKeeps DEF picks

LEMMA CarriesPicks ==
    ASSUME ChoicesInv, NEW w \in Workers, worker[w].at \in {"listing", "applying"}
    PROVE  IsList(worker[w].picks) /\ worker[w].picks # <<>>
  BY DEF ChoicesInv, Shapes, Carries

LEMMA ListGroupsKeeps ==
    ASSUME ChoicesInv, NEW w \in Workers, ListGroups(w)
    PROVE  ChoicesInv'
<1> DEFINE next == [at |-> "applying", picks |-> worker[w].picks, groups |-> mihomo.groups]
<1>1. /\ worker[w].at = "listing" /\ worker' = [worker EXCEPT ![w] = next]
      /\ UNCHANGED <<owner, saved, mihomo, unsure>>
  BY DEF ListGroups, Hears
<1>2. IsList(worker[w].picks) /\ worker[w].picks # <<>>
  BY <1>1, CarriesPicks
<1>3. Carries(next, w) /\ next.at = "applying"
  BY <1>2 DEF Carries
<1>4. ASSUME NEW s, Accepts(mihomo.groups, s.group, s.node), WillTell(worker[w], s)
      PROVE  mihomo.groups[s.group].now = s.node \/ WillTell(next, s)
  BY <1>1, <1>4 DEF WillTell, Accepts, SelectableGroup
<1> HIDE DEF next
<1> QED BY <1>1, <1>3, <1>4, QuietApplierKeeps

LEMMA ListAgainKeeps ==
    ASSUME ChoicesInv, NEW w \in Workers, ListGroupsAgain(w)
    PROVE  ChoicesInv'
<1>1. /\ worker[w].at = "listing" /\ worker' = [worker EXCEPT ![w] = Applying]
      /\ UNCHANGED <<owner, saved, mihomo, unsure>>
  BY DEF ListGroupsAgain, Hears
<1>2. Carries(Applying, w) /\ Applying.at = "reading" /\ \A s : WillTell(Applying, s)
  BY DEF Carries, Applying, WillTell
<1> QED BY <1>1, <1>2, QuietApplierKeeps

LEMMA UnavailableKeeps ==
    ASSUME ChoicesInv, NEW w \in Workers, ControllerUnavailable(w)
    PROVE  ChoicesInv'
<1>1. /\ worker[w].at = "listing" /\ worker' = [worker EXCEPT ![w] = Resting]
      /\ unsure' = DOMAIN mihomo.groups /\ UNCHANGED <<owner, saved, mihomo>>
  BY DEF ControllerUnavailable, Hears
<1>2. Carries(Resting, w) /\ Resting.at = "idle"
  BY DEF Carries, Resting
<1>3. \A s : Accepts(mihomo.groups, s.group, s.node) => s.group \in unsure'
  BY <1>1 DEF Accepts
<1> QED BY <1>1, <1>2, <1>3, QuietApplierKeeps

-----------------------------------------------------------------------------
\* One of the saved selections is dealt with.
LEMMA PickCarries ==
    ASSUME ChoicesInv, NEW w \in Workers, worker[w].at = "applying"
    PROVE  /\ Carries(Rest(w), w) /\ Rest(w).at \in {"idle", "applying"}
           /\ Contains(worker[w].picks, Pick(w))
           /\ \A s : s # Pick(w) /\ WillTell(worker[w], s) => WillTell(Rest(w), s)
<1> DEFINE picks == worker[w].picks
<1>1. /\ picks \in Seq(Offered) /\ picks # <<>>
      /\ \A i, j \in DOMAIN picks : picks[i].group = picks[j].group => i = j
  BY CarriesPicks DEF IsList, OncePerGroup
<1> HIDE DEF picks
<1>2. /\ Len(picks) \in Nat \ {0} /\ DOMAIN picks = 1..Len(picks) /\ Head(picks) = picks[1]
      /\ Tail(picks) \in Seq(Offered) /\ Len(Tail(picks)) = Len(picks) - 1
      /\ DOMAIN Tail(picks) = 1..(Len(picks) - 1)
      /\ \A i \in 1..(Len(picks) - 1) : Tail(picks)[i] = picks[i + 1]
  BY <1>1
<1>3. Contains(picks, Head(picks))
  BY <1>2 DEF Contains
<1> DEFINE tail == Tail(picks)
<1>4. Len(picks) # 1 => tail # <<>>
  <2>1. Len(<<>>) = 0 /\ Len(tail) = Len(picks) - 1 /\ Len(picks) \in Nat
    BY <1>2
  <2> HIDE DEF tail
  <2>2. Len(picks) # 1 => Len(tail) # 0
    BY <2>1
  <2> QED BY <2>1, <2>2
<1>5. OncePerGroup(tail)
  <2> SUFFICES ASSUME NEW i \in 1..(Len(picks) - 1), NEW j \in 1..(Len(picks) - 1),
                      tail[i].group = tail[j].group
               PROVE  i = j
    BY <1>2 DEF OncePerGroup
  <2>1. i + 1 \in DOMAIN picks /\ j + 1 \in DOMAIN picks
    BY <1>2
  <2>2. picks[i + 1].group = picks[j + 1].group
    BY <1>2
  <2> QED BY <1>1, <2>1, <2>2
<1> HIDE DEF tail
<1>6. ASSUME NEW s, s # Head(picks), Contains(picks, s)
      PROVE  Len(picks) # 1 /\ Contains(tail, s)
  <2>1. PICK i \in 1..Len(picks) : picks[i] = s
    BY <1>6 DEF Contains
  <2>2. i # 1 /\ i - 1 \in 1..(Len(picks) - 1) /\ (i - 1) + 1 = i
    BY <1>2, <1>6, <2>1
  <2>3. tail[i - 1] = s /\ Len(tail) = Len(picks) - 1
    BY <1>2, <2>1, <2>2 DEF tail
  <2>4. Len(picks) # 1
    BY <1>2, <2>2
  <2> QED BY <2>2, <2>3, <2>4 DEF Contains
<1>7. /\ Len(picks) = 1 => Rest(w) = Resting
      /\ Len(picks) # 1 => Rest(w) = [at |-> "applying", picks |-> tail, groups |-> worker[w].groups]
  BY DEF Rest, picks, tail
<1>8. Carries(Rest(w), w) /\ Rest(w).at \in {"idle", "applying"}
  <2>1. CASE Len(picks) = 1
    BY <1>7, <2>1 DEF Carries, Resting
  <2>2. CASE Len(picks) # 1
    <3>1. IsList(tail) /\ tail # <<>>
      BY <1>2, <1>4, <1>5, <2>2 DEF IsList, tail
    <3> QED BY <1>7, <2>2, <3>1 DEF Carries
  <2> QED BY <2>1, <2>2
<1>9. ASSUME NEW s, s # Head(picks), WillTell(worker[w], s)
      PROVE  WillTell(Rest(w), s)
  <2>1. worker[w].at = "applying" /\ Contains(picks, s)
    BY <1>9 DEF WillTell, picks
  <2>2. Len(picks) # 1 /\ Contains(tail, s)
    BY <1>6, <1>9, <2>1
  <2> QED BY <1>7, <1>9, <2>1, <2>2 DEF WillTell
<1> QED BY <1>3, <1>8, <1>9 DEF Pick, picks

LEMMA PickDoneKeeps ==
    ASSUME ChoicesInv, NEW w \in Workers, NEW confirmed \in BOOLEAN, PickDone(w, confirmed),
           \/ /\ CoreUp /\ Accepts(mihomo.groups, Pick(w).group, Pick(w).node)
              /\ CoreChooses(Pick(w).group, Pick(w).node)
           \/ UNCHANGED mihomo /\ (confirmed /\ Applicable(w) => AlreadySelected(w))
    PROVE  ChoicesInv'
<1> DEFINE pick == Pick(w)
           chooses == pick.group \in DOMAIN mihomo.groups /\ CoreChooses(pick.group, pick.node)
<1>1. /\ worker[w].at = "applying" /\ worker' = [worker EXCEPT ![w] = Rest(w)]
      /\ unsure' = (IF confirmed /\ ~Overtaken(w) THEN unsure ELSE unsure \cup {pick.group})
      /\ UNCHANGED <<owner, saved>>
  BY DEF PickDone, Hears
<1>2. \/ chooses
      \/ UNCHANGED mihomo /\ (confirmed /\ Applicable(w) => AlreadySelected(w))
  BY DEF Accepts
<1>3. /\ Carries(Rest(w), w) /\ Rest(w).at \in {"idle", "applying"}
      /\ Contains(worker[w].picks, pick)
      /\ \A s : s # pick /\ WillTell(worker[w], s) => WillTell(Rest(w), s)
  BY <1>1, PickCarries
<1>4. /\ worker'[w] = Rest(w) /\ \A v \in Workers \ {w} : worker'[v] = worker[v]
      /\ Shapes' /\ CoreUp' = CoreUp
      /\ \A n : InTransit(n)' <=> InTransit(n)
      /\ \A n : InTransit(n) => w # "user" /\ UNCHANGED worker.user
  BY <1>1, <1>2, <1>3, ApplierGoesOn
<1>5. \A n : n \in unsure => n \in unsure'
  BY <1>1
<1>6. InTransit(pick.group) => pick.group \in unsure'
  BY <1>1 DEF Overtaken
<1>7. /\ DOMAIN mihomo'.groups = DOMAIN mihomo.groups
      /\ \A n \in DOMAIN mihomo.groups : n # pick.group => mihomo'.groups[n] = mihomo.groups[n]
      /\ chooses => mihomo'.groups[pick.group].now = pick.node
  <2>1. CASE UNCHANGED mihomo /\ ~chooses
    BY <2>1
  <2>2. CASE chooses
    BY <2>2, Chosen DEF ChoicesInv
  <2> QED BY <1>2, <2>1, <2>2
<1>8. Told'
  <2> SUFFICES ASSUME InTransit(WishedGroup)', worker.user.applied', CoreUp',
                      WishedGroup' \in DOMAIN mihomo.groups', WishedGroup' \notin unsure'
               PROVE  (mihomo.groups[WishedGroup].now = WishedNode)'
    BY DEF Told
  <2>1. UNCHANGED worker.user /\ InTransit(WishedGroup)
    BY <1>4 DEF InTransit, WishedGroup
  <2>2. WishedGroup # pick.group /\ WishedGroup \notin unsure
    BY <1>5, <1>6, <2>1 DEF WishedGroup
  <2>3. mihomo.groups[WishedGroup].now = WishedNode
    BY <1>4, <1>7, <2>1, <2>2 DEF Told, ChoicesInv, WishedGroup
  <2> QED BY <1>7, <2>1, <2>2, <2>3 DEF WishedGroup, WishedNode
<1>9. AllCovered'
  <2> SUFFICES ASSUME CoreUp, NEW s \in ToSet(SavedFor(owner, saved))
               PROVE  Covered(s)'
    BY <1>1, <1>4 DEF AllCovered, SavedFor
  <2>1. Covered(s)
    BY DEF ChoicesInv, AllCovered
  <2>2. CASE s.group # pick.group
    <3>1. s # pick
      BY <2>2
    <3>2. \A v \in Workers : WillTell(worker[v], s) => WillTell(worker'[v], s)
      BY <1>3, <1>4, <3>1
    <3> QED BY <1>2, <1>4, <1>5, <2>1, <2>2, <3>2, OthersCovered
  <2>3. CASE s.group = pick.group
    <3>1. CASE ~confirmed \/ Overtaken(w)
      BY <1>1, <2>3, <3>1 DEF Covered
    <3>2. CASE confirmed /\ ~Overtaken(w)
      <4>1. s = pick
        <5>1. Contains(SavedFor(owner, saved), pick)
          BY <3>2 DEF Overtaken
        <5>2. IsList(SavedFor(owner, saved))
          BY SavedIsList DEF ChoicesInv
        <5> HIDE DEF pick
        <5> QED BY <2>3, <5>1, <5>2 DEF IsList, OncePerGroup, Contains, ToSet
      <4>2. CASE chooses
        BY <1>7, <2>3, <4>1, <4>2 DEF Covered
      <4>3. CASE UNCHANGED mihomo /\ (Applicable(w) => AlreadySelected(w))
        <5>1. ~WillTell(worker[w], s)
          BY <1>1, <3>2, <4>1, <4>3 DEF WillTell, Applicable, AlreadySelected
        <5>2. \A v \in Workers : WillTell(worker[v], s) => v # w /\ WillTell(worker'[v], s)
          <6>1. ASSUME NEW v \in Workers, WillTell(worker[v], s)
                PROVE  v # w /\ WillTell(worker'[v], s)
            <7>1. v # w
              BY <5>1, <6>1
            <7>2. worker'[v] = worker[v]
              BY <1>4, <7>1
            <7> QED BY <6>1, <7>1, <7>2
          <6> QED BY <6>1
        <5> QED BY <1>4, <1>5, <2>1, <4>3, <5>2 DEF Covered
      <4> QED BY <1>2, <3>2, <4>2, <4>3
    <3> QED BY <3>1, <3>2
  <2> QED BY <2>2, <2>3
<1> QED BY <1>4, <1>8, <1>9 DEF ChoicesInv

LEMMA ApplyKeeps ==
    ASSUME ChoicesInv, NEW w \in Workers, ApplySkips(w) \/ ApplyPuts(w) \/ ApplyFails(w)
    PROVE  ChoicesInv'
<1>1. CASE ApplySkips(w)
  BY <1>1, PickDoneKeeps DEF ApplySkips
<1>2. CASE ApplyPuts(w)
  BY <1>2, PickDoneKeeps DEF ApplyPuts
<1>3. CASE ApplyFails(w)
  BY <1>3, PickDoneKeeps DEF ApplyFails
<1> QED BY <1>1, <1>2, <1>3

-----------------------------------------------------------------------------
\* The core loads a configuration.
LEMMA LoadedShape ==
    ASSUME NEW doc, NEW groups \in CoreGroups(doc)
    PROVE  AreGroups(groups) /\ DOMAIN groups = DOMAIN doc.groups \cup {GlobalGroup}
<1> DEFINE names == DOMAIN doc.groups \cup {GlobalGroup}
           all == [n \in names |-> OrCompatible(
                       IF n \in DOMAIN doc.groups THEN Including(doc, doc.groups[n], Downloaded)
                       ELSE doc.nodes)]
           kind == [n \in names |-> IF n \in DOMAIN doc.groups THEN doc.groups[n].kind ELSE "selector"]
           first == {f \in [names -> UNION Range(all)] : \A n \in names : f[n] \in all[n]}
<1>1. groups \in {[n \in names |-> [all |-> all[n], kind |-> kind[n], now |-> f[n]]] : f \in first}
  BY Zenon DEF CoreGroups
<1> HIDE DEF names, all, kind, first
<1>2. PICK f \in first : groups = [n \in names |-> [all |-> all[n], kind |-> kind[n], now |-> f[n]]]
  BY <1>1
<1> QED BY <1>2 DEF AreGroups, names

LEMMA Loads ==
    ASSUME ChoicesInv, NEW doc, LoadsInto(doc)
    PROVE  /\ mihomo' = [at |-> mihomo'.at, groups |-> mihomo'.groups] /\ AreGroups(mihomo'.groups)
           /\ mihomo'.at = mihomo.at
           /\ \A n \in DOMAIN mihomo'.groups : InTransit(n) => n \in unsure'
<1>1. PICK groups \in CoreGroups(doc) : mihomo' = [mihomo EXCEPT !.groups = groups]
  BY DEF LoadsInto
<1>2. mihomo = [at |-> mihomo.at, groups |-> mihomo.groups]
  BY DEF ChoicesInv, Shapes
<1>3. mihomo' = [at |-> mihomo.at, groups |-> groups]
  BY <1>1, <1>2
<1>4. AreGroups(groups) /\ DOMAIN groups = DOMAIN doc.groups \cup {GlobalGroup}
  BY LoadedShape
<1> QED BY <1>3, <1>4 DEF LoadsInto

\* While a worker is about to read the selections, none is forgotten.
LEMMA ReaderCovers ==
    ASSUME NEW w \in Workers, worker[w].at = "reading"
    PROVE  AllCovered
  BY DEF AllCovered, Covered, WillTell

LEMMA DownCovers == ~CoreUp => Told /\ AllCovered
  BY DEF Told, AllCovered

LEMMA StartKeeps == ChoicesInv /\ StartOrRestartCore => ChoicesInv'
<1> SUFFICES ASSUME ChoicesInv, StartOrRestartCore
             PROVE  ChoicesInv'
  OBVIOUS
<1>1. /\ worker' = [worker EXCEPT !.user = Applying] /\ UNCHANGED <<owner, saved, unsure>>
      /\ (mihomo' = [mihomo EXCEPT !.at = "loading"]) \/ UNCHANGED mihomo
  BY DEF StartOrRestartCore, UserStep
<1>2. /\ worker'.user = Applying /\ worker'["user"] = Applying
      /\ worker' = [w \in Workers |-> worker'[w]]
      /\ \A w \in Workers : Carries(worker[w], w)'
  BY <1>1, UserCarries, UserGoesOn
<1>3. mihomo = [at |-> mihomo.at, groups |-> mihomo.groups] /\ AreGroups(mihomo.groups)
      /\ mihomo.at \in {"down", "loading", "up"}
  BY DEF ChoicesInv, Shapes
<1>4. mihomo' = [at |-> mihomo'.at, groups |-> mihomo.groups] /\ mihomo'.at \in {mihomo.at, "loading"}
  BY <1>1, <1>3
<1>5. Shapes'
  BY <1>1, <1>2, <1>3, <1>4 DEF Shapes, ChoicesInv
<1>6. Told'
  BY <1>2 DEF Told, InTransit, Applying
<1>7. AllCovered'
  BY <1>2 DEF AllCovered, Covered, WillTell, Applying, Workers
<1> QED BY <1>5, <1>6, <1>7 DEF ChoicesInv

LEMMA LoadedKeeps == ChoicesInv /\ CoreLoaded => ChoicesInv'
<1> SUFFICES ASSUME ChoicesInv, CoreLoaded
             PROVE  ChoicesInv'
  OBVIOUS
<1> DEFINE untold == {s.group : s \in {t \in ToSet(SavedFor(owner, saved)) : ~Awaited(t)}}
<1>1. PICK groups \in CoreGroups(RuntimeOf[owner]) : mihomo' = [at |-> "up", groups |-> groups]
  BY DEF CoreLoaded
<1>2. /\ unsure' = {n \in DOMAIN mihomo'.groups : InTransit(n)} \cup untold
      /\ UNCHANGED <<owner, saved, worker>>
  BY DEF CoreLoaded
<1>3. AreGroups(groups)
  BY LoadedShape
<1>4. Shapes'
  BY <1>1, <1>2, <1>3 DEF ChoicesInv, Shapes, Carries
<1>5. Told'
  BY <1>2 DEF Told, InTransit, WishedGroup
<1>6. ASSUME NEW s \in ToSet(SavedFor(owner, saved))
      PROVE  Covered(s)'
  <2>1. CASE Awaited(s)
    BY <1>2, <2>1 DEF Awaited, Covered, WillTell
  <2>2. CASE ~Awaited(s)
    <3>1. s.group \in untold
      BY <2>2
    <3> HIDE DEF untold
    <3> QED BY <1>2, <3>1 DEF Covered
  <2> QED BY <2>1, <2>2
<1>7. AllCovered'
  BY <1>2, <1>6 DEF AllCovered, SavedFor
<1> QED BY <1>4, <1>5, <1>7 DEF ChoicesInv

LEMMA DiesKeeps == ChoicesInv /\ CoreDies => ChoicesInv'
<1> SUFFICES ASSUME ChoicesInv, CoreDies
             PROVE  ChoicesInv'
  OBVIOUS
<1>1. /\ mihomo' = [mihomo EXCEPT !.at = "down"] /\ UNCHANGED <<owner, saved, worker, unsure>>
  BY DEF CoreDies
<1>2. mihomo = [at |-> mihomo.at, groups |-> mihomo.groups]
  BY DEF ChoicesInv, Shapes
<1>3. mihomo' = [at |-> "down", groups |-> mihomo.groups]
  BY <1>1, <1>2
<1>4. Shapes'
  BY <1>1, <1>3 DEF ChoicesInv, Shapes, Carries
<1> QED BY <1>3, <1>4 DEF ChoicesInv, CoreUp, Told, AllCovered

LEMMA ActivateKeeps ==
    ASSUME ChoicesInv, NEW o \in Owners, ActivateProfile(o)
    PROVE  ChoicesInv'
<1> DEFINE next == IF CoreUp THEN Applying ELSE Resting
<1>1. /\ worker.job = Resting /\ worker.user = Resting
      /\ worker' = [worker EXCEPT !.user = next] /\ owner' = o /\ UNCHANGED saved
      /\ IF CoreUp THEN LoadsInto(RuntimeOf[o]) ELSE UNCHANGED <<mihomo, unsure>>
  BY DEF ActivateProfile, UserStep
<1>2. worker = [w \in Workers |-> worker[w]]
  BY DEF ChoicesInv, Shapes
<1>3. worker'["user"] = next /\ worker'["job"] = Resting /\ worker' = [w \in Workers |-> worker'[w]]
  BY <1>1, <1>2 DEF Workers
<1>4. \A w \in Workers : Carries(worker[w], w)'
  BY <1>3 DEF Workers, Carries, Resting, Applying
<1>5. /\ mihomo' = [at |-> mihomo'.at, groups |-> mihomo'.groups] /\ AreGroups(mihomo'.groups)
      /\ mihomo'.at = mihomo.at
  BY <1>1, Loads DEF ChoicesInv, Shapes
<1>6. Shapes'
  BY <1>1, <1>3, <1>4, <1>5 DEF ChoicesInv, Shapes
<1>7. Told'
  BY <1>3 DEF Told, InTransit, Applying, Resting
<1>8. AllCovered'
  BY <1>3, <1>5 DEF AllCovered, Covered, WillTell, Applying, CoreUp, Workers
<1> QED BY <1>6, <1>7, <1>8 DEF ChoicesInv

LEMMA UpdateBeginsKeeps == ChoicesInv /\ UpdateBegins => ChoicesInv'
<1> SUFFICES ASSUME ChoicesInv, UpdateBegins
             PROVE  ChoicesInv'
  OBVIOUS
<1> DEFINE next == [at |-> "updating", before |-> saved]
<1>1. /\ worker.job = Resting /\ UNCHANGED <<owner, saved, mihomo, unsure>>
      /\ worker' = [worker EXCEPT !["job"] = next]
  BY DEF UpdateBegins
<1>2. Carries(next, "job")
  BY DEF Carries, ChoicesInv, Shapes
<1> HIDE DEF next
<1>3. /\ worker'["user"] = worker["user"] /\ worker' = [w \in Workers |-> worker'[w]]
      /\ \A w \in Workers : Carries(worker[w], w)'
  BY <1>1, <1>2, WorkerGoesOn DEF Workers
<1>4. Shapes'
  BY <1>1, <1>3 DEF ChoicesInv, Shapes
<1>5. Told'
  BY <1>1, <1>3 DEF ChoicesInv, Told, InTransit, WishedGroup, WishedNode, CoreUp
<1>6. ASSUME NEW s \in ToSet(SavedFor(owner, saved)), CoreUp
      PROVE  Covered(s)'
  <2>1. \A w \in Workers : WillTell(worker[w], s) => WillTell(worker'[w], s)
    BY <1>1, <1>3 DEF Workers, WillTell, Resting
  <2> QED BY <1>1, <1>3, <1>6, <2>1 DEF ChoicesInv, AllCovered, Covered, InTransit
<1>7. AllCovered'
  BY <1>1, <1>6 DEF AllCovered, SavedFor, CoreUp
<1> QED BY <1>4, <1>5, <1>7 DEF ChoicesInv

LEMMA UpdateReloadsKeeps == ChoicesInv /\ UpdateReloads => ChoicesInv'
<1> SUFFICES ASSUME ChoicesInv, UpdateReloads
             PROVE  ChoicesInv'
  OBVIOUS
<1>1. /\ LoadsInto(RuntimeOf[owner]) /\ UNCHANGED <<owner, saved>>
      /\ worker' = [worker EXCEPT !["job"] = Applying]
  BY DEF UpdateReloads, Hears
<1>2. Carries(Applying, "job")
  BY DEF Carries, Applying
<1>3. /\ worker'["user"] = worker["user"] /\ worker'["job"] = Applying
      /\ worker' = [w \in Workers |-> worker'[w]]
      /\ \A w \in Workers : Carries(worker[w], w)'
  BY <1>1, <1>2, WorkerGoesOn DEF Workers
<1>4. Shapes'
  BY <1>1, <1>3, Loads DEF ChoicesInv, Shapes
<1>5. Told'
  BY <1>1, <1>3, Loads DEF Told, InTransit, WishedGroup
<1>6. AllCovered'
  BY <1>3 DEF AllCovered, Covered, WillTell, Applying, Workers
<1> QED BY <1>4, <1>5, <1>6 DEF ChoicesInv

LEMMA UpdateOnDiskKeeps == ChoicesInv /\ UpdateOnDisk => ChoicesInv'
<1> SUFFICES ASSUME ChoicesInv, UpdateOnDisk
             PROVE  ChoicesInv'
  OBVIOUS
<1>1. /\ ~CoreUp /\ UNCHANGED <<owner, saved, mihomo>>
      /\ worker' = [worker EXCEPT !["job"] = Resting]
  BY DEF UpdateOnDisk, Hears, CoreActive, CoreUp
<1>2. Carries(Resting, "job")
  BY DEF Carries, Resting
<1>3. /\ worker' = [w \in Workers |-> worker'[w]] /\ \A w \in Workers : Carries(worker[w], w)'
  BY <1>1, <1>2, WorkerGoesOn DEF Workers
<1>4. Shapes'
  BY <1>1, <1>3 DEF ChoicesInv, Shapes
<1> QED BY <1>1, <1>4 DEF ChoicesInv, CoreUp, Told, AllCovered

LEMMA UpdateRollsBackKeeps == ChoicesInv /\ UpdateRollsBack => ChoicesInv'
<1> SUFFICES ASSUME ChoicesInv, UpdateRollsBack
             PROVE  ChoicesInv'
  OBVIOUS
<1>1. worker.job.at = "updating" /\ saved' = worker.job.before /\ UNCHANGED owner
  BY DEF UpdateRollsBack
<1>2. PICK next \in {Applying, Resting} :
        /\ worker' = [worker EXCEPT !["job"] = next]
        /\ \/ LoadsInto(RuntimeOf[owner]) /\ next = Applying
           \/ UNCHANGED mihomo /\ unsure' = DOMAIN mihomo.groups
  BY DEF UpdateRollsBack, Hears
<1>3. Carries(next, "job")
  BY <1>2 DEF Carries, Applying, Resting
<1>4. /\ worker'["user"] = worker["user"] /\ worker'["job"] = next
      /\ worker' = [w \in Workers |-> worker'[w]]
      /\ \A w \in Workers : Carries(worker[w], w)'
  BY <1>1, <1>2, <1>3, WorkerGoesOn DEF Workers
<1>5. AreLists(saved')
  BY <1>1 DEF ChoicesInv, Shapes, Carries, Workers
<1>6. /\ mihomo' = [at |-> mihomo'.at, groups |-> mihomo'.groups] /\ AreGroups(mihomo'.groups)
      /\ mihomo'.at = mihomo.at
  BY <1>2, Loads DEF ChoicesInv, Shapes
<1>7. Shapes'
  BY <1>1, <1>4, <1>5, <1>6 DEF ChoicesInv, Shapes
<1>8. Told'
  BY <1>2, <1>4, Loads DEF Told, InTransit, WishedGroup
<1>9. AllCovered'
  BY <1>2, <1>4 DEF AllCovered, Covered, WillTell, Applying, Workers, Accepts
<1> QED BY <1>7, <1>8, <1>9 DEF ChoicesInv

-----------------------------------------------------------------------------
LEMMA ChoicesStart == SelectionsInit => ChoicesInv
<1> SUFFICES ASSUME SelectionsInit
             PROVE  ChoicesInv
  OBVIOUS
<1>1. /\ owner \in Owners \cup {NoOwner} /\ saved \in SavedBefore
      /\ mihomo \in [at : {"down", "up"}, groups : CoreGroups(RuntimeOf[owner])]
      /\ worker = [w \in Workers |-> Resting] /\ unsure = DOMAIN mihomo.groups
  BY DEF SelectionsInit
<1>2. AreLists(saved)
  <2>1. saved = [o \in Owners |-> saved[o]]
    BY <1>1, SelectionsAssumption
  <2>2. ASSUME NEW o \in Owners
        PROVE  IsList(saved[o])
    <3>1. saved[o] \in Seq(ToSet(saved[o])) /\ OncePerGroup(saved[o])
      BY <1>1, SelectionsAssumption
    <3>2. ToSet(saved[o]) \subseteq Offered
      BY <1>1 DEF Offered
    <3> QED BY <3>1, <3>2 DEF IsList
  <2> QED BY <2>1, <2>2 DEF AreLists
<1>3. AreGroups(mihomo.groups)
  BY <1>1, LoadedShape
<1>4. Shapes
  BY <1>1, <1>2, <1>3 DEF Shapes, Carries, Resting
<1>5. Told
  BY <1>1 DEF Told, InTransit, Resting, Workers
<1>6. AllCovered
  BY <1>1 DEF AllCovered, Covered, Accepts
<1> QED BY <1>4, <1>5, <1>6 DEF ChoicesInv

LEMMA ChoicesStep == ChoicesInv /\ [SelectionsNext]_selectionVars => ChoicesInv'
<1> SUFFICES ASSUME ChoicesInv, [SelectionsNext]_selectionVars
             PROVE  ChoicesInv'
  OBVIOUS
<1>1. CASE UNCHANGED selectionVars
  BY <1>1 DEF selectionVars, ChoicesInv, Shapes, Told, AllCovered, Covered, Carries, InTransit,
              CoreUp, WishedGroup, WishedNode
<1>2. CASE \E c \in SelectionWishes : SelectOrPreselect(c.group, c.node) \/ PreselectInRows(c.group, c.node)
  BY <1>2, WishKeeps
<1>3. CASE RefreshRows \/ PutSelection \/ PutRefused \/ PutUnanswered \/ PutNotConnected
             \/ EnsurePreviewContains
  BY <1>3, RefreshRowsKeeps, PutKeeps, QuietSteps, UnansweredKeeps
<1>4. CASE SaveSelectionReads \/ SaveSelectionWrites \/ SaveSelectionFails
  BY <1>4, SaveReadsKeeps, WritesKeeps, FailsKeeps
<1>5. CASE \E w \in Workers :
             \/ SavedSelections(w) \/ ListGroups(w) \/ ListGroupsAgain(w) \/ ControllerUnavailable(w)
             \/ ApplySkips(w) \/ ApplyPuts(w) \/ ApplyFails(w)
  BY <1>5, SavedSelectionsKeeps, ListGroupsKeeps, ListAgainKeeps, UnavailableKeeps, ApplyKeeps
<1>6. CASE StartOrRestartCore \/ CoreLoaded \/ CoreDies \/ \E o \in Owners : ActivateProfile(o)
  BY <1>6, StartKeeps, LoadedKeeps, DiesKeeps, ActivateKeeps
<1>7. CASE UpdateBegins \/ UpdateReloads \/ UpdateOnDisk \/ UpdateRollsBack
  BY <1>7, UpdateBeginsKeeps, UpdateReloadsKeeps, UpdateOnDiskKeeps, UpdateRollsBackKeeps
<1> QED BY <1>1, <1>2, <1>3, <1>4, <1>5, <1>6, <1>7 DEF SelectionsNext

\* The invariant behind ChoiceInForce, for all interleavings of the user and the update job: a saved
\* selection that the running core accepts is the one it uses, or a worker is on its way to tell it
\* (actions/controller.rs).
THEOREM SelectionsCovered == SelectionsSpec => []ChoicesInv
<1> QED BY ChoicesStart, ChoicesStep, PTL DEF SelectionsSpec

LEMMA CoveredIsInForce == ChoicesInv => ChoiceInForce
<1> SUFFICES ASSUME ChoicesInv, CoreUp, \A w \in Workers : worker[w] = Resting,
                    NEW i \in DOMAIN SavedFor(owner, saved)
             PROVE  LET s == SavedFor(owner, saved)[i]
                    IN Accepts(mihomo.groups, s.group, s.node) /\ s.group \notin unsure
                         => mihomo.groups[s.group].now = s.node
  BY DEF ChoiceInForce
<1> DEFINE s == SavedFor(owner, saved)[i]
<1>1. s \in ToSet(SavedFor(owner, saved))
  BY DEF ToSet
<1>2. Covered(s)
  BY <1>1 DEF ChoicesInv, AllCovered
<1>3. ~InTransit(s.group) /\ \A w \in Workers : ~WillTell(worker[w], s)
  BY DEF InTransit, WillTell, Resting, Workers
<1> QED BY <1>2, <1>3 DEF Covered

\* Once nobody is at work, a running core uses the saved node of every group that accepts it and whose
\* selection was confirmed: for any profiles, configurations and saved selections.
THEOREM ChoicesInForce == SelectionsSpec => []ChoiceInForce
<1> QED BY SelectionsCovered, CoveredIsInForce, PTL

-----------------------------------------------------------------------------
(* Types: the node a group runs is one of its nodes.                       *)

OneOfItsNodes(groups) == \A n \in DOMAIN groups : groups[n].now \in groups[n].all

LEMMA LoadedRunsItsNodes ==
    ASSUME NEW doc, NEW groups \in CoreGroups(doc)
    PROVE  OneOfItsNodes(groups)
<1> DEFINE names == DOMAIN doc.groups \cup {GlobalGroup}
           all == [n \in names |-> OrCompatible(
                       IF n \in DOMAIN doc.groups THEN Including(doc, doc.groups[n], Downloaded)
                       ELSE doc.nodes)]
           kind == [n \in names |-> IF n \in DOMAIN doc.groups THEN doc.groups[n].kind ELSE "selector"]
           first == {f \in [names -> UNION Range(all)] : \A n \in names : f[n] \in all[n]}
<1>1. groups \in {[n \in names |-> [all |-> all[n], kind |-> kind[n], now |-> f[n]]] : f \in first}
  BY Zenon DEF CoreGroups
<1> HIDE DEF names, all, kind
<1>2. PICK f \in first : groups = [n \in names |-> [all |-> all[n], kind |-> kind[n], now |-> f[n]]]
  BY <1>1
<1>3. \A n \in names : f[n] \in all[n]
  BY <1>2
<1> HIDE DEF first
<1> QED BY <1>2, <1>3 DEF OneOfItsNodes

LEMMA ChosenRunsItsNodes ==
    ASSUME Shapes, OneOfItsNodes(mihomo.groups), NEW group, NEW node,
           Accepts(mihomo.groups, group, node), CoreChooses(group, node)
    PROVE  OneOfItsNodes(mihomo'.groups)
  BY Chosen DEF Accepts, OneOfItsNodes

LEMMA RunsItsNodes ==
    ASSUME ChoicesInv, OneOfItsNodes(mihomo.groups), SelectionsNext
    PROVE  OneOfItsNodes(mihomo'.groups)
<1> USE DEF ChoicesInv
<1>1. mihomo = [at |-> mihomo.at, groups |-> mihomo.groups]
  BY DEF Shapes
<1>2. ASSUME NEW doc, LoadsInto(doc)
      PROVE  OneOfItsNodes(mihomo'.groups)
  <2>1. PICK groups \in CoreGroups(doc) : mihomo' = [mihomo EXCEPT !.groups = groups]
    BY <1>2 DEF LoadsInto
  <2> QED BY <1>1, <2>1, LoadedRunsItsNodes
<1>3. CASE UNCHANGED mihomo \/ mihomo' = [mihomo EXCEPT !.at = "loading"]
             \/ mihomo' = [mihomo EXCEPT !.at = "down"]
  BY <1>1, <1>3
<1>4. CASE \/ PutSelection \/ PutUnanswered
           \/ \E w \in Workers : ApplyPuts(w) \/ ApplyFails(w)
  BY <1>3, <1>4, ChosenRunsItsNodes DEF PutSelection, PutUnanswered, ApplyPuts, ApplyFails
<1>5. CASE CoreLoaded
  BY <1>5, LoadedRunsItsNodes DEF CoreLoaded
<1>6. CASE UpdateReloads \/ UpdateRollsBack \/ \E o \in Owners : ActivateProfile(o)
  BY <1>2, <1>3, <1>6 DEF UpdateReloads, UpdateRollsBack, ActivateProfile
<1>7. CASE \/ \E c \in SelectionWishes : SelectOrPreselect(c.group, c.node) \/ PreselectInRows(c.group, c.node)
           \/ RefreshRows \/ PutRefused \/ PutNotConnected \/ EnsurePreviewContains
           \/ SaveSelectionReads \/ SaveSelectionWrites \/ SaveSelectionFails
  BY <1>3, <1>7 DEF SelectOrPreselect, PreselectInRows, RefreshRows, PutRefused, PutNotConnected,
       EnsurePreviewContains, SaveSelectionReads, SaveSelectionWrites, SaveSelectionFails
<1>8. CASE \/ \E w \in Workers :
                SavedSelections(w) \/ ListGroups(w) \/ ListGroupsAgain(w) \/ ControllerUnavailable(w)
                  \/ ApplySkips(w)
           \/ StartOrRestartCore \/ CoreDies \/ UpdateBegins \/ UpdateOnDisk
  BY <1>3, <1>8 DEF SavedSelections, ListGroups, ListGroupsAgain, ControllerUnavailable, ApplySkips,
       StartOrRestartCore, CoreDies, UpdateBegins, UpdateOnDisk
<1> QED BY <1>4, <1>5, <1>6, <1>7, <1>8 DEF SelectionsNext

Counts == steps = [w \in Workers |-> steps[w]] /\ steps.user \in 0..MaxUserSteps /\ steps.job \in 0..MaxUpdates

LEMMA CountsStep ==
    ASSUME Counts, SelectionsNext
    PROVE  Counts' /\ (offlineRows \in BOOLEAN => offlineRows' \in BOOLEAN)
<1> USE SelectionsAssumption
<1>1. ASSUME steps' = [steps EXCEPT !.user = @ + 1], steps.user < MaxUserSteps
      PROVE  Counts'
  BY <1>1 DEF Counts, Workers
<1>2. ASSUME steps' = [steps EXCEPT !.job = @ + 1], steps.job < MaxUpdates
      PROVE  Counts'
  BY <1>2 DEF Counts, Workers
<1>3. UNCHANGED steps => Counts'
  BY DEF Counts
<1>4. \/ steps' = [steps EXCEPT !.user = @ + 1] /\ steps.user < MaxUserSteps
      \/ steps' = [steps EXCEPT !.job = @ + 1] /\ steps.job < MaxUpdates
      \/ UNCHANGED steps
  BY DEF SelectionsNext, SelectOrPreselect, PreselectInRows, RefreshRows, PutSelection, PutRefused,
       PutUnanswered, PutNotConnected, EnsurePreviewContains, SaveSelectionReads, SaveSelectionWrites,
       SaveSelectionFails, SavedSelections, ListGroups, ListGroupsAgain, ControllerUnavailable,
       ApplySkips, ApplyPuts, ApplyFails, PickDone, StartOrRestartCore, CoreLoaded, CoreDies,
       ActivateProfile, UpdateBegins, UpdateReloads, UpdateOnDisk, UpdateRollsBack, UserStep, UserGoes, Hears
<1>5. offlineRows \in BOOLEAN => offlineRows' \in BOOLEAN
  BY DEF SelectionsNext, SelectOrPreselect, PreselectInRows, RefreshRows, PutSelection, PutRefused,
       PutUnanswered, PutNotConnected, EnsurePreviewContains, SaveSelectionReads, SaveSelectionWrites,
       SaveSelectionFails, SavedSelections, ListGroups, ListGroupsAgain, ControllerUnavailable,
       ApplySkips, ApplyPuts, ApplyFails, PickDone, StartOrRestartCore, CoreLoaded, CoreDies,
       ActivateProfile, UpdateBegins, UpdateReloads, UpdateOnDisk, UpdateRollsBack, CoreUp
<1> QED BY <1>1, <1>2, <1>3, <1>4, <1>5

TypesInv == ChoicesInv /\ OneOfItsNodes(mihomo.groups) /\ Counts /\ offlineRows \in BOOLEAN

\* Type correctness of the selections; among it that no group is saved twice, and that a group runs one
\* of its nodes.
THEOREM SelectionsTypeCorrect == SelectionsSpec => []SelectionsTypeOK
<1>1. SelectionsInit => TypesInv
  <2> SUFFICES ASSUME SelectionsInit
               PROVE  TypesInv
    OBVIOUS
  <2>1. OneOfItsNodes(mihomo.groups)
    BY LoadedRunsItsNodes DEF SelectionsInit
  <2>2. Counts
    BY SelectionsAssumption DEF SelectionsInit, Counts, Workers
  <2> QED BY ChoicesStart, <2>1, <2>2 DEF SelectionsInit, TypesInv
<1>2. TypesInv /\ [SelectionsNext]_selectionVars => TypesInv'
  <2>1. CASE SelectionsNext
    BY <2>1, ChoicesStep, RunsItsNodes, CountsStep DEF TypesInv
  <2>2. CASE UNCHANGED selectionVars
    BY <2>2, ChoicesStep DEF TypesInv, selectionVars, Counts
  <2> QED BY <2>1, <2>2
<1>3. TypesInv => SelectionsTypeOK
  BY DEF TypesInv, ChoicesInv, Shapes, AreLists, IsList, OneOfItsNodes, Counts, SelectionsTypeOK, Carries
<1> QED BY <1>1, <1>2, <1>3, PTL DEF SelectionsSpec

-----------------------------------------------------------------------------
(***************************************************************************)
(* Subscription: the invariant.                                            *)

\* The option of an entry, or the one taken for none.
OptionOf(e) == IF e.option = None THEN DefaultOption ELSE e.option

\* What a task has with it, given the entry of its profile.
TaskKeeps(t, e) ==
    /\ t.phase \in {"idle", "update", "import", "asking", "commit", "append"}
    /\ t.phase \in {"update", "import", "asking"} => t.attempt \in 1..3
    /\ t.phase \in {"import", "asking"} =>
         /\ t.request = [name |-> t.request.name, option |-> t.request.option]
         /\ t.request.name \in EntryNames \cup {None} /\ t.request.option \in Options
    /\ t.phase \in {"commit", "append"} =>
         /\ t.option \in Options
         /\ t.remote.document # NoDocument /\ t.remote.name \in EntryNames
         /\ t.remote.interval \in Nat \cup {None}
    /\ t.phase = "asking" /\ e # NoEntry =>
         /\ t.request.name = NameOverride(e)
         /\ t.request.option.interval = OptionOf(e).interval /\ t.request.option.auto = OptionOf(e).auto
    /\ t.phase = "commit" /\ e # NoEntry =>
         /\ NameOverride(e) \in {None, t.remote.name}
         /\ OptionOf(e).interval \in {None, t.remote.interval}
         /\ t.option.auto = OptionOf(e).auto

\* An entry has its file, and nothing has a file without an entry.  What a task carries agrees with the
\* entry as it is now, until that is deleted: only its own commit rewrites it.
SubscriptionInv ==
    /\ entries = [u \in Subscriptions |-> entries[u]] /\ files = [u \in Subscriptions |-> files[u]]
    /\ tasks = [u \in Subscriptions |-> tasks[u]]
    /\ clock \in Times /\ swept \in BOOLEAN
    /\ \A u \in Subscriptions :
         /\ entries[u] \in Catalogued \cup {NoEntry}
         /\ (entries[u] = NoEntry) <=> (files[u] = NoDocument)
         /\ TaskKeeps(tasks[u], entries[u])

-----------------------------------------------------------------------------
\* Numbers that wrap are numbers.
LEMMA WrapsType == \A n \in Nat : Wraps(n) \in Nat
  BY SubscriptionAssumption DEF Wraps

\* Options that are missing are replaced by an option.
LEMMA DefaultIsOption == DefaultOption \in Options
  BY DEF DefaultOption, Options

\* The option of an entry is one, as an update plan takes it.
LEMMA OptionOfIsOption == \A e \in Catalogued : OptionOf(e) \in Options /\ OptionOf(e) = OrElse(e.option, DefaultOption)
  BY DefaultIsOption DEF OptionOf, Catalogued, OrElse

\* The option that an attempt is made with.
LEMMA WithProxyType ==
    \A option \in Options : \A attempt \in 1..3 :
        LET new == WithProxyOption(option, attempt)
        IN new \in Options /\ new.interval = option.interval /\ new.auto = option.auto
<1> SUFFICES ASSUME NEW option \in Options, NEW attempt \in 1..3
             PROVE  LET new == WithProxyOption(option, attempt)
                    IN new \in Options /\ new.interval = option.interval /\ new.auto = option.auto
  OBVIOUS
<1>1. Attempts[attempt].withProxy \in BOOLEAN /\ Attempts[attempt].selfProxy \in BOOLEAN
  <2>1. Attempts[1].withProxy \in BOOLEAN /\ Attempts[1].selfProxy \in BOOLEAN
    BY DEF Attempts
  <2>2. Attempts[2].withProxy \in BOOLEAN /\ Attempts[2].selfProxy \in BOOLEAN
    BY DEF Attempts
  <2>3. Attempts[3].withProxy \in BOOLEAN /\ Attempts[3].selfProxy \in BOOLEAN
    BY DEF Attempts
  <2>4. attempt = 1 \/ attempt = 2 \/ attempt = 3
    OBVIOUS
  <2> QED BY <2>1, <2>2, <2>3, <2>4, Zenon
<1> QED BY <1>1 DEF WithProxyOption, Options

\* What a download brings.
LEMMA DownloadType ==
    ASSUME NEW request, NEW body, NEW header \in Headers, NormalizeRemoteProfile(body) # NoDocument,
           request.name \in EntryNames \cup {None}, request.option \in Options
    PROVE  LET remote == DownloadRemoteProfile(request, body, header)
           IN /\ remote.document # NoDocument /\ remote.name \in EntryNames
              /\ remote.interval \in Nat \cup {None}
              /\ request.name \in {None, remote.name}
              /\ request.option.interval \in {None, remote.interval}
<1>1. header.hours \in Nat \cup {None} /\ header.file \in EntryNames /\ Segment \in EntryNames
  BY SubscriptionAssumption DEF EntryNames
<1>2. HeaderInterval(header) \in Nat \cup {None}
  BY <1>1, WrapsType DEF HeaderInterval, Minute
<1>3. request.option.interval \in Nat \cup {None}
  BY DEF Options
<1> QED BY <1>1, <1>2, <1>3 DEF DownloadRemoteProfile, IntervalOf, OrElse

-----------------------------------------------------------------------------
\* A task goes on; the catalog stays.
LEMMA TaskGoesOn ==
    ASSUME SubscriptionInv, NEW u \in Subscriptions, NEW next, TaskKeeps(next, entries[u]),
           tasks' = [tasks EXCEPT ![u] = next], UNCHANGED <<entries, files, clock, swept>>
    PROVE  SubscriptionInv'
  BY DEF SubscriptionInv

\* The tasks that a sweep or a key starts have no request yet.
LEMMA StartedKeeps ==
    ASSUME SubscriptionInv, NEW us, tasks' = Started(us), UNCHANGED <<entries, files, clock>>,
           swept' \in BOOLEAN
    PROVE  SubscriptionInv'
<1>1. \A u \in Subscriptions : tasks'[u] = tasks[u] \/ tasks'[u] = [phase |-> "update", attempt |-> 1]
  BY DEF Started
<1>2. tasks' = [u \in Subscriptions |-> tasks'[u]]
  BY DEF Started
<1>3. \A e : TaskKeeps([phase |-> "update", attempt |-> 1], e)
  BY DEF TaskKeeps
<1> QED BY <1>1, <1>2, <1>3 DEF SubscriptionInv

\* A task that is over has nothing.
LEMMA IdleKeeps == \A e : TaskKeeps(Idle, e)
  BY DEF TaskKeeps, Idle

\* One lemma for each step of a task.
LEMMA ImportKeeps ==
    ASSUME SubscriptionInv, NEW u \in Subscriptions, NEW request \in Requests, StartImport(u, request)
    PROVE  SubscriptionInv'
<1> DEFINE next == [phase |-> "import", attempt |-> 1, request |-> request]
<1>1. request = [name |-> request.name, option |-> request.option] /\ request.option \in Options
      /\ request.name \in EntryNames
  BY SubscriptionAssumption DEF EntryNames
<1>2. TaskKeeps(next, entries[u])
  BY <1>1 DEF TaskKeeps
<1> QED BY <1>2, TaskGoesOn DEF StartImport

LEMMA PlanKeeps ==
    ASSUME SubscriptionInv, NEW u \in Subscriptions, Plan(u)
    PROVE  SubscriptionInv'
<1> DEFINE t == tasks[u]
           e == entries[u]
           option == WithProxyOption(OrElse(e.option, DefaultOption), t.attempt)
           asking == [phase |-> "asking", attempt |-> t.attempt,
                      request |-> [name |-> NameOverride(e), option |-> option]]
           next == IF e = NoEntry THEN Idle ELSE asking
<1>1. t.phase = "update" /\ tasks' = [tasks EXCEPT ![u] = next]
  BY DEF Plan
<1>2. t.attempt \in 1..3 /\ e \in Catalogued \cup {NoEntry}
  BY <1>1 DEF SubscriptionInv, TaskKeeps
<1>3. CASE e = NoEntry
  BY <1>1, <1>3, IdleKeeps, TaskGoesOn DEF Plan
<1>4. CASE e # NoEntry
  <2>1. e \in Catalogued
    BY <1>2, <1>4
  <2>2. option \in Options /\ option.interval = OptionOf(e).interval /\ option.auto = OptionOf(e).auto
    BY <1>2, <2>1, OptionOfIsOption, WithProxyType
  <2>3. NameOverride(e) \in EntryNames \cup {None}
    BY <2>1 DEF NameOverride, Catalogued
  <2> HIDE DEF option
  <2>4. TaskKeeps(asking, e)
    BY <1>2, <2>2, <2>3 DEF TaskKeeps
  <2> QED BY <1>1, <1>4, <2>4, TaskGoesOn DEF Plan
<1> QED BY <1>3, <1>4

LEMMA AttemptFailsKeeps ==
    ASSUME SubscriptionInv, NEW u \in Subscriptions, AttemptFails(u)
    PROVE  SubscriptionInv'
<1> DEFINE t == tasks[u]
           next == IF t.attempt = Len(Attempts) THEN Idle
                   ELSE IF t.phase = "asking" THEN [phase |-> "update", attempt |-> t.attempt + 1]
                   ELSE [phase |-> "import", attempt |-> t.attempt + 1, request |-> t.request]
<1>1. t.phase \in {"asking", "import"} /\ tasks' = [tasks EXCEPT ![u] = next]
  BY DEF AttemptFails
<1>2. TaskKeeps(t, entries[u])
  BY DEF SubscriptionInv
<1>3. Len(Attempts) = 3
  BY DEF Attempts
<1>4. TaskKeeps(next, entries[u])
  <2>1. CASE t.attempt = 3
    BY <1>3, <2>1, IdleKeeps
  <2>2. CASE t.attempt # 3 /\ t.phase = "asking"
    BY <1>1, <1>2, <1>3, <2>2 DEF TaskKeeps
  <2>3. CASE t.attempt # 3 /\ t.phase = "import"
    BY <1>1, <1>2, <1>3, <2>3 DEF TaskKeeps
  <2> QED BY <1>1, <2>1, <2>2, <2>3
<1> QED BY <1>1, <1>4, TaskGoesOn DEF AttemptFails

LEMMA DownloadKeeps ==
    ASSUME SubscriptionInv, NEW u \in Subscriptions, NEW body, NEW header \in Headers,
           Download(u, body, header)
    PROVE  SubscriptionInv'
<1> DEFINE t == tasks[u]
           remote == DownloadRemoteProfile(t.request, body, header)
           next == [phase |-> "commit", option |-> t.request.option, remote |-> remote]
<1>1. t.phase = "asking" /\ tasks' = [tasks EXCEPT ![u] = next] /\ NormalizeRemoteProfile(body) # NoDocument
  BY DEF Download
<1>2. TaskKeeps(t, entries[u])
  BY DEF SubscriptionInv
<1>3. /\ remote.document # NoDocument /\ remote.name \in EntryNames /\ remote.interval \in Nat \cup {None}
      /\ t.request.name \in {None, remote.name} /\ t.request.option.interval \in {None, remote.interval}
  BY <1>1, <1>2, DownloadType DEF TaskKeeps
<1> HIDE DEF remote
<1>4. TaskKeeps(next, entries[u])
  BY <1>1, <1>2, <1>3 DEF TaskKeeps
<1> QED BY <1>1, <1>4, TaskGoesOn DEF Download

LEMMA DownloadImportKeeps ==
    ASSUME SubscriptionInv, NEW u \in Subscriptions, NEW body, NEW header \in Headers,
           DownloadImport(u, body, header)
    PROVE  SubscriptionInv'
<1> DEFINE t == tasks[u]
           option == WithProxyOption(t.request.option, t.attempt)
           request == [t.request EXCEPT !.option = option]
           remote == DownloadRemoteProfile(request, body, header)
           next == [phase |-> "append", option |-> option, remote |-> remote]
<1>1. t.phase = "import" /\ tasks' = [tasks EXCEPT ![u] = next] /\ NormalizeRemoteProfile(body) # NoDocument
  BY DEF DownloadImport
<1>2. TaskKeeps(t, entries[u])
  BY DEF SubscriptionInv
<1>3. option \in Options
  BY <1>1, <1>2, WithProxyType DEF TaskKeeps
<1> HIDE DEF option
<1>4. request.name = t.request.name /\ request.option = option
  BY <1>1, <1>2 DEF TaskKeeps
<1> HIDE DEF request
<1>5. /\ remote.document # NoDocument /\ remote.name \in EntryNames /\ remote.interval \in Nat \cup {None}
  BY <1>1, <1>2, <1>3, <1>4, DownloadType DEF TaskKeeps
<1> HIDE DEF remote
<1>6. TaskKeeps(next, entries[u])
  BY <1>3, <1>5 DEF TaskKeeps
<1> QED BY <1>1, <1>6, TaskGoesOn DEF DownloadImport, option, request, remote

\* What is saved is an entry, and has its file.
LEMMA SavedEntry ==
    ASSUME SubscriptionInv, NEW u \in Subscriptions, NEW old \in Options \cup {None}, Save(u, old),
           tasks[u].phase \in {"commit", "append"}
    PROVE  /\ entries' = [entries EXCEPT ![u] = entries'[u]] /\ files' = [files EXCEPT ![u] = files'[u]]
           /\ files'[u] # NoDocument /\ entries'[u] \in Catalogued
           /\ entries'[u].name = tasks[u].remote.name /\ entries'[u].updated = clock
           /\ LET was == IF old = None THEN DefaultOption ELSE old
              IN /\ was.interval \in {None, tasks[u].remote.interval}
                       => was.interval \in {None, entries'[u].option.interval}
                 /\ was.auto = tasks[u].option.auto => was.auto \in {None, entries'[u].option.auto}
<1> DEFINE t == tasks[u]
           merged == MergeRemoteOption(t.option, t.remote.interval)
           option == Overlay(old, merged)
           entry == [name |-> t.remote.name, updated |-> clock, option |-> option]
<1>1. TaskKeeps(t, entries[u]) /\ clock \in Nat
  BY SubscriptionAssumption DEF SubscriptionInv
<1>2. t.option \in Options /\ t.remote.interval \in Nat \cup {None} /\ t.remote.document # NoDocument
      /\ t.remote.name \in EntryNames
  BY <1>1 DEF TaskKeeps
<1>3. /\ merged \in Options
      /\ merged.interval = IF t.remote.interval = None THEN t.option.interval ELSE t.remote.interval
      /\ merged.auto = IF t.option.auto = None THEN TRUE ELSE t.option.auto
  BY <1>2 DEF MergeRemoteOption, OrElse, Options
<1> HIDE DEF merged
<1>4. /\ option \in Options
      /\ option.interval = IF old = None THEN merged.interval
                           ELSE IF merged.interval = None THEN old.interval ELSE merged.interval
      /\ option.auto = IF old = None THEN merged.auto
                       ELSE IF merged.auto = None THEN old.auto ELSE merged.auto
  <2>1. CASE old = None
    BY <1>3, <2>1 DEF Overlay
  <2>2. CASE old # None
    BY <1>3, <2>2 DEF Overlay, OrElse, Options
  <2> QED BY <2>1, <2>2
<1>5. /\ entries' = [entries EXCEPT ![u] = entry] /\ files' = [files EXCEPT ![u] = t.remote.document]
      /\ entries'[u] = entry /\ files'[u] = t.remote.document
  BY DEF Save, SubscriptionInv, merged
<1> HIDE DEF option
<1>6. entry \in Catalogued
  BY <1>1, <1>2, <1>4 DEF Catalogued
<1> DEFINE was == IF old = None THEN DefaultOption ELSE old
<1>7. was.interval \in {None, t.remote.interval} => was.interval \in {None, option.interval}
  BY <1>3, <1>4 DEF DefaultOption
<1>8. was.auto = t.option.auto => was.auto \in {None, option.auto}
  BY <1>3, <1>4 DEF DefaultOption
<1> HIDE DEF was
<1>9. entries'[u].option = option /\ entries'[u].name = t.remote.name /\ entries'[u].updated = clock
  BY <1>5
<1>10. entries' = [entries EXCEPT ![u] = entries'[u]] /\ files' = [files EXCEPT ![u] = files'[u]]
  BY <1>5
<1> QED BY <1>2, <1>5, <1>6, <1>7, <1>8, <1>9, <1>10 DEF was

\* The end of a task, with the catalog's entry changed or not.
LEMMA EndKeeps ==
    ASSUME SubscriptionInv, NEW u \in Subscriptions, tasks' = [tasks EXCEPT ![u] = Idle],
           UNCHANGED <<clock, swept>>, tasks[u].phase \in {"commit", "append"},
           UNCHANGED <<entries, files>> \/ \E old \in Options \cup {None} : Save(u, old)
    PROVE  SubscriptionInv'
<1>1. CASE UNCHANGED <<entries, files>>
  BY <1>1, IdleKeeps, TaskGoesOn
<1>2. ASSUME NEW old \in Options \cup {None}, Save(u, old)
      PROVE  SubscriptionInv'
  <2>1. /\ entries' = [entries EXCEPT ![u] = entries'[u]] /\ files' = [files EXCEPT ![u] = files'[u]]
        /\ files'[u] # NoDocument /\ entries'[u] \in Catalogued /\ entries'[u] # NoEntry
    BY <1>2, SavedEntry, SubscriptionAssumption
  <2> QED BY <2>1, IdleKeeps DEF SubscriptionInv
<1> QED BY <1>1, <1>2

\* The entry goes with its file; a task that finds none will give up.
LEMMA DeleteKeeps ==
    ASSUME SubscriptionInv, NEW u \in Subscriptions, Delete(u)
    PROVE  SubscriptionInv'
  BY DEF SubscriptionInv, Delete, TaskKeeps

\* The tasks die with the process; the catalog stays.
LEMMA ProcessRestartKeeps == SubscriptionInv /\ Restart => SubscriptionInv'
  BY IdleKeeps DEF SubscriptionInv, Restart

\* The first state and every step.
LEMMA SubscriptionStart == SubscriptionInit => SubscriptionInv
<1> SUFFICES ASSUME SubscriptionInit
             PROVE  SubscriptionInv
  OBVIOUS
<1>1. \A u \in Subscriptions : entries[u] \in Catalogued \cup {NoEntry} /\ tasks[u] = Idle
  BY SubscriptionAssumption DEF SubscriptionInit
<1>2. \A u \in Subscriptions : (entries[u] = NoEntry) <=> (files[u] = NoDocument)
  BY SubscriptionAssumption DEF SubscriptionInit
<1> QED BY <1>1, <1>2, IdleKeeps DEF SubscriptionInit, SubscriptionInv

LEMMA SubscriptionStep == SubscriptionInv /\ [SubscriptionNext]_subscriptionVars => SubscriptionInv'
<1> SUFFICES ASSUME SubscriptionInv, [SubscriptionNext]_subscriptionVars
             PROVE  SubscriptionInv'
  OBVIOUS
<1>1. CASE UNCHANGED subscriptionVars
  BY <1>1 DEF subscriptionVars, SubscriptionInv
<1>2. CASE EnqueueDue \/ EnqueueAll \/ Restart
  BY <1>2, StartedKeeps, ProcessRestartKeeps DEF EnqueueDue, EnqueueAll, SubscriptionInv
<1>3. ASSUME NEW now \in Times, TickTo(now)
      PROVE  SubscriptionInv'
  BY <1>3 DEF TickTo, SubscriptionInv
<1>4. ASSUME NEW u \in Subscriptions, OfTask(u)
      PROVE  SubscriptionInv'
  <2>1. CASE Commit(u)
    <3>1. entries[u] # NoEntry => entries[u].option \in Options \cup {None}
      BY DEF SubscriptionInv, Catalogued
    <3> QED BY <2>1, <3>1, EndKeeps DEF Commit
  <2>2. CASE CommitImport(u)
    BY <2>2, EndKeeps DEF CommitImport
  <2> QED BY <1>4, <2>1, <2>2, PlanKeeps, AttemptFailsKeeps, DownloadKeeps, DownloadImportKeeps DEF OfTask
<1>5. ASSUME NEW u \in Subscriptions,
             \/ StartUpdate(u) \/ Delete(u)
             \/ \E request \in Requests : StartImport(u, request)
      PROVE  SubscriptionInv'
  BY <1>5, StartedKeeps, DeleteKeeps, ImportKeeps DEF StartUpdate, SubscriptionInv
<1> QED BY <1>1, <1>2, <1>3, <1>4, <1>5 DEF SubscriptionNext

\* The invariant of the updates (subscriptions.rs): an entry has its file, and a task that will save
\* something holds what the entry, as it is then, will be merged with.
THEOREM SubscriptionInvariant == SubscriptionSpec => []SubscriptionInv
<1> QED BY SubscriptionStart, SubscriptionStep, PTL DEF SubscriptionSpec

\* Type correctness of the catalog's entries, files and tasks.
THEOREM SubscriptionTypeCorrect == SubscriptionSpec => []SubscriptionTypeOK
<1>1. SubscriptionInv => SubscriptionTypeOK
  BY DEF SubscriptionInv, SubscriptionTypeOK, TaskKeeps
<1> QED BY <1>1, SubscriptionInvariant, PTL

-----------------------------------------------------------------------------
\* The two computations of when an update is due.
LEMMA DueTwice ==
    ASSUME NEW e \in Catalogued, NEW now \in Times, e # NoEntry
    PROVE  DueProfile(e, now) <=> ProfileStatus(e, now).due
<1> DEFINE period == Saturates(e.option.interval * Minute)
           sum == Saturates(e.updated + period)
<1>1. now \in Nat /\ now < WordSize - 1 /\ WordSize \in Nat /\ WordSize > 1
  BY SubscriptionAssumption
<1>2. /\ e.option \in Options \cup {None} /\ e.updated \in Nat \cup {None}
      /\ e.option # None => e.option.interval \in Nat \cup {None}
  BY DEF Catalogued, Options
<1>3. CASE e.option = None \/ e.updated = None
  BY <1>3 DEF DueProfile, ProfileStatus, NextUpdateAt
<1>4. CASE e.option # None /\ e.option.interval \in {None, 0}
  BY <1>4 DEF DueProfile, ProfileStatus, NextUpdateAt
<1>5. CASE e.option # None /\ e.updated # None /\ e.option.interval \notin {None, 0}
  <2>1. e.option.interval \in Nat \ {0} /\ e.updated \in Nat
    BY <1>2, <1>5
  <2>2. period \in Nat \ {0}
    BY <1>1, <2>1 DEF Saturates, Minute
  <2> HIDE DEF period
  <2>3. sum \in Nat /\ sum # None
    BY <1>1, <2>1, <2>2, SubscriptionAssumption DEF Saturates
  <2>4. (IF now > e.updated THEN now - e.updated ELSE 0) >= period <=> now >= sum
    BY <1>1, <2>1, <2>2 DEF Saturates
  <2>5. NextUpdateAt(e) = sum
    BY <1>5 DEF NextUpdateAt, period
  <2>6. DueProfile(e, now) <=>
           e.option.auto # FALSE /\ (IF now > e.updated THEN now - e.updated ELSE 0) >= period
    BY <1>5 DEF DueProfile, period
  <2> HIDE DEF sum
  <2>7. ProfileStatus(e, now).due <=> now >= sum /\ e.option.auto # FALSE
    BY <1>5, <2>3, <2>5 DEF ProfileStatus
  <2> QED BY <2>4, <2>6, <2>7
<1> QED BY <1>3, <1>4, <1>5

\* A status is due exactly if its reason says so.
LEMMA ReasonSaysDue ==
    ASSUME NEW e, NEW now
    PROVE  ProfileStatus(e, now).due <=> ProfileStatus(e, now).reason = "due"
  BY DEF ProfileStatus, NextUpdateAt

\* The sweep updates the profiles that the listing shows as due and no other, although the one subtracts
\* from the clock and the other adds to the time of the last update: for every word size, clock and
\* interval, the saturation of either sum changes nothing.
THEOREM SweepMatches == SubscriptionSpec => []SweepMatchesStatus
<1>1. SubscriptionInv => SweepMatchesStatus
  BY DueTwice, ReasonSaysDue DEF SubscriptionInv, SweepMatchesStatus
<1> QED BY <1>1, SubscriptionInvariant, PTL

-----------------------------------------------------------------------------
\* Only a commit over the entry rewrites it.
LEMMA ChoiceKept ==
    ASSUME SubscriptionInv, SubscriptionNext, NEW u \in Subscriptions, entries[u] # NoEntry,
           entries'[u] # NoEntry, entries'[u] # entries[u]
    PROVE  LET old == OrElse(entries[u].option, DefaultOption)
               new == entries'[u].option
           IN /\ NameOverride(entries[u]) \in {None, entries'[u].name}
              /\ old.interval \in {None, new.interval}
              /\ old.auto \in {None, new.auto}
              /\ entries'[u].updated = clock
<1>1. tasks[u].phase = "commit" /\ Save(u, entries[u].option)
  <2>1. ~(EnqueueDue \/ EnqueueAll \/ Restart \/ \E now \in Times : TickTo(now))
    BY DEF EnqueueDue, EnqueueAll, Restart, TickTo
  <2>2. PICK v \in Subscriptions :
           \/ OfTask(v) \/ StartUpdate(v) \/ Delete(v)
           \/ \E request \in Requests : StartImport(v, request)
    BY <2>1 DEF SubscriptionNext
  <2>3. ~(StartUpdate(v) \/ Plan(v) \/ AttemptFails(v))
    BY DEF StartUpdate, Plan, AttemptFails
  <2>4. ~(\E request \in Requests : StartImport(v, request))
    BY DEF StartImport
  <2>5. ~(\E body \in Bodies, header \in Headers : Download(v, body, header) \/ DownloadImport(v, body, header))
    BY DEF Download, DownloadImport
  <2>6. Commit(v) \/ CommitImport(v) \/ Delete(v)
    BY <2>2, <2>3, <2>4, <2>5 DEF OfTask
  <2>7. CASE Delete(v)
    BY <2>7 DEF Delete, SubscriptionInv
  <2>8. CASE CommitImport(v)
    BY <2>8 DEF CommitImport, Save, SubscriptionInv
  <2>9. CASE Commit(v)
    BY <2>9 DEF Commit, Save, SubscriptionInv
  <2> QED BY <2>6, <2>7, <2>8, <2>9
<1>2. entries[u] \in Catalogued /\ TaskKeeps(tasks[u], entries[u])
  BY DEF SubscriptionInv
<1>3. entries[u].option \in Options \cup {None} /\ OptionOf(entries[u]) = OrElse(entries[u].option, DefaultOption)
  BY <1>2, OptionOfIsOption DEF Catalogued
<1>4. /\ NameOverride(entries[u]) \in {None, tasks[u].remote.name}
      /\ OptionOf(entries[u]).interval \in {None, tasks[u].remote.interval}
      /\ tasks[u].option.auto = OptionOf(entries[u]).auto
  BY <1>1, <1>2 DEF TaskKeeps
<1>5. /\ entries'[u].name = tasks[u].remote.name /\ entries'[u].updated = clock
      /\ OptionOf(entries[u]).interval \in {None, tasks[u].remote.interval}
           => OptionOf(entries[u]).interval \in {None, entries'[u].option.interval}
      /\ OptionOf(entries[u]).auto = tasks[u].option.auto
           => OptionOf(entries[u]).auto \in {None, entries'[u].option.auto}
  BY <1>1, <1>3, SavedEntry DEF OptionOf
<1> QED BY <1>3, <1>4, <1>5

\* An update, whatever the server sends and however many attempts it took, keeps the name, the interval and
\* the automatic updates that the user chose before it, and writes the time of the update.
THEOREM SubscriptionChoices == SubscriptionSpec => ChoicesSurvive
<1> DEFINE Kept ==
      \A u \in Subscriptions :
          entries[u] # NoEntry /\ entries'[u] # NoEntry /\ entries'[u] # entries[u] =>
              LET old == OrElse(entries[u].option, DefaultOption)
                  new == entries'[u].option
              IN /\ NameOverride(entries[u]) \in {None, entries'[u].name}
                 /\ old.interval \in {None, new.interval}
                 /\ old.auto \in {None, new.auto}
                 /\ entries'[u].updated = clock
<1>1. SubscriptionInv /\ [SubscriptionNext]_subscriptionVars => [Kept]_subscriptionVars
  BY ChoiceKept
<1> HIDE DEF Kept
<1>2. SubscriptionSpec => [][Kept]_subscriptionVars
  BY <1>1, SubscriptionInvariant, PTL DEF SubscriptionSpec
<1> QED BY <1>2 DEF Kept, ChoicesSurvive
=============================================================================
