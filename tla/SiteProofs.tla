----------------------------- MODULE SiteProofs -----------------------------
(***************************************************************************)
(* Proofs about TaskLoops and Site: for any integrations and tasks, any    *)
(* relay.json and secrets, and any number of changes of relay.json.        *)
(***************************************************************************)
EXTENDS Site, TLAPS

\* How the stop travels: each part of the way is set after the one before.
StopTravels ==
  /\ watcher # "waiting" => stop
  /\ stopEvent => stop

LoopsEnd ==
  /\ phase \in {"starting", "building"} => tasks = {}
  /\ \A t \in Tasks : loop[t] = "ended" =>
        stopEvent \/ phase \in {"raised", "cancelling", "failed"}

LoopsInv == TypeOK /\ StopTravels /\ LoopsEnd /\ StopsOnlyWhenAsked /\ NothingRunsAfterStop

-----------------------------------------------------------------------------
(* The loops                                                               *)

LEMMA InitLoopsInv == Init => LoopsInv
BY DEF Init, LoopsInv, TypeOK, StopTravels, LoopsEnd, StopsOnlyWhenAsked, NothingRunsAfterStop

\* Where a loop is that has a task.
LEMMA LoopMoves ==
  ASSUME LoopsInv, NEW t \in Tasks,
         OpenClient(t) \/ OpenClientFails(t) \/ LoopTop(t) \/ TickEnds(t) \/ WakeUp(t)
  PROVE  LoopsInv'
<1>1. t \in tasks /\ phase \notin {"closing", "stopped", "failed"}
  BY DEF LoopsInv, TypeOK, NothingRunsAfterStop, OpenClient, OpenClientFails,
         LoopTop, TickEnds, WakeUp, LoopsRun
<1>2. CASE OpenClientFails(t)
  BY <1>1, <1>2 DEF OpenClientFails, LoopsRun, LoopsInv, TypeOK, StopTravels, LoopsEnd,
                    StopsOnlyWhenAsked, NothingRunsAfterStop
<1>3. CASE OpenClient(t) \/ LoopTop(t) \/ TickEnds(t) \/ WakeUp(t)
  BY <1>1, <1>3 DEF OpenClient, LoopTop, TickEnds, WakeUp, LoopsRun, LoopsInv, TypeOK, StopTravels, LoopsEnd,
                    StopsOnlyWhenAsked, NothingRunsAfterStop
<1> QED  BY <1>2, <1>3

LEMMA StopMoves ==
  LoopsInv /\ (SvcStop \/ WatchStop \/ SetStopEvent) => LoopsInv'
BY DEF SvcStop, WatchStop, SetStopEvent, LoopsInv, TypeOK, StopTravels, LoopsEnd,
       StopsOnlyWhenAsked, NothingRunsAfterStop

LEMMA StartMoves ==
  ASSUME LoopsInv, BuildTasks \/ \E ok \in BOOLEAN : LoadSettings(ok)
  PROVE  LoopsInv'
<1>1. CASE BuildTasks
  <2>1. tasks' \subseteq Tasks
    BY <1>1 DEF BuildTasks, Tasks
  <2> QED
    BY <1>1, <2>1 DEF BuildTasks, LoopsInv, TypeOK, StopTravels, LoopsEnd,
                      StopsOnlyWhenAsked, NothingRunsAfterStop
<1>2. CASE \E ok \in BOOLEAN : LoadSettings(ok)
  BY <1>2 DEF LoadSettings, LoopsInv, TypeOK, StopTravels, LoopsEnd,
              StopsOnlyWhenAsked, NothingRunsAfterStop
<1> QED  BY <1>1, <1>2

LEMMA EndMoves ==
  ASSUME LoopsInv, RunTasksReturns \/ Stopped
  PROVE  LoopsInv'
<1>1. CASE RunTasksReturns
  <2>1. stop
    BY <1>1 DEF RunTasksReturns, LoopsInv, TypeOK, StopTravels, LoopsEnd
  <2>2. \A t \in Tasks : loop[t] \in {"none", "ended"}
    BY <1>1 DEF RunTasksReturns, LoopsInv, TypeOK
  <2> QED
    BY <1>1, <2>1, <2>2 DEF RunTasksReturns, LoopsInv, TypeOK, StopTravels, LoopsEnd,
                            StopsOnlyWhenAsked, NothingRunsAfterStop
<1>2. CASE Stopped
  BY <1>2 DEF Stopped, LoopsInv, TypeOK, StopTravels, LoopsEnd, StopsOnlyWhenAsked, NothingRunsAfterStop
<1> QED  BY <1>1, <1>2

\* A loop that is cancelled ends, and the service fails when all have ended.
LEMMA CancelMoves ==
  ASSUME LoopsInv, CancelLoops \/ Fails \/ \E t \in Tasks : Cancelled(t)
  PROVE  LoopsInv'
<1>1. CASE CancelLoops
  BY <1>1 DEF CancelLoops, LoopsInv, TypeOK, StopTravels, LoopsEnd, StopsOnlyWhenAsked,
              NothingRunsAfterStop
<1>2. CASE \E t \in Tasks : Cancelled(t)
  BY <1>2 DEF Cancelled, LoopsInv, TypeOK, StopTravels, LoopsEnd, StopsOnlyWhenAsked,
              NothingRunsAfterStop
<1>3. CASE Fails
  <2>1. \A t \in Tasks : loop[t] \in {"none", "ended"}
    BY <1>3 DEF Fails, LoopsInv, TypeOK
  <2> QED
    BY <1>3, <2>1 DEF Fails, LoopsInv, TypeOK, StopTravels, LoopsEnd, StopsOnlyWhenAsked,
                      NothingRunsAfterStop
<1> QED  BY <1>1, <1>2, <1>3

LEMMA NextLoopsInv == LoopsInv /\ [Next]_vars => LoopsInv'
<1> SUFFICES ASSUME LoopsInv, [Next]_vars
             PROVE  LoopsInv'
  OBVIOUS
<1>1. CASE UNCHANGED vars
  BY <1>1 DEF vars, LoopsInv, TypeOK, StopTravels, LoopsEnd, StopsOnlyWhenAsked, NothingRunsAfterStop
<1> QED  BY <1>1, LoopMoves, StopMoves, StartMoves, EndMoves, CancelMoves DEF Next, LoopsStep

-----------------------------------------------------------------------------
(* The site                                                                *)

\* A step of the site is one of the loops, or leaves them alone.
LEMMA SiteStepIsLoopsStep == [SiteNext]_siteVars => [Next]_vars
BY DEF SiteNext, siteVars, serviceVars, EditConfig, ReadConfig, ReadSecrets, ServiceStep,
       AuthorizeStep, Next

\* What the service has of relay.json, or has made of it.
ReadIsConfig ==
  /\ readAt <= edits /\ askedAt <= edits /\ edits \in Nat /\ readAt \in Nat /\ askedAt \in Nat
  /\ read # Absent => ConfigOK(read)
  /\ readAt = edits /\ read # Absent => read = config
  /\ readAt = edits /\ settings # Absent =>
       config.file = "object" /\ settings.app = ServiceApp(config)

\* What the command has of it.
AskedIsConfig ==
  /\ at = "start" => allowed = {}
  /\ allowed \subseteq {app}
  /\ at # "start" /\ askedAt = edits => app = AppToAuthorize(config)

\* The two agree if neither has seen a change the other has not.
Agree ==
  at # "start" /\ readAt = askedAt =>
    /\ read # Absent => app = ServiceApp(read)
    /\ settings # Absent => app = settings.app

\* While it reads it has no settings.
Unloaded == phase = "starting" => settings = Absent

SiteInv == ReadIsConfig /\ AskedIsConfig /\ Agree /\ Unloaded

LEMMA NeverStartingAgain == LoopsStep => phase' # "starting" \/ phase = "starting"
BY DEF LoopsStep, SvcStop, WatchStop, SetStopEvent, BuildTasks, OpenClient, OpenClientFails, LoopTop,
       TickEnds, WakeUp, LoopsRun, RunTasksReturns, Stopped, CancelLoops, Cancelled, Fails

LEMMA SameApp ==
  ASSUME NEW c, c.file = "object"
  PROVE  AppToAuthorize(c) = ServiceApp(c)
BY DEF AppToAuthorize, ServiceApp

LEMMA InitSiteInv == SiteInit => SiteInv
BY DEF SiteInit, Init, Command!CInit, SiteInv, ReadIsConfig, AskedIsConfig, Agree, Unloaded

LEMMA NextSiteInv == SiteInv /\ [SiteNext]_siteVars => SiteInv'
<1> SUFFICES ASSUME SiteInv, [SiteNext]_siteVars
             PROVE  SiteInv'
  OBVIOUS
<1> USE DEF SiteInv
<1>1. CASE EditConfig
  BY <1>1 DEF EditConfig, serviceVars, vars, authorizeVars, ReadIsConfig, AskedIsConfig, Agree, Unloaded
<1>2. CASE ReadConfig
  <2>0. settings = Absent /\ settings' = Absent
    BY <1>2 DEF ReadConfig, Unloaded
  <2>1. CASE ConfigOK(config) /\ read' = config /\ readAt' = edits
    <3>1. ReadIsConfig' /\ AskedIsConfig'
      BY <1>2, <2>0, <2>1 DEF ReadConfig, fileVars, authorizeVars, ReadIsConfig, AskedIsConfig, ConfigOK
    <3>2. Agree' /\ Unloaded'
      BY <1>2, <2>0, <2>1, SameApp DEF ReadConfig, fileVars, authorizeVars, AskedIsConfig, Agree,
                                       ConfigOK, Unloaded
    <3> QED  BY <3>1, <3>2
  <2>2. CASE UNCHANGED <<read, readAt>>
    BY <1>2, <2>0, <2>2 DEF ReadConfig, fileVars, authorizeVars, ReadIsConfig, AskedIsConfig, Agree, Unloaded
  <2> QED  BY <1>2, <2>1, <2>2 DEF ReadConfig
<1>3. CASE ReadSecrets
  <2>1. settings' = settings \/ \E s : settings' = Loaded(read, s)
    BY <1>3 DEF ReadSecrets
  <2>2. settings' = settings \/ settings'.app = ServiceApp(read)
    BY <2>1 DEF Loaded
  <2> QED
    BY <1>3, <2>2 DEF ReadSecrets, LoadSettings, fileVars, authorizeVars, ReadIsConfig, AskedIsConfig, Agree,
                      Unloaded, ConfigOK
<1>4. CASE ServiceStep
  BY <1>4, NeverStartingAgain DEF ServiceStep, fileVars, authorizeVars, ReadIsConfig, AskedIsConfig, Agree,
                                 Unloaded
<1>5. CASE AuthorizeStep
  <2>1. CASE Command!ReadApp(AppToAuthorize(config)) /\ askedAt' = edits
    <3>1. /\ at = "start" /\ at' # "start" /\ app' = AppToAuthorize(config) /\ allowed' = {}
          /\ UNCHANGED <<config, edits, read, readAt, settings, phase>>
      BY <1>5, <2>1 DEF AuthorizeStep, fileVars, serviceVars, vars, AskedIsConfig, Command!ReadApp
    <3>2. ReadIsConfig' /\ AskedIsConfig'
      BY <2>1, <3>1 DEF ReadIsConfig, AskedIsConfig
    <3>3. Agree'
      BY <2>1, <3>1, SameApp DEF ReadIsConfig, Agree, ConfigOK
    <3>4. Unloaded'
      BY <3>1 DEF Unloaded
    <3> QED  BY <3>2, <3>3, <3>4
  <2>2. CASE Command!CommandStep /\ UNCHANGED askedAt
    <3>1. /\ at # "start" /\ at' # "start" /\ app' = app /\ allowed' \subseteq allowed \cup {app}
          /\ UNCHANGED <<config, edits, read, readAt, settings, phase>>
      BY <1>5, <2>2 DEF AuthorizeStep, fileVars, serviceVars, vars, Command!CommandStep, Command!CreateProcessor,
           Command!OpenConnection, Command!BeginSession, Command!HostQuery, Command!EndSession,
           Command!CloseConnection, Command!Release, Command!Killed, Command!Leave
    <3> QED  BY <2>2, <3>1 DEF ReadIsConfig, AskedIsConfig, Agree, Unloaded
  <2> QED  BY <1>5, <2>1, <2>2 DEF AuthorizeStep
<1>6. CASE UNCHANGED siteVars
  BY <1>6 DEF siteVars, vars, fileVars, serviceVars, authorizeVars, ReadIsConfig, AskedIsConfig, Agree, Unloaded
<1> QED  BY <1>1, <1>2, <1>3, <1>4, <1>5, <1>6 DEF SiteNext

-----------------------------------------------------------------------------
(* Types                                                                   *)

\* A command on its way has an app.
SiteTypes == SiteTypeOK /\ (at \notin {"start", "exited"} => app \in Apps)

LEMMA AppIsApp ==
  ASSUME NEW c \in RelayJson
  PROVE  /\ ServiceApp(c) \in Apps
         /\ AppToAuthorize(c) \in Apps \cup {Absent}
<1>1. DefaultApp \in Apps
  BY SettingsAssumption DEF DefaultApp
<1> QED  BY <1>1 DEF RelayJson, ServiceApp, AppToAuthorize

\* What the environment and .env come to has the form of secrets.
LEMMA EnvironIsSecrets ==
  ASSUME NEW given \in Secrets, NEW file \in EnvFiles
  PROVE  Environ(given, file) \in Secrets
<1>1. file.key \in Keys \cup {Absent} /\ file.blob \in Blobs \cup {Absent}
  BY DEF EnvFiles, NoSecrets, Encrypted, Blobs
<1> QED  BY <1>1 DEF Environ, Secrets

\* Settings are complete, or there are none.
LEMMA LoadedIsSettings ==
  ASSUME NEW c \in RelayJson, ConfigOK(c), IntervalOK(c), NEW secrets \in Secrets, SecretsOK(secrets)
  PROVE  Loaded(c, secrets) \in LoadedSettings
<1>1. c.url \in Urls /\ ServiceApp(c) \in Apps
  BY AppIsApp DEF ConfigOK
<1>2. secrets.blob.token \in Tokens
  BY DEF SecretsOK, Secrets, Blobs
<1>3. Interval(c) \in {i \in Int : i >= 10}
  BY DEF RelayJson, IntervalOK, Interval, IntervalDefault
<1> QED  BY <1>1, <1>2, <1>3 DEF Loaded, LoadedSettings

LEMMA InitSiteTypes == SiteInit => SiteTypes
<1> SUFFICES ASSUME SiteInit PROVE SiteTypes
  OBVIOUS
<1>1. TypeOK /\ phase = "starting" /\ settings = Absent
  BY InitLoopsInv DEF SiteInit, LoopsInv, Init
<1>2. Command!AuthorizeTypeOK /\ at = "start"
  BY DEF SiteInit, Command!CInit, Command!AuthorizeTypeOK, Command!Stages
<1> QED
  BY <1>1, <1>2, SiteAssumption DEF SiteInit, SiteTypes, SiteTypeOK

\* The service comes from "starting" only by reading its settings, and fails later at most.
LEMMA LoopsKeepStarted ==
  LoopsStep /\ phase \in {"starting", "failed"} /\ TypeOK /\ NothingRunsAfterStop
    => phase' \in {"starting", "failed"}
BY DEF LoopsStep, SvcStop, WatchStop, SetStopEvent, BuildTasks, OpenClient, OpenClientFails, LoopTop,
       TickEnds, WakeUp, LoopsRun, RunTasksReturns, Stopped, CancelLoops, Cancelled, Fails, TypeOK, NothingRunsAfterStop

LEMMA CommandTypes ==
  ASSUME Command!AuthorizeTypeOK, at \notin {"start", "exited"} => app \in Apps,
         Command!CommandStep \/ \E a \in Apps \cup {Absent} : Command!ReadApp(a)
  PROVE  Command!AuthorizeTypeOK' /\ (at' \notin {"start", "exited"} => app' \in Apps)
<1> USE DEF Command!AuthorizeTypeOK, Command!Stages, Command!Leave
<1>1. CASE \E a \in Apps \cup {Absent} : Command!ReadApp(a)
  BY <1>1 DEF Command!ReadApp
<1>2. CASE Command!CreateProcessor \/ Command!OpenConnection
  BY <1>2 DEF Command!CreateProcessor, Command!OpenConnection
<1>3. CASE Command!BeginSession
  BY <1>3 DEF Command!BeginSession
<1>4. CASE Command!HostQuery
  BY <1>4 DEF Command!HostQuery
<1>5. CASE Command!EndSession \/ Command!CloseConnection \/ Command!Release \/ Command!Killed
  BY <1>5 DEF Command!EndSession, Command!CloseConnection, Command!Release, Command!Killed
<1> QED  BY <1>1, <1>2, <1>3, <1>4, <1>5 DEF Command!CommandStep

LEMMA NextSiteTypes == LoopsInv /\ SiteTypes /\ [SiteNext]_siteVars => SiteTypes'
<1> SUFFICES ASSUME LoopsInv, SiteTypes, [SiteNext]_siteVars
             PROVE  SiteTypes'
  OBVIOUS
<1>0. TypeOK'
  BY NextLoopsInv, SiteStepIsLoopsStep DEF LoopsInv
<1> USE DEF SiteTypes, SiteTypeOK
<1>1. CASE EditConfig
  <2>1. config' \in RelayJson /\ edits' \in 0 .. MaxEdits /\ readAt \in 0 .. edits' /\ askedAt \in 0 .. edits'
    BY <1>1, SiteAssumption DEF EditConfig
  <2> QED
    BY <1>0, <1>1, <2>1 DEF EditConfig, serviceVars, vars, authorizeVars, Command!AuthorizeTypeOK
<1>2. CASE ReadConfig
  BY <1>0, <1>2 DEF ReadConfig, LoadSettings, vars, fileVars, authorizeVars, Command!AuthorizeTypeOK
<1>3. CASE ReadSecrets
  <2>1. \/ phase' = "building" /\ settings' \in LoadedSettings /\ settings' # Absent
        \/ phase' = "failed" /\ settings' = settings
    <3> SUFFICES ASSUME NEW given \in Given, NEW file \in EnvFiles
                 PROVE  LET secrets == Environ(given, file)
                        IN  SecretsOK(secrets) /\ IntervalOK(read)
                              => Loaded(read, secrets) \in LoadedSettings
      BY <1>3, SettingsAssumption DEF ReadSecrets, LoadSettings
    <3>1. Environ(given, file) \in Secrets /\ read \in RelayJson /\ ConfigOK(read)
      BY <1>3, SiteAssumption, EnvironIsSecrets DEF ReadSecrets
    <3> QED
      BY <3>1, LoadedIsSettings
  <2> QED
    BY <1>0, <1>3, <2>1 DEF ReadSecrets, fileVars, authorizeVars, Command!AuthorizeTypeOK
<1>4. CASE ServiceStep
  <2>1. /\ UNCHANGED <<config, edits, read, readAt, settings, askedAt, at, app>>
        /\ Command!AuthorizeTypeOK'
    BY <1>4 DEF ServiceStep, fileVars, authorizeVars, Command!AuthorizeTypeOK
  <2>2. phase' = "starting" => phase = "starting"
    BY <1>4, NeverStartingAgain DEF ServiceStep
  <2>3. phase \in {"starting", "failed"} => phase' \in {"starting", "failed"}
    BY <1>4, LoopsKeepStarted DEF ServiceStep, LoopsInv
  <2> QED
    BY <1>0, <2>1, <2>2, <2>3
<1>5. CASE AuthorizeStep
  <2>1. Command!AuthorizeTypeOK' /\ (at' \notin {"start", "exited"} => app' \in Apps)
    BY <1>5, AppIsApp, CommandTypes DEF AuthorizeStep
  <2>2. UNCHANGED <<config, edits, read, readAt, settings, phase>> /\ askedAt' \in {askedAt, edits}
    BY <1>5 DEF AuthorizeStep, fileVars, serviceVars, vars
  <2>3. askedAt' \in 0 .. edits
    BY <2>2, SiteAssumption
  <2> QED
    BY <1>0, <2>1, <2>2, <2>3
<1>6. CASE UNCHANGED siteVars
  BY <1>0, <1>6 DEF siteVars, vars, fileVars, serviceVars, authorizeVars, Command!AuthorizeTypeOK
<1> QED  BY <1>1, <1>2, <1>3, <1>4, <1>5, <1>6 DEF SiteNext

-----------------------------------------------------------------------------
(* The command as a session                                                *)

\* Before the query it holds QuickBooks and has asked it nothing; without a COM object,
\* and when it has exited, it holds nothing.
CommandInv ==
  /\ stage = "none" \/ at = "exited" => com = "none"
  /\ at \in {"start", "create"} => com = "none"
  /\ at \in {"open", "begin", "query"} => com # "none"
  /\ at \in {"start", "create", "open", "begin", "query"} => queries = 0

\* Where it is as a session.
SessionPhase ==
  IF com # "none" THEN "connected" ELSE IF at \in {"start", "create"} THEN "waiting" ELSE "over"

LEMMA InitCommand == SiteInit => CommandInv /\ Command!Relay!Init
BY DEF SiteInit, Command!CInit, CommandInv, Command!Relay!Init

\* What the command does to its session: nothing, or it connects, queries once, or ends it.
LEMMA CommandMoves ==
  ASSUME CommandInv, Command!CommandStep \/ \E a : Command!ReadApp(a)
  PROVE  /\ CommandInv'
         /\ \/ SessionPhase' = SessionPhase /\ queries' = queries
            \/ SessionPhase = "waiting" /\ SessionPhase' = "connected" /\ queries' = queries
            \/ SessionPhase # "over" /\ SessionPhase' = "over" /\ queries' = queries
            \/ SessionPhase = "connected" /\ SessionPhase' = "connected" /\ queries = 0 /\ queries' = 1
<1>1. CASE Command!HostQuery
  BY <1>1 DEF Command!HostQuery, Command!Leave, CommandInv, SessionPhase
<1>2. CASE \E a : Command!ReadApp(a)
  BY <1>2 DEF Command!ReadApp, CommandInv, SessionPhase
<1>3. CASE Command!CreateProcessor \/ Command!OpenConnection \/ Command!BeginSession
  BY <1>3 DEF Command!CreateProcessor, Command!OpenConnection, Command!BeginSession, Command!Leave,
              CommandInv, SessionPhase
<1>4. CASE Command!EndSession \/ Command!CloseConnection \/ Command!Release \/ Command!Killed
  BY <1>4 DEF Command!EndSession, Command!CloseConnection, Command!Release, Command!Killed,
              CommandInv, SessionPhase
<1> QED  BY <1>1, <1>2, <1>3, <1>4 DEF Command!CommandStep

LEMMA NextCommand ==
  CommandInv /\ [SiteNext]_siteVars => CommandInv' /\ [Command!Relay!Next]_(Command!Relay!sessionVars)
<1> SUFFICES ASSUME CommandInv, [SiteNext]_siteVars
             PROVE  CommandInv' /\ [Command!Relay!Next]_(Command!Relay!sessionVars)
  OBVIOUS
<1>1. CASE UNCHANGED <<at, stage, com, queries>>
  BY <1>1 DEF CommandInv, Command!Relay!sessionVars
<1>2. CASE AuthorizeStep
  <2>1. Command!CommandStep \/ \E a : Command!ReadApp(a)
    BY <1>2 DEF AuthorizeStep
  <2>2. CASE SessionPhase' = SessionPhase /\ queries' = queries
    <3>1. UNCHANGED Command!Relay!sessionVars
      BY <2>2 DEF SessionPhase, Command!Relay!sessionVars
    <3> QED  BY <3>1, <2>1, CommandMoves
  <2>3. CASE SessionPhase = "waiting" /\ SessionPhase' = "connected" /\ queries' = queries
    <3>1. Command!Relay!Connect("authorize")
      BY <2>3 DEF SessionPhase, Command!Relay!Connect
    <3> QED  BY <3>1, <2>1, CommandMoves DEF Command!Relay!Next
  <2>4. CASE SessionPhase # "over" /\ SessionPhase' = "over" /\ queries' = queries
    <3>1. Command!Relay!Disconnect("authorize")
      BY <2>4 DEF SessionPhase, Command!Relay!Disconnect
    <3> QED  BY <3>1, <2>1, CommandMoves DEF Command!Relay!Next
  <2>5. CASE SessionPhase = "connected" /\ SessionPhase' = "connected" /\ queries = 0 /\ queries' = 1
    <3>1. Command!Relay!Execute("authorize")
      BY <2>5 DEF SessionPhase, Command!Relay!Execute
    <3> QED  BY <3>1, <2>1, CommandMoves DEF Command!Relay!Next
  <2> QED  BY <2>1, <2>2, <2>3, <2>4, <2>5, CommandMoves
<1> QED
  BY <1>1, <1>2 DEF SiteNext, EditConfig, ReadConfig, ReadSecrets, ServiceStep, siteVars, authorizeVars

-----------------------------------------------------------------------------
(* Theorems                                                                *)

\* The invariant of the task loops, in the service of a site (main.py:48-80,
\* scheduler.py:33-60).
THEOREM SiteLoopsInvariant == SiteSpec => []LoopsInv
<1>1. SiteInit => LoopsInv
  BY InitLoopsInv DEF SiteInit
<1>2. LoopsInv /\ [SiteNext]_siteVars => LoopsInv'
  BY SiteStepIsLoopsStep, NextLoopsInv
<1> QED  BY <1>1, <1>2, PTL DEF SiteSpec

\* The settings of a site's service, what it and the command have read of the files, and
\* how far each is (settings.py:98-131, authorize.py:25-66, main.py:60-80).
THEOREM SiteHasTypes == SiteSpec => []SiteTypeOK
<1>1. SiteTypes => SiteTypeOK
  BY DEF SiteTypes
<1> QED  BY <1>1, InitSiteTypes, NextSiteTypes, SiteLoopsInvariant, PTL DEF SiteSpec

\* Whatever is read and authorized around it, the service of a site is one life of the
\* task loops (main.py:48-80).
THEOREM SiteRunsLoops == SiteSpec => Spec
<1>1. SiteInit => Init
  BY DEF SiteInit
<1> QED  BY <1>1, SiteStepIsLoopsStep, PTL DEF SiteSpec, Spec

\* The service ends only because it was asked to (scheduler.py:43-60).
THEOREM SiteStopsOnlyWhenAsked == SiteSpec => []StopsOnlyWhenAsked
<1>1. LoopsInv => StopsOnlyWhenAsked
  BY DEF LoopsInv
<1> QED  BY <1>1, SiteLoopsInvariant, PTL

\* When it says that it has stopped, or failed, nothing runs (service.py:3-5).
THEOREM SiteNothingRunsAfterStop == SiteSpec => []NothingRunsAfterStop
<1>1. LoopsInv => NothingRunsAfterStop
  BY DEF LoopsInv
<1> QED  BY <1>1, SiteLoopsInvariant, PTL

\* The app the Admin has allowed is the one the service presents
\* (authorize.py:25-29, settings.py:103-118).
THEOREM SiteAuthorizedAppIsUsed == SiteSpec => []AuthorizedAppIsUsed
<1>1. SiteInv => AuthorizedAppIsUsed
  BY DEF SiteInv, AskedIsConfig, Agree, AuthorizedAppIsUsed
<1> QED  BY <1>1, InitSiteInv, NextSiteInv, PTL DEF SiteSpec

\* The command holds QuickBooks for one stretch and sends it one request at most - it
\* implements RelaySession, like a run of the worker - and holds nothing when it has
\* exited (authorize.py:38-63).
THEOREM SiteAuthorizesOneSession == SiteSpec => AuthorizesOneSession
<1>1. CommandInv => (at = "exited" => com = "none")
  BY DEF CommandInv
<1> QED
  BY <1>1, InitCommand, NextCommand, PTL DEF SiteSpec, AuthorizesOneSession, Command!Relay!Spec

=============================================================================
