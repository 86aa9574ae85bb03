-------------------------------- MODULE Site --------------------------------
(***************************************************************************)
(* A site: relay.json and the secrets, the service, which reads them one   *)
(* after the other when it starts (TaskLoops is its one life from there),  *)
(* and the `authorize` command, which reads relay.json by itself.          *)
(***************************************************************************)
EXTENDS TaskLoops, Settings

CONSTANTS
  RelayJsons,   \* contents of relay.json
  Given,        \* what the environment of the service may hold of the secrets
  MaxEdits      \* how often relay.json is changed (a bound)

ASSUME SiteAssumption ==
  /\ RelayJsons \subseteq RelayJson
  /\ Given \subseteq Secrets
  /\ MaxEdits \in Nat

VARIABLES
  config,      \* relay.json
  edits,       \* changes of it so far
  read,        \* what the service has read of it, or Absent
  readAt,      \* when, in edits
  settings,    \* the settings of the service, or Absent
  askedAt,     \* when the command has read it, in edits
  at, app, stage, exit, com, queries, allowed   \* the command (Authorize)

Command == INSTANCE Authorize WITH NoApp <- Absent

fileVars == <<config, edits>>
serviceVars == <<vars, read, readAt, settings>>
authorizeVars == <<at, app, stage, exit, com, queries, allowed, askedAt>>
siteVars == <<fileVars, serviceVars, authorizeVars>>

SiteTypeOK ==
  /\ TypeOK
  /\ Command!AuthorizeTypeOK
  /\ config \in RelayJson /\ edits \in 0 .. MaxEdits
  /\ read = Absent \/ (read \in RelayJson /\ ConfigOK(read))
  /\ readAt \in 0 .. edits /\ askedAt \in 0 .. edits
  /\ settings \in LoadedSettings \cup {Absent}
  /\ phase = "starting" => settings = Absent
  /\ settings = Absent => phase \in {"starting", "failed"}

SiteInit ==
  /\ Init
  /\ Command!CInit
  /\ config \in RelayJsons /\ edits = 0
  /\ read = Absent /\ settings = Absent
  /\ readAt = 0 /\ askedAt = 0

-----------------------------------------------------------------------------
(* The files, and the start of the service                                 *)

\* Somebody changes relay.json, or puts it there, while it may still be read.
EditConfig ==
  /\ edits < MaxEdits
  /\ phase = "starting" \/ at = "start"
  /\ config' \in RelayJsons \ {config}
  /\ edits' = edits + 1
  /\ UNCHANGED <<serviceVars, authorizeVars>>

ReadConfig ==
  /\ phase = "starting" /\ read = Absent
  /\ IF ConfigOK(config)
     THEN read' = config /\ readAt' = edits /\ UNCHANGED vars
     ELSE LoadSettings(FALSE) /\ UNCHANGED <<read, readAt>>
  /\ UNCHANGED <<fileVars, settings, authorizeVars>>

\* The secrets, whatever they are by now; the interval is looked at last.
ReadSecrets ==
  /\ phase = "starting" /\ read # Absent
  /\ \E given \in Given, file \in EnvFiles :
       LET secrets == Environ(given, file)
       IN  IF SecretsOK(secrets) /\ IntervalOK(read)
           THEN LoadSettings(TRUE) /\ settings' = Loaded(read, secrets)
           ELSE LoadSettings(FALSE) /\ UNCHANGED settings
  /\ read' = Absent
  /\ UNCHANGED <<fileVars, readAt, authorizeVars>>

ServiceStep ==
  /\ LoopsStep
  /\ UNCHANGED <<fileVars, read, readAt, settings, authorizeVars>>

-----------------------------------------------------------------------------
(* The command                                                             *)

\* Mutation of AppToAuthorize: a command that is run once has its names built in.
AppToAuthorize_Default(c) == IF c.file = "unreadable" THEN Absent ELSE DefaultApp

\* authorize reads relay.json by itself, and does without it if it is missing.
AppToAuthorize(c) ==
  IF c.file = "unreadable" THEN Absent
  ELSE IF c.file = "missing" \/ c.app = Absent THEN DefaultApp ELSE c.app

AuthorizeStep ==
  /\ \/ Command!ReadApp(AppToAuthorize(config)) /\ askedAt' = edits
     \/ Command!CommandStep /\ UNCHANGED askedAt
  /\ UNCHANGED <<fileVars, serviceVars>>

-----------------------------------------------------------------------------

SiteNext == EditConfig \/ ReadConfig \/ ReadSecrets \/ ServiceStep \/ AuthorizeStep

SiteSpec == SiteInit /\ [][SiteNext]_siteVars

\* The service reads on; nobody has to change the file or run the command.
FairSiteSpec ==
  /\ SiteSpec
  /\ WF_siteVars(ReadConfig) /\ WF_siteVars(ReadSecrets)
  /\ Fairness

-----------------------------------------------------------------------------
(* Properties                                                              *)

\* The app an Admin allows for good is the one the service presents, unless
\* relay.json was changed between the reads of the two (authorize.py:11-12, 25-29;
\* settings.py:103-118).
AuthorizedAppIsUsed ==
  settings # Absent /\ readAt = askedAt /\ allowed # {} => settings.app \in allowed

\* The command holds QuickBooks for one stretch and sends it one request at most, and
\* QuickBooks holds nothing for it any more when it has exited, whichever calls raise:
\* its `finally` goes on behind each of them (authorize.py:38-63).
AuthorizesOneSession ==
  /\ Command!Relay!Spec
  /\ [](at = "exited" => com = "none")

=============================================================================
