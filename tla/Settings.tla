----------------------------- MODULE Settings -----------------------------
(***************************************************************************)
(* What load_settings (relay/core/settings.py) makes of config/relay.json, *)
(* the environment and the .env file.  Secrets are a Fernet key and a blob *)
(* encrypted with one; a blob holds the token it was made for, or none.    *)
(***************************************************************************)
EXTENDS Integers

CONSTANTS
  Urls,      \* MyFuel APIs: http(s) URLs with a host
  Apps,      \* app_id and app_name of a QuickBooks app, as one
  Tokens,    \* values of REMOTE_AUTH_TOKEN
  Keys,      \* Fernet keys
  Absent,    \* what a file or a variable does not hold
  Invalid    \* what cannot be used: a URL without a host, an interval that is no number

\* What load_settings returns: an API, a token, an app, and no less than ten seconds.
LoadedSettings == [url : Urls, token : Tokens, app : Apps, interval : {i \in Int : i >= 10}]

ASSUME SettingsAssumption ==
  /\ Absent \notin Urls \cup Apps \cup Tokens \cup Keys \cup LoadedSettings
  /\ Absent # Invalid /\ Invalid \notin Urls
  /\ Apps # {}

\* QB_APP_ID_DEFAULT and QB_APP_NAME_DEFAULT: an app like another, as far as
\* QuickBooks can tell.
DefaultApp == CHOOSE a \in Apps : TRUE

IntervalDefault == 60

\* "file" says whether relay.json is there, and holds a JSON object.
RelayJson ==
  [file : {"missing", "unreadable", "object"},
   url : Urls \cup {Absent, Invalid},
   app : Apps \cup {Absent},
   interval : Int \cup {Absent, Invalid}]

Blobs == [key : Keys, token : Tokens \cup {Absent}]

Secrets == [key : Keys \cup {Absent}, blob : Blobs \cup {Absent}]

NoSecrets == [key |-> Absent, blob |-> Absent]

\* _load_local_config and _myfuel_base_url: the file is there, can be read and
\* names an API.
ConfigOK(config) == config.file = "object" /\ config.url \in Urls

\* load_dotenv: a variable that is already there is not replaced, each by itself.
Environ(environment, file) ==
  [key |-> IF environment.key # Absent THEN environment.key ELSE file.key,
   blob |-> IF environment.blob # Absent THEN environment.blob ELSE file.blob]

\* What tools/encrypt_secrets.py writes, with a key of its own or one it is given; it
\* refuses secrets without a token.
Encrypted(k, t) == [key |-> k, blob |-> [key |-> k, token |-> t]]

\* What .env may hold: nothing if it is missing, or emptied by a tool that did not
\* get to write it.
EnvFiles == {NoSecrets} \cup {Encrypted(k, t) : k \in Keys, t \in Tokens}

\* _decrypt_secrets, and the check of the token.
SecretsOK(secrets) ==
  /\ secrets.key # Absent /\ secrets.blob # Absent
  /\ secrets.blob.key = secrets.key
  /\ secrets.blob.token # Absent

IntervalOK(config) == config.interval # Invalid

\* The app the service presents to QuickBooks.
ServiceApp(config) == IF config.app = Absent THEN DefaultApp ELSE config.app

Interval(config) ==
  LET i == IF config.interval = Absent THEN IntervalDefault ELSE config.interval
  IN  IF i > 10 THEN i ELSE 10

Loaded(config, secrets) ==
  [url |-> config.url, token |-> secrets.blob.token,
   app |-> ServiceApp(config), interval |-> Interval(config)]

=============================================================================
