-------------------------------- MODULE Settings --------------------------------
(***************************************************************************)
(* Where the configuration of a process comes from (vills/core/settings.py *)
(* and config/*.yaml): its variables, the .env file, the YAML file of the  *)
(* environment, the defaults, in this order; and the cache of              *)
(* get_settings.  Two fields: environment, and cors_allow_origins for all  *)
(* that the YAML files set.  A value is named after who wrote it.          *)
(***************************************************************************)
EXTENDS Naturals

CONSTANTS
  Component,  \* what is built from the settings: the app, the engine, ...
  Unread      \* nobody has asked for the settings yet

Environment == {"dev", "staging", "prod"}
Field == {"environment", "cors"}

Unset == "unset"  \* a source does not mention the field
Empty == "empty"  \* it gives the empty string

VARIABLES
  environ,   \* field -> the value of its variable in this process
  exact,     \* the variable is spelled ENVIRONMENT, as os.getenv asks
  dotenv,    \* field -> the value in .env
  settings,  \* what get_settings has cached
  holds      \* component -> the settings it was built with

settings_vars == <<environ, exact, dotenv, settings, holds>>

\* What a deployment may write.
Written(f) ==
  {Unset, Empty} \cup IF f = "environment" THEN Environment ELSE {"written"}
Source == {s \in [Field -> UNION {Written(f) : f \in Field}] :
             \A f \in Field : s[f] \in Written(f)}

--------------------------------------------------------------------------------
\* os.getenv("ENVIRONMENT", "dev") chooses the file.
MutYamlFile ==
  IF exact /\ environ["environment"] # Unset THEN environ["environment"] ELSE "prod"
YamlFile ==
  IF exact /\ environ["environment"] # Unset THEN environ["environment"] ELSE "dev"

\* Each file sets all but the environment; there is no file of another name.
Yaml(f) == IF YamlFile \in Environment /\ f # "environment" THEN YamlFile ELSE Unset

Default(f) == IF f = "environment" THEN "dev" ELSE "default"

\* settings_customise_sources: the first that has a value, were it empty.
ValueOf(f) ==
  LET given == <<environ[f], dotenv[f], Yaml(f), Default(f)>>
      first == CHOOSE i \in 1..4 :
                 given[i] # Unset /\ \A j \in 1..(i - 1) : given[j] = Unset
  IN  given[first]

\* Settings(); _valid_env raises unless the environment is a known one.
Read == [f \in Field |-> ValueOf(f)]
Valid(values) == values["environment"] \in Environment

\* lru_cache keeps the first settings, and no exception.
MutCached == Read
Cached == IF settings # Unread THEN settings ELSE Read

SettingsInit ==
  /\ environ = [f \in Field |-> Unset]
  /\ exact = TRUE
  /\ dotenv = [f \in Field |-> Unset]
  /\ settings = Unread
  /\ holds = [c \in Component |-> Unread]

\* create_app, the lifespan, create_celery, init_engine, ... call get_settings.
Configure(c) ==
  /\ holds[c] = Unread
  /\ Valid(Cached)
  /\ settings' = Cached
  /\ holds' = [holds EXCEPT ![c] = Cached]
  /\ UNCHANGED <<environ, exact, dotenv>>

\* Somebody edits .env, whatever runs.
EditDotenv(source) ==
  /\ dotenv' = source
  /\ UNCHANGED <<environ, exact, settings, holds>>

\* The process is started again, perhaps with other variables.
Restart(source, spelling) ==
  /\ environ' = source
  /\ exact' = spelling
  /\ settings' = Unread
  /\ holds' = [c \in Component |-> Unread]
  /\ UNCHANGED dotenv

SettingsNext ==
  \/ \E c \in Component : Configure(c)
  \/ \E source \in Source :
       EditDotenv(source) \/ \E spelling \in BOOLEAN : Restart(source, spelling)

SettingsSpec == SettingsInit /\ [][SettingsNext]_settings_vars

--------------------------------------------------------------------------------
\* Properties.

\* Whatever is edited while a process builds its components one after the
\* other (main.py:19, 31; app.py:14; session.py:25), all of them hold the same
\* settings.
OneConfiguration ==
  \A c, d \in Component :
    holds[c] # Unread /\ holds[d] # Unread => holds[c] = holds[d]

\* A process runs under the name of one environment with the values of another
\* (settings.py:23) only if .env alone names it, or a variable in another
\* spelling, which os.getenv does not see and pydantic does.
FileOfTheEnvironment ==
  [][settings = Unread /\ settings' # Unread
     /\ settings'["cors"] \in Environment \ {settings'["environment"]}
       => \/ environ["environment"] = Unset /\ dotenv["environment"] # Unset
          \/ environ["environment"] # Unset /\ ~exact]_settings_vars
================================================================================
