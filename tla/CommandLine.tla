---------------------------- MODULE CommandLine -----------------------------
(***************************************************************************)
(* The command `receive` (cli/__main__.py): it reads an event, puts its    *)
(* options into the environment, loads the event routers, makes the        *)
(* configuration from the environment (app/config.py), and dispatches the  *)
(* event in the foreground as an app or as an action.                      *)
(*                                                                         *)
(* Loading routers runs code of the user, which may ask for the            *)
(* configuration first; then it is cached.  The environment and .env may   *)
(* hold the credentials of another app.                                    *)
(***************************************************************************)
EXTENDS EventFixture

VARIABLES
  step,       \* what receive does next
  options,    \* its options
  env,        \* the environment, with .env: whose value each variable has
  loaded,     \* how many routers were loaded
  cached,     \* the result that lru_cache keeps
  config,     \* the configuration of the run
  handlers,   \* what became of the handlers
  status      \* the exit status

own == <<step, options, env, loaded, cached, config, handlers, status>>

Options == [token : BOOLEAN, app : {"none", "zero", "number"}, key : {"none", "good", "broken"}]

\* "left" is a value from before, "option" one of the command line, "broken" a
\* text that is no key. fingerprint says whose key it is of; metadata stands for
\* the variables that GitHub sets for an action, other than the token.
Whose == {"unset", "left", "option", "broken"}
Env == [mode : {"auto", "app", "action"}, id : Whose, key : Whose, token : Whose,
        fingerprint : Whose, metadata : BOOLEAN]
Clean == [mode |-> "auto", id |-> "unset", key |-> "unset", token |-> "unset",
          fingerprint |-> "unset", metadata |-> FALSE]

\* What the command may find in the environment and in .env.
CONSTANT LeftOver

ASSUME LeftOverAssumption == LeftOver \subseteq Env

CommandTypeOK ==
  /\ FixtureTypeOK
  /\ step \in {"options", "event", "environment", "routers", "config", "app", "dispatch", "exited"}
  /\ options \in Options
  /\ env \in Env /\ cached \in Env /\ config \in Env
  /\ loaded \in 0..2
  /\ handlers \in {"not_run", "returned", "raised", "outcome"}
  /\ status \in {"none", "success", "traceback", "usage"}

AsApp == options.app # "none"

CommandInit ==
  /\ FixtureInit
  /\ step = "options"
  /\ options \in Options
  /\ class = IF AsApp THEN "GitHubWebhookEvent" ELSE "GitHubEvent"
  /\ env = Clean /\ cached = Clean /\ config = Clean
  /\ loaded = 0 /\ handlers = "not_run" /\ status = "none"

\* Mutant: routers are loaded before the environment is complete.
RoutersFirst(this) ==
  CASE this = "event" -> "routers" [] this = "routers" -> "environment"
    [] this = "environment" -> "config" [] this = "config" -> "app"

StepAfter(this) ==
  CASE this = "event" -> "environment" [] this = "environment" -> "routers"
    [] this = "routers" -> "config" [] this = "config" -> "app"

Exit(code) == step' = "exited" /\ status' = code

-----------------------------------------------------------------------------
(* The options and the event *)

\* An app with number 0 has no credentials.
MissingKey == AsApp /\ options.key = "none"
CredsPresent == options.token \/ (options.app = "number" /\ options.key # "none")
TooManyCreds == options.token /\ (options.app = "number" \/ options.key # "none")

CheckOptions ==
  /\ step = "options"
  /\ IF MissingKey \/ ~CredsPresent \/ TooManyCreds
     THEN Exit("usage")
     ELSE step' = "event" /\ UNCHANGED status
  /\ UNCHANGED <<fixtureVars, options, env, loaded, cached, config, handlers>>

ReadEvent == step = "event" /\ FixtureNext /\ UNCHANGED own

\* What was left over in the environment is looked at from here on.
EventRead ==
  /\ step = "event"
  /\ \/ stage = "done" /\ step' = StepAfter("event") /\ env' \in LeftOver /\ UNCHANGED status
     \/ stage = "failed" /\ Exit(IF error = "ValueError" THEN "usage" ELSE "traceback")
          /\ UNCHANGED env
  /\ UNCHANGED <<fixtureVars, options, loaded, cached, config, handlers>>

-----------------------------------------------------------------------------
(* The environment and the configuration *)

\* For an action, parts of the payload that are null, as the head_commit of a
\* deleted branch is, have no keys, and no value that is not a text, the name of the
\* event included, can be a variable.
UpdateEnvironment ==
  /\ step = "environment"
  /\ \/ /\ AsApp
        /\ env' = [env EXCEPT !.mode = "app", !.id = "option",
                              !.key = IF options.key = "broken" THEN "broken" ELSE "option"]
        /\ step' = StepAfter("environment") /\ UNCHANGED status
     \/ /\ ~AsApp /\ headers.event = "good"
        /\ env' = [env EXCEPT !.mode = "action", !.token = "option", !.metadata = TRUE]
        /\ step' = StepAfter("environment") /\ UNCHANGED status
     \/ ~AsApp /\ Exit("traceback") /\ UNCHANGED env
  /\ UNCHANGED <<fixtureVars, options, loaded, cached, config, handlers>>

EnvMode == IF env.token # "unset" /\ env.metadata THEN "action" ELSE "app"

\* Converters come before validators, in the order of the fields.
ConfigError ==
  IF env.key = "broken" THEN "ValueError"
  ELSE IF EnvMode = "app" /\ (env.id = "unset" \/ env.key = "unset") THEN "ValueError"
  ELSE IF env.fingerprint # "unset" /\ env.key = "unset" THEN "AttributeError"
  ELSE IF env.fingerprint \notin {"unset", env.key} THEN "ValueError"
  ELSE "none"

ConfigMade == IF env.mode = "auto" THEN [env EXCEPT !.mode = EnvMode] ELSE env

\* What is not there, and whatever the code of a module raises itself.
ImportErrors == {"AttributeError", "ImportError", "ValueError"}

\* Modules are imported, the entry point first, and may ask for the configuration.
LoadRouters ==
  /\ step = "routers"
  /\ \/ /\ loaded' \in 0..2
        /\ cached' \in {Clean} \cup IF ConfigError = "none" THEN {ConfigMade} ELSE {}
        /\ step' = StepAfter("routers") /\ UNCHANGED status
     \/ \E raised \in ImportErrors :
          /\ Exit(IF raised \in {"AttributeError", "ImportError"} THEN "usage" ELSE "traceback")
          /\ UNCHANGED <<loaded, cached>>
  /\ UNCHANGED <<fixtureVars, options, env, config, handlers>>

MakeConfig ==
  /\ step = "config"
  /\ IF cached = Clean /\ ConfigError # "none"
     THEN Exit("traceback") /\ UNCHANGED config
     ELSE /\ config' = IF cached # Clean THEN cached ELSE ConfigMade
          /\ step' = StepAfter("config") /\ UNCHANGED status
  /\ UNCHANGED <<fixtureVars, options, env, loaded, cached, handlers>>

-----------------------------------------------------------------------------
(* The run *)

\* No set of routers is no routers to `or`, and None is none to frozenset.
MakeApp ==
  /\ step = "app"
  /\ IF loaded = 0 THEN Exit("traceback") ELSE step' = "dispatch" /\ UNCHANGED status
  /\ UNCHANGED <<fixtureVars, options, env, loaded, cached, config, handlers>>

\* An app looks up the installation; only LookupError is suppressed.
LookUpFails ==
  /\ step = "dispatch" /\ AsApp
  /\ Exit("traceback")
  /\ UNCHANGED <<fixtureVars, options, env, loaded, cached, config, handlers>>

\* Mutant: failures are captured for an action as for an app.
StatusOfEither(result) == IF result = "outcome" THEN "traceback" ELSE "success"

\* An outcome (GitHubActionError) is raised, other failures are captured for an app.
StatusOf(result) ==
  IF result = "returned" \/ (result = "raised" /\ AsApp) THEN "success" ELSE "traceback"

HandlersEnd ==
  /\ step = "dispatch"
  /\ handlers' \in {"returned", "raised", "outcome"}
  /\ Exit(StatusOf(handlers'))
  /\ UNCHANGED <<fixtureVars, options, env, loaded, cached, config>>

Exited == step = "exited" /\ UNCHANGED <<fixtureVars, own>>

CommandNext ==
  \/ CheckOptions \/ ReadEvent \/ EventRead
  \/ UpdateEnvironment \/ LoadRouters \/ MakeConfig
  \/ MakeApp \/ LookUpFails \/ HandlersEnd
  \/ Exited

CommandSpec == CommandInit /\ [][CommandNext]_<<fixtureVars, own>>

-----------------------------------------------------------------------------
(* Properties *)

\* The run acts with the credentials of the command line, whatever was
\* left in the environment or in .env, and though an entry point may have had the
\* configuration made and cached before receive asks for it.
OwnCredentials ==
  step = "dispatch" \/ handlers # "not_run" =>
    IF AsApp THEN config.mode = "app" /\ config.id = "option" /\ config.key = "option"
    ELSE config.mode = "action" /\ config.token = "option"

\* The command only succeeds when a sound event, whose name is a text by now, has
\* come to the handlers, and for an action when they have returned.
SuccessMeansProcessed ==
  status = "success" =>
    /\ stage = "done" /\ headers.event = "good" /\ loaded > 0
    /\ handlers = "returned" \/ (AsApp /\ handlers = "raised")
=============================================================================
