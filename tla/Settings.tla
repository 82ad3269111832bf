-------------------------------- MODULE Settings --------------------------------
(***************************************************************************)
(* project/settings.py: what a process makes of its environment when it    *)
(* starts.  The file is executed top to bottom, one action for each part   *)
(* of it that can refuse to go on (an exception ends the process).         *)
(*                                                                         *)
(* The docs give each role the settings it needs (docs/configuration.md);  *)
(* the checks that enforce them are spread over the file, each with a test *)
(* of its own for what counts as set: absent, empty, falsy, not a number.  *)
(***************************************************************************)
EXTENDS Naturals

CONSTANTS
    Environments,   \* the environments a process may be given
    EnvFiles        \* the .env files that may lie beside the code

(* The value of a variable: absent, the empty string, usable, or text that *)
(* does not parse.  One name stands for the twelve CSP_*_SRC, and one for  *)
(* the two URLs of a direction: metrics and traces are checked together.   *)
Kinds == {"unset", "empty", "ok", "junk"}
Names == {"ENV", "SECRET_KEY", "FILL", "CSP_ENABLED", "CSP_SRC",
          "DATABASE_POOL_URL", "DATABASE_URL", "REDIS_HOST", "REDIS_PORT",
          "CELERY_BROKER_URL", "CENTRAL_URL", "UPSTREAM_URL",
          "BITTENSOR_NETUIDS", "PYLON_ENDPOINT", "BITTENSOR_NETUID",
          "BITTENSOR_WALLET_NAME", "BITTENSOR_WALLET_HOTKEY_NAME"}

(* What does not parse is no number where the file reads one; other        *)
(* variables are texts, of which it only asks whether they are set.        *)
Numbers == {"REDIS_PORT", "BITTENSOR_NETUIDS", "BITTENSOR_NETUID"}

ASSUME SettingsAssumption ==
    \A e \in Environments \cup EnvFiles :
        e \in [Names -> Kinds] /\ \A n \in Names \ Numbers : e[n] # "junk"

VARIABLES
    given,      \* the environment the process was started with
    dotenv,     \* the .env file
    environ,    \* os.environ, to which read_env adds
    part,       \* the part of the file to execute next
    settings    \* the settings made so far

settingsVars == <<given, dotenv, environ, part, settings>>

Parts == {"read_env", "csp", "databases", "redis", "destinations", "central",
          "on_site", "started", "refused"}
Unmade ==
    [csp |-> FALSE, database |-> "none", redis |-> FALSE, broker |-> "none",
     sends |-> FALSE, receives |-> FALSE, netuids |-> FALSE,
     netuid |-> FALSE, wallet |-> FALSE]

SettingsTypeOK ==
    /\ given \in [Names -> Kinds] /\ dotenv \in [Names -> Kinds]
    /\ environ \in [Names -> Kinds]
    /\ part \in Parts
    /\ settings \in
          [csp : BOOLEAN, database : {"none", "pool", "direct"}, redis : BOOLEAN,
           broker : {"none", "default", "redis"}, sends : BOOLEAN, receives : BOOLEAN,
           netuids : BOOLEAN, netuid : BOOLEAN, wallet : BOOLEAN]

SettingsInit ==
    /\ given \in Environments /\ dotenv \in EnvFiles
    /\ environ = given /\ part = "read_env" /\ settings = Unmade

---------------------------------------------------------------------------------
(* env("X", default=None): the library turns an empty string into None. *)
IsNone(n) == environ[n] \in {"unset", "empty"}
(* env("X", default=""), then a test of the string. *)
IsTrue(n) == environ[n] \in {"ok", "junk"}
IsOn(n)   == environ[n] = "ok"
(* env.int and int() raise on text that is no number. *)
Raises(n) == environ[n] = "junk"

(* env("X"): no default, so absent is an error; empty is not.  While the   *)
(* image is built the environ module is patched to supply one, which is    *)
(* decided before the .env file is read.  Variant: never patched.          *)
Lacks_Unpatched(e, n) == e[n] = "unset"
Lacks(e, n) == e[n] = "unset" /\ given["FILL"] # "ok"

Proceed(next) == part' = next /\ UNCHANGED <<given, dotenv>>
Refuse     == Proceed("refused") /\ UNCHANGED <<environ, settings>>
Made(made, next) == settings' = made /\ Proceed(next) /\ UNCHANGED environ

(* The file is read only where ENV says nothing, and never overrides a     *)
(* variable the process has, be it empty.                                  *)
Sourced(e) == [n \in Names |-> IF e[n] = "unset" THEN dotenv[n] ELSE e[n]]

ReadEnv ==
    /\ part = "read_env"
    /\ environ' = IF IsNone("ENV") THEN Sourced(environ) ELSE environ
    /\ Proceed(IF Lacks(environ', "ENV") \/ Lacks(environ', "SECRET_KEY")
               THEN "refused" ELSE "csp")
    /\ UNCHANGED settings

(* With CSP_ENABLED twelve more variables are required. *)
Csp ==
    /\ part = "csp"
    /\ IF IsOn("CSP_ENABLED") /\ Lacks(environ, "CSP_SRC") THEN Refuse
       ELSE Made([settings EXCEPT !.csp = IsOn("CSP_ENABLED")], "databases")

(* A pooled connection is preferred; with neither URL there is none. *)
Database ==
    CASE ~ IsNone("DATABASE_POOL_URL") -> "pool"
      [] IsNone("DATABASE_POOL_URL") /\ ~ IsNone("DATABASE_URL") -> "direct"
      [] OTHER -> "none"

Databases ==
    /\ part = "databases"
    /\ Made([settings EXCEPT !.database = Database], "redis")

(* Host and port come together.  The caches, cacheops and the whole of     *)
(* Celery's configuration (queues, schedule, broker) exist only with them; *)
(* an empty broker URL leaves Celery its built-in default.                 *)
Broker ==
    CASE IsNone("REDIS_HOST") -> "none"
      [] ~ IsNone("REDIS_HOST") /\ IsTrue("CELERY_BROKER_URL") -> "redis"
      [] OTHER -> "default"

Redis ==
    /\ part = "redis"
    /\ IF Raises("REDIS_PORT") \/ IsNone("REDIS_HOST") # IsNone("REDIS_PORT")
       THEN Refuse
       ELSE Made([settings EXCEPT !.redis = ~ IsNone("REDIS_HOST"), !.broker = Broker],
                 "destinations")

(* A process has a direction, or refuses to start; the list of netuids is  *)
(* parsed whatever the direction.                                          *)
Destinations ==
    /\ part = "destinations"
    /\ IF \/ ~ IsTrue("CENTRAL_URL") /\ ~ IsTrue("UPSTREAM_URL")
          \/ Raises("BITTENSOR_NETUIDS")
       THEN Refuse
       ELSE Made([settings EXCEPT !.sends = IsTrue("CENTRAL_URL"),
                                  !.receives = IsTrue("UPSTREAM_URL"),
                                  !.netuids = IsOn("BITTENSOR_NETUIDS")], "central")

(* What a receiving process needs.  Variant: a database is not asked for. *)
CentralLacks_NoDatabase ==
    /\ settings.receives
    /\ ~ settings.netuids \/ ~ IsTrue("PYLON_ENDPOINT") \/ ~ settings.redis
CentralLacks ==
    /\ settings.receives
    /\ \/ ~ settings.netuids \/ ~ IsTrue("PYLON_ENDPOINT")
       \/ settings.database = "none" \/ ~ settings.redis

Central == part = "central" /\ IF CentralLacks THEN Refuse ELSE Made(settings, "on_site")

(* The netuid is parsed whatever the direction. *)
OnSite ==
    /\ part = "on_site"
    /\ IF \/ Raises("BITTENSOR_NETUID")
          \/ settings.sends /\ \/ IsNone("BITTENSOR_NETUID")
                               \/ IsNone("BITTENSOR_WALLET_NAME")
                               \/ IsNone("BITTENSOR_WALLET_HOTKEY_NAME")
       THEN Refuse
       ELSE Made([settings EXCEPT
                    !.netuid = ~ IsNone("BITTENSOR_NETUID"),
                    !.wallet = /\ ~ IsNone("BITTENSOR_WALLET_NAME")
                               /\ ~ IsNone("BITTENSOR_WALLET_HOTKEY_NAME")],
                 "started")

SettingsNext == ReadEnv \/ Csp \/ Databases \/ Redis \/ Destinations \/ Central \/ OnSite
SettingsSpec == SettingsInit /\ [][SettingsNext]_settingsVars

---------------------------------------------------------------------------------
(* docs/configuration.md, the role table: what each role needs, each need  *)
(* met by any of a set of variables.                                       *)
RoleNeeds ==
    {{"CENTRAL_URL", "UPSTREAM_URL"}}
    \cup (IF environ["CENTRAL_URL"] = "ok"
          THEN {{"BITTENSOR_NETUID"}, {"BITTENSOR_WALLET_NAME"},
                {"BITTENSOR_WALLET_HOTKEY_NAME"}} ELSE {})
    \cup (IF environ["UPSTREAM_URL"] = "ok"
          THEN {{"BITTENSOR_NETUIDS"}, {"PYLON_ENDPOINT"}, {"REDIS_HOST"},
                {"REDIS_PORT"}, {"DATABASE_POOL_URL", "DATABASE_URL"}} ELSE {})
BaseNeeds ==
    {{"ENV"}}
    \cup (IF given["FILL"] = "ok" THEN {} ELSE {{"SECRET_KEY"}})
    \cup (IF environ["CSP_ENABLED"] = "ok" /\ given["FILL"] # "ok" THEN {{"CSP_SRC"}} ELSE {})
Met(needs) == \A need \in needs : \E n \in need : environ[n] = "ok"

(* A process that has started has all that the role table asks for the     *)
(* roles it has taken, and it has a role: none of the checks scattered     *)
(* over the file is passed by a value that only looks set.                 *)
StartedMeansEquipped == part = "started" => Met(RoleNeeds)

(* A process given all that its roles need, and nothing that does not      *)
(* parse, is not refused: no check asks a role for a setting of the other  *)
(* one, and the image is built (ENV_FILL_MISSING_VALUES) without secrets.  *)
CompleteStarts ==
    /\ Met(BaseNeeds \cup RoleNeeds)
    /\ \A n \in Names : environ[n] # "junk"
    /\ IsNone("REDIS_HOST") = IsNone("REDIS_PORT")
    => part # "refused"
=================================================================================
