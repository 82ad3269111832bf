------------------------------ MODULE MCOperations ------------------------------
(* Small instances of the five components of Operations, for TLC. *)
EXTENDS Operations, TLC

---------------------------------------------------------------------------------
(* Settings: what each variable may hold. *)
Nothing == [n \in Names |-> "unset"]
With(e, names, v) == [n \in Names |-> IF n \in names THEN v ELSE e[n]]
(* The environments in which each variable holds one of its values. *)
Over(e, S, T, U) ==
    {[n \in Names |-> IF n \in S THEN s[n] ELSE IF n \in T THEN t[n]
                      ELSE IF n \in U THEN u[n] ELSE e[n]] :
        s \in [S -> {"unset", "ok"}], t \in [T -> {"empty", "ok"}],
        u \in [U -> {"unset", "ok", "junk"}]}

Base         == With(Nothing, {"ENV", "SECRET_KEY"}, "ok")
OnSiteNames  == {"CENTRAL_URL", "BITTENSOR_NETUID", "BITTENSOR_WALLET_NAME",
                 "BITTENSOR_WALLET_HOTKEY_NAME"}
CentralNames == {"UPSTREAM_URL", "BITTENSOR_NETUIDS", "PYLON_ENDPOINT",
                 "DATABASE_URL", "REDIS_HOST", "REDIS_PORT", "CELERY_BROKER_URL"}

RoleEnvironments ==
    Over(Base, {"CENTRAL_URL", "UPSTREAM_URL", "PYLON_ENDPOINT", "DATABASE_URL",
                "REDIS_HOST", "BITTENSOR_WALLET_HOTKEY_NAME"},
         {"DATABASE_POOL_URL", "BITTENSOR_WALLET_NAME"},
         {"BITTENSOR_NETUIDS", "BITTENSOR_NETUID", "REDIS_PORT"})
(* The image build's environment among them. *)
BaseEnvironments ==
    UNION {Over(With(Nothing, role, "ok"),
                {"ENV", "SECRET_KEY", "FILL", "CSP_ENABLED", "CSP_SRC"}, {}, {}) :
           role \in {{}, OnSiteNames, CentralNames}}
AllEnvironments == RoleEnvironments \cup BaseEnvironments

DevFile   == With(Nothing, OnSiteNames \cup CentralNames \cup {"ENV", "SECRET_KEY"}, "ok")
SomeFiles == {Nothing, DevFile, With(DevFile, {"PYLON_ENDPOINT", "FILL"}, "empty")}

---------------------------------------------------------------------------------
(* FailureAlarm: a subnet is repeated, as BITTENSOR_NETUIDS may. *)
CONSTANTS a, b
TwoSubnets == <<a, b, a>>

---------------------------------------------------------------------------------
(* Backups: how many to keep, all and fewer than none among them, by mail *)
(* or not, in a bucket or not.                                           *)
Good   == [user |-> "address", password |-> "plain", host |-> "server", port |-> "587"]
Slash  == [Good EXCEPT !.password = "slash"]
Silent == [offsite |-> FALSE, mail |-> FALSE, creds |-> Good, rotate |-> FALSE, keep |-> 0]
Kept(n)   == [Silent EXCEPT !.rotate = TRUE, !.keep = n]
Mailed(c) == [Kept(1) EXCEPT !.mail = TRUE, !.creds = c]
Away      == [Kept(1) EXCEPT !.offsite = TRUE]
SomeSettings == {Silent, Kept(-1), Kept(0), Kept(1), Kept(2), Mailed(Good), Mailed(Slash), Away}

---------------------------------------------------------------------------------
Symmetry == Permutations(Runs) \cup Permutations(Pids)
=================================================================================
