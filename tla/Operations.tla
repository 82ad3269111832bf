------------------------------- MODULE Operations -------------------------------
(***************************************************************************)
(* The five components around the proxy, side by side.  They share no      *)
(* state, so a behaviour has one of them moving and leaves the others at   *)
(* an initial state: what holds of each component alone holds here, and    *)
(* what is checked here is checked of each of them.                        *)
(***************************************************************************)
EXTENDS Settings, SiteIdentity, FailureAlarm, Backups, MetricsExport

VARIABLE moving
allVars == <<moving, settingsVars, siteVars, alarmVars, backupsVars, metricsVars>>

(* The type invariants of the five. *)
TypesOK ==
    SettingsTypeOK /\ SiteTypeOK /\ AlarmTypeOK /\ BackupsTypeOK /\ MetricsTypeOK

Init ==
    /\ moving \in {"settings", "site", "alarm", "backups", "metrics"}
    /\ given \in IF moving = "settings" THEN Environments ELSE {CHOOSE e \in Environments : TRUE}
    /\ dotenv \in IF moving = "settings" THEN EnvFiles ELSE {CHOOSE e \in EnvFiles : TRUE}
    /\ conf \in IF moving = "backups" THEN [Runs -> BackupSettings]
                                     ELSE {[r \in Runs |-> CHOOSE s \in BackupSettings : TRUE]}
    /\ SettingsInit /\ SiteInit /\ AlarmInit /\ BackupsInit /\ MetricsInit

Next ==
    /\ UNCHANGED moving
    /\ \/ /\ moving = "settings" /\ SettingsNext
          /\ UNCHANGED <<siteVars, alarmVars, backupsVars, metricsVars>>
       \/ /\ moving = "site" /\ SiteNext
          /\ UNCHANGED <<settingsVars, alarmVars, backupsVars, metricsVars>>
       \/ /\ moving = "alarm" /\ AlarmNext
          /\ UNCHANGED <<settingsVars, siteVars, backupsVars, metricsVars>>
       \/ /\ moving = "backups" /\ BackupsNext
          /\ UNCHANGED <<settingsVars, siteVars, alarmVars, metricsVars>>
       \/ /\ moving = "metrics" /\ MetricsNext
          /\ UNCHANGED <<settingsVars, siteVars, alarmVars, backupsVars>>

Spec == Init /\ [][Next]_allVars
=================================================================================
