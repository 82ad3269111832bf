--------------------------------- MODULE Backups ---------------------------------
(***************************************************************************)
(* bin/backup-db.sh: dump the database, deliver the dump, rotate the local *)
(* backups.  Every script runs under `set -e': whatever fails ends the run *)
(* and leaves behind what it has written so far.  Runs may overlap.        *)
(*                                                                         *)
(* The directory .backups is the sequence of its files, oldest change      *)
(* first; a file is named by the run that made it.                         *)
(***************************************************************************)
EXTENDS Integers, Sequences, FiniteSets

CONSTANTS
    Runs,
    BackupSettings, \* the .env files a run may find
    MaxOverlap      \* bound: runs in progress at a time

Credentials ==
    [user : {"", "name", "address"}, password : {"", "plain", "slash"},
     host : {"", "server"}, port : {"", "0", "587", "junk"}]

BackupSetting ==
    [offsite : BOOLEAN, mail : BOOLEAN, creds : Credentials, rotate : BOOLEAN, keep : Int]

ASSUME BackupSettingsAssumption == BackupSettings \subseteq BackupSetting
ASSUME OverlapAssumption == MaxOverlap \in Nat

VARIABLES
    made,       \* whether .backups exists
    dir,        \* its files
    conf, step, victims,    \* per run: its settings, where it is, files to remove
    whole,      \* runs whose dump is complete
    delivered,  \* runs whose dump went where the settings want it
    last,       \* history: the latest complete dump, as a set
    found,      \* history: the files the latest rotation found
    alone       \* history: no two runs have overlapped

backupsVars == <<made, dir, conf, step, victims, whole, delivered, last, found, alone>>

BackupSteps  == {"new", "dump", "mail", "list", "remove", "done", "failed"}
Active == {r \in Runs : step[r] \in {"dump", "mail", "list", "remove"}}
Dumps  == {dir[i] : i \in DOMAIN dir}

BackupsTypeOK ==
    /\ made \in BOOLEAN /\ dir \in Seq(Runs)
    /\ \A i, j \in DOMAIN dir : dir[i] = dir[j] => i = j
    /\ conf \in [Runs -> BackupSetting] /\ step \in [Runs -> BackupSteps]
    /\ victims \in [Runs -> Seq(Runs)]
    /\ whole \subseteq Runs /\ delivered \subseteq whole /\ last \subseteq whole
    /\ made \/ dir = << >>
    /\ found \in Seq(Runs)
    /\ alone \in BOOLEAN

BackupsInit ==
    /\ made = FALSE /\ dir = << >>
    /\ conf \in [Runs -> BackupSettings]
    /\ step = [r \in Runs |-> "new"]
    /\ victims = [r \in Runs |-> << >>]
    /\ whole = {} /\ delivered = {} /\ last = {} /\ found = << >> /\ alone = TRUE

---------------------------------------------------------------------------------
(* bin/emailhelper.py: what urlsplit makes of user:password@server:port.   *)
(* A slash ends the network location, and nothing is unquoted before.      *)
Usable(c) ==
    /\ c.user # "" /\ c.host # "" /\ c.password # "slash"
    /\ c.port = "587"       \* port 0 counts as missing

(* bin/rotate-local-backups.py: files[:-file_count] of the sorted list,    *)
(* which for a negative count are the oldest -file_count files.            *)
(* Variants: one file fewer is removed; files[-file_count:] are removed.   *)
Old_Short(files, n)  == SubSeq(files, 1, Len(files) - n - 1)
Old_Newest(files, n) ==
    SubSeq(files, IF Len(files) > n THEN Len(files) - n + 1 ELSE 1, Len(files))
Old(files, n) ==
    CASE n > 0 -> SubSeq(files, 1, Len(files) - n)
      [] n = 0 -> << >>
      [] n < 0 -> SubSeq(files, 1, IF Len(files) < -n THEN Len(files) ELSE -n)

DropAt(s, i)   == [j \in 1 .. Len(s) - 1 |-> IF j < i THEN s[j] ELSE s[j + 1]]
Without(s, r)  == DropAt(s, CHOOSE i \in DOMAIN s : s[i] = r)

(* A file that is written moves to the end of the list; a write to one that*)
(* has been removed reaches nobody.                                        *)
Touched(r) == IF r \in Dumps THEN Append(Without(dir, r), r) ELSE dir

StepTo(r, where) == step' = [step EXCEPT ![r] = where]
AfterDelivery(r) == IF conf[r].rotate THEN "list" ELSE "done"

---------------------------------------------------------------------------------
(* Steps of a run. *)

StartBackup(r) ==
    /\ step[r] = "new" /\ Cardinality(Active) < MaxOverlap
    /\ StepTo(r, "dump") /\ alone' = (alone /\ Active = {})
    /\ IF conf[r].offsite
       THEN UNCHANGED <<made, dir>>
       ELSE made' = TRUE /\ dir' = Append(dir, r)
    /\ UNCHANGED <<conf, victims, whole, delivered, last, found>>

WriteDump(r) ==
    /\ step[r] = "dump" /\ ~conf[r].offsite
    /\ dir' = Touched(r)
    /\ UNCHANGED <<made, conf, step, victims, whole, delivered, last, found, alone>>

(* The dump is complete: piped into the bucket, or in a local file. *)
Dumped(r) ==
    /\ step[r] = "dump"
    /\ whole' = whole \cup {r} /\ last' = {r}
    /\ IF conf[r].offsite
       THEN /\ delivered' = delivered \cup {r} /\ UNCHANGED dir
            /\ StepTo(r, AfterDelivery(r))
       ELSE /\ dir' = Touched(r)
            /\ IF conf[r].mail
               THEN StepTo(r, "mail") /\ UNCHANGED delivered
               ELSE StepTo(r, AfterDelivery(r)) /\ delivered' = delivered \cup {r}
    /\ UNCHANGED <<made, conf, victims, found, alone>>

Mail(r) ==
    /\ step[r] = "mail"
    /\ r \in Dumps /\ Usable(conf[r].creds)
    /\ delivered' = delivered \cup {r}
    /\ StepTo(r, AfterDelivery(r))
    /\ UNCHANGED <<made, dir, conf, victims, whole, last, found, alone>>

(* Sorted by the time of the last change. *)
List(r) ==
    /\ step[r] = "list" /\ made
    /\ victims' = [victims EXCEPT ![r] = Old(dir, conf[r].keep)]
    /\ StepTo(r, "remove") /\ found' = dir
    /\ UNCHANGED <<made, dir, conf, whole, delivered, last, alone>>

Remove(r) ==
    /\ step[r] = "remove" /\ victims[r] # << >>
    /\ Head(victims[r]) \in Dumps
    /\ dir' = Without(dir, Head(victims[r]))
    /\ victims' = [victims EXCEPT ![r] = Tail(@)]
    /\ UNCHANGED <<made, conf, step, whole, delivered, last, found, alone>>

Rotated(r) ==
    /\ step[r] = "remove" /\ victims[r] = << >>
    /\ StepTo(r, "done")
    /\ UNCHANGED <<made, dir, conf, victims, whole, delivered, last, found, alone>>

(* Variant: an incomplete dump is rotated in like any other (no `set -e'). *)
BackupFails_GoesOn(r) ==
    /\ r \in Active
    /\ StepTo(r, IF step[r] \in {"dump", "mail"} THEN AfterDelivery(r) ELSE "failed")
    /\ UNCHANGED <<made, dir, conf, victims, whole, delivered, last, found, alone>>

(* pg_dump, the upload, the mail server, a file another run has removed    *)
(* between two looks, a reboot: anything may end a run.                    *)
BackupFails(r) ==
    /\ r \in Active /\ StepTo(r, "failed")
    /\ UNCHANGED <<made, dir, conf, victims, whole, delivered, last, found, alone>>

BackupsNext == \E r \in Runs :
    \/ StartBackup(r) \/ WriteDump(r) \/ Dumped(r) \/ Mail(r)
    \/ List(r) \/ Remove(r) \/ Rotated(r) \/ BackupFails(r)

BackupsSpec == BackupsInit /\ [][BackupsNext]_backupsVars

---------------------------------------------------------------------------------
(* Properties. *)

(* Nobody has been told to keep a negative number of backups yet, which    *)
(* makes the rotation remove that many of the oldest, the only one or not. *)
Sane == \A r \in Runs : step[r] # "new" /\ conf[r].rotate => conf[r].keep >= 0

(* While no two runs overlap and no count is negative, the latest complete *)
(* dump stays where it is, whatever fails later and however the settings   *)
(* change: a failed run leaves a newer, useless file, but never gets to    *)
(* remove the older one.                                                   *)
NewestBackupStays == alone /\ Sane =>
    \A r \in last : conf[r].offsite \/ r \in Dumps

(* A run that removes backups has a complete dump of its own where its     *)
(* settings want it: a broken dump, a refused password or a dead mail      *)
(* server stops the rotation with everything else.                         *)
RemovesOnlyOnceDelivered == \A r \in Runs :
    victims[r] # << >> => r \in delivered

(* While no two runs overlap, a run that succeeds has left its own dump    *)
(* (unless it was to keep a negative number), and of the files it found    *)
(* the oldest have gone: all but as many as a positive number says; none   *)
(* for 0, although README.md and the script's own message promise to keep  *)
(* no more than the number; and the so-many oldest for a negative one.     *)
SuccessMeansRotated == [][\A r \in Runs :
    LET n    == conf[r].keep
        gone == Len(found) - Len(dir')
    IN  alone /\ step[r] # "done" /\ step'[r] = "done" =>
        /\ r \in whole'
        /\ ~conf[r].offsite /\ (conf[r].rotate => n >= 0) => r \in Dumps'
        /\ conf[r].rotate =>
              /\ gone >= 0 /\ \A i \in DOMAIN dir' : dir'[i] = found[gone + i]
              /\ n > 0  => Len(dir') <= n /\ (Len(dir') < n => gone = 0)
              /\ n <= 0 => gone <= -n /\ (gone < -n => dir' = << >>)]_backupsVars
=================================================================================
