------------------------------ MODULE BackupsProofs ------------------------------
(***************************************************************************)
(* The promises of Backups, for any number of runs, any settings and any   *)
(* overlap.                                                                *)
(***************************************************************************)
EXTENDS Backups, SequenceTheorems, TLAPS

USE BackupSettingsAssumption, OverlapAssumption

Elems(s) == {s[i] : i \in DOMAIN s}
Apart(s) == \A i, j \in DOMAIN s : s[i] = s[j] => i = j

(* A run that has not begun has no file. *)
NewIsNew == \A r \in Runs : step[r] = "new" => r \notin Dumps

(* What a run has achieved by the time it gets where it is. *)
Achieved == \A r \in Runs :
    /\ step[r] = "mail" => r \in whole
    /\ step[r] \in {"list", "remove"} \/ victims[r] # << >> => r \in delivered
    /\ step[r] \in {"list", "remove"} => conf[r].rotate

(* What is still to be removed are the oldest of the files left, these are *)
(* the newest of those found, and what goes altogether is what the number  *)
(* to keep asks for.                                                       *)
Rotating(r) ==
    LET n    == conf[r].keep
        due  == Len(victims[r])
        gone == Len(found) - Len(dir)
    IN  /\ due <= Len(dir) /\ \A i \in 1 .. due : victims[r][i] = dir[i]
        /\ gone >= 0 /\ \A i \in 1 .. Len(dir) : dir[i] = found[gone + i]
        /\ n > 0  => Len(dir) - due <= n /\ (Len(dir) - due < n => gone + due = 0)
        /\ n <= 0 => gone + due <= -n /\ (gone + due < -n => Len(dir) = due)

(* As long as no two runs have overlapped, the one in progress has the     *)
(* latest dump, its file is the newest one, and it is about to remove what *)
(* it should, which is its own file only if the number to keep is negative.*)
OwnsLatest(r) ==
    /\ \A q \in Active : q = r
    /\ ~ conf[r].offsite /\ (step[r] = "remove" => conf[r].keep >= 0) => r \in Dumps
    /\ step[r] \in {"mail", "list", "remove"} => last = {r}
    /\ step[r] \in {"mail", "list"} /\ ~ conf[r].offsite =>
          dir # << >> /\ dir[Len(dir)] = r
    /\ step[r] = "remove" /\ ~ conf[r].offsite /\ conf[r].keep >= 0 =>
          r \notin Elems(victims[r])
    /\ step[r] = "remove" => Rotating(r)
AloneInv == alone => \A r \in Active : OwnsLatest(r)

BackupsInv ==
    /\ BackupsTypeOK /\ conf \in [Runs -> BackupSettings] /\ NewIsNew /\ Achieved
    /\ AloneInv /\ NewestBackupStays

---------------------------------------------------------------------------------
(* Lists of files. *)

LEMMA WithoutFacts ==
    ASSUME NEW S, NEW s \in Seq(S), NEW x \in Elems(s), Apart(s)
    PROVE  /\ Without(s, x) \in Seq(S) /\ Len(Without(s, x)) = Len(s) - 1
           /\ Elems(Without(s, x)) = Elems(s) \ {x} /\ Apart(Without(s, x))
           /\ x = s[1] => \A j \in 1 .. Len(s) - 1 : Without(s, x)[j] = s[j + 1]
<1> DEFINE k == CHOOSE i \in DOMAIN s : s[i] = x
           t == Without(s, x)
<1>1. DOMAIN s = 1 .. Len(s) /\ Len(s) \in Nat /\ \A j \in 1 .. Len(s) : s[j] \in S
  BY LenProperties
<1>2. k \in 1 .. Len(s) /\ s[k] = x
  BY <1>1 DEF Elems
<1>3. t = [j \in 1 .. Len(s) - 1 |-> IF j < k THEN s[j] ELSE s[j + 1]]
  BY DEF Without, DropAt
<1> HIDE DEF k, t
<1>4. t \in [1 .. Len(s) - 1 -> S] /\ Len(s) - 1 \in Nat
  BY <1>1, <1>2, <1>3
<1>5. t \in Seq(S)
  BY <1>4, SeqDef
<1>6. DOMAIN t = 1 .. Len(t) /\ Len(t) \in Nat
  BY <1>5, LenProperties
<1>7. DOMAIN t = 1 .. Len(s) - 1
  BY <1>3
<1>8. Len(t) = Len(s) - 1
  BY <1>4, <1>6, <1>7
<1>9. ASSUME NEW y \in Elems(t) PROVE y \in Elems(s) \ {x}
  <2>1. PICK j \in DOMAIN t : t[j] = y
    BY <1>9 DEF Elems
  <2>2. PICK i \in 1 .. Len(s) : i # k /\ s[i] = y
    BY <1>1, <1>2, <1>3, <1>7, <2>1
  <2> QED BY <1>1, <1>2, <2>2 DEF Elems, Apart
<1>10. ASSUME NEW y \in Elems(s) \ {x} PROVE y \in Elems(t)
  <2>1. PICK i \in 1 .. Len(s) : s[i] = y
    BY <1>1 DEF Elems
  <2>2. CASE i < k
    <3>1. i \in DOMAIN t /\ t[i] = y
      BY <1>1, <1>2, <1>3, <1>7, <2>1, <2>2
    <3> QED BY <3>1 DEF Elems
  <2>3. CASE i > k
    <3>1. i - 1 \in DOMAIN t /\ t[i - 1] = y
      BY <1>1, <1>2, <1>3, <1>7, <2>1, <2>3
    <3> QED BY <3>1 DEF Elems
  <2> QED BY <1>1, <1>2, <2>1, <2>2, <2>3
<1>11. ASSUME NEW i \in DOMAIN t, NEW j \in DOMAIN t, t[i] = t[j] PROVE i = j
  <2> DEFINE up(a) == IF a < k THEN a ELSE a + 1
  <2>1. up(i) \in DOMAIN s /\ up(j) \in DOMAIN s /\ t[i] = s[up(i)] /\ t[j] = s[up(j)]
    BY <1>1, <1>2, <1>3, <1>7
  <2>2. up(i) = up(j)
    BY <1>11, <2>1 DEF Apart
  <2> QED BY <1>1, <1>2, <1>7, <2>2
<1>12. Apart(t)
  BY <1>11 DEF Apart
<1>13. x = s[1] => \A j \in 1 .. Len(s) - 1 : t[j] = s[j + 1]
  <2> SUFFICES ASSUME x = s[1], NEW j \in 1 .. Len(s) - 1 PROVE t[j] = s[j + 1]
    OBVIOUS
  <2>1. k = 1
    BY <1>1, <1>2 DEF Apart
  <2> QED BY <1>1, <1>3, <2>1
<1> QED BY <1>5, <1>8, <1>9, <1>10, <1>12, <1>13 DEF t

LEMMA AppendFacts ==
    ASSUME NEW S, NEW s \in Seq(S), NEW x \in S, x \notin Elems(s), Apart(s)
    PROVE  /\ Append(s, x) \in Seq(S) /\ Append(s, x) # << >>
           /\ Len(Append(s, x)) = Len(s) + 1 /\ Append(s, x)[Len(s) + 1] = x
           /\ Elems(Append(s, x)) = Elems(s) \cup {x} /\ Apart(Append(s, x))
<1> DEFINE t == Append(s, x)
<1>1. /\ DOMAIN s = 1 .. Len(s) /\ Len(s) \in Nat
      /\ t \in Seq(S) /\ Len(t) = Len(s) + 1 /\ DOMAIN t = 1 .. Len(s) + 1
      /\ t[Len(s) + 1] = x /\ \A j \in 1 .. Len(s) : t[j] = s[j]
  BY LenProperties
<1> HIDE DEF t
<1>2. Elems(t) = Elems(s) \cup {x}
  <2>1. ASSUME NEW y \in Elems(t) PROVE y \in Elems(s) \cup {x}
    <3>1. PICK j \in DOMAIN t : t[j] = y
      BY <2>1 DEF Elems
    <3> QED BY <1>1, <3>1 DEF Elems
  <2>2. ASSUME NEW y \in Elems(s) PROVE y \in Elems(t)
    <3>1. PICK j \in DOMAIN s : s[j] = y
      BY <2>2 DEF Elems
    <3> QED BY <1>1, <3>1 DEF Elems
  <2>3. x \in Elems(t)
    BY <1>1 DEF Elems
  <2> QED BY <2>1, <2>2, <2>3
<1>3. Apart(t)
  BY <1>1 DEF Apart, Elems
<1>4. t # << >>
  BY <1>1
<1> QED BY <1>1, <1>2, <1>3, <1>4 DEF t

(* Writing to a file keeps the files as they are, but puts it last. *)
LEMMA TouchedFacts ==
    ASSUME BackupsTypeOK, NEW r \in Runs
    PROVE  /\ Touched(r) \in Seq(Runs) /\ Apart(Touched(r)) /\ Elems(Touched(r)) = Dumps
           /\ Len(Touched(r)) = Len(dir)
           /\ r \in Dumps => Touched(r) # << >> /\ Touched(r)[Len(Touched(r))] = r
           /\ dir = << >> => Touched(r) = << >>
<1>1. dir \in Seq(Runs) /\ Apart(dir) /\ Dumps = Elems(dir) /\ Len(dir) \in Nat
  BY DEF BackupsTypeOK, Apart, Dumps, Elems
<1>2. CASE r \notin Dumps
  BY <1>1, <1>2 DEF Touched
<1>3. CASE r \in Dumps
  <2> DEFINE s == Without(dir, r)
  <2>1. /\ s \in Seq(Runs) /\ Len(s) = Len(dir) - 1 /\ Elems(s) = Dumps \ {r} /\ Apart(s)
    BY <1>1, <1>3, WithoutFacts
  <2>2. Touched(r) = Append(s, r)
    BY <1>3 DEF Touched
  <2> HIDE DEF s
  <2>3. /\ Append(s, r) \in Seq(Runs) /\ Append(s, r) # << >>
        /\ Len(Append(s, r)) = Len(s) + 1 /\ Append(s, r)[Len(s) + 1] = r
        /\ Elems(Append(s, r)) = Elems(s) \cup {r} /\ Apart(Append(s, r))
    BY <2>1, AppendFacts
  <2>4. dir # << >>
    BY <1>3 DEF Dumps
  <2> QED BY <1>1, <1>3, <2>1, <2>2, <2>3, <2>4
<1> QED BY <1>2, <1>3

LEMMA PrefixFacts ==
    ASSUME NEW S, NEW s \in Seq(S), NEW k \in 1 .. Len(s)
    PROVE  /\ SubSeq(s, 1, k) \in Seq(S) /\ Len(SubSeq(s, 1, k)) = k
           /\ Elems(SubSeq(s, 1, k)) = {s[j] : j \in 1 .. k}
           /\ \A j \in 1 .. k : SubSeq(s, 1, k)[j] = s[j]
<1>1. Len(s) \in Nat /\ \A j \in 1 .. k : s[j] \in S
  BY LenProperties
<1>2. /\ SubSeq(s, 1, k) \in Seq(S) /\ Len(SubSeq(s, 1, k)) = k
      /\ \A j \in 1 .. k : SubSeq(s, 1, k)[j] = s[j]
  <2>1. /\ SubSeq(s, 1, k) \in Seq(S)
        /\ Len(SubSeq(s, 1, k)) = IF 1 <= k THEN k - 1 + 1 ELSE 0
        /\ \A j \in 1 .. k - 1 + 1 : SubSeq(s, 1, k)[j] = s[1 + j - 1]
    BY <1>1, SubSeqProperties
  <2> QED BY <1>1, <2>1
<1>3. DOMAIN SubSeq(s, 1, k) = 1 .. k
  BY <1>2, LenProperties
<1> QED BY <1>2, <1>3 DEF Elems

(* files[:-n] are the oldest ones: all but n of them, none for n = 0, and  *)
(* -n of them for a negative n.                                            *)
LEMMA OldFacts ==
    ASSUME NEW S, NEW s \in Seq(S), NEW n \in Int
    PROVE  /\ Old(s, n) \in Seq(S)
           /\ Len(Old(s, n)) \in 0 .. Len(s)
           /\ \A j \in 1 .. Len(Old(s, n)) : Old(s, n)[j] = s[j]
           /\ n > 0  => /\ Len(s) - Len(Old(s, n)) <= n
                        /\ Len(s) - Len(Old(s, n)) < n => Len(Old(s, n)) = 0
           /\ n <= 0 => /\ Len(Old(s, n)) <= -n
                        /\ Len(Old(s, n)) < -n => Len(Old(s, n)) = Len(s)
           /\ n >= 0 /\ Apart(s) /\ s # << >> => s[Len(s)] \notin Elems(Old(s, n))
<1>1. DOMAIN s = 1 .. Len(s) /\ Len(s) \in Nat
  BY LenProperties
<1>2. << >> \in Seq(S) /\ Len(<< >>) = 0 /\ Elems(<< >>) = {}
  BY DEF Elems
<1>3. CASE n > 0 /\ Len(s) <= n
  <2>1. Old(s, n) = << >>
    BY <1>1, <1>3, SubSeqEmpty DEF Old
  <2> QED BY <1>1, <1>2, <1>3, <2>1
<1>4. CASE n > 0 /\ Len(s) > n
  <2> DEFINE k == Len(s) - n
  <2>1. k \in 1 .. Len(s) /\ k < Len(s) /\ Len(s) - k = n
    BY <1>1, <1>4
  <2>2. Old(s, n) = SubSeq(s, 1, k)
    BY <1>4 DEF Old
  <2> HIDE DEF k
  <2>3. /\ Old(s, n) \in Seq(S) /\ Len(Old(s, n)) = k
        /\ Elems(Old(s, n)) = {s[j] : j \in 1 .. k}
        /\ \A j \in 1 .. k : Old(s, n)[j] = s[j]
    BY <2>1, <2>2, PrefixFacts
  <2>4. ASSUME Apart(s), NEW j \in 1 .. k, s[j] = s[Len(s)] PROVE FALSE
    BY <1>1, <2>1, <2>4 DEF Apart
  <2>5. k \in 0 .. Len(s)
    BY <1>1, <2>1
  <2>6. Len(s) - k <= n /\ ~ (Len(s) - k < n)
    BY <2>1
  <2>7. ~ (n <= 0)
    BY <1>4
  <2> QED BY <2>3, <2>4, <2>5, <2>6, <2>7
<1>5. CASE n = 0
  BY <1>2, <1>5 DEF Old
<1>6. CASE n < 0
  <2> DEFINE k == IF Len(s) < -n THEN Len(s) ELSE -n
  <2>1. Old(s, n) = SubSeq(s, 1, k)
    BY <1>6 DEF Old
  <2>2. /\ k = 0 \/ k \in 1 .. Len(s)
        /\ k <= -n /\ (k < -n => k = Len(s)) /\ k \in 0 .. Len(s)
    <3>1. CASE Len(s) < -n
      BY <1>1, <1>6, <3>1
    <3>2. CASE ~ (Len(s) < -n)
      <4>1. k = -n
        BY <3>2
      <4>2. -n \in Nat /\ -n > 0
        BY <1>6
      <4>3. -n <= Len(s)
        BY <1>1, <3>2, <4>2
      <4> HIDE DEF k
      <4>4. k \in 1 .. Len(s) /\ k \in 0 .. Len(s)
        BY <1>1, <4>1, <4>2, <4>3
      <4>5. k <= -n /\ ~ (k < -n)
        BY <4>1, <4>2
      <4> QED BY <4>4, <4>5
    <3> QED BY <3>1, <3>2
  <2> HIDE DEF k
  <2>3. /\ Old(s, n) \in Seq(S) /\ Len(Old(s, n)) = k
        /\ \A j \in 1 .. k : Old(s, n)[j] = s[j]
    <3>1. CASE k = 0
      <4>1. Old(s, n) = << >>
        BY <2>1, <3>1, SubSeqEmpty
      <4> QED BY <1>2, <3>1, <4>1
    <3>2. CASE k \in 1 .. Len(s)
      BY <2>1, <3>2, PrefixFacts
    <3> QED BY <2>2, <3>1, <3>2
  <2> QED BY <1>6, <2>2, <2>3
<1> QED BY <1>1, <1>3, <1>4, <1>5, <1>6

---------------------------------------------------------------------------------
(* Steps. *)

LEMMA BackupsInitHolds == BackupsInit => BackupsInv
<1> SUFFICES ASSUME BackupsInit PROVE BackupsInv
  OBVIOUS
<1>1. BackupsTypeOK
  <2>1. << >> \in Seq(Runs) /\ DOMAIN << >> = {}
    OBVIOUS
  <2>2. victims \in [Runs -> Seq(Runs)] /\ step \in [Runs -> BackupSteps]
    BY <2>1 DEF BackupsInit, BackupSteps
  <2>3. conf \in [Runs -> BackupSetting]
    BY DEF BackupsInit
  <2>4. \A i, j \in DOMAIN dir : dir[i] = dir[j] => i = j
    BY <2>1 DEF BackupsInit
  <2> QED BY <2>1, <2>2, <2>3, <2>4 DEF BackupsInit, BackupsTypeOK
<1>2. NewIsNew /\ Achieved /\ NewestBackupStays
  BY DEF BackupsInit, NewIsNew, Achieved, NewestBackupStays, Dumps
<1>3. AloneInv
  BY DEF BackupsInit, AloneInv, Active
<1> QED BY <1>1, <1>2, <1>3 DEF BackupsInv, BackupsInit

LEMMA DumpsElems == Dumps = Elems(dir)
BY DEF Dumps, Elems

LEMMA NewDumpsElems == Dumps' = Elems(dir')
BY DEF Dumps, Elems

LEMMA Facts ==
    ASSUME BackupsInv
    PROVE  /\ dir \in Seq(Runs) /\ Apart(dir) /\ Dumps = Elems(dir) /\ Len(dir) \in Nat
           /\ step \in [Runs -> BackupSteps] /\ victims \in [Runs -> Seq(Runs)]
           /\ conf \in [Runs -> BackupSetting] /\ conf \in [Runs -> BackupSettings]
           /\ \A r \in Runs : conf[r].keep \in Int
           /\ found \in Seq(Runs) /\ Len(found) \in Nat
           /\ Dumps \subseteq Runs
BY DEF BackupsInv, BackupsTypeOK, BackupSetting, Apart, Dumps, Elems

(* Without overlap a run is the only one in progress. *)
LEMMA StepFacts ==
    ASSUME BackupsInv, NEW r \in Runs, NEW where \in BackupSteps, StepTo(r, where)
    PROVE  /\ step' \in [Runs -> BackupSteps] /\ step'[r] = where
           /\ \A q \in Runs \ {r} : step'[q] = step[q]
           /\ Active' \subseteq Active \cup {r}
           /\ where \notin {"dump", "mail", "list", "remove"} => Active' = Active \ {r}
BY Facts DEF StepTo, Active

(* What makes everybody sane after a step of a run made them so before. *)
LEMMA SaneBefore ==
    ASSUME BackupsInv, NEW r \in Runs, NEW where \in BackupSteps \ {"new"},
           StepTo(r, where), conf' = conf, Sane'
    PROVE  Sane /\ (conf[r].rotate => conf[r].keep >= 0)
BY StepFacts DEF Sane

LEMMA StartKeeps == ASSUME BackupsInv, NEW r \in Runs, StartBackup(r) PROVE BackupsInv'
<1>1. StepTo(r, "dump") /\ "dump" \in BackupSteps /\ r \notin Dumps
  BY DEF StartBackup, BackupSteps, BackupsInv, NewIsNew
<1>2. /\ dir' \in Seq(Runs) /\ Apart(dir') /\ Dumps' = Elems(dir')
      /\ Dumps' = IF conf[r].offsite THEN Dumps ELSE Dumps \cup {r}
  <2>1. CASE conf[r].offsite
    BY <2>1, Facts, NewDumpsElems DEF StartBackup
  <2>2. CASE ~ conf[r].offsite
    <3>1. dir' = Append(dir, r) /\ r \notin Elems(dir)
      BY <1>1, <2>2, DumpsElems DEF StartBackup
    <3> QED BY <2>2, <3>1, Facts, AppendFacts, DumpsElems, NewDumpsElems
  <2> QED BY <2>1, <2>2
<1>3. BackupsTypeOK'
  BY <1>1, <1>2, StepFacts DEF BackupsInv, BackupsTypeOK, StartBackup, Apart
<1>4. NewIsNew'
  BY <1>1, <1>2, StepFacts DEF BackupsInv, NewIsNew
<1>5. Achieved'
  BY <1>1, StepFacts DEF BackupsInv, Achieved, StartBackup
<1>6. AloneInv'
  <2> SUFFICES ASSUME alone', NEW q \in Active' PROVE OwnsLatest(q)'
    BY DEF AloneInv
  <2>1. q = r /\ Active' = {r}
    <3>1. Active = {} /\ step'[r] = "dump" /\ Active' \subseteq Active \cup {r}
      BY <1>1, StepFacts DEF StartBackup
    <3> QED BY <3>1
  <2> QED BY <1>1, <1>2, <2>1, StepFacts DEF OwnsLatest, StartBackup
<1>7. NewestBackupStays'
  <2>1. Sane' => Sane
    BY <1>1, SaneBefore DEF StartBackup, BackupSteps
  <2> QED BY <1>2, <2>1 DEF BackupsInv, NewestBackupStays, StartBackup
<1> QED BY <1>3, <1>4, <1>5, <1>6, <1>7 DEF BackupsInv, StartBackup

LEMMA WriteKeeps == ASSUME BackupsInv, NEW r \in Runs, WriteDump(r) PROVE BackupsInv'
<1>1. /\ dir' \in Seq(Runs) /\ Apart(dir') /\ Dumps' = Dumps /\ dir' = Touched(r)
      /\ dir = << >> => dir' = << >>
  BY TouchedFacts, NewDumpsElems DEF BackupsInv, WriteDump
<1>2. BackupsTypeOK'
  BY <1>1 DEF BackupsInv, BackupsTypeOK, WriteDump, Apart
<1>3. NewIsNew' /\ Achieved' /\ NewestBackupStays'
  BY <1>1 DEF BackupsInv, NewIsNew, Achieved, NewestBackupStays, WriteDump, Sane
<1>4. AloneInv'
  <2> SUFFICES ASSUME alone, NEW q \in Active PROVE OwnsLatest(q)'
    BY DEF AloneInv, WriteDump, Active
  <2>1. OwnsLatest(q) /\ q = r
    BY DEF BackupsInv, AloneInv, OwnsLatest, WriteDump, Active
  <2> QED BY <1>1, <2>1 DEF OwnsLatest, WriteDump, Active
<1> QED BY <1>2, <1>3, <1>4 DEF BackupsInv, WriteDump

LEMMA DumpedKeeps == ASSUME BackupsInv, NEW r \in Runs, Dumped(r) PROVE BackupsInv'
<1>1. PICK where \in {"mail", "list", "done"} :
        /\ StepTo(r, where)
        /\ where # "mail" => r \in delivered'
        /\ where = "list" => conf[r].rotate
        /\ delivered' \in {delivered, delivered \cup {r}}
  BY DEF Dumped, AfterDelivery
<1>2. /\ dir' \in Seq(Runs) /\ Apart(dir') /\ Dumps' = Dumps
      /\ dir = << >> => dir' = << >>
      /\ r \in Dumps /\ ~ conf[r].offsite => dir' # << >> /\ dir'[Len(dir')] = r
  <2>1. CASE conf[r].offsite
    BY <2>1, Facts, NewDumpsElems DEF Dumped
  <2>2. CASE ~ conf[r].offsite
    BY <2>2, TouchedFacts, NewDumpsElems DEF BackupsInv, Dumped
  <2> QED BY <2>1, <2>2
<1>3. where \in BackupSteps
  BY DEF BackupSteps
<1>4. BackupsTypeOK'
  BY <1>1, <1>2, <1>3, StepFacts DEF BackupsInv, BackupsTypeOK, Dumped, Apart
<1>5. NewIsNew'
  BY <1>1, <1>2, <1>3, StepFacts DEF BackupsInv, NewIsNew
<1>6. Achieved'
  BY <1>1, <1>3, StepFacts DEF BackupsInv, Achieved, Dumped
<1>7. r \in Active
  BY DEF Dumped, Active
<1>8. AloneInv'
  <2> SUFFICES ASSUME alone, NEW q \in Active' PROVE OwnsLatest(q)'
    BY DEF AloneInv, Dumped
  <2>1. OwnsLatest(r) /\ q = r /\ Active' \subseteq {r}
    BY <1>1, <1>3, <1>7, StepFacts DEF BackupsInv, AloneInv, OwnsLatest
  <2> QED BY <1>1, <1>2, <1>3, <2>1, StepFacts DEF OwnsLatest, Dumped
<1>9. NewestBackupStays'
  <2> SUFFICES ASSUME alone, ~ conf[r].offsite PROVE r \in Dumps
    BY <1>2 DEF NewestBackupStays, Dumped
  <2> QED BY <1>7 DEF BackupsInv, AloneInv, OwnsLatest, Dumped
<1> QED BY <1>4, <1>5, <1>6, <1>8, <1>9 DEF BackupsInv, Dumped

LEMMA MailKeeps == ASSUME BackupsInv, NEW r \in Runs, Mail(r) PROVE BackupsInv'
<1>1. PICK where \in {"list", "done"} :
        StepTo(r, where) /\ (where = "list" => conf[r].rotate)
  BY DEF Mail, AfterDelivery
<1>2. where \in BackupSteps /\ r \in Active /\ Dumps' = Dumps
  BY DEF BackupSteps, Mail, Active, Dumps
<1>3. BackupsTypeOK'
  BY <1>1, <1>2, StepFacts DEF BackupsInv, BackupsTypeOK, Mail, Achieved
<1>4. NewIsNew' /\ NewestBackupStays'
  <2>1. Sane' => Sane
    BY <1>1, SaneBefore DEF Mail, BackupSteps
  <2> QED BY <1>1, <1>2, <2>1, StepFacts DEF BackupsInv, NewIsNew, NewestBackupStays, Mail
<1>6. Achieved'
  BY <1>1, <1>2, StepFacts DEF BackupsInv, Achieved, Mail
<1>5. AloneInv'
  <2> SUFFICES ASSUME alone, NEW q \in Active' PROVE OwnsLatest(q)'
    BY DEF AloneInv, Mail
  <2>1. OwnsLatest(r) /\ q = r /\ Active' \subseteq {r}
    BY <1>1, <1>2, StepFacts DEF BackupsInv, AloneInv, OwnsLatest
  <2> QED BY <1>1, <1>2, <2>1, StepFacts DEF OwnsLatest, Mail
<1> QED BY <1>3, <1>4, <1>5, <1>6 DEF BackupsInv, Mail

LEMMA ListKeeps == ASSUME BackupsInv, NEW r \in Runs, List(r) PROVE BackupsInv'
<1> DEFINE old == Old(dir, conf[r].keep)
<1>1. /\ old \in Seq(Runs)
      /\ Len(old) \in 0 .. Len(dir) /\ \A j \in 1 .. Len(old) : old[j] = dir[j]
      /\ conf[r].keep > 0  => /\ Len(dir) - Len(old) <= conf[r].keep
                              /\ Len(dir) - Len(old) < conf[r].keep => Len(old) = 0
      /\ conf[r].keep <= 0 => /\ Len(old) <= - conf[r].keep
                              /\ Len(old) < - conf[r].keep => Len(old) = Len(dir)
      /\ conf[r].keep >= 0 /\ dir # << >> => dir[Len(dir)] \notin Elems(old)
  <2>1. dir \in Seq(Runs) /\ Apart(dir) /\ conf[r].keep \in Int
    BY Facts
  <2> QED BY <2>1, OldFacts
<1>2. victims' = [victims EXCEPT ![r] = old]
  BY DEF List
<1> HIDE DEF old
<1>3. /\ victims' \in [Runs -> Seq(Runs)] /\ victims'[r] = old
      /\ \A q \in Runs \ {r} : victims'[q] = victims[q]
  BY <1>1, <1>2, Facts
<1>4. StepTo(r, "remove") /\ "remove" \in BackupSteps /\ r \in Active /\ Dumps' = Dumps
  BY DEF BackupSteps, List, Active, Dumps
<1>5. BackupsTypeOK'
  BY <1>3, <1>4, StepFacts DEF BackupsInv, BackupsTypeOK, List
<1>6. NewIsNew' /\ NewestBackupStays'
  <2>1. Sane' => Sane
    BY <1>4, SaneBefore DEF List, BackupSteps
  <2> QED BY <1>4, <2>1, StepFacts DEF BackupsInv, NewIsNew, NewestBackupStays, List
<1>7. Achieved'
  BY <1>3, <1>4, StepFacts DEF BackupsInv, Achieved, List
<1>8. AloneInv'
  <2> SUFFICES ASSUME alone, NEW q \in Active' PROVE OwnsLatest(q)'
    BY DEF AloneInv, List
  <2>1. OwnsLatest(r) /\ q = r /\ Active' \subseteq {r} /\ step[r] = "list"
    BY <1>4, StepFacts DEF BackupsInv, AloneInv, OwnsLatest, List
  <2>2. Rotating(r)'
    <3>1. found' = dir /\ dir' = dir /\ victims'[r] = old /\ conf' = conf
      BY <1>3 DEF List
    <3> QED BY <1>1, <3>1, Facts DEF Rotating
  <2> QED BY <1>1, <1>3, <1>4, <2>1, <2>2, StepFacts DEF OwnsLatest, List
<1> QED BY <1>5, <1>6, <1>7, <1>8 DEF BackupsInv, List

(* The oldest file found goes, which is the first one due. *)
LEMMA RemoveRotates ==
    ASSUME BackupsInv, NEW r \in Runs, Remove(r), Rotating(r) PROVE Rotating(r)'
<1> DEFINE v == Head(victims[r]) rest == Tail(victims[r]) due == Len(victims[r])
<1>1. /\ victims[r] \in Seq(Runs) /\ victims[r] # << >>
      /\ dir \in Seq(Runs) /\ Apart(dir) /\ Len(dir) \in Nat
      /\ Len(found) \in Nat /\ conf[r].keep \in Int
  BY Facts DEF Remove
<1>2. /\ due \in Nat /\ due > 0 /\ Len(rest) = due - 1 /\ v = victims[r][1]
      /\ \A i \in 1 .. due - 1 : rest[i] = victims[r][i + 1]
  BY <1>1, HeadTailProperties, LenProperties, EmptySeq
<1>3. /\ v \in Dumps /\ dir' = Without(dir, v) /\ victims' = [victims EXCEPT ![r] = rest]
      /\ found' = found /\ conf' = conf
  BY DEF Remove
<1>4. victims'[r] = rest
  BY <1>3, Facts
<1> HIDE DEF v, rest
<1>5. due <= Len(dir) /\ \A i \in 1 .. due : victims[r][i] = dir[i]
  BY DEF Rotating
<1>6. v = dir[1]
  BY <1>2, <1>5
<1>7. v \in Elems(dir)
  BY <1>3, DumpsElems
<1>8. /\ dir' \in Seq(Runs) /\ Len(dir') = Len(dir) - 1
      /\ \A i \in 1 .. Len(dir) - 1 : dir'[i] = dir[i + 1]
  BY <1>1, <1>3, <1>6, <1>7, WithoutFacts
<1> DEFINE gone == Len(found) - Len(dir)
<1>9. /\ Len(victims'[r]) = due - 1 /\ Len(dir') = Len(dir) - 1
      /\ Len(found') - Len(dir') = gone + 1 /\ gone \in Int
  BY <1>1, <1>2, <1>3, <1>4, <1>8
<1>10. \A i \in 1 .. due - 1 : victims'[r][i] = dir'[i]
  <2> SUFFICES ASSUME NEW i \in 1 .. due - 1 PROVE victims'[r][i] = dir'[i]
    OBVIOUS
  <2>1. i + 1 \in 1 .. due /\ i \in 1 .. Len(dir) - 1
    BY <1>1, <1>2, <1>5
  <2> QED BY <1>2, <1>4, <1>5, <1>8, <2>1
<1>11. gone >= 0 /\ \A i \in 1 .. Len(dir) - 1 : dir'[i] = found[gone + 1 + i]
  <2>1. gone >= 0 /\ \A i \in 1 .. Len(dir) : dir[i] = found[gone + i]
    BY DEF Rotating
  <2> SUFFICES ASSUME NEW i \in 1 .. Len(dir) - 1 PROVE dir'[i] = found[gone + 1 + i]
    BY <2>1
  <2>2. i + 1 \in 1 .. Len(dir) /\ gone + (i + 1) = gone + 1 + i
    BY <1>1, <1>9
  <2> QED BY <1>8, <2>1, <2>2
<1>12. /\ conf[r].keep > 0  => /\ Len(dir) - due <= conf[r].keep
                               /\ Len(dir) - due < conf[r].keep => gone + due = 0
       /\ conf[r].keep <= 0 => /\ gone + due <= - conf[r].keep
                               /\ gone + due < - conf[r].keep => Len(dir) = due
  BY DEF Rotating
<1>13. /\ due \in Nat /\ due > 0 /\ Len(dir) \in Nat /\ due <= Len(dir)
       /\ gone \in Int /\ gone >= 0
  BY <1>1, <1>2, <1>5, <1>9, <1>11
<1> HIDE DEF due, gone
<1>14. /\ due - 1 <= Len(dir) - 1 /\ gone + 1 >= 0
       /\ (Len(dir) - 1) - (due - 1) = Len(dir) - due
       /\ (gone + 1) + (due - 1) = gone + due
       /\ Len(dir) = due => Len(dir) - 1 = due - 1
  BY <1>13
<1>15. LET n == conf[r].keep IN
       /\ n > 0  => /\ Len(dir') - Len(victims'[r]) <= n
                    /\ Len(dir') - Len(victims'[r]) < n => (gone + 1) + Len(victims'[r]) = 0
       /\ n <= 0 => /\ (gone + 1) + Len(victims'[r]) <= -n
                    /\ (gone + 1) + Len(victims'[r]) < -n => Len(dir') = Len(victims'[r])
  BY <1>1, <1>9, <1>12, <1>13
<1> QED BY <1>3, <1>9, <1>10, <1>11, <1>14, <1>15 DEF Rotating

LEMMA RemoveKeeps == ASSUME BackupsInv, NEW r \in Runs, Remove(r) PROVE BackupsInv'
<1> DEFINE v == Head(victims[r]) rest == Tail(victims[r])
<1>1. /\ victims[r] \in Seq(Runs) /\ victims[r] # << >> /\ rest \in Seq(Runs)
      /\ Len(rest) = Len(victims[r]) - 1 /\ Len(victims[r]) \in Nat
      /\ Elems(rest) \subseteq Elems(victims[r]) /\ v \in Elems(victims[r])
  <2>1. victims[r] \in Seq(Runs) /\ victims[r] # << >>
    BY Facts DEF Remove
  <2>2. /\ rest \in Seq(Runs) /\ Len(rest) = Len(victims[r]) - 1
        /\ Len(victims[r]) \in Nat /\ Len(victims[r]) > 0
        /\ \A i \in 1 .. Len(rest) : rest[i] = victims[r][i + 1]
    BY <2>1, HeadTailProperties, LenProperties, EmptySeq
  <2>3. DOMAIN rest = 1 .. Len(rest) /\ DOMAIN victims[r] = 1 .. Len(victims[r])
    BY <2>1, <2>2, LenProperties
  <2>4. v = victims[r][1]
    BY <2>1
  <2> HIDE DEF v, rest
  <2>5. v \in Elems(victims[r])
    BY <2>2, <2>3, <2>4 DEF Elems
  <2>6. ASSUME NEW x \in Elems(rest) PROVE x \in Elems(victims[r])
    <3>1. PICK i \in 1 .. Len(rest) : x = rest[i]
      BY <2>3, <2>6 DEF Elems
    <3>2. i + 1 \in DOMAIN victims[r] /\ x = victims[r][i + 1]
      BY <2>2, <2>3, <3>1
    <3> QED BY <3>2 DEF Elems
  <2> QED BY <2>1, <2>2, <2>5, <2>6
<1>2. v \in Dumps /\ dir' = Without(dir, v) /\ victims' = [victims EXCEPT ![r] = rest]
  BY DEF Remove
<1> HIDE DEF v, rest
<1>3. /\ dir' \in Seq(Runs) /\ Len(dir') = Len(dir) - 1 /\ Apart(dir')
      /\ Dumps' = Dumps \ {v} /\ dir # << >>
  <2>1. v \in Elems(dir) /\ dir # << >>
    BY <1>2, Facts DEF Elems
  <2> QED BY <1>2, <2>1, Facts, WithoutFacts, DumpsElems, NewDumpsElems
<1>4. /\ victims' \in [Runs -> Seq(Runs)] /\ victims'[r] = rest
      /\ \A q \in Runs \ {r} : victims'[q] = victims[q]
  BY <1>1, <1>2, Facts
<1>5. BackupsTypeOK'
  BY <1>3, <1>4 DEF BackupsInv, BackupsTypeOK, Remove, Apart
<1>6. NewIsNew'
  BY <1>3 DEF BackupsInv, NewIsNew, Remove
<1>7. Achieved'
  BY <1>4 DEF BackupsInv, Achieved, Remove
<1>8. r \in Active
  BY DEF Remove, Active
<1>9. ASSUME alone
      PROVE  /\ OwnsLatest(r) /\ last = {r} /\ Rotating(r)
             /\ ~ conf[r].offsite /\ conf[r].keep >= 0 => r # v
  BY <1>1, <1>8, <1>9 DEF BackupsInv, AloneInv, OwnsLatest, Remove
<1>10. AloneInv'
  <2> SUFFICES ASSUME alone, NEW q \in Active PROVE OwnsLatest(q)'
    BY DEF AloneInv, Remove, Active
  <2>1. q = r
    BY <1>9 DEF OwnsLatest
  <2>2. ~ conf[r].offsite /\ conf[r].keep >= 0 => r \in Dumps' /\ r \notin Elems(victims'[r])
    BY <1>1, <1>3, <1>4, <1>9 DEF OwnsLatest, Remove
  <2>3. Rotating(r)'
    BY <1>9, RemoveRotates
  <2> QED BY <1>9, <2>1, <2>2, <2>3 DEF OwnsLatest, Remove, Active
<1>11. NewestBackupStays'
  <2> SUFFICES ASSUME alone, Sane, NEW q \in last, ~ conf[q].offsite PROVE q \in Dumps'
    BY DEF NewestBackupStays, Remove, Sane
  <2>1. q = r
    BY <1>9
  <2>2. conf[r].keep >= 0
    BY DEF Sane, BackupsInv, Achieved, Remove
  <2> QED BY <1>3, <1>9, <2>1, <2>2 DEF OwnsLatest
<1> QED BY <1>5, <1>6, <1>7, <1>10, <1>11 DEF BackupsInv, Remove

(* A run that ends leaves everything as it is. *)
LEMMA EndKeeps ==
    ASSUME BackupsInv, NEW r \in Runs, Rotated(r) \/ BackupFails(r) PROVE BackupsInv'
<1>1. PICK where \in {"done", "failed"} : StepTo(r, where)
  BY DEF Rotated, BackupFails
<1>2. /\ UNCHANGED <<made, dir, conf, victims, whole, delivered, last, found, alone, Dumps>>
      /\ where \in BackupSteps /\ step[r] # "new"
  BY DEF Rotated, BackupFails, BackupSteps, Active, Dumps
<1>3. BackupsTypeOK'
  BY <1>1, <1>2, StepFacts DEF BackupsInv, BackupsTypeOK
<1>4. NewIsNew' /\ Achieved' /\ NewestBackupStays'
  <2>1. Sane' => Sane
    BY <1>1, <1>2, SaneBefore
  <2> QED BY <1>1, <1>2, <2>1, StepFacts DEF BackupsInv, NewIsNew, Achieved, NewestBackupStays
<1>5. AloneInv'
  <2> SUFFICES ASSUME alone, NEW q \in Active' PROVE OwnsLatest(q)'
    BY <1>2 DEF AloneInv
  <2>1. Active' \subseteq Active /\ q # r /\ q \in Active
    BY <1>1, <1>2, StepFacts
  <2>2. OwnsLatest(q) /\ step'[q] = step[q]
    BY <1>1, <1>2, <2>1, StepFacts DEF BackupsInv, AloneInv, Active
  <2> QED BY <1>2, <2>1, <2>2 DEF OwnsLatest, Rotating
<1> QED BY <1>2, <1>3, <1>4, <1>5 DEF BackupsInv

---------------------------------------------------------------------------------
(* The theorems. *)

(* The invariant above is inductive. *)
THEOREM BackupsInductive == BackupsSpec => []BackupsInv
<1>1. BackupsInv /\ [BackupsNext]_backupsVars => BackupsInv'
  <2> SUFFICES ASSUME BackupsInv, [BackupsNext]_backupsVars PROVE BackupsInv'
    OBVIOUS
  <2>1. CASE UNCHANGED backupsVars
    BY <2>1 DEF BackupsInv, BackupsTypeOK, NewIsNew, Achieved, AloneInv, OwnsLatest, Rotating,
                NewestBackupStays, backupsVars, Active, Dumps, Sane
  <2>2. CASE BackupsNext
    BY <2>2, StartKeeps, WriteKeeps, DumpedKeeps, MailKeeps, ListKeeps, RemoveKeeps, EndKeeps
       DEF BackupsNext
  <2> QED BY <2>1, <2>2
<1> QED BY <1>1, BackupsInitHolds, PTL DEF BackupsSpec

(* backup-db.sh never loses the newest complete dump to a rotation, unless *)
(* two runs overlap or one was told to keep a negative number of backups.  *)
THEOREM BackupsKeepNewest == BackupsSpec => []NewestBackupStays
<1>1. BackupsInv => NewestBackupStays
  BY DEF BackupsInv
<1> QED BY <1>1, BackupsInductive, PTL

(* No run removes a backup before its own has been delivered, overlap or   *)
(* not, whatever the settings.                                             *)
THEOREM BackupsDeliverFirst == BackupsSpec => []RemovesOnlyOnceDelivered
<1>1. BackupsInv => RemovesOnlyOnceDelivered
  BY DEF BackupsInv, Achieved, RemovesOnlyOnceDelivered
<1> QED BY <1>1, BackupsInductive, PTL

(* A run that ends well has left its dump, and has removed the oldest of   *)
(* the files, as many as files[:-file_count] makes of the number: all but  *)
(* so many for a positive one, none for 0, so many for a negative one.     *)
THEOREM BackupsRotate == BackupsSpec => SuccessMeansRotated
<1> DEFINE Rotated_(r) ==
        LET n    == conf[r].keep
            gone == Len(found) - Len(dir')
        IN  /\ r \in whole'
            /\ ~conf[r].offsite /\ (conf[r].rotate => n >= 0) => r \in Dumps'
            /\ conf[r].rotate =>
                  /\ gone >= 0 /\ \A i \in DOMAIN dir' : dir'[i] = found[gone + i]
                  /\ n > 0  => Len(dir') <= n /\ (Len(dir') < n => gone = 0)
                  /\ n <= 0 => gone <= -n /\ (gone < -n => dir' = << >>)
<1>1. BackupsInv /\ [BackupsNext]_backupsVars =>
        [\A r \in Runs :
            alone /\ step[r] # "done" /\ step'[r] = "done" => Rotated_(r)]_backupsVars
  <2> SUFFICES ASSUME BackupsInv, [BackupsNext]_backupsVars, NEW r \in Runs,
                      alone, step[r] # "done", step'[r] = "done"
               PROVE  Rotated_(r)
    OBVIOUS
  <2>0. BackupsTypeOK /\ step \in [Runs -> BackupSteps]
    BY Facts DEF BackupsInv
  <2>1. ASSUME r \in Active PROVE OwnsLatest(r)
    BY <2>1 DEF BackupsInv, AloneInv
  <2>2. CASE Dumped(r)
    <3>1. OwnsLatest(r)
      BY <2>1, <2>2 DEF Dumped, Active
    <3>2. Dumps' = Dumps /\ ~ conf[r].rotate
      <4>1. Dumps' = Dumps
        BY <2>0, <2>2, TouchedFacts, DumpsElems, NewDumpsElems DEF Dumped
      <4>2. ~ conf[r].rotate
        BY <2>0, <2>2 DEF Dumped, AfterDelivery, StepTo
      <4> QED BY <4>1, <4>2
    <3> QED BY <2>2, <3>1, <3>2 DEF Dumped, OwnsLatest
  <2>3. CASE Mail(r)
    <3>1. ~ conf[r].rotate
      BY <2>0, <2>3 DEF Mail, AfterDelivery, StepTo
    <3> QED BY <2>3, <3>1 DEF Mail, Dumps, BackupsInv, Achieved
  <2>4. CASE Rotated(r)
    <3>1. OwnsLatest(r) /\ r \in delivered
      BY <2>1, <2>4 DEF Rotated, Active, BackupsInv, Achieved
    <3>2. /\ Len(victims[r]) = 0 /\ Rotating(r) /\ UNCHANGED <<dir, Dumps>>
          /\ dir \in Seq(Runs) /\ DOMAIN dir = 1 .. Len(dir) /\ Len(dir) \in Nat
          /\ Len(found) \in Nat /\ conf[r].keep \in Int
      BY <2>4, <3>1, Facts, LenProperties DEF Rotated, OwnsLatest, Dumps
    <3>3. Len(dir) = 0 => dir = << >>
      BY <3>2, EmptySeq
    <3>4. r \in whole'
      BY <2>0, <2>4, <3>1 DEF Rotated, BackupsTypeOK
    <3>5. ~ conf[r].offsite /\ conf[r].keep >= 0 => r \in Dumps'
      BY <2>4, <3>1, <3>2 DEF OwnsLatest
    <3>6. conf[r].rotate
      BY <2>4 DEF Rotated, BackupsInv, Achieved
    <3> QED BY <3>2, <3>3, <3>4, <3>5, <3>6 DEF Rotating
  <2>5. CASE StartBackup(r) \/ WriteDump(r) \/ List(r) \/ Remove(r) \/ BackupFails(r)
    BY <2>0, <2>5 DEF StartBackup, WriteDump, List, Remove, BackupFails, StepTo
  <2>6. ASSUME NEW q \in Runs \ {r},
               \/ StartBackup(q) \/ WriteDump(q) \/ Dumped(q) \/ Mail(q)
               \/ List(q) \/ Remove(q) \/ Rotated(q) \/ BackupFails(q)
        PROVE  FALSE
    BY <2>0, <2>6 DEF StartBackup, WriteDump, Dumped, Mail, List, Remove, Rotated,
                      BackupFails, StepTo
  <2>7. CASE UNCHANGED backupsVars
    BY <2>7 DEF backupsVars
  <2> QED BY <2>2, <2>3, <2>4, <2>5, <2>6, <2>7 DEF BackupsNext
<1> QED BY <1>1, BackupsInductive, PTL DEF BackupsSpec, SuccessMeansRotated
=================================================================================
