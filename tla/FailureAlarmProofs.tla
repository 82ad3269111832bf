--------------------------- MODULE FailureAlarmProofs ---------------------------
(***************************************************************************)
(* The alarm of FailureAlarm, for any list of subnets, any threshold below *)
(* the entry's lifetime, and any length of outages.                        *)
(***************************************************************************)
EXTENDS FailureAlarm, TLAPS

Has(s, n) == \E i \in DOMAIN s : s[i] = n

(* The cache holds the last success or nothing, and nothing only where     *)
(* there was no success or its entry was lost.                             *)
EntryIsSuccess == \A n \in Subnets :
    /\ entry[n] # Never => entry[n] = success[n]
    /\ entry[n] = Never /\ n \notin lost => success[n] = Never

(* What was an error when it was logged would be one now. *)
ErrorsLast == \A n \in Subnets : level[n] = "error" => FailureLevel(n) = "error"

(* Every subnet is yet to come or accounted for. *)
NoneDropped ==
    /\ stage = "fetch" =>
          \A n \in Subnets : n \in handled \/ Has(todo, n) \/ Has(fetched, n)
    /\ stage = "store" => \A n \in Subnets : n \in handled \/ Has(todo, n)
    /\ stage # "idle" => outcome = "none"

AlarmInv ==
    /\ AlarmTypeOK /\ EntryIsSuccess /\ AlarmMatchesOutage
    /\ ErrorsLast /\ NoneDropped /\ DoneAccountsForAll

---------------------------------------------------------------------------------
(* Sequences. *)

LEMMA TailHas ==
    ASSUME NEW S, NEW s \in Seq(S), s # << >>
    PROVE  /\ Head(s) \in S /\ Tail(s) \in Seq(S)
           /\ \A n : Has(s, n) => n = Head(s) \/ Has(Tail(s), n)
<1>1. Head(s) \in S /\ Tail(s) \in Seq(S)
  OBVIOUS
<1>2. ASSUME NEW n, Has(s, n), n # Head(s)  PROVE Has(Tail(s), n)
  <2>1. PICK i \in DOMAIN s : s[i] = n
    BY <1>2 DEF Has
  <2>2. i \in 1 .. Len(s) /\ i # 1
    BY <2>1, <1>2
  <2>3. i - 1 \in DOMAIN Tail(s) /\ Tail(s)[i - 1] = n
    BY <2>1, <2>2
  <2> QED BY <2>3 DEF Has
<1> QED BY <1>1, <1>2

LEMMA AppendHas ==
    ASSUME NEW S, NEW s \in Seq(S), NEW x \in S
    PROVE  /\ Append(s, x) \in Seq(S)
           /\ Has(Append(s, x), x)
           /\ \A n : Has(s, n) => Has(Append(s, x), n)
<1>1. Append(s, x) \in Seq(S)
  OBVIOUS
<1>2. Len(s) + 1 \in DOMAIN Append(s, x) /\ Append(s, x)[Len(s) + 1] = x
  OBVIOUS
<1>3. ASSUME NEW n, Has(s, n)  PROVE Has(Append(s, x), n)
  <2>1. PICK i \in DOMAIN s : s[i] = n
    BY <1>3 DEF Has
  <2>2. i \in DOMAIN Append(s, x) /\ Append(s, x)[i] = n
    BY <2>1
  <2> QED BY <2>2 DEF Has
<1> QED BY <1>1, <1>2, <1>3 DEF Has

(* Appending what is not there keeps the keys apart. *)
LEMMA AppendApart ==
    ASSUME NEW S, NEW s \in Seq(S), NEW x \in S, ~ Has(s, x),
           \A i, j \in DOMAIN s : s[i] = s[j] => i = j
    PROVE  \A i, j \in DOMAIN Append(s, x) : Append(s, x)[i] = Append(s, x)[j] => i = j
<1>1. DOMAIN Append(s, x) = 1 .. Len(s) + 1 /\ DOMAIN s = 1 .. Len(s)
  OBVIOUS
<1>2. \A i \in 1 .. Len(s) : Append(s, x)[i] = s[i] /\ s[i] # x
  BY DEF Has
<1>3. Append(s, x)[Len(s) + 1] = x
  OBVIOUS
<1> QED BY <1>1, <1>2, <1>3

---------------------------------------------------------------------------------
(* Types. *)

USE AlarmAssumption DEF Time, Levels

LEMMA InitTypes == AlarmInit => AlarmTypeOK
BY DEF AlarmInit, AlarmTypeOK

LEMMA EmptyTypes == << >> \in Seq(Subnets) /\ DOMAIN << >> = {}
OBVIOUS

LEMMA StartRunTypes == AlarmTypeOK /\ StartRun => AlarmTypeOK'
<1> SUFFICES ASSUME AlarmTypeOK, StartRun PROVE AlarmTypeOK'
  OBVIOUS
<1>1. CASE cacheUp
  BY <1>1 DEF AlarmTypeOK, StartRun, reports
<1>2. CASE ~ cacheUp
  BY <1>2, EmptyTypes DEF AlarmTypeOK, StartRun, End, reports
<1> QED BY <1>1, <1>2

LEMMA FailureLevelType == ASSUME NEW n PROVE FailureLevel(n) \in {"info", "error"}
BY DEF FailureLevel

LEMMA LogFailureTypes ==
    ASSUME AlarmTypeOK, NEW n \in Subnets, LogFailure(n)
    PROVE  /\ level' \in [Subnets -> Levels] /\ overdue' \in [Subnets -> BOOLEAN]
           /\ handled' \subseteq Subnets
BY FailureLevelType DEF AlarmTypeOK, LogFailure

LEMMA FetchTypes == AlarmTypeOK /\ Fetch => AlarmTypeOK'
<1> SUFFICES ASSUME AlarmTypeOK, Fetch PROVE AlarmTypeOK'
  OBVIOUS
<1> DEFINE n == Head(todo)
<1>1. n \in Subnets /\ Tail(todo) \in Seq(Subnets)
  BY TailHas DEF AlarmTypeOK, Fetch
<1>2. UNCHANGED <<now, cacheUp, entry, success, lost>>
  BY DEF Fetch
<1>3. CASE todo' = Tail(todo) /\ UNCHANGED <<stage, outcome>> /\ Fetched(n)
  <2>1. fetched' \in Seq(Subnets)
    BY <1>1, <1>3, AppendHas DEF AlarmTypeOK, Fetched
  <2>2. \A i, j \in DOMAIN fetched' : fetched'[i] = fetched'[j] => i = j
    BY <1>1, <1>3, AppendApart DEF AlarmTypeOK, Fetched, Has
  <2> QED BY <1>1, <1>2, <1>3, <2>1, <2>2 DEF AlarmTypeOK, Fetched, reports
<1>4. CASE todo' = Tail(todo) /\ UNCHANGED <<stage, outcome>> /\ Failed(n)
  BY <1>1, <1>2, <1>4, LogFailureTypes DEF AlarmTypeOK, Failed
<1>5. CASE End("raised") /\ UNCHANGED <<reports, handled>>
  BY <1>2, <1>5 DEF AlarmTypeOK, End, reports
<1> QED BY <1>3, <1>4, <1>5 DEF Fetch

LEMMA StoreTypes == AlarmTypeOK /\ Store => AlarmTypeOK'
<1> SUFFICES ASSUME AlarmTypeOK, Store PROVE AlarmTypeOK'
  OBVIOUS
<1> DEFINE n == Head(todo)
<1>1. n \in Subnets /\ Tail(todo) \in Seq(Subnets)
  BY TailHas DEF AlarmTypeOK, Store
<1>2. CASE End("raised") /\ UNCHANGED <<entry, success, lost, reports, handled>>
  BY <1>2 DEF AlarmTypeOK, Store, End, reports
<1>3. CASE /\ UNCHANGED <<now, cacheUp, stage, fetched, outcome>>
           /\ entry' = [entry EXCEPT ![n] = now] /\ success' = [success EXCEPT ![n] = now]
           /\ lost' = lost \ {n} /\ level' = [level EXCEPT ![n] = "none"]
           /\ overdue' = [overdue EXCEPT ![n] = FALSE]
           /\ handled' = handled \cup {n} /\ todo' = Tail(todo)
  BY <1>1, <1>3 DEF AlarmTypeOK
<1> QED BY <1>2, <1>3 DEF Store, StoreRaises

LEMMA NextTypes == AlarmTypeOK /\ [AlarmNext]_alarmVars => AlarmTypeOK'
<1> SUFFICES ASSUME AlarmTypeOK, [AlarmNext]_alarmVars PROVE AlarmTypeOK'
  OBVIOUS
<1>1. CASE AllFetched
  BY <1>1 DEF AlarmTypeOK, AllFetched, reports
<1>2. CASE Finish \/ Killed
  <2>1. /\ UNCHANGED <<now, cacheUp, entry, success, lost, reports, handled>>
        /\ End("done") \/ End("killed")
    BY <1>2 DEF Finish, Killed
  <2> QED BY <2>1, EmptyTypes DEF AlarmTypeOK, End, reports
<1>3. CASE Tick
  BY <1>3 DEF AlarmTypeOK, Tick, reports, run
<1>4. CASE CacheDown
  BY <1>4 DEF AlarmTypeOK, CacheDown, reports, run
<1>5. CASE CacheBack
  BY <1>5 DEF AlarmTypeOK, CacheBack, reports, run
<1>6. CASE UNCHANGED alarmVars
  BY <1>6 DEF AlarmTypeOK, alarmVars
<1> QED
  BY StartRunTypes, FetchTypes, StoreTypes, <1>1, <1>2, <1>3, <1>4, <1>5, <1>6 DEF AlarmNext

---------------------------------------------------------------------------------
(* The alarm.  What may happen to a subnet in one step. *)

Untouched(n) ==
    /\ entry'[n] = entry[n] /\ success'[n] = success[n]
    /\ level'[n] = level[n] /\ overdue'[n] = overdue[n]
Reported(n) ==
    /\ entry'[n] = entry[n] /\ success'[n] = success[n]
    /\ level'[n] = FailureLevel(n)
    /\ overdue'[n] = (success[n] = Never \/ now > success[n] + Threshold)
Reset(n) ==
    /\ entry'[n] = now /\ success'[n] = now
    /\ level'[n] = "none" /\ overdue'[n] = FALSE
Forgotten(n) ==
    /\ entry'[n] = Never /\ success'[n] = success[n] /\ n \in lost'
    /\ level'[n] = level[n] /\ overdue'[n] = overdue[n]

(* Every step does one of four things to a subnet, and time and the set of *)
(* lost entries move with only two of them.                                *)
LEMMA Fates ==
    ASSUME AlarmTypeOK, [AlarmNext]_alarmVars, NEW n \in Subnets
    PROVE  \/ Untouched(n) /\ (n \in lost' <=> n \in lost) /\ now' >= now
           \/ Reported(n) /\ (n \in lost' <=> n \in lost) /\ now' = now
           \/ Reset(n) /\ now' = now
           \/ Forgotten(n) /\ now' = now
<1> DEFINE m == Head(todo)
<1>0. now \in Nat
  BY DEF AlarmTypeOK
<1>1. CASE Fetch
  <2>1. UNCHANGED <<now, entry, success, lost>> /\ m \in Subnets
    BY <1>1, TailHas DEF Fetch, AlarmTypeOK
  <2>2. CASE UNCHANGED reports
    BY <1>0, <2>1, <2>2 DEF reports, Untouched
  <2>3. CASE LogFailure(m)
    BY <1>0, <2>1, <2>3 DEF AlarmTypeOK, LogFailure, Untouched, Reported
  <2> QED BY <1>1, <2>2, <2>3 DEF Fetch, Fetched, Failed
<1>2. CASE Store
  <2>1. CASE UNCHANGED <<entry, success, lost, reports, now>>
    BY <1>0, <2>1 DEF reports, Untouched
  <2>2. CASE /\ now' = now
             /\ entry' = [entry EXCEPT ![m] = now] /\ success' = [success EXCEPT ![m] = now]
             /\ lost' = lost \ {m} /\ level' = [level EXCEPT ![m] = "none"]
             /\ overdue' = [overdue EXCEPT ![m] = FALSE]
    <3>1. CASE m = n
      BY <2>2, <3>1 DEF AlarmTypeOK, Reset
    <3>2. CASE m # n
      <4>1. /\ entry'[n] = entry[n] /\ success'[n] = success[n]
            /\ level'[n] = level[n] /\ overdue'[n] = overdue[n]
        BY <2>2, <3>2 DEF AlarmTypeOK
      <4>2. n \in lost' <=> n \in lost
        BY <2>2, <3>2
      <4>3. Untouched(n)
        BY <4>1 DEF Untouched
      <4>4. now' >= now
        BY <1>0, <2>2
      <4> QED BY <4>2, <4>3, <4>4, Zenon
    <3> QED BY <3>1, <3>2
  <2> QED BY <1>2, <2>1, <2>2 DEF Store
<1>3. CASE CacheBack
  BY <1>0, <1>3 DEF AlarmTypeOK, CacheBack, reports, Untouched, Forgotten
<1>4. CASE Tick
  BY <1>0, <1>4 DEF Tick, reports, Untouched
<1>5. CASE StartRun \/ AllFetched \/ Finish \/ Killed \/ CacheDown
  BY <1>0, <1>5 DEF StartRun, AllFetched, Finish, Killed, CacheDown, reports, Untouched
<1>6. CASE UNCHANGED alarmVars
  BY <1>0, <1>6 DEF alarmVars, Untouched
<1> QED BY <1>1, <1>2, <1>3, <1>4, <1>5, <1>6 DEF AlarmNext

LEMMA NextEntry ==
    AlarmTypeOK /\ EntryIsSuccess /\ [AlarmNext]_alarmVars => EntryIsSuccess'
<1> SUFFICES ASSUME AlarmTypeOK, EntryIsSuccess, [AlarmNext]_alarmVars, NEW n \in Subnets
             PROVE  /\ entry'[n] # Never => entry'[n] = success'[n]
                    /\ entry'[n] = Never /\ n \notin lost' => success'[n] = Never
  BY DEF EntryIsSuccess
<1>1. now # Never
  BY DEF AlarmTypeOK
<1> QED BY <1>1, Fates DEF EntryIsSuccess, Untouched, Reported, Reset, Forgotten

(* A failure that is overdue is an error, one that is not is none, unless  *)
(* the entry was lost.                                                     *)
LEMMA LevelTells ==
    ASSUME AlarmTypeOK, EntryIsSuccess, NEW n \in Subnets
    PROVE  LET due == success[n] = Never \/ now > success[n] + Threshold IN
           /\ due => FailureLevel(n) = "error"
           /\ FailureLevel(n) = "error" /\ n \notin lost => due
<1>1. /\ now \in Nat /\ entry[n] \in Nat \cup {Never} /\ success[n] \in Nat \cup {Never}
      /\ Never \notin Nat
  BY DEF AlarmTypeOK
<1>2. entry[n] # Never => entry[n] = success[n]
  BY DEF EntryIsSuccess
<1>3. entry[n] = Never /\ n \notin lost => success[n] = Never
  BY DEF EntryIsSuccess
<1>4. CASE entry[n] = Never
  BY <1>3, <1>4 DEF FailureLevel, LastSuccess
<1>5. CASE entry[n] # Never
  <2>1. success[n] \in Nat /\ entry[n] = success[n] /\ success[n] # Never
    BY <1>1, <1>2, <1>5
  <2>2. CASE now < success[n] + TTL
    <3>1. LastSuccess(n) = success[n]
      BY <2>1, <2>2 DEF LastSuccess
    <3> QED BY <3>1, <2>1 DEF FailureLevel
  <2>3. CASE ~ (now < success[n] + TTL)
    <3>1. LastSuccess(n) = Never
      BY <2>1, <2>3 DEF LastSuccess
    <3>2. now > success[n] + Threshold
      BY <1>1, <2>1, <2>3
    <3> QED BY <3>1, <3>2 DEF FailureLevel
  <2> QED BY <2>2, <2>3
<1> QED BY <1>4, <1>5

(* Once an error, always an error, until the entry is set again. *)
LEMMA LevelLasts ==
    ASSUME AlarmTypeOK, AlarmTypeOK', NEW n \in Subnets, FailureLevel(n) = "error",
           entry'[n] \in {entry[n], Never}, now' >= now
    PROVE  FailureLevel(n)' = "error"
<1>1. /\ now \in Nat /\ now' \in Nat /\ entry[n] \in Nat \cup {Never} /\ Never \notin Nat
  BY DEF AlarmTypeOK
<1>2. CASE entry'[n] = Never
  BY <1>2 DEF FailureLevel, LastSuccess
<1>3. CASE entry'[n] # Never
  <2>1. entry'[n] = entry[n] /\ entry[n] \in Nat
    BY <1>1, <1>3
  <2>2. CASE now' < entry[n] + TTL
    <3>1. LastSuccess(n) = entry[n] /\ LastSuccess(n)' = entry[n] /\ entry[n] # Never
      BY <1>1, <2>1, <2>2 DEF LastSuccess
    <3>2. now > entry[n] + Threshold
      BY <3>1 DEF FailureLevel
    <3> QED BY <1>1, <2>1, <3>1, <3>2 DEF FailureLevel
  <2>3. CASE ~ (now' < entry[n] + TTL)
    BY <2>1, <2>3 DEF FailureLevel, LastSuccess
  <2> QED BY <2>2, <2>3
<1> QED BY <1>2, <1>3

LEMMA NextLevels ==
    AlarmInv /\ [AlarmNext]_alarmVars => AlarmMatchesOutage' /\ ErrorsLast'
<1> SUFFICES ASSUME AlarmInv, [AlarmNext]_alarmVars, NEW n \in Subnets
             PROVE  /\ overdue'[n] => level'[n] # "info"
                    /\ level'[n] = "error" /\ n \notin lost' => overdue'[n]
                    /\ level'[n] = "error" => FailureLevel(n)' = "error"
  BY DEF AlarmMatchesOutage, ErrorsLast
<1>1. AlarmTypeOK /\ AlarmTypeOK' /\ EntryIsSuccess /\ now \in Nat
  BY NextTypes DEF AlarmInv, AlarmTypeOK
<1>2. /\ overdue[n] => level[n] # "info"
      /\ level[n] = "error" /\ n \notin lost => overdue[n]
      /\ level[n] = "error" => FailureLevel(n) = "error"
  BY DEF AlarmInv, AlarmMatchesOutage, ErrorsLast
<1>3. CASE Untouched(n) /\ (n \in lost' <=> n \in lost) /\ now' >= now
  BY <1>1, <1>2, <1>3, LevelLasts DEF Untouched
<1>4. CASE Reported(n) /\ (n \in lost' <=> n \in lost) /\ now' = now
  <2>1. ASSUME level'[n] = "error" PROVE FailureLevel(n)' = "error"
    <3>1. FailureLevel(n) = "error" /\ entry'[n] \in {entry[n], Never} /\ now' >= now
      BY <1>1, <1>4, <2>1 DEF Reported
    <3> QED BY <1>1, <3>1, LevelLasts
  <2>2. /\ overdue'[n] => FailureLevel(n) = "error"
        /\ FailureLevel(n) = "error" /\ n \notin lost => overdue'[n]
    BY <1>1, <1>4, LevelTells DEF Reported
  <2> QED BY <1>4, <2>1, <2>2 DEF Reported
<1>5. CASE Reset(n)
  BY <1>5 DEF Reset
<1>6. CASE Forgotten(n) /\ now' = now
  BY <1>1, <1>2, <1>6, LevelLasts DEF Forgotten
<1> QED BY <1>1, <1>3, <1>4, <1>5, <1>6, Fates

---------------------------------------------------------------------------------
(* Every subnet is accounted for. *)

LEMMA NextDropsNone ==
    AlarmInv /\ [AlarmNext]_alarmVars => NoneDropped' /\ DoneAccountsForAll'
<1> SUFFICES ASSUME AlarmInv, [AlarmNext]_alarmVars
             PROVE  NoneDropped' /\ DoneAccountsForAll'
  OBVIOUS
<1> DEFINE n == Head(todo)
<1>0. AlarmTypeOK /\ NoneDropped /\ DoneAccountsForAll
  BY DEF AlarmInv
<1>1. CASE StartRun
  <2>1. ASSUME NEW m \in Subnets PROVE Has(BITTENSOR_NETUIDS, m)
    BY DEF Has, Subnets
  <2> QED BY <1>1, <2>1 DEF StartRun, End, NoneDropped, DoneAccountsForAll
<1>2. CASE Fetch
  <2>1. /\ n \in Subnets /\ todo \in Seq(Subnets) /\ fetched \in Seq(Subnets)
        /\ \A m : Has(todo, m) => m = n \/ Has(Tail(todo), m)
        /\ \A m \in Subnets : m \in handled \/ Has(todo, m) \/ Has(fetched, m)
    BY <1>0, <1>2, TailHas DEF Fetch, AlarmTypeOK, NoneDropped
  <2>2. CASE End("raised")
    BY <2>2 DEF End, NoneDropped, DoneAccountsForAll
  <2>3. CASE todo' = Tail(todo) /\ UNCHANGED <<stage, outcome>> /\ Fetched(n)
    <3>1. Has(fetched', n) /\ \A m : Has(fetched, m) => Has(fetched', m)
      <4>1. CASE \E i \in DOMAIN fetched : fetched[i] = n
        BY <2>3, <4>1 DEF Fetched, Has
      <4>2. CASE ~ \E i \in DOMAIN fetched : fetched[i] = n
        BY <2>1, <2>3, <4>2, AppendHas DEF Fetched
      <4> QED BY <4>1, <4>2
    <3> QED BY <1>0, <1>2, <2>1, <2>3, <3>1
            DEF Fetch, Fetched, NoneDropped, DoneAccountsForAll
  <2>4. CASE todo' = Tail(todo) /\ UNCHANGED <<stage, outcome>> /\ Failed(n)
    BY <1>0, <1>2, <2>1, <2>4
       DEF Fetch, Failed, LogFailure, NoneDropped, DoneAccountsForAll
  <2> QED BY <1>2, <2>2, <2>3, <2>4 DEF Fetch
<1>3. CASE AllFetched
  <2>1. \A m : ~ Has(<< >>, m)
    BY DEF Has
  <2> QED BY <1>0, <1>3, <2>1 DEF AllFetched, NoneDropped, DoneAccountsForAll
<1>4. CASE Store
  <2>1. CASE End("raised")
    BY <2>1 DEF End, NoneDropped, DoneAccountsForAll
  <2>2. CASE /\ handled' = handled \cup {n} /\ todo' = Tail(todo)
             /\ UNCHANGED <<stage, outcome>>
    <3>1. /\ \A m : Has(todo, m) => m = n \/ Has(Tail(todo), m)
          /\ \A m \in Subnets : m \in handled \/ Has(todo, m)
      BY <1>0, <1>4, TailHas DEF Store, AlarmTypeOK, NoneDropped
    <3> QED BY <1>0, <1>4, <2>2, <3>1 DEF Store, NoneDropped, DoneAccountsForAll
  <2> QED BY <1>4, <2>1, <2>2 DEF Store, StoreRaises
<1>5. CASE Finish
  <2>1. \A m : ~ Has(<< >>, m)
    BY DEF Has
  <2>2. handled = Subnets
    BY <1>0, <1>5, <2>1 DEF Finish, AlarmTypeOK, NoneDropped
  <2> QED BY <1>5, <2>2 DEF Finish, End, NoneDropped, DoneAccountsForAll
<1>6. CASE Killed
  BY <1>6 DEF Killed, End, NoneDropped, DoneAccountsForAll
<1>7. CASE Tick \/ CacheDown \/ CacheBack
  BY <1>0, <1>7 DEF Tick, CacheDown, CacheBack, run, NoneDropped, DoneAccountsForAll
<1>8. CASE UNCHANGED alarmVars
  BY <1>0, <1>8 DEF alarmVars, NoneDropped, DoneAccountsForAll
<1> QED BY <1>1, <1>2, <1>3, <1>4, <1>5, <1>6, <1>7, <1>8 DEF AlarmNext

---------------------------------------------------------------------------------
(* The theorems. *)

(* The invariant the properties rest on is inductive. *)
THEOREM AlarmInductive == AlarmSpec => []AlarmInv
<1>1. AlarmInit => AlarmInv
  <2> SUFFICES ASSUME AlarmInit PROVE AlarmInv
    OBVIOUS
  <2>1. EntryIsSuccess /\ AlarmMatchesOutage /\ ErrorsLast
    BY DEF AlarmInit, EntryIsSuccess, AlarmMatchesOutage, ErrorsLast
  <2>2. NoneDropped /\ DoneAccountsForAll
    BY DEF AlarmInit, NoneDropped, DoneAccountsForAll
  <2> QED BY <2>1, <2>2, InitTypes DEF AlarmInv
<1>2. AlarmInv /\ [AlarmNext]_alarmVars => AlarmInv'
  BY NextTypes, NextEntry, NextLevels, NextDropsNone DEF AlarmInv
<1> QED BY <1>1, <1>2, PTL DEF AlarmSpec

(* fetch_validators raises the alarm when it should and only then, however *)
(* long a subnet is out and whether or not its cache entry survives.       *)
THEOREM AlarmIsRight == AlarmSpec => []AlarmMatchesOutage
<1>1. AlarmInv => AlarmMatchesOutage
  BY DEF AlarmInv
<1> QED BY <1>1, AlarmInductive, PTL

(* A run of fetch_validators that ends well has dealt with every subnet of *)
(* BITTENSOR_NETUIDS, however often the list names it.                     *)
THEOREM AlarmCoversAll == AlarmSpec => []DoneAccountsForAll
<1>1. AlarmInv => DoneAccountsForAll
  BY DEF AlarmInv
<1> QED BY <1>1, AlarmInductive, PTL

(* A subnet whose outage was reported as an error is not reported as       *)
(* merely failing again before it has succeeded.                           *)
THEOREM AlarmStaysLoud == AlarmSpec => LoudUntilSuccess
<1>1. AlarmInv /\ [AlarmNext]_alarmVars =>
        [\A n \in Subnets : level[n] = "error" => level'[n] # "info"]_alarmVars
  <2> SUFFICES ASSUME AlarmInv, [AlarmNext]_alarmVars, NEW n \in Subnets, level[n] = "error"
               PROVE  level'[n] # "info"
    OBVIOUS
  <2>1. FailureLevel(n) = "error" /\ AlarmTypeOK
    BY DEF AlarmInv, ErrorsLast
  <2> QED BY <2>1, Fates DEF Untouched, Reported, Reset, Forgotten
<1> QED BY <1>1, AlarmInductive, PTL DEF AlarmSpec, LoudUntilSuccess
=================================================================================
