-------------------------- MODULE MetricsExportProofs --------------------------
(***************************************************************************)
(* The counters of MetricsExport, for any number of containers, processes, *)
(* restarts and increments.                                                *)
(***************************************************************************)
EXTENDS MetricsExport, TLAPS

USE ContainersAssumption, CountAssumption DEF FileOf, Directory, Processes, CounterFiles

(* A process that has a file of its own knows what is in it. *)
Mirrors == \A p \in Processes : owner[p] = p[2] => value[p] = content[p]

(* The first process of a container runs and has its own file, so what it  *)
(* hands down when it forks is never taken for the file of its child.      *)
Masters == \A c \in Containers : master[c] # Nobody =>
    <<c, master[c]>> \in live /\ owner[<<c, master[c]>>] = master[c]

(* Files that do not exist count nothing. *)
NothingUnwritten == \A f \in CounterFiles \ exists : counted[f] = 0

(* A scrape has read of a file what it held in the meantime, or will. *)
ScrapeInv == scrape # "idle" => \A f \in CounterFiles :
    /\ floor[f] <= counted[f] /\ seen[f] <= counted[f]
    /\ f \in glob \/ floor[f] <= seen[f]
    /\ scrape = "done" => f \notin glob

MetricsInv ==
    MetricsTypeOK /\ NoIncrementLost /\ Mirrors /\ Masters /\ NothingUnwritten /\ ScrapeInv

---------------------------------------------------------------------------------
LEMMA MetricsInitHolds == MetricsInit => MetricsInv
<1> SUFFICES ASSUME MetricsInit PROVE MetricsInv
  OBVIOUS
<1>1. MetricsTypeOK
  BY DEF MetricsInit, MetricsTypeOK, Zero
<1>2. NoIncrementLost /\ NothingUnwritten /\ ScrapeInv
  BY DEF MetricsInit, NoIncrementLost, NothingUnwritten, ScrapeInv, Zero
<1>3. Mirrors
  BY DEF MetricsInit, Mirrors
<1>4. Masters
  BY DEF MetricsInit, Masters
<1> QED BY <1>1, <1>2, <1>3, <1>4 DEF MetricsInv

(* What the scraper does not do keeps what it knows: the counts only grow, *)
(* and files only come into being.                                         *)
LEMMA ScraperKeeps ==
    ASSUME MetricsInv, counted' \in [CounterFiles -> Nat], exists \subseteq exists',
           \A f \in CounterFiles : counted[f] <= counted'[f],
           \A f \in CounterFiles \ exists' : counted'[f] = counted[f],
           UNCHANGED scraper
    PROVE  ScrapeInv' /\ NothingUnwritten' /\ glob' \subseteq exists'
<1>1. /\ counted \in [CounterFiles -> Nat] /\ seen \in [CounterFiles -> Nat]
      /\ floor \in [CounterFiles -> Nat] /\ glob \subseteq exists
  BY DEF MetricsInv, MetricsTypeOK
<1>2. ScrapeInv'
  BY <1>1 DEF MetricsInv, ScrapeInv, scraper
<1>3. NothingUnwritten'
  BY DEF MetricsInv, NothingUnwritten
<1> QED BY <1>1, <1>2, <1>3 DEF scraper

LEMMA BootKeeps ==
    ASSUME MetricsInv, NEW c \in Containers, NEW i \in Pids, Boot(c, i)
    PROVE  MetricsInv'
<1> DEFINE p == <<c, i>>
<1>1. p \in Processes /\ content \in [CounterFiles -> Nat]
  BY DEF MetricsInv, MetricsTypeOK
<1>2. /\ value' = [value EXCEPT ![p] = content[p]] /\ owner' = [owner EXCEPT ![p] = i]
      /\ content' = content
  BY DEF Boot, Open, Cleanup
<1>3. MetricsTypeOK'
  BY <1>1, <1>2 DEF MetricsInv, MetricsTypeOK, Boot, scraper
<1>4. NoIncrementLost'
  BY <1>2 DEF MetricsInv, NoIncrementLost, Boot
<1>5. Mirrors'
  BY <1>1, <1>2 DEF MetricsInv, MetricsTypeOK, Mirrors
<1>6. Masters'
  BY <1>1, <1>2 DEF MetricsInv, MetricsTypeOK, Masters, Boot
<1>7. ScrapeInv' /\ NothingUnwritten'
  BY <1>3, ScraperKeeps DEF MetricsInv, MetricsTypeOK, Boot
<1> QED BY <1>3, <1>4, <1>5, <1>6, <1>7 DEF MetricsInv

LEMMA ForkKeeps ==
    ASSUME MetricsInv, NEW c \in Containers, NEW i \in Pids, Fork(c, i)
    PROVE  MetricsInv'
<1> DEFINE p == <<c, i>> m == <<c, master[c]>>
<1>1. /\ p \in Processes /\ content \in [CounterFiles -> Nat]
      /\ value \in [Processes -> Nat] /\ owner \in [Processes -> Pids \cup {Nobody}]
      /\ master \in [Containers -> Pids \cup {Nobody}]
  BY DEF MetricsInv, MetricsTypeOK
<1>2. m \in live /\ owner[m] = master[c] /\ m # p /\ m \in Processes
  BY <1>1 DEF Fork, MetricsInv, Masters
<1>3. UNCHANGED <<content, master, counted, scraper, bounds>> /\ live' = live \cup {p}
  BY DEF Fork
<1>4. \/ /\ value' = [value EXCEPT ![p] = value[m]] /\ owner' = [owner EXCEPT ![p] = master[c]]
         /\ exists' = exists
      \/ /\ value' = [value EXCEPT ![p] = content[p]] /\ owner' = [owner EXCEPT ![p] = i]
         /\ exists' = exists \cup {p}
  BY <1>2 DEF Fork, Open
<1>5. MetricsTypeOK'
  BY <1>1, <1>2, <1>3, <1>4, ZenonT(40) DEF MetricsInv, MetricsTypeOK, scraper, bounds
<1>6. NoIncrementLost'
  BY <1>3 DEF MetricsInv, NoIncrementLost
<1>7. Mirrors'
  BY <1>1, <1>2, <1>3, <1>4 DEF MetricsInv, Mirrors
<1>8. Masters'
  <2> SUFFICES ASSUME NEW d \in Containers, master[d] # Nobody
               PROVE  <<d, master[d]>> \in live' /\ owner'[<<d, master[d]>>] = master[d]
    BY <1>3 DEF Masters
  <2>1. <<d, master[d]>> \in live /\ owner[<<d, master[d]>>] = master[d]
    BY DEF MetricsInv, Masters
  <2>2. <<d, master[d]>> # p /\ <<d, master[d]>> \in Processes
    BY <1>1, <2>1 DEF Fork
  <2> QED BY <1>1, <1>3, <1>4, <2>1, <2>2
<1>9. ScrapeInv' /\ NothingUnwritten'
  BY <1>3, <1>4, <1>5, ScraperKeeps DEF MetricsInv, MetricsTypeOK
<1> QED BY <1>5, <1>6, <1>7, <1>8, <1>9 DEF MetricsInv

LEMMA IncKeeps ==
    ASSUME MetricsInv, NEW p \in Processes, Inc(p)
    PROVE  MetricsInv'
<1>1. /\ content \in [CounterFiles -> Nat] /\ counted \in [CounterFiles -> Nat]
      /\ value \in [Processes -> Nat] /\ owner \in [Processes -> Pids \cup {Nobody}]
      /\ p = <<p[1], p[2]>> /\ p[1] \in Containers /\ p[2] \in Pids
      /\ content = counted
  BY DEF MetricsInv, MetricsTypeOK, NoIncrementLost
<1>2. FileOf(p) = p
  BY <1>1
<1>3. (IF owner[p] = p[2] THEN value[p] ELSE content[p]) = content[p]
  BY DEF MetricsInv, Mirrors
<1>4. /\ value' = [value EXCEPT ![p] = content[p] + 1] /\ owner' = [owner EXCEPT ![p] = p[2]]
      /\ content' = [content EXCEPT ![p] = content[p] + 1] /\ exists' = exists \cup {p}
      /\ counted' = [counted EXCEPT ![p] = counted[p] + 1]
      /\ UNCHANGED <<live, master, scraper, boots>> /\ incs' = incs + 1
  BY <1>2, <1>3 DEF Inc, Open
<1>5. content' = counted'
  BY <1>1, <1>4
<1>6. MetricsTypeOK'
  BY <1>1, <1>4 DEF MetricsInv, MetricsTypeOK, scraper
<1>7. Mirrors'
  BY <1>1, <1>4 DEF MetricsInv, Mirrors
<1>8. Masters'
  <2> SUFFICES ASSUME NEW d \in Containers, master[d] # Nobody
               PROVE  <<d, master[d]>> \in live /\ owner'[<<d, master[d]>>] = master[d]
    BY <1>4 DEF Masters
  <2>1. /\ <<d, master[d]>> \in live /\ owner[<<d, master[d]>>] = master[d]
        /\ <<d, master[d]>> \in Processes
    BY DEF MetricsInv, MetricsTypeOK, Masters
  <2>2. CASE <<d, master[d]>> = p
    BY <1>1, <1>4, <2>1, <2>2
  <2>3. CASE <<d, master[d]>> # p
    BY <1>1, <1>4, <2>1, <2>3
  <2> QED BY <2>2, <2>3
<1>9. ScrapeInv' /\ NothingUnwritten'
  <2>1. /\ \A f \in CounterFiles : counted[f] <= counted'[f]
        /\ \A f \in CounterFiles \ exists' : counted'[f] = counted[f]
    BY <1>1, <1>4
  <2> QED BY <1>4, <1>6, <2>1, ScraperKeeps DEF MetricsTypeOK
<1> QED BY <1>5, <1>6, <1>7, <1>8, <1>9 DEF MetricsInv, NoIncrementLost

(* Processes end; no container loses its first process and keeps another. *)
LEMMA GoneKeeps ==
    ASSUME MetricsInv, NEW S, Gone(S), UNCHANGED <<disk, counted, scraper, bounds>>,
           master' \in [Containers -> Pids \cup {Nobody}],
           \A c \in Containers : master'[c] # Nobody =>
              master'[c] = master[c] /\ <<c, master[c]>> \notin S
    PROVE  MetricsInv'
<1>1. /\ value \in [Processes -> Nat] /\ owner \in [Processes -> Pids \cup {Nobody}]
      /\ live \subseteq Processes /\ counted \in [CounterFiles -> Nat]
  BY DEF MetricsInv, MetricsTypeOK
<1>2. MetricsTypeOK'
  BY <1>1 DEF MetricsInv, MetricsTypeOK, Gone, disk, scraper, bounds
<1>3. NoIncrementLost'
  BY DEF MetricsInv, NoIncrementLost, disk
<1>4. \A p \in Processes : p[2] \in Pids
  OBVIOUS
<1>5. Mirrors'
  BY <1>1, <1>4 DEF MetricsInv, Mirrors, Gone, disk
<1>6. Masters'
  BY <1>1 DEF MetricsInv, Masters, Gone
<1>7. ScrapeInv' /\ NothingUnwritten'
  BY <1>1, ScraperKeeps DEF disk
<1> QED BY <1>2, <1>3, <1>5, <1>6, <1>7 DEF MetricsInv

LEMMA EndsKeep ==
    /\ \A p \in Processes : MetricsInv /\ Exit(p) => MetricsInv'
    /\ \A c \in Containers : MetricsInv /\ Kill(c) => MetricsInv'
<1>1. ASSUME NEW p \in Processes, MetricsInv, Exit(p) PROVE MetricsInv'
  <2>1. Gone({p}) /\ UNCHANGED <<disk, counted, scraper, bounds, master>>
    BY <1>1 DEF Exit, Cleanup, disk
  <2>2. master \in [Containers -> Pids \cup {Nobody}]
    BY <1>1 DEF MetricsInv, MetricsTypeOK
  <2>3. \A c \in Containers : <<c, master[c]>> # p
    BY <1>1 DEF Exit
  <2> QED BY <1>1, <2>1, <2>2, <2>3, GoneKeeps
<1>2. ASSUME NEW c \in Containers, MetricsInv, Kill(c) PROVE MetricsInv'
  <2> DEFINE S == {<<c, i>> : i \in Pids}
  <2>1. Gone(S) /\ UNCHANGED <<disk, counted, scraper, bounds>>
    BY <1>2 DEF Kill
  <2>2. /\ master \in [Containers -> Pids \cup {Nobody}]
        /\ master' = [master EXCEPT ![c] = Nobody]
    BY <1>2 DEF MetricsInv, MetricsTypeOK, Kill
  <2>3. master' \in [Containers -> Pids \cup {Nobody}]
    BY <2>2
  <2>4. \A d \in Containers : master'[d] # Nobody =>
           master'[d] = master[d] /\ <<d, master[d]>> \notin S
    BY <2>2
  <2> HIDE DEF S
  <2> QED BY <1>2, <2>1, <2>3, <2>4, GoneKeeps
<1> QED BY <1>1, <1>2

LEMMA ScrapeKeeps ==
    ASSUME MetricsInv, ScrapeBegin \/ ScrapeEnd \/ \E f \in CounterFiles : ReadFile(f)
    PROVE  MetricsInv'
<1>1. /\ content \in [CounterFiles -> Nat] /\ content = counted
      /\ seen \in [CounterFiles -> Nat] /\ floor \in [CounterFiles -> Nat]
  BY DEF MetricsInv, MetricsTypeOK, NoIncrementLost
<1>2. UNCHANGED <<disk, memory, counted, bounds>>
  BY DEF ScrapeBegin, ScrapeEnd, ReadFile
<1>3. NoIncrementLost' /\ Mirrors' /\ Masters' /\ NothingUnwritten'
  BY <1>2 DEF MetricsInv, NoIncrementLost, Mirrors, Masters, NothingUnwritten, disk, memory
<1>4. CASE ScrapeBegin
  <2>1. MetricsTypeOK'
    BY <1>1, <1>2, <1>4 DEF MetricsInv, MetricsTypeOK, ScrapeBegin, Found, Zero, disk, memory, bounds
  <2>2. ScrapeInv'
    BY <1>1, <1>2, <1>4
       DEF MetricsInv, MetricsTypeOK, ScrapeInv, NothingUnwritten, ScrapeBegin, Found, Zero, disk
  <2> QED BY <1>3, <2>1, <2>2 DEF MetricsInv
<1>5. CASE ScrapeEnd
  <2>1. MetricsTypeOK'
    BY <1>2, <1>5 DEF MetricsInv, MetricsTypeOK, ScrapeEnd, disk, memory, bounds
  <2>2. ScrapeInv'
    BY <1>2, <1>5 DEF MetricsInv, ScrapeInv, ScrapeEnd
  <2> QED BY <1>3, <2>1, <2>2 DEF MetricsInv
<1>6. ASSUME NEW f \in CounterFiles, ReadFile(f) PROVE MetricsInv'
  <2>1. MetricsTypeOK'
    BY <1>1, <1>2, <1>6 DEF MetricsInv, MetricsTypeOK, ReadFile, disk, memory, bounds
  <2>2. ScrapeInv'
    BY <1>1, <1>2, <1>6 DEF MetricsInv, ScrapeInv, ReadFile
  <2> QED BY <1>3, <2>1, <2>2 DEF MetricsInv
<1> QED BY <1>4, <1>5, <1>6

---------------------------------------------------------------------------------
(* The theorems. *)

(* What processes know of their files is inductive. *)
THEOREM MetricsInductive == MetricsSpec => []MetricsInv
<1>1. MetricsInv /\ [MetricsNext]_metricsVars => MetricsInv'
  <2>1. CASE UNCHANGED metricsVars
    BY <2>1 DEF MetricsInv, MetricsTypeOK, NoIncrementLost, Mirrors, Masters,
                NothingUnwritten, ScrapeInv, metricsVars, disk, memory, scraper, bounds
  <2> QED BY <2>1, BootKeeps, ForkKeeps, IncKeeps, EndsKeep, ScrapeKeeps DEF MetricsNext
<1> QED BY <1>1, MetricsInitHolds, PTL DEF MetricsSpec

(* Forks, exits, crashes, restarts and returning process ids lose and      *)
(* double no increment of a counter.                                       *)
THEOREM MetricsLoseNothing == MetricsSpec => []NoIncrementLost
<1>1. MetricsInv => NoIncrementLost
  BY DEF MetricsInv
<1> QED BY <1>1, MetricsInductive, PTL

(* metrics_view exports no value that is older than the request for it. *)
THEOREM MetricsAreCurrent == MetricsSpec => []ScrapeIsCurrent
<1>1. MetricsInv => ScrapeIsCurrent
  BY DEF MetricsInv, ScrapeInv, ScrapeIsCurrent
<1> QED BY <1>1, MetricsInductive, PTL
=================================================================================
