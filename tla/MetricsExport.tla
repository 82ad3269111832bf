------------------------------ MODULE MetricsExport ------------------------------
(***************************************************************************)
(* How the counters of many processes become one page: core/metrics.py and *)
(* the hooks of gunicorn and Celery around it.  Every process keeps its    *)
(* value in a file named after its process id, in the directory of its     *)
(* container, and the page adds up the files of all directories.  Files    *)
(* outlive processes and containers, and process ids come back.            *)
(***************************************************************************)
EXTENDS Integers

CONSTANTS
    Containers, Pids, Nobody,
    App,                    \* the container that serves the page
    MaxCount, MaxBoots      \* bounds: increments and starts in all

ASSUME ContainersAssumption == Nobody \notin Pids /\ App \in Containers
ASSUME CountAssumption == MaxCount \in Nat /\ MaxBoots \in Nat

(* docker-compose.yml: a directory for each container, all of them below   *)
(* the one of App.                                                         *)
Directory(c) == c

CounterFiles == Containers \X Pids   \* of a directory, named after a process id
Processes    == Containers \X Pids
FileOf(p) == <<Directory(p[1]), p[2]>>

VARIABLES
    content, exists,    \* the files: the count each holds, which of them exist
    live,               \* processes that run
    master,             \* per container: the process that forks the others
    value, owner,       \* their memory: the counter, and whose file it mirrors
    counted,            \* history: increments made, by file
    scrape, glob, seen, \* a scrape: its step, the files left to read, what it read
    floor,              \* history: the counts when it began
    boots, incs         \* how many containers have started, increments been made

bounds      == <<boots, incs>>
disk        == <<content, exists>>
memory      == <<live, master, value, owner>>
scraper     == <<scrape, glob, seen, floor>>
metricsVars == <<disk, memory, counted, scraper, bounds>>

MetricsTypeOK ==
    /\ content \in [CounterFiles -> Nat] /\ exists \subseteq CounterFiles
    /\ live \subseteq Processes /\ master \in [Containers -> Pids \cup {Nobody}]
    /\ value \in [Processes -> Nat] /\ owner \in [Processes -> Pids \cup {Nobody}]
    /\ counted \in [CounterFiles -> Nat]
    /\ scrape \in {"idle", "reading", "done"} /\ glob \subseteq exists
    /\ seen \in [CounterFiles -> Nat] /\ floor \in [CounterFiles -> Nat]
    /\ boots \in Nat /\ incs \in Nat

Zero == [f \in CounterFiles |-> 0]

MetricsInit ==
    /\ content = Zero /\ exists = {} /\ counted = Zero
    /\ live = {} /\ master = [c \in Containers |-> Nobody]
    /\ value = [p \in Processes |-> 0]
    /\ owner = [p \in Processes |-> Nobody]
    /\ scrape = "idle" /\ glob = {} /\ seen = Zero /\ floor = Zero
    /\ boots = 0 /\ incs = 0

---------------------------------------------------------------------------------
(* Processes. *)

(* prometheus-cleanup.sh and mark_process_dead delete the files of live    *)
(* gauges, of which the program has none: counters stay.  Variant: all     *)
(* files of the dead go.                                                   *)
Cleanup_All(f, gone) == f' = [x \in CounterFiles |-> IF x \in gone THEN 0 ELSE f[x]]
Cleanup(f, gone) == f' = f

Open(p, base) ==
    /\ value' = [value EXCEPT ![p] = base]
    /\ owner' = [owner EXCEPT ![p] = p[2]]

(* A container starts its first process, which reads its file. *)
Boot(c, pid) ==
    /\ master[c] = Nobody /\ master' = [master EXCEPT ![c] = pid]
    /\ boots < MaxBoots /\ boots' = boots + 1
    /\ live' = live \cup {<<c, pid>>}
    /\ Open(<<c, pid>>, content[FileOf(<<c, pid>>)])
    /\ exists' = exists \cup {FileOf(<<c, pid>>)}
    /\ Cleanup(content, {FileOf(<<c, q>>) : q \in Pids})
    /\ UNCHANGED <<counted, scraper, incs>>

(* The master forks a worker, which inherits its memory, or, without       *)
(* preload_app, starts afresh.                                             *)
Fork(c, pid) ==
    LET p == <<c, pid>> m == <<c, master[c]>> IN
    /\ master[c] # Nobody /\ p \notin live
    /\ live' = live \cup {p}
    /\ \/ /\ value' = [value EXCEPT ![p] = value[m]]
          /\ owner' = [owner EXCEPT ![p] = owner[m]]
          /\ UNCHANGED exists
       \/ Open(p, content[FileOf(p)]) /\ exists' = exists \cup {FileOf(p)}
    /\ UNCHANGED <<content, master, counted, scraper, bounds>>

(* Whose memory mirrors another process' file first turns to its own. *)
Inc(p) ==
    LET f    == FileOf(p)
        base == IF owner[p] = p[2] THEN value[p] ELSE content[f] IN
    /\ p \in live /\ incs < MaxCount /\ incs' = incs + 1
    /\ Open(p, base + 1)
    /\ content' = [content EXCEPT ![f] = base + 1] /\ exists' = exists \cup {f}
    /\ counted' = [counted EXCEPT ![f] = @ + 1]
    /\ UNCHANGED <<live, master, scraper, boots>>

Gone(S) ==
    /\ live' = live \ S
    /\ value' = [p \in Processes |-> IF p \in S THEN 0 ELSE value[p]]
    /\ owner' = [p \in Processes |-> IF p \in S THEN Nobody ELSE owner[p]]

(* A worker ends; its parent's child_exit cleans up after it. *)
Exit(p) ==
    /\ p \in live /\ p[2] # master[p[1]]
    /\ Gone({p})
    /\ Cleanup(content, {FileOf(p)})
    /\ UNCHANGED <<exists, master, counted, scraper, bounds>>

(* The container is killed, and no hook runs. *)
Kill(c) ==
    /\ master[c] # Nobody /\ master' = [master EXCEPT ![c] = Nobody]
    /\ Gone({<<c, i>> : i \in Pids})
    /\ UNCHANGED <<disk, counted, scraper, bounds>>

---------------------------------------------------------------------------------
(* metrics_view: the files are found first and read one after the other.   *)
(* Variant: the files of one directory only.                               *)
Found_Flat == {f \in exists : f[1] = App}
Found == exists

ScrapeBegin ==
    /\ scrape # "reading" /\ master[App] # Nobody
    /\ scrape' = "reading" /\ glob' = Found
    /\ seen' = Zero /\ floor' = counted
    /\ UNCHANGED <<disk, memory, counted, bounds>>

ReadFile(f) ==
    /\ scrape = "reading" /\ f \in glob
    /\ seen' = [seen EXCEPT ![f] = content[f]] /\ glob' = glob \ {f}
    /\ UNCHANGED <<disk, memory, counted, scrape, floor, bounds>>

ScrapeEnd ==
    /\ scrape = "reading" /\ glob = {}
    /\ scrape' = "done"
    /\ UNCHANGED <<disk, memory, counted, glob, seen, floor, bounds>>

MetricsNext ==
    \/ \E c \in Containers : Kill(c) \/ \E i \in Pids : Boot(c, i) \/ Fork(c, i)
    \/ \E p \in Processes : Inc(p) \/ Exit(p)
    \/ \E f \in CounterFiles : ReadFile(f)
    \/ ScrapeBegin \/ ScrapeEnd

MetricsSpec == MetricsInit /\ [][MetricsNext]_metricsVars

---------------------------------------------------------------------------------
(* Properties. *)

(* No increment is lost, and none is counted twice: forks, exits, crashes, *)
(* restarts and returning process ids leave every file with the increments *)
(* made by the processes of its name.                                      *)
NoIncrementLost == content = counted

(* A scrape that reads while processes count tells, of every file, a value *)
(* between the one at its beginning and the one now; so the exported sums  *)
(* never fall from one scrape to the next.                                 *)
ScrapeIsCurrent == scrape = "done" =>
    \A f \in CounterFiles : floor[f] <= seen[f] /\ seen[f] <= counted[f]
=================================================================================
