---------------------------- MODULE MassiveScan ----------------------------
(***************************************************************************)
(* validation/run_massive_scan.py: runs of a script that looks for         *)
(* repositories, clones the ones it does not have, runs pyvibe on all of   *)
(* them and writes aggregate.json, with calls that time out, and kills.    *)
(* What a run leaves in validation/repos is what the next one starts from. *)
(***************************************************************************)
EXTENDS Naturals, Sequences, FiniteSets, SequencesExt

CONSTANTS Hits,       \* the repositories GitHub knows, most stars first
          Reference,  \* REFERENCE_REPOS
          Target,     \* --target
          Every,      \* results between two checkpoints, 100 in the code
          Damaged,    \* a file that is not JSON
          Runs        \* bound: how often the script is started

\* A full name is a sequence of parts; the "/" in it becomes "__" in the directory's
\* name, and every "__" of the directory's name becomes a "/" again.
DirOf(name) == [i \in DOMAIN name |-> IF name[i] = "/" THEN "__" ELSE name[i]]
NameOf(dir) == [i \in DOMAIN dir |-> IF dir[i] = "__" THEN "/" ELSE dir[i]]

Dir == {DirOf(Hits[i]) : i \in 1..Len(Hits)}

\* A git at work on a directory; a clone that was killed; a clone.
Clone == {"absent", "growing", "partial", "whole"}

\* What pyvibe printed: the findings of the repository, those of a part of it, or
\* the [] that stands for any failure too.
Found  == {"all", "part", "nothing"}
FullName == {Hits[i] : i \in 1..Len(Hits)} \cup {NameOf(d) : d \in Dir}
Result   == [repo : FullName, found : Found]

ASSUME ScanAssumption ==
  /\ Hits \in Seq(Seq(STRING)) /\ \A i, j \in 1..Len(Hits) : Hits[i] = Hits[j] => i = j
  /\ Damaged \notin Seq(Result) /\ Target \in Nat /\ Runs \in Nat /\ Every \in Nat \ {0}
  /\ Reference \subseteq {Hits[i] : i \in 1..Len(Hits)}

VARIABLES clones,       \* validation/repos
          raw,          \* validation/raw: for each directory, what was written last
          aggregate,    \* aggregate.json, Damaged while it is not JSON
          stage,        \* where the script is
          skip,         \* --skip-clone
          repos, idx,   \* repos_to_scan, and the loop's index
          scan_results,
          failed,       \* failed_clones
          started,      \* runs started
          best          \* history: the repositories ever listed in aggregate.json
run      == <<skip, repos, started>>
scanVars == <<clones, raw, aggregate, stage, run, idx, scan_results, failed, best>>

Resting == {"idle", "done", "killed"}
Stage   == Resting \cup {"next", "clone", "scan", "save", "checkpoint", "write", "finish"}

Repo(listed) == {r.repo : r \in ToSet(listed)}

ScanTypeOK ==
  /\ clones \in [Dir -> Clone]
  /\ raw \in [Dir -> Found \cup {"absent", "damaged"}]
  /\ aggregate = Damaged \/ aggregate \in Seq(Result)
  /\ stage \in Stage /\ skip \in BOOLEAN /\ started \in 0..Runs
  /\ repos \in Seq(FullName) /\ Repo(scan_results) \subseteq ToSet(repos)
  /\ scan_results \in Seq(Result) /\ failed \in 0..Len(repos) /\ idx \in 1..(Len(repos) + 1)

-----------------------------------------------------------------------------
ScanInit ==
  /\ clones = [d \in Dir |-> "absent"] /\ raw = [d \in Dir |-> "absent"]
  /\ aggregate = <<>> /\ stage = "idle" /\ skip = FALSE
  /\ repos = <<>> /\ idx = 1 /\ scan_results = <<>> /\ failed = 0 /\ started = 0 /\ best = {}

\* Each directory's name, turned back into a full name, in some order.
Existing == SetToSeq({NameOf(d) : d \in {e \in Dir : clones[e] # "absent"}})

\* collect_repos: any query may fail; the rest are ranked by their stars, as in Hits.
Candidates(answered) == {i \in 1..Len(Hits) : Hits[i] \in answered \ Reference}
Ranked(S, n) == CHOOSE i \in S : Cardinality({j \in S : j <= i}) = n

\* The best of them, as many as are needed.
Best(S, needed) ==
  [n \in 1..(IF needed < Cardinality(S) THEN needed ELSE Cardinality(S)) |-> Hits[Ranked(S, n)]]

MNewRepos(answered) ==
  IF Target <= Len(Existing) THEN <<>> ELSE Best(Candidates(answered), Target - Len(Existing))

NewRepos(answered) ==
  IF Target <= Len(Existing) THEN <<>>
  ELSE Best({i \in Candidates(answered) : Hits[i] \notin ToSet(Existing)},
            Target - Len(Existing))

StartScript ==
  /\ stage \in Resting /\ started < Runs
  /\ \E s \in BOOLEAN, answered \in SUBSET ToSet(Hits) :
       /\ skip' = s
       /\ repos' = Existing \o (IF s THEN <<>> ELSE NewRepos(answered))
  /\ stage' = "next" /\ idx' = 1 /\ scan_results' = <<>> /\ failed' = 0
  /\ started' = started + 1
  /\ UNCHANGED <<clones, raw, aggregate, best>>

Directory == DirOf(repos[idx])

\* git clone without looking whether the directory is there.
MNextRepo ==
  /\ stage = "next" /\ idx <= Len(repos)
  /\ \/ /\ skip /\ clones[Directory] # "absent" /\ stage' = "scan" /\ UNCHANGED <<clones, idx>>
     \/ /\ skip /\ clones[Directory] = "absent" /\ idx' = idx + 1 /\ UNCHANGED <<clones, stage>>
     \/ /\ ~skip /\ stage' = "clone" /\ UNCHANGED idx
        /\ clones' = [clones EXCEPT ![Directory] = "growing"]
  /\ UNCHANGED <<run, raw, aggregate, scan_results, failed, best>>

\* The loop takes the next repository, and git creates its directory at once.
NextRepo ==
  /\ stage = "next" /\ idx <= Len(repos)
  /\ \/ /\ clones[Directory] # "absent" /\ stage' = "scan"
        /\ UNCHANGED <<clones, idx>>
     \/ /\ clones[Directory] = "absent" /\ skip /\ idx' = idx + 1
        /\ UNCHANGED <<clones, stage>>
     \/ /\ clones[Directory] = "absent" /\ ~skip /\ stage' = "clone"
        /\ clones' = [clones EXCEPT ![Directory] = "growing"] /\ UNCHANGED idx
  /\ UNCHANGED <<run, raw, aggregate, scan_results, failed, best>>

\* A git that fails removes what it made; one killed at the timeout cannot.
MCloneRetries ==
  /\ stage = "clone"
  /\ \E left \in {"absent", "partial"} : clones' = [clones EXCEPT ![Directory] = left]
  /\ stage' = "next" /\ UNCHANGED <<run, idx, raw, aggregate, scan_results, failed, best>>

MCloneCountsRetries ==
  /\ stage = "clone"
  /\ \E left \in {"absent", "partial"} : clones' = [clones EXCEPT ![Directory] = left]
  /\ stage' = "next" /\ failed' = failed + 1
  /\ UNCHANGED <<run, idx, raw, aggregate, scan_results, best>>

CloneFails ==
  /\ stage = "clone"
  /\ \E left \in {"absent", "partial"} : clones' = [clones EXCEPT ![Directory] = left]
  /\ stage' = "next" /\ idx' = idx + 1 /\ failed' = failed + 1
  /\ UNCHANGED <<run, raw, aggregate, scan_results, best>>

CloneSucceeds ==
  /\ stage = "clone" /\ clones' = [clones EXCEPT ![Directory] = "whole"] /\ stage' = "scan"
  /\ UNCHANGED <<run, idx, raw, aggregate, scan_results, failed, best>>

\* run_pyvibe, and the opening of the raw file.
Scan ==
  /\ stage = "scan"
  /\ \E f \in Found :
       /\ f = "all" => clones[Directory] = "whole"
       /\ f = "part" => clones[Directory] \in {"growing", "partial"}
       /\ scan_results' = Append(scan_results, [repo |-> repos[idx], found |-> f])
  /\ raw' = [raw EXCEPT ![Directory] = "damaged"] /\ stage' = "save"
  /\ UNCHANGED <<run, idx, clones, aggregate, failed, best>>

Save ==
  /\ stage = "save" /\ raw' = [raw EXCEPT ![Directory] = Last(scan_results).found]
  /\ stage' = IF Len(scan_results) % Every = 0 THEN "checkpoint" ELSE "next"
  /\ idx' = idx + 1 /\ UNCHANGED <<run, clones, aggregate, scan_results, failed, best>>

\* write_text of aggregate.json, at a checkpoint or at the end.
Truncate ==
  /\ \/ stage = "checkpoint" /\ stage' = "write"
     \/ stage = "next" /\ idx > Len(repos) /\ stage' = "finish"
  /\ aggregate' = Damaged
  /\ UNCHANGED <<run, idx, clones, raw, scan_results, failed, best>>

Write ==
  /\ \/ stage = "write" /\ stage' = "next"
     \/ stage = "finish" /\ stage' = "done"
  /\ aggregate' = scan_results /\ best' = best \cup Repo(scan_results)
  /\ UNCHANGED <<run, idx, clones, raw, scan_results, failed>>

ScriptStep == NextRepo \/ CloneFails \/ CloneSucceeds \/ Scan \/ Save \/ Truncate \/ Write

\* Ctrl-C makes git clean up; a SIGKILL of the script leaves it at work, and a
\* machine that goes down leaves what there is.
KillScript ==
  /\ stage \notin Resting /\ stage' = "killed"
  /\ IF stage = "clone" THEN \E left \in {"absent", "growing", "partial"} :
                               clones' = [clones EXCEPT ![Directory] = left]
     ELSE UNCHANGED clones
  /\ UNCHANGED <<run, idx, raw, aggregate, scan_results, failed, best>>

\* A git whose script is gone.
GitEnds ==
  /\ \E d \in Dir : /\ clones[d] = "growing" /\ ~(stage = "clone" /\ d = Directory)
                    /\ \E left \in {"absent", "whole"} : clones' = [clones EXCEPT ![d] = left]
  /\ UNCHANGED <<run, idx, stage, raw, aggregate, scan_results, failed, best>>

ScanNext == StartScript \/ ScriptStep \/ KillScript \/ GitEnds

\* The script goes on: its calls return or time out.
ScanSpec == ScanInit /\ [][ScanNext]_scanVars /\ WF_scanVars(ScriptStep)

-----------------------------------------------------------------------------
(***************************************************************************)
(* Properties                                                              *)
(***************************************************************************)

\* A clone is never written over: a git is started only where nothing is, and a
\* whole clone stays whole through any number of runs and kills.
ClonesAreKept ==
  [][\A d \in Dir : clones'[d] # clones[d] => clones[d] \in {"absent", "growing"}]_clones

\* What a finished run reports adds up: every repository it set out to scan is in
\* the aggregate, with the findings that its raw file has, or was a failed clone; and
\* no clone is counted twice.
FinishedRunAddsUp ==
  stage = "done" =>
    /\ aggregate = scan_results
    /\ ~skip => Len(scan_results) + failed = Len(repos)
    /\ \A r \in ToSet(scan_results) : raw[DirOf(r.repo)] = r.found
    /\ \A i, j \in 1..Len(scan_results) :
         i # j => DirOf(scan_results[i].repo) # DirOf(scan_results[j].repo)

\* A run ends, whatever fails in it.
RunEnds == stage \notin Resting ~> stage \in Resting

\* "Checkpoint every 100 processed repos so a crash/timeout doesn't lose progress":
\* what aggregate.json ever listed it lists after a crash.
CrashKeepsProgress ==
  stage = "killed" => best \subseteq IF aggregate = Damaged THEN {} ELSE Repo(aggregate)

\* "already cloned": a directory the script scans is a whole clone.
ScannedIsCloned == stage = "scan" => clones[Directory] = "whole"
=============================================================================
