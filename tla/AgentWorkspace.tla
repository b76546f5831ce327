--------------------------- MODULE AgentWorkspace ---------------------------
(***************************************************************************)
(* The files an agent finds in its working directory: .claude/ ("dir") and *)
(* CLAUDE.md ("file") of the agent are put in place of the repository's    *)
(* own for the time of a run and taken out again                           *)
(* (src/sdk/agent-workspace.ts, called by runAgent).  The directory is a   *)
(* volume that outlives the container, so a run that dies leaves to the    *)
(* next one whatever it had done.                                          *)
(***************************************************************************)
EXTENDS FiniteSets, Naturals

CONSTANTS
  MaxCrashes,   \* bound: runs that die, and files that cannot be removed
  MaxRuns       \* bound: runs ever started

VARIABLES
  own,       \* the parts the repository has itself
  target,    \* what is at each part's path: nothing, the own part, a link or a copy
  bak,       \* what is at its .bak path
  run,       \* the run under way
  crashes, runs,
  damaged    \* parts a crash left in a state that no later run repairs (see Harm)

vars == << own, target, bak, run, crashes, runs, damaged >>

Parts == {"dir", "file"}
Kinds == {"none", "link", "copy"}   \* what an agent puts there: a copy with an overlay

NoRun == [pc |-> "idle", puts |-> [p \in Parts |-> "none"], todo |-> {}, links |-> {},
          backups |-> {}, clean |-> FALSE]

Init ==
  /\ own \in SUBSET Parts
  /\ target = [p \in Parts |-> IF p \in own THEN "own" ELSE "none"]
  /\ bak = [p \in Parts |-> "none"]
  /\ run = NoRun /\ crashes = MaxCrashes /\ runs = MaxRuns /\ damaged = {}

-----------------------------------------------------------------------------
\* .claude comes first, wherever both are handled.
First(S) == IF "dir" \in S THEN "dir" ELSE "file"

Staged(puts) == { p \in Parts : puts[p] # "none" }

Begin ==
  /\ run.pc = "idle" /\ runs > 0 /\ runs' = runs - 1
  /\ \E puts \in [Parts -> Kinds] :
       run' = [NoRun EXCEPT !.puts = puts, !.todo = Staged(puts), !.clean = TRUE,
                            !.pc = IF Staged(puts) = {} THEN "work" ELSE "backup"]
  /\ UNCHANGED << own, target, bak, crashes, damaged >>

\* A stale link is renamed as a real file is.
IsLinkMutant(p) == FALSE

IsLink(p) == target[p] = "link"

\* backupTarget.  A stale link goes, its original being in the backup already; a real part
\* is renamed over whatever backup there is.
Backup ==
  LET p == First(run.todo) IN
  /\ run.pc = "backup"
  /\ \/ /\ target[p] = "none" /\ UNCHANGED << target, bak >>
        /\ run' = [run EXCEPT !.pc = "place"]
     \/ /\ target[p] # "none" /\ IsLink(p)
        /\ target' = [target EXCEPT ![p] = "none"] /\ UNCHANGED bak
        /\ run' = [run EXCEPT !.pc = "place",
                              !.backups = IF bak[p] = "none" THEN @ ELSE @ \cup {p}]
     \/ /\ target[p] # "none" /\ ~ IsLink(p)
        /\ target' = [target EXCEPT ![p] = "none"] /\ bak' = [bak EXCEPT ![p] = target[p]]
        /\ run' = [run EXCEPT !.pc = "place", !.backups = @ \cup {p}]
  /\ UNCHANGED << own, crashes, runs, damaged >>

\* A file that cannot be linked (Windows) is copied.
Place ==
  LET p == First(run.todo)
      rest == run.todo \ {p}
  IN
  /\ run.pc = "place"
  /\ \E what \in {run.puts[p]} \cup IF p = "file" THEN {"copy"} ELSE {} :
       target' = [target EXCEPT ![p] = what]
  /\ run' = [run EXCEPT !.todo = rest, !.links = @ \cup {p},
                        !.pc = IF rest = {} THEN "work" ELSE "backup"]
  /\ UNCHANGED << own, bak, crashes, runs, damaged >>

\* The attempts of runAgent, however they end: cleanup is in the `finally`.
Work ==
  /\ run.pc = "work" /\ run' = [run EXCEPT !.pc = "remove"]
  /\ UNCHANGED << own, target, bak, crashes, runs, damaged >>

Fault == crashes > 0 /\ crashes' = crashes - 1

\* A part at the mercy of the next run: its original is in the backup alone, where
\* backupTarget does not look, or a copy stands where it would take it for the original.
Harm(p) == target[p] = "copy" \/ (target[p] = "none" /\ bak[p] = "own")

\* rm of one link or copy; an error is swallowed.
Remove ==
  LET p == First(run.links) IN
  /\ run.pc = "remove" /\ run.links # {}
  /\ \/ /\ target' = [target EXCEPT ![p] = "none"]
        /\ run' = [run EXCEPT !.links = @ \ {p}]
        /\ UNCHANGED << crashes, damaged >>
     \/ /\ Fault /\ run' = [run EXCEPT !.links = @ \ {p}, !.clean = FALSE]
        /\ damaged' = damaged \cup { q \in {p} : Harm(q) }
        /\ UNCHANGED target
  /\ UNCHANGED << own, bak, runs >>

\* rename of one backup; a directory does not go over what is still there.
Restore ==
  LET p == First(run.backups) IN
  /\ run.pc = "remove" /\ run.links = {} /\ run.backups # {}
  /\ IF target[p] = "none" \/ p = "file"
     THEN target' = [target EXCEPT ![p] = bak[p]] /\ bak' = [bak EXCEPT ![p] = "none"]
     ELSE UNCHANGED << target, bak >>
  /\ run' = [run EXCEPT !.backups = @ \ {p}]
  /\ UNCHANGED << own, crashes, runs, damaged >>

End ==
  /\ run.pc = "remove" /\ run.links = {} /\ run.backups = {}
  /\ run' = [NoRun EXCEPT !.puts = run.puts, !.clean = run.clean]
  /\ UNCHANGED << own, target, bak, crashes, runs, damaged >>

\* The container dies; or staging throws, before there is anything to clean up with.
Crash ==
  /\ run.pc # "idle" /\ Fault /\ run' = NoRun
  /\ damaged' = damaged \cup { p \in Parts : Harm(p) }
  /\ UNCHANGED << own, target, bak, runs >>

Next == Begin \/ Backup \/ Place \/ Work \/ Remove \/ Restore \/ End \/ Crash

Spec == Init /\ [][Next]_vars

-----------------------------------------------------------------------------
\* "Backed up and restored on cleanup" (agent-workspace.ts:32): no run destroys a part of
\* the repository, and one that ends has put it back, after however many runs that died;
\* but for parts that one of these left damaged.
WorkspaceRestored ==
  \A p \in Parts \ damaged :
    /\ p \in own => "own" \in {target[p], bak[p]}
    /\ run.pc = "idle" /\ run.clean /\ run.puts[p] # "none" =>
         target[p] = IF p \in own THEN "own" ELSE "none"
=============================================================================
