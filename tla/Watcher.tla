------------------------------- MODULE Watcher -------------------------------
(***************************************************************************)
(* The polling file watcher (pkg/engine/reload.go) and the people who save *)
(* the rules file.  RunServer has loaded the file before the watcher's     *)
(* goroutine takes its first look at it, a save is seen half done, two     *)
(* writes may get the same modification time, and a file copied back keeps *)
(* the time it had.  The reload itself is one step here; RuleCache has the *)
(* steps of ReplaceRules.                                                  *)
(***************************************************************************)
EXTENDS Naturals

CONSTANTS
    Contents,    \* contents of a rules file that is whole
    First,       \* the contents loaded at start
    MaxSaves     \* bound: saves and restores

ASSUME ContentsAssumption == First \in Contents
ASSUME MaxSavesAssumption == MaxSaves \in Nat

VARIABLES
    disk,        \* [content, whole, mtime]: the file
    saves,       \* saves and restores so far
    clock,       \* the latest modification time given
    wstep,       \* the watcher: unborn, poll, reload
    last,        \* Watcher.last
    live,        \* the contents the rule set was built from
    statted,     \* history: the time the file had at the watcher's last look
    missed       \* history: the file's last change was one the watcher cannot see

watchVars == <<disk, saves, clock, wstep, last, live, statted, missed>>

WatchInit ==
    /\ disk = [content |-> First, whole |-> TRUE, mtime |-> 1]
    /\ saves = 0 /\ clock = 1
    /\ wstep = "unborn" /\ last = 0
    /\ live = First /\ statted = 0 /\ missed = FALSE

------------------------------------------------------------------------------
(* Whoever writes the file *)

(* A write that leaves the file with time t comes before the first look, or    *)
(* has the time of a look whose read is over: no later look will tell it apart.*)
Unseen(t) == wstep = "unborn" \/ (wstep = "poll" /\ t <= statted)

(* The file is truncated and written in two steps; the time of a write is the  *)
(* clock's, which need not have advanced since the write before it.            *)
SaveBegins(c) ==
    /\ saves < MaxSaves /\ disk.whole
    /\ saves' = saves + 1 /\ clock' \in {clock, clock + 1}
    /\ disk' = [content |-> c, whole |-> FALSE, mtime |-> clock']
    /\ UNCHANGED <<wstep, last, live, statted, missed>>

SaveEnds ==
    /\ ~disk.whole
    /\ clock' \in {clock, clock + 1}
    /\ disk' = [disk EXCEPT !.whole = TRUE, !.mtime = clock']
    /\ missed' = Unseen(clock')
    /\ UNCHANGED <<saves, wstep, last, live, statted>>

(* Another file is moved into place with the time it has. *)
Restore(c, t) ==
    /\ saves < MaxSaves /\ disk.whole
    /\ saves' = saves + 1
    /\ disk' = [content |-> c, whole |-> TRUE, mtime |-> t]
    /\ missed' = Unseen(t)
    /\ UNCHANGED <<clock, wstep, last, live, statted>>

------------------------------------------------------------------------------
(* The watcher *)

(* Run notes the time the file has by then. *)
RunStarts ==
    /\ wstep = "unborn"
    /\ last' = disk.mtime /\ statted' = disk.mtime
    /\ wstep' = "poll"
    /\ UNCHANGED <<disk, saves, clock, live, missed>>

Changed == disk.mtime > last

(* Mutant: the time noted is the one the reload happens at. *)
Noted_now == clock + 1

Noted == disk.mtime

(* checkOnce: os.Stat, and the new time is noted before the reload. *)
SeesChange ==
    /\ wstep = "poll" /\ Changed
    /\ last' = Noted /\ statted' = disk.mtime
    /\ wstep' = "reload"
    /\ UNCHANGED <<disk, saves, clock, live, missed>>

(* ReloadFromFile reads the file as it is now; one that is half written does   *)
(* not decode and leaves the rule set alone.                                   *)
Loaded == IF disk.whole THEN disk.content ELSE live

Reload ==
    /\ wstep = "reload"
    /\ live' = Loaded
    /\ wstep' = "poll"
    /\ UNCHANGED <<disk, saves, clock, last, statted, missed>>

(* The read fails; nothing tries again until the file gets a later time. *)
ReloadFails ==
    /\ wstep = "reload"
    /\ wstep' = "poll"
    /\ missed' = (missed \/ disk.mtime <= statted)
    /\ UNCHANGED <<disk, saves, clock, last, live, statted>>

Saving == (\E c \in Contents : SaveBegins(c) \/ \E t \in 1..clock : Restore(c, t)) \/ SaveEnds

Watching == RunStarts \/ SeesChange \/ Reload \/ ReloadFails

WatchOver ==
    /\ saves = MaxSaves /\ disk.whole /\ wstep = "poll" /\ ~Changed
    /\ UNCHANGED watchVars

WatchNext == Saving \/ Watching \/ WatchOver

WatchSpec == WatchInit /\ [][WatchNext]_watchVars

(* The ticker keeps firing, and who began to save a file finishes. *)
WatchFairness == WF_watchVars(Watching) /\ WF_watchVars(SaveEnds)

FairWatchSpec == WatchSpec /\ WatchFairness

------------------------------------------------------------------------------
(* Properties *)

(* Once nobody changes the file any more, the rule set is built from what it   *)
(* holds, although the watcher reads it in the middle of saves, unless the     *)
(* last change was one it cannot see: made before its first look, left with a  *)
(* time not after the one it noted (an older file, or a save that ends in the  *)
(* tick of the clock it was read half done in), or hit by a failed read        *)
(* (reload.go:66).                                                             *)
SavedGoesLive == <>[](live = disk.content \/ missed)

(* What the watcher says it does: it "hot-reloads the engine whenever the      *)
(* file's modification time changes" (reload.go:9), here as long as the        *)
(* changed time stays.                                                         *)
TimeChangeReloads == (wstep = "poll" /\ disk.mtime # last) ~> (wstep = "reload" \/ disk.mtime = last)
==============================================================================
