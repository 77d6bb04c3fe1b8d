--------------------------- MODULE ConfigWatcher ---------------------------
(* The config watcher: inotify watches on every directory of the config      *)
(* tree, the hashes that reject byte-identical saves, the debounce before a  *)
(* reload, and the retry once the tree itself is gone (supervisor/watcher.rs).*)
(*                                                                           *)
(* The root and one directory in it hold a .lua file each; a content is a    *)
(* number, 0 for no file.  Symlinked directories, whose watches outlive the  *)
(* root, are left out.                                                       *)
EXTENDS Naturals, Sequences, FiniteSets, SequencesExt

CONSTANTS Contents,       \* what a file may hold
          MaxEdits,       \* bound: changes made to the tree
          MaxEvents       \* bound: inotify events not yet read

VARIABLES present,        \* directories that exist under the root's path
          files,          \* directory -> content of its file
          edits,          \* changes made so far
          kernel,         \* directories whose inode the kernel watches
          events,         \* inotify events not yet read
          watched,        \* wd_to_dir
          hashes,         \* directory -> hash of its file, 0 for none
          deadline,       \* the debounce runs
          rewatch,        \* rewatch_at is armed
          loaded,         \* directory -> content the last reload read
          slipped         \* history: directories changed before their watch was added,
                          \* dropped before a file of theirs was hashed, or saved back to
                          \* the hashed bytes before the save between was read

watcherVars == <<present, files, edits, kernel, events, watched, hashes, deadline, rewatch, loaded, slipped>>
diskVars    == <<present, files, edits, kernel, slipped>>
taskVars    == <<watched, hashes, deadline, rewatch, loaded>>

Dirs    == {"root", "sub"}
Visible == [d \in Dirs |-> IF d \in present THEN files[d] ELSE 0]

WatcherInit ==
  /\ present = Dirs /\ files = [d \in Dirs |-> 0] /\ edits = 0
  /\ kernel = Dirs /\ events = <<>>
  /\ watched = Dirs /\ hashes = [d \in Dirs |-> 0]
  /\ deadline = FALSE /\ rewatch = FALSE
  /\ loaded = [d \in Dirs |-> 0] /\ slipped = {}

-----------------------------------------------------------------------------
(* What happens to the tree.                                                 *)

\* The kernel reports a change through a watch, of the directory or of its parent.
Report(kind, d, watch) ==
  IF watch \in kernel THEN <<[kind |-> kind, dir |-> d, watch |-> watch]>> ELSE <<>>

Change(reports) ==
  /\ edits < MaxEdits /\ edits' = edits + 1
  /\ Len(events) + Len(reports) <= MaxEvents
  /\ events' = events \o reports
  /\ UNCHANGED taskVars

\* A save, byte-identical ones included; DELETE and MOVED_FROM of the file.
Save(d, content) ==
  /\ d \in present /\ (content # 0 \/ files[d] # 0)
  /\ files' = [files EXCEPT ![d] = content]
  /\ slipped' = IF d \notin kernel \/ (files[d] \notin {0, content} /\ content = hashes[d])
                  THEN slipped \cup {d} ELSE slipped
  /\ Change(Report(IF content = 0 THEN "gone" ELSE "file", d, d))
  /\ UNCHANGED <<present, kernel>>

\* A directory renamed away takes its watch along; an empty one is made in its place.
MoveSubAway ==
  /\ "sub" \in present /\ present' = present \ {"sub"}
  /\ files' = [files EXCEPT !["sub"] = 0]
  /\ kernel' = kernel \ {"sub"}
  /\ Change(Report("dropped", "sub", "root"))
  /\ UNCHANGED slipped

MakeSub ==
  /\ "root" \in present /\ "sub" \notin present /\ present' = present \cup {"sub"}
  /\ Change(Report("made", "sub", "root"))
  /\ UNCHANGED <<files, kernel, slipped>>

\* The tree goes: each watch on an inode of it dies with an IGNORED.
RemoveRoot ==
  /\ "root" \in present /\ present' = {}
  /\ files' = [d \in Dirs |-> 0]
  /\ kernel' = {}
  /\ slipped' = {}
  /\ Change(Report("ignored", "sub", "sub") \o Report("dropped", "sub", "root")
              \o Report("ignored", "root", "root"))

CheckOut(content) ==
  /\ present = {} /\ present' = Dirs
  /\ files' = [d \in Dirs |-> content]
  /\ Change(<<>>)
  /\ UNCHANGED <<kernel, slipped>>

-----------------------------------------------------------------------------
(* The watcher's task.                                                       *)

\* watch_tree: the directory and what is below it.
WatchTree(d) ==
  LET walked == IF d = "root" THEN present ELSE present \cap {d} IN
  /\ watched' = watched \cup walked
  /\ kernel' = kernel \cup walked

\* IGNORED: with the last watch gone no event can report the tree's return.
Ignored(event) ==
  /\ event.kind = "ignored"
  /\ watched' = watched \ {event.dir}
  /\ IF watched' = {} THEN hashes' = [d \in Dirs |-> 0] /\ rewatch' = TRUE
                      ELSE UNCHANGED <<hashes, rewatch>>
  /\ UNCHANGED <<deadline, kernel, slipped>>

Straggler(event) ==
  /\ event.kind # "ignored" /\ event.watch \notin watched
  /\ UNCHANGED <<watched, hashes, deadline, rewatch, kernel, slipped>>

DirMade(event) ==
  /\ event.kind = "made" /\ WatchTree(event.dir)
  /\ UNCHANGED <<hashes, deadline, rewatch, slipped>>

\* Wrong on purpose, for mutation: the watches go, the hashes stay.
ForgetWatches(d) ==
  /\ watched' = watched \ {d}
  /\ deadline' = (deadline \/ hashes[d] # 0)
  /\ UNCHANGED hashes

ForgetSubtree(d) ==
  /\ watched' = watched \ {d}
  /\ hashes' = [hashes EXCEPT ![d] = 0]
  /\ deadline' = (deadline \/ hashes[d] # 0)

DirDropped(event) ==
  /\ event.kind = "dropped" /\ ForgetSubtree(event.dir)
  /\ slipped' = IF hashes[event.dir] = 0 THEN slipped \cup {event.dir} ELSE slipped
  /\ UNCHANGED <<rewatch, kernel>>

\* A deletion always counts; a save counts when the bytes read now are new.
FileChanged(event) ==
  /\ event.kind \in {"file", "gone"}
  /\ LET seen == IF event.kind = "gone" \/ event.dir \notin present THEN 0 ELSE files[event.dir] IN
     LET counts == event.kind = "gone" \/ (seen # 0 /\ seen # hashes[event.dir]) IN
       /\ hashes' = IF counts THEN [hashes EXCEPT ![event.dir] = seen] ELSE hashes
       /\ deadline' = (deadline \/ counts)
  /\ UNCHANGED <<watched, rewatch, kernel, slipped>>

ReadEvent ==
  /\ events # <<>> /\ events' = Tail(events)
  /\ LET event == Head(events) IN
       \/ Ignored(event) \/ Straggler(event)
       \/ event.watch \in watched /\ (DirMade(event) \/ DirDropped(event) \/ FileChanged(event))
  /\ UNCHANGED <<present, files, edits, loaded>>

DebounceElapses ==
  /\ deadline /\ deadline' = FALSE
  /\ loaded' = Visible
  /\ UNCHANGED <<diskVars, events, watched, hashes, rewatch>>

\* What happened while nothing was watching counts as a change.
RewatchElapses ==
  /\ rewatch /\ "root" \in present
  /\ WatchTree("root")
  /\ rewatch' = FALSE /\ deadline' = TRUE
  /\ UNCHANGED <<present, files, edits, slipped, events, hashes, loaded>>

WatcherNext ==
  \/ \E d \in Dirs, content \in Contents \cup {0} : Save(d, content)
  \/ MoveSubAway \/ MakeSub \/ RemoveRoot
  \/ \E content \in Contents : CheckOut(content)
  \/ ReadEvent \/ DebounceElapses \/ RewatchElapses

\* The task's select! takes every ready arm in the end.
WatcherFairness ==
  /\ WF_watcherVars(ReadEvent)
  /\ WF_watcherVars(DebounceElapses)
  /\ WF_watcherVars(RewatchElapses)

WatcherSpec     == WatcherInit /\ [][WatcherNext]_watcherVars
WatcherFairSpec == WatcherSpec /\ WatcherFairness

-----------------------------------------------------------------------------
(* Whatever is saved, moved, removed or checked out, in any order against    *)
(* the task reading about it, the tree that stands is the tree loaded in the *)
(* end.  The exceptions are the two the code names, a directory written to   *)
(* before its watch is added and one dropped with nothing of it hashed, and  *)
(* a file that is back at its hashed bytes before the save in between was    *)
(* read (watcher.rs: spawn_watcher, hash_file, forget_subtree).              *)
EditsAreLoaded ==
  (present # {} /\ slipped = {} /\ loaded # Visible)
    ~> (loaded = Visible \/ present = {} \/ slipped # {})
=============================================================================
