----------------------------- MODULE FileNotify -----------------------------
(***************************************************************************)
(* SP_HW6/file_notify: a program that watches a directory and every file   *)
(* in it.  An event that says that a file came or went makes it walk the   *)
(* directory again, to watch what is new.  read() returns all the events   *)
(* that are queued, but the loop advances by the size of the longest event *)
(* there may be, so that of a few short ones only the first is looked at.  *)
(* A directory inside the directory is one of its files.                   *)
(***************************************************************************)
EXTENDS Naturals, Sequences

CONSTANTS
  Files,     \* the names in the directory
  MaxChanges \* bound: how often others change the directory

VARIABLES
  step,      \* the program's next step
  exist,     \* the files in the directory
  changes,   \* history: how often the directory has been changed
  dir,       \* the directory itself is watched
  watched,   \* the files that are watched
  todo,      \* the names the walk has still to visit
  queue,     \* the events not read yet
  passed     \* history: news of a file was passed over since the last walk

vars == <<step, exist, changes, dir, watched, todo, queue, passed>>

\* The kinds of events; "other" is any that leads to no walk: opening,
\* reading, changing, and those that carry no name.
News == {"CREATE", "MOVED_TO"}
Walked == News \cup {"DELETE", "MOVED_FROM"}

\* A slip: a file that is renamed is not looked for.
WalkOnCreate(kind) == kind \in {"CREATE", "DELETE"}

\* display_all_event(): which events make it walk.
Walks(kind) == kind \in Walked

\* What the kernel queues, if the directory is watched.
Queued(events) == IF dir THEN queue \o events ELSE queue

Init ==
  /\ step = "start" /\ exist = {} /\ changes = 0
  /\ dir = FALSE /\ watched = {} /\ todo = {} /\ queue = <<>>
  /\ passed = FALSE

\* inotify_init(); the files that are there.
Start ==
  /\ step = "start" /\ step' = "walk"
  /\ exist' \in SUBSET Files
  /\ UNCHANGED <<changes, dir, watched, todo, queue, passed>>

\* nftw(): the directory is watched first, then opened and read, which are
\* events too.
Walk ==
  /\ step = "walk" /\ step' = "list"
  /\ dir' = TRUE
  /\ UNCHANGED <<exist, changes, watched, todo, queue, passed>>

List ==
  /\ step = "list" /\ step' = "watch"
  /\ todo' = exist
  /\ queue' = Queued(<<"other">>)
  /\ UNCHANGED <<exist, changes, dir, watched, passed>>

\* display_file_info(): a file that has gone meanwhile ends the program.
Watch(f) ==
  /\ step = "watch" /\ f \in todo
  /\ todo' = todo \ {f}
  /\ IF f \in exist THEN watched' = watched \cup {f} /\ UNCHANGED step
                    ELSE step' = "exited" /\ UNCHANGED watched
  /\ UNCHANGED <<exist, changes, dir, queue, passed>>

WalkEnds ==
  /\ step = "watch" /\ todo = {}
  /\ step' = "read"
  /\ UNCHANGED <<exist, changes, dir, watched, todo, queue, passed>>

\* read(), the loop over the buffer, and memset().
Read ==
  /\ step = "read" /\ queue # <<>>
  /\ step' = IF Walks(Head(queue)) THEN "walk" ELSE "read"
  /\ queue' = <<>>
  /\ passed' = /\ ~Walks(Head(queue))
               /\ passed \/ \E i \in 2..Len(queue) : queue[i] \in News
  /\ UNCHANGED <<exist, changes, dir, watched, todo>>

-----------------------------------------------------------------------------
(* Others change the directory.  The watch is on the file: it goes with it *)
(* when it is removed, and stays when it gets another name.                *)

Change(files, events) ==
  /\ step \notin {"start", "exited"} /\ changes < MaxChanges
  /\ changes' = changes + 1
  /\ exist' = files
  /\ queue' = Queued(events)
  /\ UNCHANGED <<step, dir, todo, passed>>

Create(f) ==
  /\ f \notin exist
  /\ Change(exist \cup {f}, <<"CREATE">>)
  /\ UNCHANGED watched

MoveIn(f) ==
  /\ f \notin exist
  /\ Change(exist \cup {f}, <<"MOVED_TO">>)
  /\ UNCHANGED watched

Rename(f, g) ==
  /\ f \in exist /\ g \notin exist
  /\ Change((exist \ {f}) \cup {g}, <<"MOVED_FROM", "MOVED_TO">>)
  /\ watched' = IF f \in watched THEN (watched \ {f}) \cup {g} ELSE watched

\* The first events of a file that is watched have no name.
Delete(f) ==
  /\ f \in exist
  /\ Change(exist \ {f}, IF f \in watched THEN <<"other", "DELETE">> ELSE <<"DELETE">>)
  /\ watched' = watched \ {f}

MoveOut(f) ==
  /\ f \in exist
  /\ Change(exist \ {f}, <<"MOVED_FROM">>)
  /\ watched' = watched \ {f}

Touch == Change(exist, <<"other">>) /\ UNCHANGED watched

-----------------------------------------------------------------------------
Next ==
  \/ Start \/ Walk \/ List \/ WalkEnds \/ Read \/ Touch
  \/ \E f \in Files :
       \/ Watch(f) \/ Create(f) \/ MoveIn(f) \/ Delete(f) \/ MoveOut(f)
       \/ \E g \in Files : Rename(f, g)

Spec == Init /\ [][Next]_vars

-----------------------------------------------------------------------------
\* When the program waits and no event is left, it watches every file that is
\* there, whatever came and went while it walked, unless since the last walk
\* news of a file stood behind an event that leads to no walk, in what one
\* read() returned.
QuietMeansWatched ==
  step = "read" /\ queue = <<>> /\ ~passed => exist \subseteq watched
=============================================================================
