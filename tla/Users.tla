------------------------------- MODULE Users -------------------------------
(***************************************************************************)
(* The users of the shared segment: login, events, task locks, forced      *)
(* logout, processes that vanish and the clean-up of what they leave       *)
(* (kernel.c, clopts.c and the task locks of op_lock.c), together with     *)
(* their use of group locks (GroupLocks).                                  *)
(*                                                                         *)
(* A process looks at its events when it runs program code, not while it   *)
(* has or awaits a group lock.  process_events() takes a copy of them,     *)
(* works through it, and shows messages by a recursive program, in which   *)
(* it may be called again.                                                 *)
(*                                                                         *)
(* stale[u] says that an administrator has released record locks of u of   *)
(* which the private lock table of u still knows.  Not modelled: licences, *)
(* phantoms and fixed user numbers, and events that only print.            *)
(***************************************************************************)
EXTENDS GroupLocks

CONSTANTS
  Task,      \* task locks
  Ops,       \* what else may happen
  MaxRaise   \* bound on the events raised

Habit == {"die", "dietask", "dieshared", "recover", "race", "break"}
Event == {"logout", "terminate", "message", "rebuild"}

ASSUME UsersAssumption == Ops \subseteq Habit /\ MaxRaise \in Nat

VARIABLES
  mode,     \* "out", "run", "closing" (told to log out), "ending", "lost"
  events,   \* USER_ENTRY.events
  doomed,   \* the USR_LOGOUT flag
  frames,   \* the calls of process_events() that each process is in
  muted,    \* event_mask is without EVT_MESSAGE
  stale,    \* the private lock table is to be rebuilt
  task,     \* sysseg->task_locks
  raised    \* the number of events raised

userVars == <<mode, events, doomed, frames, muted, stale, task, raised>>
vars == <<lockVars, userVars>>

Mode == {"out", "run", "closing", "ending", "lost"}
\* todo: the copy of the events that is still to be handled; deferred: those
\* that the mask held back; at: "todo", "message" within the message program,
\* "restore" when the event word has been read to put deferred back.
Frame == [todo : SUBSET Event, deferred : SUBSET Event, read : SUBSET Event,
          at : {"todo", "message", "restore"}]

TypeOK ==
  /\ LocksTypeOK
  /\ mode \in [User -> Mode]
  /\ events \in [User -> SUBSET Event]
  /\ doomed \in [User -> BOOLEAN]
  /\ frames \in [User -> Seq(Frame)]
  /\ muted \in [User -> BOOLEAN]
  /\ stale \in [User -> BOOLEAN]
  /\ task \in [Task -> User \cup {None}]
  /\ raised \in Nat

Init ==
  /\ LocksInit
  /\ mode = [u \in User |-> "out"]
  /\ events = [u \in User |-> {}]
  /\ doomed = [u \in User |-> FALSE]
  /\ frames = [u \in User |-> <<>>]
  /\ muted = [u \in User |-> FALSE]
  /\ stale = [u \in User |-> FALSE]
  /\ task = [t \in Task |-> None]
  /\ raised = 0

-----------------------------------------------------------------------------
(* Sessions *)

\* Program code of u runs, in the session or in the message program.
InProgram(u) ==
  /\ mode[u] \in {"run", "closing"}
  /\ frames[u] # <<>> => Head(frames[u]).at = "message"

\* init_kernel(), under SHORT_CODE.
Login(u) ==
  /\ mode[u] = "out"
  /\ mode' = [mode EXCEPT ![u] = "run"]
  /\ events' = [events EXCEPT ![u] = {}]
  /\ doomed' = [doomed EXCEPT ![u] = FALSE]
  /\ UNCHANGED <<lockVars, frames, muted, stale, task, raised>>

\* The group locks that programs, and the message program, use.
UseLocks(u) ==
  /\ InProgram(u) /\ frames[u] = <<>>
  /\ LocksStep(u)
  /\ UNCHANGED userVars

\* op_lock() and op_unlock()
LockTask(u, t) ==
  /\ InProgram(u) /\ Quiet(u)
  /\ task[t] = None /\ task' = [task EXCEPT ![t] = u]
  /\ UNCHANGED <<lockVars, mode, events, doomed, frames, muted, stale, raised>>

UnlockTask(u, t) ==
  /\ InProgram(u) /\ Quiet(u)
  /\ task[t] = u /\ task' = [task EXCEPT ![t] = None]
  /\ UNCHANGED <<lockVars, mode, events, doomed, frames, muted, stale, raised>>

\* op_logout(0); after K_TERMINATE the command processor calls it by itself.
LogOut(u) ==
  /\ mode[u] \in {"run", "closing"} /\ frames[u] = <<>> /\ Quiet(u)
  /\ mode' = [mode EXCEPT ![u] = "ending"]
  /\ UNCHANGED <<lockVars, events, doomed, frames, muted, stale, task, raised>>

\* What a process knows goes with it.
Forgets(u) ==
  /\ mode' = [mode EXCEPT ![u] = "out"]
  /\ frames' = [frames EXCEPT ![u] = <<>>]
  /\ muted' = [muted EXCEPT ![u] = FALSE]
  /\ stale' = [stale EXCEPT ![u] = FALSE]

\* Mutant: the task locks stay.
EndKeepsTasks(u) ==
  /\ mode[u] = "ending" /\ Forgets(u)
  /\ UNCHANGED <<lockVars, events, doomed, task, raised>>
\* kill_process() of kernel.c, the end of a process.
End(u) ==
  /\ mode[u] = "ending" /\ Forgets(u)
  /\ task' = [t \in Task |-> IF task[t] = u THEN None ELSE task[t]]
  /\ UNCHANGED <<lockVars, events, doomed, raised>>

-----------------------------------------------------------------------------
(* Events *)

Top(u) == Head(frames[u])
SetTop(u, f) == frames' = [frames EXCEPT ![u] = <<f>> \o Tail(@)]
\* u has read its event word, to put deferred events back.
Restoring(u) == frames[u] # <<>> /\ Top(u).at = "restore"

Raise(u, E) ==
  /\ mode[u] # "out" /\ raised < MaxRaise
  /\ Restoring(u) => "race" \in Ops
  /\ events' = [events EXCEPT ![u] = @ \cup E]
  /\ doomed' = [doomed EXCEPT ![u] = @ \/ E \cap {"logout", "terminate"} # {}]
  /\ raised' = raised + 1

\* raise_event(), under SHORT_CODE.
RaiseEvent(u, e) ==
  /\ e # "rebuild" /\ Raise(u, {e})
  /\ UNCHANGED <<lockVars, mode, frames, muted, stale, task>>

\* The end of op_unlk() for record locks of u.
AdminUnlock(u) ==
  /\ Raise(u, {"rebuild"})
  /\ stale' = [stale EXCEPT ![u] = TRUE]
  /\ UNCHANGED <<lockVars, mode, frames, muted, task>>

\* kill_user() and kill_process() of clopts.c when the process exists, under
\* four semaphores: the second time it is a forced logout.
Kill(u) ==
  /\ ftl = None /\ mode[u] # "lost"
  /\ Raise(u, {IF doomed[u] THEN "logout" ELSE "terminate"})
  /\ UNCHANGED <<lockVars, mode, frames, muted, stale, task>>

\* process_events() up to its first handler.  (A call that finds nothing but
\* masked events reads the word and writes it back, as Restore does.)
ProcessEvents(u) ==
  LET masked == IF muted[u] THEN {"message"} ELSE {}
      copy == events[u] \ masked
  IN /\ InProgram(u) /\ Quiet(u)
     /\ copy # {}
     /\ events' = [events EXCEPT ![u] = @ \ copy]
     /\ \/ /\ "logout" \in copy
           /\ mode' = [mode EXCEPT ![u] = "ending"]
           /\ frames' = [frames EXCEPT ![u] = <<>>]
        \/ /\ "logout" \notin copy /\ "terminate" \in copy
           /\ mode' = [mode EXCEPT ![u] = "closing"]
           /\ frames' = [frames EXCEPT ![u] = <<>>]
        \/ /\ copy \cap {"logout", "terminate"} = {}
           /\ frames' = [frames EXCEPT ![u] =
                <<[todo |-> copy, deferred |-> events[u] \cap masked,
                   read |-> {}, at |-> "todo"]>> \o @]
           /\ UNCHANGED mode
     /\ UNCHANGED <<lockVars, doomed, muted, stale, task, raised>>

Handling(u) == mode[u] \in {"run", "closing"} /\ frames[u] # <<>>

StartMessage(u) ==
  /\ Handling(u) /\ Top(u).at = "todo" /\ "message" \in Top(u).todo
  /\ SetTop(u, [Top(u) EXCEPT !.at = "message", !.todo = @ \ {"message"}])
  /\ muted' = [muted EXCEPT ![u] = TRUE]
  /\ UNCHANGED <<lockVars, mode, events, doomed, stale, task, raised>>

\* Mutant: the mask is not set back.
EndMessageMuted(u) ==
  /\ Handling(u) /\ Top(u).at = "message"
  /\ SetTop(u, [Top(u) EXCEPT !.at = "todo"])
  /\ UNCHANGED <<lockVars, mode, events, doomed, muted, stale, task, raised>>
EndMessage(u) ==
  /\ Handling(u) /\ Top(u).at = "message"
  /\ SetTop(u, [Top(u) EXCEPT !.at = "todo"])
  /\ muted' = [muted EXCEPT ![u] = FALSE]
  /\ UNCHANGED <<lockVars, mode, events, doomed, stale, task, raised>>

\* The break key, or an abort, in the message program: longjmp() to kernel().
\* The message mask stays, which matters little to a session about to end.
BreakOff(u) ==
  /\ Handling(u) /\ Top(u).at = "message"
  /\ mode[u] = "closing" \/ "break" \in Ops
  /\ frames' = [frames EXCEPT ![u] = <<>>]
  /\ UNCHANGED <<lockVars, mode, events, doomed, muted, stale, task, raised>>

\* rebuild_llt()
Rebuild(u) ==
  /\ Handling(u) /\ Top(u).at = "todo" /\ Top(u).todo = {"rebuild"}
  /\ stale' = [stale EXCEPT ![u] = FALSE]
  /\ SetTop(u, [Top(u) EXCEPT !.todo = {}])
  /\ UNCHANGED <<lockVars, mode, events, doomed, muted, task, raised>>

\* "my_uptr->events |= defered_events": the word is read and, in another step,
\* written, without a semaphore.
Restore(u) ==
  /\ Handling(u) /\ Top(u).at = "todo" /\ Top(u).todo = {}
  /\ SetTop(u, [Top(u) EXCEPT !.at = "restore", !.read = events[u]])
  /\ UNCHANGED <<lockVars, mode, events, doomed, muted, stale, task, raised>>

\* Mutant: "= defered_events".
WriteBackOnly(u) ==
  /\ Handling(u) /\ Restoring(u)
  /\ events' = [events EXCEPT ![u] = Top(u).deferred]
  /\ frames' = [frames EXCEPT ![u] = Tail(@)]
  /\ UNCHANGED <<lockVars, mode, doomed, muted, stale, task, raised>>
WriteBack(u) ==
  /\ Handling(u) /\ Restoring(u)
  /\ events' = [events EXCEPT ![u] = Top(u).read \cup Top(u).deferred]
  /\ frames' = [frames EXCEPT ![u] = Tail(@)]
  /\ UNCHANGED <<lockVars, mode, doomed, muted, stale, task, raised>>

-----------------------------------------------------------------------------
(* Processes that vanish *)

TasksOf(u) == {t \in Task : task[t] = u}

\* u has no read lock, and no cell of readers names it: such a cell names the
\* last to come, even after that one has left.
NoReader(u) ==
  /\ \A i \in 1..Len(held[u]) : held[u][i].write
  /\ \A c \in Cell : Used(c) /\ cell[c].owner = u => cell[c].readers < 0

\* The process is killed, but not within FILE_TABLE_LOCK or a split or merge:
\* nothing would give up that semaphore, or lower inhibit_count.
Die(u) ==
  /\ "die" \in Ops /\ mode[u] \in {"run", "closing", "ending"}
  /\ ftl # u /\ work[u] = None
  /\ TasksOf(u) # {} => "dietask" \in Ops
  /\ ~NoReader(u) => "dieshared" \in Ops
  /\ mode' = [mode EXCEPT ![u] = "lost"]
  /\ UNCHANGED <<lockVars, events, doomed, frames, muted, stale, task, raised>>

\* remove_user() of a vanished process u, called by process c: "sd -cleanup"
\* or "sd -k" (c = None), or the clean-up command of a session.  FILE_TABLE_LOCK
\* is the first of the four semaphores.  The task locks that go are those of c.
RemoveUser(c, u) ==
  /\ mode[u] = "lost" /\ ftl = None
  /\ c # None => InProgram(c) /\ Quiet(c) /\ (TasksOf(c) # {} => "recover" \in Ops)
  /\ task' = [t \in Task |-> IF task[t] = c THEN None ELSE task[t]]
  /\ RemoveLocks(u)
  /\ held' = [held EXCEPT ![u] = <<>>]
  /\ want' = [want EXCEPT ![u] = <<>>]
  /\ Forgets(u)
  /\ UNCHANGED <<ftl, work, asks, events, doomed, raised>>

-----------------------------------------------------------------------------

SessionStep(u) ==
  \/ Login(u)
  \/ UseLocks(u)
  \/ \E t \in Task : LockTask(u, t) \/ UnlockTask(u, t)
  \/ LogOut(u)
  \/ End(u)
  \/ Die(u)

EventStep(u) ==
  \/ \E e \in Event : RaiseEvent(u, e)
  \/ AdminUnlock(u)
  \/ Kill(u)
  \/ ProcessEvents(u)
  \/ StartMessage(u)
  \/ EndMessage(u)
  \/ BreakOff(u)
  \/ Rebuild(u)
  \/ Restore(u)
  \/ WriteBack(u)

Next ==
  \E u \in User :
    \/ SessionStep(u)
    \/ EventStep(u)
    \/ \E c \in User \cup {None} : RemoveUser(c, u)

\* What a process does by itself: it finishes what it does with groups, looks
\* at its events, works through them, and ends when it has been told to.
Proceeds(u) ==
  \/ ProcessEvents(u) \/ StartMessage(u) \/ EndMessage(u) \/ Rebuild(u)
  \/ Restore(u) \/ WriteBack(u) \/ End(u)
  \/ mode[u] = "closing" /\ LogOut(u)
  \/ InProgram(u) /\ (Get(u) \/ GiveUp(u) \/ Resized(u)) /\ UNCHANGED userVars

\* A process that exists goes on; the reader of a message presses return; the
\* clean-up is run again and again.  A process that waits for a group lock polls,
\* and nothing promises it the lock while others come and go.
Fairness(u) == WF_vars(Proceeds(u)) /\ WF_vars(RemoveUser(None, u))

Spec == Init /\ [][Next]_vars /\ \A u \in User : Fairness(u)

-----------------------------------------------------------------------------
(* Properties *)

\* A task lock names a user that is logged in, never one that left it behind
\* for the next session with that number.
TaskLocksLive == \A t \in Task : task[t] # None => mode[task[t]] # "out"

\* A process has died with a group lock.  If another waits for that lock it may
\* do so inside FILE_TABLE_LOCK, which the clean-up needs first.
Wreck == \E u \in User : mode[u] = "lost" /\ held[u] # <<>>

\* A process whose competitors do not go on asking for ever gets its lock: no
\* process waits for one that waits for it, and no lock is lost.
WaitersServed == \A u \in User : Waits(u) ~> ~Waits(u) \/ Wreck

\* A session that is told to end, by LOGOUT or "sd -k", ends: the event is not
\* lost, and a vanished process is cleaned up.
DoomedEnd == \A u \in User : doomed[u] /\ mode[u] # "out" ~> mode[u] = "out" \/ Wreck

\* After an UNLOCK the owner's private lock table is rebuilt, unless it ends.
RebuildFollows == \A u \in User : stale[u] ~> ~stale[u] \/ Wreck

\* A message is taken up, also when it comes while another is shown.
MessagesShown ==
  \A u \in User : "message" \in events[u] /\ mode[u] # "out"
                  ~> "message" \notin events[u] \/ mode[u] = "out" \/ Wreck
=============================================================================
