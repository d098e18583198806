---------------------------- MODULE AsyncioSend ----------------------------
(***************************************************************************)
(* AsyncPublication.send (mctx-core-py/python/mctx_core/asyncio.py) over   *)
(* the Python Publication (mctx-core-py/src/lib.rs): tasks of one event    *)
(* loop send through shared publications, and a send that would block      *)
(* waits for readiness on a descriptor of its own, a duplicate.  The       *)
(* publication may be removed, the task cancelled and the loop closed      *)
(* while it waits; descriptor numbers are reused.                          *)
(*                                                                         *)
(* The code between two awaits is one step.  External, from how the code   *)
(* uses them: the descriptor table (the lowest free number is taken), the  *)
(* loop's writers (one callback per number, replaced by the next add), and *)
(* wait_for, which cancels the future when its time is up.                 *)
(***************************************************************************)
EXTENDS Naturals, FiniteSets

CONSTANTS
  None,
  Tasks,
  Pubs,      \* publications, each added at most once
  MaxFd,     \* the descriptor numbers are 1 .. MaxFd
  MaxLeaks   \* bound on the adds that fail with an unexpected error

Fds == 1 .. MaxFd

\* None is told apart from what it is an option of.
ASSUME NoneAssumption == None \notin Pubs \cup Tasks \cup Fds
ASSUME BoundAssumption == MaxFd \in Nat

VARIABLES
  status,     \* per publication: "absent", "alive" or "removed"
  sockfd,     \* its descriptor while alive
  room,       \* has its socket buffer room?
  open,       \* descriptor -> the publication whose socket it refers to, or None
  loop,       \* "selector", "no_selector", "not_implemented" or "closed"
  writers,    \* descriptor -> the task whose on_writable is registered, or None
  pc,         \* per task: "idle", "call", "sleep" or "wait"
  pub,        \* per task: what it sends through
  selector_available,
  writer_fd,  \* per task: its duplicate, or None
  future,     \* per task: "none", "pending", "result" or "cancelled"
  cancelling, \* per task: was it cancelled in its wait?
  leaked      \* history: duplicates nobody owns any more

publications == <<status, sockfd, room>>
waiting == <<writer_fd, future, cancelling>>
vars == <<publications, open, loop, writers, pc, pub, selector_available, waiting, leaked>>

Alive == {p \in Pubs : status[p] = "alive"}
Waiting == {t \in Tasks : pc[t] = "wait"}
FreeFds == {fd \in Fds : open[fd] = None}
LowestFree == CHOOSE fd \in FreeFds : \A other \in FreeFds : fd <= other

\* Each variable has its type; a future exists only in a wait.
TypeOK ==
  /\ status \in [Pubs -> {"absent", "alive", "removed"}]
  /\ sockfd \in [Pubs -> Fds \cup {None}]
  /\ room \in [Pubs -> BOOLEAN]
  /\ open \in [Fds -> Pubs \cup {None}]
  /\ loop \in {"selector", "no_selector", "not_implemented", "closed"}
  /\ writers \in [Fds -> Tasks \cup {None}]
  /\ pc \in [Tasks -> {"idle", "call", "sleep", "wait"}]
  /\ pub \in [Tasks -> Pubs \cup {None}]
  /\ selector_available \in [Tasks -> BOOLEAN]
  /\ writer_fd \in [Tasks -> Fds \cup {None}]
  /\ future \in [Tasks -> {"none", "pending", "result", "cancelled"}]
  /\ cancelling \in [Tasks -> BOOLEAN]
  /\ leaked \subseteq Fds
  /\ \A t \in Tasks : future[t] = "none" <=> t \notin Waiting

Init ==
  /\ status = [p \in Pubs |-> "absent"]
  /\ sockfd = [p \in Pubs |-> None]
  /\ room = [p \in Pubs |-> TRUE]
  /\ open = [fd \in Fds |-> None]
  /\ loop \in {"selector", "no_selector", "not_implemented"}
  /\ writers = [fd \in Fds |-> None]
  /\ pc = [t \in Tasks |-> "idle"]
  /\ pub = [t \in Tasks |-> None]
  /\ selector_available = [t \in Tasks |-> FALSE]
  /\ writer_fd = [t \in Tasks |-> None]
  /\ future = [t \in Tasks |-> "none"]
  /\ cancelling = [t \in Tasks |-> FALSE]
  /\ leaked = {}

----------------------------------------------------------------------------
(* The Python Context and Publication *)

\* add_publication opens a socket.
AddPublication(p) ==
  /\ status[p] = "absent" /\ FreeFds # {}
  /\ status' = [status EXCEPT ![p] = "alive"]
  /\ sockfd' = [sockfd EXCEPT ![p] = LowestFree]
  /\ open' = [open EXCEPT ![LowestFree] = p]
  /\ UNCHANGED <<room, loop, writers, pc, pub, selector_available, waiting, leaked>>

\* remove and remove_publication drop the publication, which closes its socket;
\* duplicates keep the socket itself alive.
RemovePublication(p) ==
  /\ p \in Alive
  /\ status' = [status EXCEPT ![p] = "removed"]
  /\ open' = [open EXCEPT ![sockfd[p]] = None]
  /\ sockfd' = [sockfd EXCEPT ![p] = None]
  /\ UNCHANGED <<room, loop, writers, pc, pub, selector_available, waiting, leaked>>

\* The network takes what was queued.
Drain(p) ==
  /\ ~room[p]
  /\ room' = [room EXCEPT ![p] = TRUE]
  /\ UNCHANGED <<status, sockfd, open, loop, writers, pc, pub, selector_available,
                 waiting, leaked>>

mctx_error_to_py(error) ==
  CASE error = "PublicationNotFound" -> "LookupError"
    [] error = "WouldBlock" -> "BlockingIOError"
    [] error = "SendFailed" -> "OSError"

\* What Publication.send may do: its report or a Python exception.
send(p) ==
  CASE p \notin Alive -> {mctx_error_to_py("PublicationNotFound")}
    [] p \in Alive /\ room[p] -> {"report", mctx_error_to_py("SendFailed")}
    [] p \in Alive /\ ~room[p] -> {mctx_error_to_py("WouldBlock")}

----------------------------------------------------------------------------
(* AsyncPublication.send up to its first await *)

Start(t, p) ==
  /\ loop # "closed" /\ pc[t] = "idle" /\ status[p] # "absent"
  /\ pc' = [pc EXCEPT ![t] = "call"]
  /\ pub' = [pub EXCEPT ![t] = p]
  /\ selector_available' = [selector_available EXCEPT ![t] = loop # "no_selector"]
  /\ UNCHANGED <<publications, open, loop, writers, waiting, leaked>>

Leave(t) ==
  /\ pc' = [pc EXCEPT ![t] = "idle"]
  /\ pub' = [pub EXCEPT ![t] = None]

\* The report is returned, or an exception other than BlockingIOError raised.
\* A datagram sent may fill the buffer.
Return(t) ==
  /\ loop # "closed" /\ pc[t] = "call"
  /\ \E r \in send(pub[t]) \ {"BlockingIOError"} :
       IF r = "report" THEN \E b \in BOOLEAN : room' = [room EXCEPT ![pub[t]] = b]
       ELSE UNCHANGED room
  /\ Leave(t)
  /\ UNCHANGED <<status, sockfd, open, loop, writers, selector_available, waiting, leaked>>

Blocked(t) ==
  loop # "closed" /\ pc[t] = "call" /\ "BlockingIOError" \in send(pub[t])

\* No selector, or no descriptor left for the duplicate, or a loop that does
\* not implement add_writer: poll from now on.
Poll(t) ==
  /\ Blocked(t)
  /\ pc' = [pc EXCEPT ![t] = "sleep"]
  /\ selector_available' = [selector_available EXCEPT ![t] = FALSE]
  /\ \/ ~selector_available[t]
     \/ FreeFds = {}
     \/ loop = "not_implemented"
  /\ UNCHANGED <<publications, open, loop, writers, pub, waiting, leaked>>

\* Mutant of duplicate_writer_fd: the publication's own descriptor is used.
SameFd(p) == sockfd[p]

\* _duplicate_writer_fd
duplicate_writer_fd(p) == LowestFree

\* The wait for readiness: the callback is registered, the future awaited.
Register(t) ==
  LET fd == duplicate_writer_fd(pub[t])
  IN  /\ Blocked(t) /\ selector_available[t] /\ FreeFds # {} /\ loop = "selector"
      /\ open' = [open EXCEPT ![fd] = pub[t]]
      /\ writers' = [writers EXCEPT ![fd] = t]
      /\ writer_fd' = [writer_fd EXCEPT ![t] = fd]
      /\ future' = [future EXCEPT ![t] = "pending"]
      /\ pc' = [pc EXCEPT ![t] = "wait"]
      /\ UNCHANGED <<publications, loop, pub, selector_available, cancelling, leaked>>

\* add_writer raises something other than AttributeError and
\* NotImplementedError (OSError from the selector): the exception leaves send
\* and the duplicate stays open.
RegisterFails(t) ==
  /\ Blocked(t) /\ selector_available[t] /\ FreeFds # {} /\ loop = "selector"
  /\ Cardinality(leaked) < MaxLeaks
  /\ open' = [open EXCEPT ![LowestFree] = pub[t]]
  /\ leaked' = leaked \cup {LowestFree}
  /\ Leave(t)
  /\ UNCHANGED <<publications, loop, writers, selector_available, waiting>>

----------------------------------------------------------------------------
(* The event loop *)

SleepEnds(t) ==
  /\ loop # "closed" /\ pc[t] = "sleep"
  /\ pc' = [pc EXCEPT ![t] = "call"]
  /\ UNCHANGED <<publications, open, loop, writers, pub, selector_available, waiting, leaked>>

\* Mutant of on_writable: set_result on whatever the future is.
SetResult(t) == future' = [future EXCEPT ![t] = "result"]

on_writable(t) ==
  /\ future[t] = "pending"
  /\ future' = [future EXCEPT ![t] = "result"]

\* A registered descriptor is writable.
Ready(fd) ==
  /\ loop = "selector" /\ writers[fd] # None
  /\ open[fd] # None /\ room[open[fd]]
  /\ on_writable(writers[fd])
  /\ UNCHANGED <<publications, open, loop, writers, pc, pub, selector_available,
                 writer_fd, cancelling, leaked>>

\* Mutant of TimeoutExpires: the wait has no timeout.
NoTimeout(t) == FALSE /\ UNCHANGED vars

\* wait_for's time is up: it cancels the future, the task resumes later.
TimeoutExpires(t) ==
  /\ loop # "closed" /\ t \in Waiting /\ future[t] = "pending"
  /\ future' = [future EXCEPT ![t] = "cancelled"]
  /\ UNCHANGED <<publications, open, loop, writers, pc, pub, selector_available,
                 writer_fd, cancelling, leaked>>

\* Task.cancel() of a waiting task cancels what it waits for.
Cancel(t) ==
  /\ loop # "closed" /\ t \in Waiting /\ ~cancelling[t]
  /\ cancelling' = [cancelling EXCEPT ![t] = TRUE]
  /\ future' = [future EXCEPT ![t] = IF @ = "pending" THEN "cancelled" ELSE @]
  /\ UNCHANGED <<publications, open, loop, writers, pc, pub, selector_available,
                 writer_fd, leaked>>

\* Mutant of close_writer_fd: the callback stays registered.
CloseOnly(fd) ==
  /\ writers' = writers
  /\ open' = [open EXCEPT ![fd] = None]

\* _close_writer_fd; a closed loop has no writers any more.
close_writer_fd(fd) ==
  /\ writers' = IF loop = "closed" THEN writers ELSE [writers EXCEPT ![fd] = None]
  /\ open' = [open EXCEPT ![fd] = None]

WaitOver(t) ==
  /\ close_writer_fd(writer_fd[t])
  /\ writer_fd' = [writer_fd EXCEPT ![t] = None]
  /\ future' = [future EXCEPT ![t] = "none"]
  /\ cancelling' = [cancelling EXCEPT ![t] = FALSE]

\* The task resumes with readiness or TimeoutError and tries again.  wait_for
\* before Python 3.12 drops a cancellation when the future has its result.
Retry(t) ==
  /\ loop # "closed" /\ t \in Waiting
  /\ future[t] = "result" \/ (future[t] = "cancelled" /\ ~cancelling[t])
  /\ WaitOver(t)
  /\ pc' = [pc EXCEPT ![t] = "call"]
  /\ UNCHANGED <<publications, loop, pub, selector_available, leaked>>

\* CancelledError passes through the finally.
CancelledInWait(t) ==
  /\ loop # "closed" /\ t \in Waiting /\ cancelling[t]
  /\ WaitOver(t)
  /\ Leave(t)
  /\ UNCHANGED <<publications, loop, selector_available, leaked>>

\* CancelledError out of asyncio.sleep, or before the task ran.
CancelledElsewhere(t) ==
  /\ loop # "closed" /\ pc[t] \in {"call", "sleep"}
  /\ Leave(t)
  /\ UNCHANGED <<publications, open, loop, writers, selector_available, waiting, leaked>>

\* loop.close() with sends still under way.
CloseLoop ==
  /\ loop # "closed"
  /\ loop' = "closed"
  /\ writers' = [fd \in Fds |-> None]
  /\ UNCHANGED <<publications, open, pc, pub, selector_available, waiting, leaked>>

\* A coroutine left behind by a closed loop is collected: GeneratorExit.
Collect(t) ==
  /\ loop = "closed" /\ pc[t] # "idle"
  /\ IF t \in Waiting THEN WaitOver(t) ELSE UNCHANGED <<open, writers, waiting>>
  /\ Leave(t)
  /\ UNCHANGED <<publications, loop, selector_available, leaked>>

TaskStep(t) ==
  \/ Return(t) \/ Poll(t) \/ Register(t) \/ RegisterFails(t)
  \/ SleepEnds(t) \/ Retry(t) \/ CancelledInWait(t) \/ Collect(t)

Next ==
  \/ \E p \in Pubs : AddPublication(p) \/ RemovePublication(p) \/ Drain(p)
  \/ \E t \in Tasks :
       \/ \E p \in Pubs : Start(t, p)
       \/ TaskStep(t)
       \/ TimeoutExpires(t)
       \/ Cancel(t) \/ CancelledElsewhere(t)
  \/ \E fd \in Fds : Ready(fd)
  \/ CloseLoop

\* The loop runs what is due, and what a closed loop leaves is collected.
\* Nothing says that a full buffer drains.
Fairness == \A t \in Tasks : WF_vars(TaskStep(t)) /\ WF_vars(TimeoutExpires(t))

Spec == Init /\ [][Next]_vars /\ Fairness

----------------------------------------------------------------------------
(* Properties *)

\* However waits overlap and descriptor numbers are reused, the descriptor a
\* task waits on is its own, refers to its publication's socket even after the
\* publication was removed, and wakes that task.
OwnRegistration ==
  \A t \in Waiting :
    LET fd == writer_fd[t]
    IN  /\ open[fd] = pub[t]
        /\ loop = "selector" => writers[fd] = t
        /\ \A p \in Alive : sockfd[p] # fd
        /\ \A u \in Waiting : writer_fd[u] = fd => u = t

\* After timeouts, cancellations, removals and a closed loop, open descriptors
\* and registered callbacks are those of living publications and of waiting
\* tasks; only an add_writer that raised an unexpected error leaves one open.
NothingLeft ==
  /\ {fd \in Fds : open[fd] # None} =
       {sockfd[p] : p \in Alive} \cup {writer_fd[t] : t \in Waiting} \cup leaked
  /\ \A fd \in Fds : writers[fd] # None => \E t \in Waiting : writer_fd[t] = fd

\* Readiness that comes after the timeout or the cancellation settled the
\* future changes nothing (set_result would raise InvalidStateError).
SettledOnce ==
  [][\A t \in Tasks : future[t] \in {"result", "cancelled"} => future'[t] \in {future[t], "none"}]_vars

\* A send that waits on a publication that was removed ends with LookupError,
\* although its duplicate stays open and may never become writable.
RemovalNoticed ==
  \A t \in Tasks :
    (pc[t] # "idle" /\ pub[t] \in Pubs /\ status[pub[t]] = "removed") ~> (pc[t] = "idle")
=============================================================================
