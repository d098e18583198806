--------------------------- MODULE AdapterProofs ---------------------------
(***************************************************************************)
(* Proofs about the two asynchronous adapters.  AsyncPublication.send      *)
(* (AsyncioSend), for any tasks, publications and number of descriptors:   *)
(* every wait has a descriptor and a callback of its own, nothing stays    *)
(* behind, and a future is settled once.  TokioPublication::send           *)
(* (TokioSend), for any number of calls and any buffer: it is type         *)
(* correct, loses no wakeup, and sends a payload exactly when the call     *)
(* reports it.                                                             *)
(***************************************************************************)
EXTENDS AsyncioSend, TokioSend, FiniteSetTheorems, WellFoundedInduction, TLAPS

\* Whenever a number is free, the descriptor table hands out a free one.
LEMMA LowestFreeIsFree ==
  ASSUME FreeFds # {}
  PROVE  LowestFree \in FreeFds
<1> DEFINE R == OpToRel(<, Nat)
<1>1. FreeFds \subseteq Nat
  BY BoundAssumption DEF FreeFds, Fds
<1>2. IsWellFoundedOn(R, Nat)
  BY NatLessThanWellFounded
<1> HIDE DEF R
<1>3. PICK fd \in FreeFds : \A other \in FreeFds : ~(<<other, fd>> \in R)
  BY <1>1, <1>2, WFMin
<1>4. ASSUME NEW other \in FreeFds PROVE fd <= other
  <2>1. other \in Nat /\ fd \in Nat
    BY <1>1
  <2>2. ~(<<other, fd>> \in {ss \in Nat \X Nat : ss[1] < ss[2]})
    BY <1>3 DEF R, OpToRel
  <2> QED
    BY <2>1, <2>2
<1> QED
  BY <1>4 DEF LowestFree

----------------------------------------------------------------------------
(* The inductive invariant *)

\* A living publication has a descriptor that refers to its socket.
SocketInv == \A p \in Alive : sockfd[p] \in Fds /\ open[sockfd[p]] = p

\* A task that sends has a publication; one that waits has a registered
\* duplicate that nobody else has.
TaskInv == \A t \in Tasks : pc[t] # "idle" => pub[t] \in Pubs

WaitInv ==
  \A t \in Waiting :
    /\ writer_fd[t] \in Fds
    /\ open[writer_fd[t]] = pub[t]
    /\ loop = "selector" => writers[writer_fd[t]] = t
    /\ \A p \in Alive : sockfd[p] # writer_fd[t]
    /\ \A u \in Waiting : writer_fd[u] = writer_fd[t] => u = t

\* What was leaked stays open and nobody uses it.
LeakInv ==
  \A fd \in leaked :
    /\ open[fd] # None
    /\ \A p \in Alive : sockfd[p] # fd
    /\ \A t \in Waiting : writer_fd[t] # fd

\* Whatever is open or registered has an owner.
OwnerInv ==
  \A fd \in Fds :
    /\ open[fd] # None => \/ \E p \in Alive : sockfd[p] = fd
                          \/ \E t \in Waiting : writer_fd[t] = fd
                          \/ fd \in leaked
    /\ writers[fd] # None => \E t \in Waiting : writer_fd[t] = fd
    /\ loop = "closed" => writers[fd] = None

\* All of it.
Inv == TypeOK /\ SocketInv /\ TaskInv /\ WaitInv /\ LeakInv /\ OwnerInv

\* The invariant holds before anything is open.
LEMMA InitInv == Init => Inv
  BY NoneAssumption
  DEF Init, Inv, TypeOK, SocketInv, TaskInv, WaitInv, LeakInv, OwnerInv, Alive, Waiting, Fds

\* A step that leaves descriptors, publications and waits alone.
LEMMA QuietKeepsInv ==
  ASSUME Inv, TypeOK', TaskInv', Waiting' = Waiting,
         \A t \in Waiting : pub'[t] = pub[t],
         UNCHANGED <<status, sockfd, open, loop, writers, writer_fd, leaked>>
  PROVE  Inv'
<1>1. Alive' = Alive
  BY DEF Alive
<1> QED
  BY <1>1, Waiting' = Waiting DEF Inv, SocketInv, WaitInv, LeakInv, OwnerInv, Fds

----------------------------------------------------------------------------
(* The steps that take or give back a descriptor *)

\* A new publication's socket takes a number nobody has.
LEMMA AddKeepsInv ==
  ASSUME Inv, NEW p \in Pubs, AddPublication(p)
  PROVE  Inv'
<1>1. LowestFree \in FreeFds
  BY LowestFreeIsFree DEF AddPublication
<1> DEFINE fd == LowestFree
<1>2. fd \in Fds /\ open[fd] = None
  BY <1>1 DEF FreeFds
<1> HIDE DEF fd
<1>3. /\ status' = [status EXCEPT ![p] = "alive"]
      /\ sockfd' = [sockfd EXCEPT ![p] = fd]
      /\ open' = [open EXCEPT ![fd] = p]
      /\ UNCHANGED <<room, loop, writers, pc, pub, selector_available, waiting, leaked>>
  BY DEF AddPublication, fd
<1>4. TypeOK'
  BY <1>2, <1>3 DEF Inv, TypeOK, waiting, Waiting
<1>5. /\ Alive' = Alive \cup {p} /\ p \notin Alive
      /\ Waiting' = Waiting
  BY <1>3 DEF AddPublication, Alive, Waiting, Inv, TypeOK
<1>6. /\ p # None
      /\ \A q \in Alive : sockfd'[q] = sockfd[q] /\ sockfd[q] # fd
      /\ sockfd'[p] = fd
      /\ \A t \in Waiting : writer_fd[t] # fd
      /\ fd \notin leaked
  BY <1>2, <1>3, <1>5, NoneAssumption
  DEF Inv, TypeOK, SocketInv, WaitInv, LeakInv, TaskInv, Alive, Waiting
<1>7. SocketInv'
  BY <1>2, <1>3, <1>5, <1>6 DEF Inv, TypeOK, SocketInv, Fds
<1>8. TaskInv' /\ LeakInv'
  BY <1>2, <1>3, <1>5, <1>6 DEF Inv, TypeOK, TaskInv, LeakInv, waiting, Fds
<1>9. WaitInv'
  BY <1>2, <1>3, <1>5, <1>6 DEF Inv, TypeOK, WaitInv, waiting, Fds
<1>10. OwnerInv'
  BY <1>2, <1>3, <1>5, <1>6 DEF Inv, TypeOK, OwnerInv, waiting, Fds
<1> QED
  BY <1>4, <1>7, <1>8, <1>9, <1>10 DEF Inv

\* Removing a publication closes its own descriptor and no duplicate.
LEMMA RemoveKeepsInv ==
  ASSUME Inv, NEW p \in Pubs, RemovePublication(p)
  PROVE  Inv'
<1>1. /\ p \in Alive
      /\ status' = [status EXCEPT ![p] = "removed"]
      /\ open' = [open EXCEPT ![sockfd[p]] = None]
      /\ sockfd' = [sockfd EXCEPT ![p] = None]
      /\ UNCHANGED <<room, loop, writers, pc, pub, selector_available, waiting, leaked>>
  BY DEF RemovePublication
<1>2. TypeOK'
  BY <1>1 DEF Inv, TypeOK, waiting, Waiting
<1>3. Alive' = Alive \ {p} /\ Waiting' = Waiting
  BY <1>1 DEF Alive, Waiting, Inv, TypeOK
<1>4. /\ sockfd[p] \in Fds
      /\ \A q \in Alive \ {p} : sockfd'[q] = sockfd[q] /\ sockfd[q] # sockfd[p]
      /\ \A t \in Waiting : writer_fd[t] # sockfd[p]
      /\ sockfd[p] \notin leaked
  BY <1>1 DEF Inv, TypeOK, SocketInv, WaitInv, LeakInv, Alive
<1>5. SocketInv' /\ TaskInv'
  BY <1>1, <1>3, <1>4 DEF Inv, TypeOK, SocketInv, TaskInv, Fds
<1>6. WaitInv' /\ LeakInv'
  BY <1>1, <1>3, <1>4 DEF Inv, TypeOK, WaitInv, LeakInv, waiting, Fds
<1>7. OwnerInv'
  BY <1>1, <1>3, <1>4 DEF Inv, TypeOK, OwnerInv, waiting, Fds
<1> QED
  BY <1>2, <1>5, <1>6, <1>7 DEF Inv

\* A wait begins with a duplicate under a number nobody has.
LEMMA RegisterKeepsInv ==
  ASSUME Inv, NEW t \in Tasks, Register(t)
  PROVE  Inv'
<1>1. LowestFree \in FreeFds
  BY LowestFreeIsFree DEF Register
<1> DEFINE fd == LowestFree
<1>2. fd \in Fds /\ open[fd] = None
  BY <1>1 DEF FreeFds
<1> HIDE DEF fd
<1>3. /\ loop = "selector" /\ pc[t] = "call"
      /\ open' = [open EXCEPT ![fd] = pub[t]]
      /\ writers' = [writers EXCEPT ![fd] = t]
      /\ writer_fd' = [writer_fd EXCEPT ![t] = fd]
      /\ future' = [future EXCEPT ![t] = "pending"]
      /\ pc' = [pc EXCEPT ![t] = "wait"]
      /\ UNCHANGED <<status, sockfd, room, loop, pub, selector_available, cancelling, leaked>>
  BY DEF Register, Blocked, duplicate_writer_fd, publications, fd
<1>4. pub[t] \in Pubs /\ pub[t] # None /\ t # None
  BY <1>3, NoneAssumption DEF Inv, TaskInv
<1>5. /\ Alive' = Alive /\ Waiting' = Waiting \cup {t} /\ t \notin Waiting
  BY <1>3 DEF Alive, Waiting, Inv, TypeOK
<1>6. TypeOK'
  BY <1>2, <1>3, <1>4, <1>5 DEF Inv, TypeOK
<1>7. /\ \A q \in Alive : sockfd[q] # fd
      /\ \A u \in Waiting : writer_fd'[u] = writer_fd[u] /\ writer_fd[u] # fd
      /\ writer_fd'[t] = fd
      /\ fd \notin leaked
  BY <1>2, <1>3, <1>5, NoneAssumption
  DEF Inv, TypeOK, SocketInv, WaitInv, LeakInv, TaskInv, Alive, Waiting
<1>8. SocketInv' /\ TaskInv'
  BY <1>2, <1>3, <1>4, <1>5, <1>7 DEF Inv, TypeOK, SocketInv, TaskInv, Fds
<1>9. WaitInv'
  BY <1>2, <1>3, <1>4, <1>5, <1>7 DEF Inv, TypeOK, WaitInv, Fds
<1>10. LeakInv'
  BY <1>2, <1>3, <1>4, <1>5, <1>7 DEF Inv, TypeOK, LeakInv, Fds
<1>11. OwnerInv'
  BY <1>2, <1>3, <1>4, <1>5, <1>7 DEF Inv, TypeOK, OwnerInv, Fds
<1> QED
  BY <1>6, <1>8, <1>9, <1>10, <1>11 DEF Inv

\* An add_writer that fails unexpectedly leaves an open descriptor to nobody.
LEMMA RegisterFailsKeepsInv ==
  ASSUME Inv, NEW t \in Tasks, RegisterFails(t)
  PROVE  Inv'
<1>1. LowestFree \in FreeFds
  BY LowestFreeIsFree DEF RegisterFails
<1> DEFINE fd == LowestFree
<1>2. fd \in Fds /\ open[fd] = None
  BY <1>1 DEF FreeFds
<1> HIDE DEF fd
<1>3. /\ pc[t] = "call"
      /\ open' = [open EXCEPT ![fd] = pub[t]]
      /\ leaked' = leaked \cup {fd}
      /\ pc' = [pc EXCEPT ![t] = "idle"]
      /\ pub' = [pub EXCEPT ![t] = None]
      /\ UNCHANGED <<status, sockfd, room, loop, writers, selector_available, writer_fd, future,
                     cancelling>>
  BY DEF RegisterFails, Blocked, Leave, publications, waiting, fd
<1>4. pub[t] \in Pubs /\ pub[t] # None
  BY <1>3, NoneAssumption DEF Inv, TaskInv
<1>5. /\ Alive' = Alive /\ Waiting' = Waiting /\ t \notin Waiting
  BY <1>3 DEF Alive, Waiting, Inv, TypeOK
<1>6. TypeOK'
  BY <1>2, <1>3, <1>4, <1>5 DEF Inv, TypeOK
<1>7. /\ \A q \in Alive : sockfd[q] # fd
      /\ \A u \in Waiting : writer_fd[u] # fd /\ pub'[u] = pub[u]
  BY <1>2, <1>3, <1>5, NoneAssumption
  DEF Inv, TypeOK, SocketInv, WaitInv, TaskInv, Alive, Waiting
<1>8. SocketInv' /\ TaskInv'
  BY <1>2, <1>3, <1>5, <1>7 DEF Inv, TypeOK, SocketInv, TaskInv, Fds
<1>9. WaitInv' /\ LeakInv'
  BY <1>2, <1>3, <1>4, <1>5, <1>7 DEF Inv, TypeOK, WaitInv, LeakInv, Fds
<1>10. OwnerInv'
  BY <1>2, <1>3, <1>4, <1>5, <1>7 DEF Inv, TypeOK, OwnerInv, Fds
<1> QED
  BY <1>6, <1>8, <1>9, <1>10 DEF Inv

\* The finally of a wait gives back exactly what the wait took.
LEMMA WaitOverKeepsInv ==
  ASSUME Inv, NEW t \in Waiting, WaitOver(t),
         pc' \in [Tasks -> {"idle", "call", "sleep", "wait"}], pc'[t] # "wait",
         \A u \in Tasks \ {t} : pc'[u] = pc[u],
         pub' \in [Tasks -> Pubs \cup {None}], TaskInv',
         \A u \in Tasks \ {t} : pub'[u] = pub[u],
         UNCHANGED <<status, sockfd, room, loop, selector_available, leaked>>
  PROVE  Inv'
<1> DEFINE fd == writer_fd[t]
<1>1. fd \in Fds /\ t \in Tasks
  BY DEF Inv, WaitInv, Waiting
<1>2. /\ writers' = IF loop = "closed" THEN writers ELSE [writers EXCEPT ![fd] = None]
      /\ open' = [open EXCEPT ![fd] = None]
      /\ writer_fd' = [writer_fd EXCEPT ![t] = None]
      /\ future' = [future EXCEPT ![t] = "none"]
      /\ cancelling' = [cancelling EXCEPT ![t] = FALSE]
  BY DEF WaitOver, close_writer_fd
<1>3. Alive' = Alive /\ Waiting' = Waiting \ {t}
  BY <1>1 DEF Alive, Waiting
<1>4. TypeOK'
  BY <1>1, <1>2, <1>3 DEF Inv, TypeOK
<1>5. /\ \A q \in Alive : sockfd[q] # fd
      /\ \A u \in Waiting \ {t} : /\ writer_fd'[u] = writer_fd[u] /\ writer_fd[u] # fd
                                 /\ pub'[u] = pub[u]
      /\ fd \notin leaked
  BY <1>1, <1>2 DEF Inv, TypeOK, WaitInv, LeakInv, Waiting
<1> HIDE DEF fd
<1>6. SocketInv'
  BY <1>1, <1>2, <1>3, <1>5 DEF Inv, TypeOK, SocketInv, Fds
<1>7. WaitInv'
  BY <1>1, <1>2, <1>3, <1>5 DEF Inv, TypeOK, WaitInv, Fds
<1>8. LeakInv'
  BY <1>1, <1>2, <1>3, <1>5 DEF Inv, TypeOK, LeakInv, Fds
<1>9. OwnerInv'
  BY <1>1, <1>2, <1>3, <1>5 DEF Inv, TypeOK, OwnerInv, Fds, fd
<1> QED
  BY <1>4, <1>6, <1>7, <1>8, <1>9 DEF Inv

----------------------------------------------------------------------------
(* Every step *)

\* A task's steps.
LEMMA TaskStepKeepsInv ==
  ASSUME Inv, NEW t \in Tasks, TaskStep(t)
  PROVE  Inv'
<1>1. CASE Return(t)
  <2>1. /\ pc[t] = "call"
        /\ pc' = [pc EXCEPT ![t] = "idle"] /\ pub' = [pub EXCEPT ![t] = None]
        /\ UNCHANGED <<status, sockfd, open, loop, writers, selector_available, waiting, leaked>>
    BY <1>1 DEF Return, Leave
  <2>2. room' \in [Pubs -> BOOLEAN]
    BY <1>1 DEF Return, Inv, TypeOK
  <2>3. Waiting' = Waiting /\ t \notin Waiting
    BY <2>1 DEF Waiting, Inv, TypeOK
  <2>4. TypeOK' /\ TaskInv'
    BY <2>1, <2>2, <2>3 DEF Inv, TypeOK, TaskInv, waiting
  <2> QED
    BY <2>1, <2>3, <2>4, QuietKeepsInv DEF waiting, Inv, TypeOK, Waiting
<1>2. CASE Poll(t) \/ SleepEnds(t)
  <2>1. /\ pc[t] \in {"call", "sleep"}
        /\ pc' \in {[pc EXCEPT ![t] = "sleep"], [pc EXCEPT ![t] = "call"]}
        /\ selector_available' \in {selector_available, [selector_available EXCEPT ![t] = FALSE]}
        /\ UNCHANGED <<status, sockfd, room, open, loop, writers, pub, waiting, leaked>>
    BY <1>2 DEF Poll, SleepEnds, Blocked, publications
  <2>2. Waiting' = Waiting
    BY <2>1 DEF Waiting, Inv, TypeOK
  <2>3. TypeOK' /\ TaskInv'
    BY <2>1, <2>2 DEF Inv, TypeOK, TaskInv, waiting
  <2> QED
    BY <2>1, <2>2, <2>3, QuietKeepsInv DEF waiting
<1>3. CASE Register(t)
  BY <1>3, RegisterKeepsInv
<1>4. CASE RegisterFails(t)
  BY <1>4, RegisterFailsKeepsInv
<1>5. CASE Retry(t)
  <2>1. /\ t \in Waiting /\ WaitOver(t)
        /\ pc' = [pc EXCEPT ![t] = "call"]
        /\ UNCHANGED <<status, sockfd, room, loop, pub, selector_available, leaked>>
    BY <1>5 DEF Retry, publications
  <2>2. TaskInv'
    BY <2>1 DEF Inv, TypeOK, TaskInv, Waiting
  <2> QED
    BY <2>1, <2>2, WaitOverKeepsInv DEF Inv, TypeOK
<1>6. CASE t \in Waiting /\ (CancelledInWait(t) \/ Collect(t))
  <2>1. /\ WaitOver(t)
        /\ pc' = [pc EXCEPT ![t] = "idle"] /\ pub' = [pub EXCEPT ![t] = None]
        /\ UNCHANGED <<status, sockfd, room, loop, selector_available, leaked>>
    BY <1>6 DEF CancelledInWait, Collect, Leave, publications
  <2>2. TaskInv'
    BY <2>1 DEF Inv, TypeOK, TaskInv
  <2> QED
    BY <1>6, <2>1, <2>2, WaitOverKeepsInv DEF Inv, TypeOK
<1>7. CASE t \notin Waiting /\ Collect(t)
  <2>1. /\ pc' = [pc EXCEPT ![t] = "idle"] /\ pub' = [pub EXCEPT ![t] = None]
        /\ UNCHANGED <<status, sockfd, room, loop, open, writers, selector_available, waiting, leaked>>
    BY <1>7 DEF Collect, Leave, publications
  <2>2. Waiting' = Waiting
    BY <1>7, <2>1 DEF Waiting, Inv, TypeOK
  <2>3. TypeOK' /\ TaskInv'
    BY <2>1, <2>2 DEF Inv, TypeOK, TaskInv, waiting
  <2> QED
    BY <1>7, <2>1, <2>2, <2>3, QuietKeepsInv DEF waiting, Inv, TypeOK, Waiting
<1> QED
  BY <1>1, <1>2, <1>3, <1>4, <1>5, <1>6, <1>7 DEF TaskStep, CancelledInWait

\* Futures and cancellations: no descriptor is touched.
LEMMA FutureStepKeepsInv ==
  ASSUME Inv,
         (\E t \in Tasks : TimeoutExpires(t) \/ Cancel(t)) \/ \E fd \in Fds : Ready(fd)
  PROVE  Inv'
<1> DEFINE OnlyFutures ==
      /\ future' \in [Tasks -> {"none", "pending", "result", "cancelled"}]
      /\ \A t \in Tasks : (future'[t] = "none") <=> (future[t] = "none")
      /\ cancelling' \in [Tasks -> BOOLEAN]
      /\ UNCHANGED <<status, sockfd, room, open, loop, writers, pc, pub, selector_available,
                     writer_fd, leaked>>
<1>1. OnlyFutures
  <2>1. ASSUME NEW t \in Tasks, TimeoutExpires(t) PROVE OnlyFutures
    BY <2>1 DEF TimeoutExpires, publications, Inv, TypeOK
  <2>2. ASSUME NEW t \in Tasks, Cancel(t) PROVE OnlyFutures
    <3>1. future' \in {future, [future EXCEPT ![t] = "cancelled"]} /\ future[t] # "none"
      <4>1. /\ future \in [Tasks -> {"none", "pending", "result", "cancelled"}]
            /\ future[t] # "none"
        BY <2>2 DEF Cancel, Inv, TypeOK
      <4>2. CASE future[t] = "pending"
        BY <2>2, <4>1, <4>2 DEF Cancel
      <4>3. CASE future[t] # "pending"
        BY <2>2, <4>1, <4>3 DEF Cancel
      <4> QED
        BY <4>2, <4>3
    <3>2. cancelling' = [cancelling EXCEPT ![t] = TRUE]
      BY <2>2 DEF Cancel
    <3> QED
      BY <2>2, <3>1, <3>2 DEF Cancel, publications, Inv, TypeOK
  <2>3. ASSUME NEW fd \in Fds, Ready(fd) PROVE OnlyFutures
    <3>1. writers[fd] \in Tasks
      BY <2>3 DEF Ready, Inv, TypeOK
    <3> QED
      BY <2>3, <3>1 DEF Ready, on_writable, publications, Inv, TypeOK
  <2> QED
    BY <2>1, <2>2, <2>3
<1>2. Waiting' = Waiting
  BY <1>1 DEF Waiting
<1>3. TypeOK' /\ TaskInv'
  BY <1>1, <1>2 DEF Inv, TypeOK, TaskInv
<1> QED
  BY <1>1, <1>2, <1>3, QuietKeepsInv

\* No step breaks the invariant.
LEMMA NextKeepsInv ==
  ASSUME Inv, [Next]_vars
  PROVE  Inv'
<1>1. ASSUME NEW p \in Pubs, AddPublication(p) \/ RemovePublication(p) PROVE Inv'
  BY <1>1, AddKeepsInv, RemoveKeepsInv
<1>2. ASSUME NEW p \in Pubs, Drain(p) PROVE Inv'
  <2>1. Waiting' = Waiting
    BY <1>2 DEF Drain, Waiting
  <2>2. TypeOK' /\ TaskInv'
    BY <1>2, <2>1 DEF Drain, Inv, TypeOK, TaskInv, waiting
  <2> QED
    BY <1>2, <2>1, <2>2, QuietKeepsInv DEF Drain, waiting
<1>3. ASSUME NEW t \in Tasks, NEW p \in Pubs, Start(t, p) PROVE Inv'
  <2>1. Waiting' = Waiting /\ t \notin Waiting
    BY <1>3 DEF Start, Waiting, Inv, TypeOK
  <2>2. TypeOK'
    BY <1>3, <2>1 DEF Start, Inv, TypeOK, waiting, publications
  <2>3. TaskInv'
    BY <1>3 DEF Start, Inv, TypeOK, TaskInv
  <2> QED
    BY <1>3, <2>1, <2>2, <2>3, QuietKeepsInv
    DEF Start, waiting, publications, Inv, TypeOK, Waiting
<1>4. ASSUME NEW t \in Tasks, TaskStep(t) PROVE Inv'
  BY <1>4, TaskStepKeepsInv
<1>5. CASE (\E t \in Tasks : TimeoutExpires(t) \/ Cancel(t)) \/ \E fd \in Fds : Ready(fd)
  BY <1>5, FutureStepKeepsInv
<1>6. ASSUME NEW t \in Tasks, CancelledElsewhere(t) PROVE Inv'
  <2>1. Waiting' = Waiting /\ t \notin Waiting
    BY <1>6 DEF CancelledElsewhere, Leave, Waiting, Inv, TypeOK
  <2>2. TypeOK' /\ TaskInv'
    BY <1>6, <2>1 DEF CancelledElsewhere, Leave, Inv, TypeOK, TaskInv, waiting, publications
  <2> QED
    BY <1>6, <2>1, <2>2, QuietKeepsInv
    DEF CancelledElsewhere, Leave, waiting, publications, Inv, TypeOK, Waiting
<1>7. CASE CloseLoop
  <2>1. /\ loop' = "closed" /\ writers' = [fd \in Fds |-> None]
        /\ UNCHANGED <<status, sockfd, room, open, pc, pub, selector_available, waiting, leaked>>
    BY <1>7 DEF CloseLoop, publications
  <2>2. Waiting' = Waiting /\ Alive' = Alive
    BY <2>1 DEF Waiting, Alive
  <2>3. TypeOK'
    BY <2>1, <2>2 DEF Inv, TypeOK, waiting
  <2>4. SocketInv' /\ TaskInv' /\ WaitInv' /\ LeakInv' /\ OwnerInv'
    BY <2>1, <2>2 DEF Inv, SocketInv, TaskInv, WaitInv, LeakInv, OwnerInv, waiting, Fds
  <2> QED
    BY <2>3, <2>4 DEF Inv
<1>8. CASE UNCHANGED vars
  <2>1. Waiting' = Waiting
    BY <1>8 DEF vars, Waiting
  <2>2. TypeOK' /\ TaskInv'
    BY <1>8, <2>1 DEF vars, publications, waiting, Inv, TypeOK, TaskInv
  <2> QED
    BY <1>8, <2>1, <2>2, QuietKeepsInv DEF vars, publications, waiting
<1> QED
  BY <1>1, <1>2, <1>3, <1>4, <1>5, <1>6, <1>7, <1>8 DEF Next

----------------------------------------------------------------------------
(* Theorems *)

\* The invariant holds in every reachable state.
THEOREM Inductive == Spec => []Inv
<1>1. Inv /\ [Next]_vars => Inv'
  BY NextKeepsInv
<1> QED
  BY InitInv, <1>1, PTL DEF Spec

\* Every wait of AsyncPublication.send is on a descriptor of its own, which
\* refers to the right socket and wakes the right task, however many tasks
\* wait and whichever numbers are reused.
THEOREM WaitsAreOwn == Spec => []OwnRegistration
<1>1. Inv => OwnRegistration
  BY DEF Inv, WaitInv, OwnRegistration
<1> QED
  BY Inductive, <1>1, PTL

\* Timeouts, cancellations, removals and a closed loop leave no descriptor open
\* and no callback registered without an owner, but for the known leak.
THEOREM NothingStaysBehind == Spec => []NothingLeft
<1>1. ASSUME Inv PROVE NothingLeft
  <2>1. ASSUME NEW fd \in Fds, open[fd] # None
        PROVE  fd \in {sockfd[p] : p \in Alive} \cup {writer_fd[t] : t \in Waiting} \cup leaked
    BY <1>1, <2>1 DEF Inv, OwnerInv
  <2>2. ASSUME NEW p \in Alive PROVE sockfd[p] \in Fds /\ open[sockfd[p]] # None
    BY <1>1, NoneAssumption DEF Inv, SocketInv, Alive
  <2>3. ASSUME NEW t \in Waiting PROVE writer_fd[t] \in Fds /\ open[writer_fd[t]] # None
    BY <1>1, NoneAssumption DEF Inv, WaitInv, TaskInv, Waiting
  <2>4. ASSUME NEW fd \in leaked PROVE fd \in Fds /\ open[fd] # None
    BY <1>1 DEF Inv, TypeOK, LeakInv
  <2>5. \A fd \in Fds : writers[fd] # None => \E t \in Waiting : writer_fd[t] = fd
    BY <1>1 DEF Inv, OwnerInv
  <2> QED
    BY <2>1, <2>2, <2>3, <2>4, <2>5 DEF NothingLeft
<1> QED
  BY Inductive, <1>1, PTL

\* on_writable never settles a future that a timeout, a cancellation or earlier
\* readiness has settled.
THEOREM FuturesSettledOnce == Spec => SettledOnce
<1> DEFINE Keeps(t) ==
      future[t] \in {"result", "cancelled"} => future'[t] \in {future[t], "none"}
<1>1. ASSUME Inv, [Next]_vars, NEW u \in Tasks PROVE Keeps(u)
  <2>1. CASE \E t \in Tasks : Register(t)
    <3>1. PICK t \in Tasks : Register(t)
      BY <2>1
    <3>2. future[t] = "none" /\ future' = [future EXCEPT ![t] = "pending"]
      BY <1>1, <3>1 DEF Register, Blocked, Inv, TypeOK, Waiting
    <3> QED
      BY <1>1, <3>2 DEF Inv, TypeOK
  <2>2. CASE \E t \in Tasks : WaitOver(t)
    BY <1>1, <2>2 DEF WaitOver, Inv, TypeOK
  <2>3. CASE \E t \in Tasks : TimeoutExpires(t) \/ Cancel(t)
    BY <1>1, <2>3 DEF TimeoutExpires, Cancel, Inv, TypeOK
  <2>4. CASE \E fd \in Fds : Ready(fd)
    <3>1. PICK fd \in Fds : Ready(fd)
      BY <2>4
    <3>2. writers[fd] \in Tasks
      BY <1>1, <3>1 DEF Ready, Inv, TypeOK
    <3> QED
      BY <1>1, <3>1, <3>2 DEF Ready, on_writable, Inv, TypeOK
  <2>5. CASE UNCHANGED future
    BY <2>5
  <2> QED
    BY <1>1, <2>1, <2>2, <2>3, <2>4, <2>5
    DEF Next, TaskStep, vars, waiting, AddPublication, RemovePublication, Drain, Start, Return,
        Poll, RegisterFails, SleepEnds, Retry, CancelledInWait, Collect, CancelledElsewhere,
        CloseLoop
<1>2. Inv /\ [Next]_vars => [\A t \in Tasks : Keeps(t)]_vars
  BY <1>1
<1> QED
  BY Inductive, <1>2, PTL DEF Spec, SettledOnce

----------------------------------------------------------------------------
(* The Tokio adapter, which shares nothing with the asyncio one *)

\* A guard is never ahead of the registration.
GuardsPast == \A t \in Calls : seen[t] <= tick

\* Why clear_ready() is safe: a call that found the buffer full holds a guard
\* older than the registration, or the edge of every later drain is pending.
BlockedInv ==
  \A t \in Calls :
    stages[t] = "blocked" /\ seen[t] = tick /\ Writable(queued) => edge

\* The two of them with types make the absence of lost wakeups inductive.
WakeupInv == TokioTypeOK /\ GuardsPast /\ BlockedInv /\ NoLostWakeup

\* The stage of one call changes and no other.
LEMMA GotoType ==
  ASSUME TokioTypeOK, NEW t \in Calls, NEW stage \in Stages, Goto(t, stage)
  PROVE  /\ stages' \in [Calls -> Stages]
         /\ stages'[t] = stage
         /\ \A u \in Calls \ {t} : stages'[u] = stages[u]
  BY DEF TokioTypeOK, Goto

\* Recording a send keeps the counters natural numbers.
LEMMA RecordType ==
  ASSUME TokioTypeOK
  PROVE  record_success \/ record_error =>
           metrics' \in [send_calls : Nat, packets_sent : Nat, send_errors : Nat]
<1> DEFINE Counters == [send_calls : Nat, packets_sent : Nat, send_errors : Nat]
<1>1. metrics \in Counters
  BY DEF TokioTypeOK
<1>2. ASSUME record_success PROVE metrics' \in Counters
  <2>1. metrics' = [send_calls   |-> metrics.send_calls + 1,
                    packets_sent |-> metrics.packets_sent + 1,
                    send_errors  |-> metrics.send_errors]
    BY <1>1, <1>2 DEF record_success
  <2>2. QED
    BY <1>1, <2>1
<1>3. ASSUME record_error PROVE metrics' \in Counters
  <2>1. metrics' = [send_calls   |-> metrics.send_calls + 1,
                    packets_sent |-> metrics.packets_sent,
                    send_errors  |-> metrics.send_errors + 1]
    BY <1>1, <1>3 DEF record_error
  <2>2. QED
    BY <1>1, <2>1
<1>4. QED
  BY <1>2, <1>3

\* Every step keeps every variable in its type.
LEMMA TokioTypeStep ==
  ASSUME TokioTypeOK, [TokioNext]_tokioVars
  PROVE  TokioTypeOK'
<1> USE CapacityAssumption, FaultsAssumption
<1>1. CASE DrainBuffer
  BY <1>1 DEF TokioTypeOK, DrainBuffer, registration
<1>2. CASE Deliver
  <2>1. edge' = FALSE /\ UNCHANGED <<unix, queued, stages, seen, sent, metrics, faults>>
    BY <1>2 DEF Deliver
  <2>2. ready' \in BOOLEAN /\ tick' \in Nat
    <3>1. CASE Writable(queued)
      BY <1>2, <3>1 DEF TokioTypeOK, Deliver
    <3>2. CASE ~Writable(queued)
      BY <1>2, <3>2 DEF TokioTypeOK, Deliver, registration
    <3>3. QED
      BY <3>1, <3>2
  <2>3. QED
    BY <2>1, <2>2 DEF TokioTypeOK
<1>3. CASE Quiet
  BY <1>3 DEF TokioTypeOK, Quiet, tokioVars, socket, registration
<1>4. ASSUME NEW t \in Calls, Begin(t) PROVE TokioTypeOK'
  BY <1>4, GotoType DEF TokioTypeOK, Begin, Stages, Awaiting,
     socket, registration
<1>5. ASSUME NEW t \in Calls, Wake(t) PROVE TokioTypeOK'
  BY <1>5, GotoType DEF TokioTypeOK, Wake, Stages, socket,
     registration
<1>6. ASSUME NEW t \in Calls, WakeFails(t) PROVE TokioTypeOK'
  BY <1>6, GotoType DEF TokioTypeOK, WakeFails, Stages, Ended,
     socket, registration
<1>7. ASSUME NEW t \in Calls, TrySend(t) PROVE TokioTypeOK'
  BY <1>7, GotoType DEF TokioTypeOK, TrySend, Stages, Awaiting,
     socket, registration
<1>8. ASSUME NEW t \in Calls, Sent(t) PROVE TokioTypeOK'
  BY <1>8, GotoType, RecordType DEF TokioTypeOK, Sent, Enqueue, Stages,
     Ended, registration
<1>9. ASSUME NEW t \in Calls, WouldBlock(t) PROVE TokioTypeOK'
  BY <1>9, GotoType, RecordType DEF TokioTypeOK, WouldBlock, Stages,
     socket, registration
<1>10. ASSUME NEW t \in Calls, ClearReady(t) PROVE TokioTypeOK'
  BY <1>10, GotoType DEF TokioTypeOK, ClearReady, Stages, Awaiting,
     socket
<1>11. ASSUME NEW t \in Calls, SendFails(t) PROVE TokioTypeOK'
  BY <1>11, GotoType, RecordType DEF TokioTypeOK, SendFails, Stages,
     Ended, socket, registration
<1>12. ASSUME NEW t \in Calls, CancelSend(t) PROVE TokioTypeOK'
  BY <1>12, GotoType DEF TokioTypeOK, CancelSend, Stages, Ended,
     socket, registration
<1>13. CASE UNCHANGED tokioVars
  BY <1>13 DEF TokioTypeOK, tokioVars, socket, registration
<1>14. QED
  BY <1>1, <1>2, <1>3, <1>4, <1>5, <1>6, <1>7, <1>8, <1>9, <1>10, <1>11, <1>12,
     <1>13 DEF TokioNext, Step

\* The initial states are well typed.
LEMMA TokioTypeInit ==
  ASSUME TokioInit
  PROVE  TokioTypeOK
<1>1. edge \in BOOLEAN
  BY DEF TokioInit, Writable
<1>2. metrics \in [send_calls : Nat, packets_sent : Nat, send_errors : Nat]
  BY DEF TokioInit
<1>3. stages \in [Calls -> Stages] /\ seen \in [Calls -> Nat] /\ sent \in [Calls -> Nat]
  BY DEF TokioInit, Stages
<1>4. queued \in 0 .. Capacity /\ tick \in Nat /\ faults \in 0 .. MaxFaults
  BY CapacityAssumption, FaultsAssumption DEF TokioInit
<1>5. unix \in BOOLEAN /\ ready \in BOOLEAN
  BY DEF TokioInit
<1>6. QED
  BY <1>1, <1>2, <1>3, <1>4, <1>5 DEF TokioTypeOK

\* Every variable stays in its type: in particular the send buffer never
\* holds more than its capacity and no counter goes below zero.
THEOREM TokioTypeCorrect == TokioSpec => []TokioTypeOK
<1>1. TokioInit => TokioTypeOK
  BY TokioTypeInit
<1>2. TokioTypeOK /\ [TokioNext]_tokioVars => TokioTypeOK'
  BY TokioTypeStep
<1> QED
  BY <1>1, <1>2, PTL DEF TokioSpec

\* The initial states satisfy the wakeup invariant.
LEMMA WakeupInit ==
  ASSUME TokioInit
  PROVE  WakeupInv
<1>1. TokioTypeOK
  BY TokioTypeInit
<1>2. GuardsPast /\ BlockedInv /\ NoLostWakeup
  BY DEF TokioInit, GuardsPast, BlockedInv, NoLostWakeup
<1>3. QED
  BY <1>1, <1>2 DEF WakeupInv

\* Every step keeps the wakeup invariant.
LEMMA WakeupStep ==
  ASSUME WakeupInv, [TokioNext]_tokioVars
  PROVE  WakeupInv'
<1> SUFFICES GuardsPast' /\ BlockedInv' /\ NoLostWakeup'
  BY TokioTypeStep DEF WakeupInv
<1> USE CapacityAssumption, FaultsAssumption
<1>0. TokioTypeOK /\ GuardsPast /\ BlockedInv /\ NoLostWakeup
  BY DEF WakeupInv
<1>1. CASE DrainBuffer
  BY <1>0, <1>1 DEF DrainBuffer, registration, TokioTypeOK, Writable,
     GuardsPast, BlockedInv, NoLostWakeup
<1>2. CASE Deliver
  BY <1>0, <1>2 DEF Deliver, registration, TokioTypeOK, GuardsPast,
     BlockedInv, NoLostWakeup
<1>3. CASE Quiet
  BY <1>0, <1>3 DEF Quiet, tokioVars, socket, registration, GuardsPast,
     BlockedInv, NoLostWakeup
<1>4. ASSUME NEW t \in Calls, NEW stage \in Stages \ {"blocked"}, Goto(t, stage),
             UNCHANGED <<socket, registration, seen>>
      PROVE  GuardsPast' /\ BlockedInv' /\ NoLostWakeup'
  BY <1>0, <1>4, GotoType DEF socket, registration, GuardsPast, BlockedInv,
     NoLostWakeup
<1>5. ASSUME NEW t \in Calls, NEW stage \in Stages \ {"blocked"}, Goto(t, stage),
             seen' = [seen EXCEPT ![t] = tick], UNCHANGED <<socket, registration>>
      PROVE  GuardsPast' /\ BlockedInv' /\ NoLostWakeup'
  <2>1. GuardsPast'
    BY <1>0, <1>5 DEF registration, TokioTypeOK, GuardsPast
  <2>2. BlockedInv'
    BY <1>0, <1>5, GotoType DEF socket, registration, TokioTypeOK, BlockedInv
  <2>3. NoLostWakeup'
    BY <1>0, <1>5 DEF socket, registration, NoLostWakeup
  <2>4. QED
    BY <2>1, <2>2, <2>3
<1>6. ASSUME NEW t \in Calls, Begin(t)
      PROVE  GuardsPast' /\ BlockedInv' /\ NoLostWakeup'
  BY <1>4, <1>6 DEF Begin, Stages, Awaiting
<1>7. ASSUME NEW t \in Calls, Wake(t)
      PROVE  GuardsPast' /\ BlockedInv' /\ NoLostWakeup'
  BY <1>4, <1>5, <1>7 DEF Wake, Stages
<1>8. ASSUME NEW t \in Calls, WakeFails(t)
      PROVE  GuardsPast' /\ BlockedInv' /\ NoLostWakeup'
  BY <1>4, <1>8 DEF WakeFails, Stages, Ended
<1>9. ASSUME NEW t \in Calls, TrySend(t)
      PROVE  GuardsPast' /\ BlockedInv' /\ NoLostWakeup'
  BY <1>4, <1>5, <1>9 DEF TrySend, Stages, Awaiting
<1>10. ASSUME NEW t \in Calls, Sent(t)
       PROVE  GuardsPast' /\ BlockedInv' /\ NoLostWakeup'
  <2>1. Writable(queued') => Writable(queued)
    BY <1>0, <1>10 DEF Sent, Enqueue, TokioTypeOK, Writable
  <2>2. "ok" \in Stages /\ Goto(t, "ok")
    BY <1>10 DEF Sent, Stages, Ended
  <2>3. /\ stages' \in [Calls -> Stages] /\ stages'[t] = "ok"
        /\ \A u \in Calls \ {t} : stages'[u] = stages[u]
    BY <1>0, <2>2, GotoType
  <2>4. QED
    BY <1>0, <1>10, <2>1, <2>3
       DEF Sent, registration, GuardsPast, BlockedInv, NoLostWakeup,
       Writable
<1>11. ASSUME NEW t \in Calls, WouldBlock(t)
       PROVE  GuardsPast' /\ BlockedInv' /\ NoLostWakeup'
  \* The buffer is full, so nothing is promised.
  <2>1. ~Writable(queued')
    BY <1>11 DEF WouldBlock, socket, Writable
  <2>2. QED
    BY <1>0, <1>11, <2>1
       DEF WouldBlock, socket, registration, GuardsPast, BlockedInv,
       NoLostWakeup, Writable
<1>12. ASSUME NEW t \in Calls, ClearReady(t)
       PROVE  GuardsPast' /\ BlockedInv' /\ NoLostWakeup'
  <2>1. GuardsPast'
    BY <1>0, <1>12 DEF ClearReady, GuardsPast
  <2>2. "writable" \in Stages /\ Goto(t, "writable")
    BY <1>12 DEF ClearReady, Stages, Awaiting
  <2>3. BlockedInv'
    BY <1>0, <1>12, <2>2, GotoType DEF ClearReady, socket, BlockedInv
  <2>4. ready' = ready \/ (stages[t] = "blocked" /\ seen[t] = tick)
    BY <1>0, <1>12 DEF ClearReady, TokioTypeOK
  <2>5. NoLostWakeup'
    BY <1>0, <1>12, <2>4 DEF ClearReady, socket, BlockedInv, NoLostWakeup
  <2>6. QED
    BY <2>1, <2>3, <2>5
<1>13. ASSUME NEW t \in Calls, SendFails(t)
       PROVE  GuardsPast' /\ BlockedInv' /\ NoLostWakeup'
  BY <1>4, <1>13 DEF SendFails, Stages, Ended
<1>14. ASSUME NEW t \in Calls, CancelSend(t)
       PROVE  GuardsPast' /\ BlockedInv' /\ NoLostWakeup'
  BY <1>4, <1>14 DEF CancelSend, Stages, Ended
<1>15. CASE UNCHANGED tokioVars
  BY <1>0, <1>15 DEF tokioVars, socket, registration, GuardsPast, BlockedInv,
     NoLostWakeup
<1>16. QED
  BY <1>1, <1>2, <1>3, <1>6, <1>7, <1>8, <1>9, <1>10, <1>11, <1>12, <1>13, <1>14,
     <1>15 DEF TokioNext, Step

\* clear_ready() after a send that would block never hides a writable socket:
\* it is ready, or its event is on its way to the driver.
THEOREM WakeupsKept == TokioSpec => []NoLostWakeup
<1>1. WakeupInv => NoLostWakeup
  BY DEF WakeupInv
<1>2. TokioInit => WakeupInv
  BY WakeupInit
<1>3. WakeupInv /\ [TokioNext]_tokioVars => WakeupInv'
  BY WakeupStep
<1>4. QED
  BY <1>1, <1>2, <1>3, PTL DEF TokioSpec

\* A call that has not returned a report has sent nothing, so cancelling it is
\* safe, and a retry never sends a payload twice.
THEOREM PayloadSentOnce == TokioSpec => []SentOnce
<1>1. TokioInit => SentOnce
  BY DEF TokioInit, SentOnce
<1>2. TokioTypeOK /\ SentOnce /\ [TokioNext]_tokioVars => SentOnce'
  <2> SUFFICES ASSUME TokioTypeOK, SentOnce, [TokioNext]_tokioVars PROVE SentOnce'
    OBVIOUS
  <2>1. ASSUME NEW t \in Calls, NEW stage \in Stages \ {"ok"}, Goto(t, stage),
               stages[t] # "ok", UNCHANGED sent
        PROVE  SentOnce'
    BY <2>1, GotoType DEF SentOnce
  <2>2. ASSUME NEW t \in Calls, Sent(t) PROVE SentOnce'
    <3>1. "ok" \in Stages /\ Goto(t, "ok")
      BY <2>2 DEF Sent, Stages, Ended
    <3>2. stages'[t] = "ok" /\ \A u \in Calls \ {t} : stages'[u] = stages[u]
      BY <3>1, GotoType
    <3>3. sent[t] = 0 /\ sent' = [sent EXCEPT ![t] = @ + 1]
      BY <2>2 DEF Sent, Enqueue, SentOnce
    <3>4. QED
      BY <3>2, <3>3 DEF TokioTypeOK, SentOnce
  <2>3. ASSUME NEW t \in Calls, Begin(t) PROVE SentOnce'
    BY <2>1, <2>3 DEF Begin, Stages, Awaiting
  <2>4. ASSUME NEW t \in Calls, Wake(t) PROVE SentOnce'
    BY <2>1, <2>4 DEF Wake, Stages
  <2>5. ASSUME NEW t \in Calls, WakeFails(t) PROVE SentOnce'
    BY <2>1, <2>5 DEF WakeFails, Stages, Ended
  <2>6. ASSUME NEW t \in Calls, TrySend(t) PROVE SentOnce'
    BY <2>1, <2>6 DEF TrySend, Stages, Awaiting
  <2>7. ASSUME NEW t \in Calls, WouldBlock(t) PROVE SentOnce'
    BY <2>1, <2>7 DEF WouldBlock, Stages
  <2>8. ASSUME NEW t \in Calls, ClearReady(t) PROVE SentOnce'
    BY <2>1, <2>8 DEF ClearReady, Stages, Awaiting
  <2>9. ASSUME NEW t \in Calls, SendFails(t) PROVE SentOnce'
    BY <2>1, <2>9 DEF SendFails, Stages, Ended
  <2>10. ASSUME NEW t \in Calls, CancelSend(t) PROVE SentOnce'
    BY <2>1, <2>10 DEF CancelSend, Stages, Awaiting, Ended
  <2>11. CASE DrainBuffer \/ Deliver \/ Quiet \/ UNCHANGED tokioVars
    BY <2>11 DEF DrainBuffer, Deliver, Quiet, tokioVars, SentOnce
  <2>12. QED
    BY <2>2, <2>3, <2>4, <2>5, <2>6, <2>7, <2>8, <2>9, <2>10, <2>11 DEF TokioNext,
       Step
<1>3. QED
  BY <1>1, <1>2, TokioTypeCorrect, PTL DEF TokioSpec

----------------------------------------------------------------------------
(* The counters *)

\* A call that changes its stage is counted at the new one instead of the old.
LEMMA MoveCounts ==
  ASSUME TokioTypeOK, NEW t \in Calls,
         NEW old \in Stages, NEW stage \in Stages,
         stages[t] = old, old # stage, Goto(t, stage)
  PROVE  /\ \A s \in Stages : In(s) \in Nat
         /\ In(stage)' = In(stage) + 1
         /\ In(old)' = In(old) - 1
         /\ \A s \in Stages \ {stage, old} : In(s)' = In(s)
<1> DEFINE At(s) == {u \in Calls : stages[u] = s}
           After(s) == {u \in Calls : stages'[u] = s}
<1>1. stages'[t] = stage /\ \A u \in Calls \ {t} : stages'[u] = stages[u]
  BY GotoType
<1>2. ASSUME NEW s
      PROVE  IsFiniteSet(At(s)) /\ In(s) = Cardinality(At(s)) /\ In(s) \in Nat
  <2>1. At(s) \subseteq Calls
    OBVIOUS
  <2>2. IsFiniteSet(At(s))
    BY <2>1, FS_Subset, CallsAssumption
  <2> QED
    BY <2>2, FS_CardinalityType DEF In
<1>3. ASSUME NEW s PROVE In(s)' = Cardinality(After(s))
  BY DEF In
<1>4. In(stage)' = In(stage) + 1
  <2>1. After(stage) = At(stage) \cup {t} /\ t \notin At(stage)
    BY <1>1
  <2> QED
    BY <1>2, <1>3, <2>1, FS_AddElement
<1>5. In(old)' = In(old) - 1
  <2>1. After(old) = At(old) \ {t} /\ t \in At(old)
    BY <1>1
  <2> DEFINE here == At(old)
  <2>2. IsFiniteSet(here) /\ t \in here
    BY <1>2, <2>1
  <2> HIDE DEF here
  <2>3. Cardinality(here \ {t}) = Cardinality(here) - 1
    BY <2>2, FS_RemoveElement
  <2> QED
    BY <1>2, <1>3, <2>1, <2>3 DEF here
<1>6. ASSUME NEW s \in Stages \ {stage, old} PROVE In(s)' = In(s)
  <2>1. After(s) = At(s)
    BY <1>1
  <2> QED
    BY <1>2, <1>3, <2>1
<1> QED
  BY <1>2, <1>4, <1>5, <1>6

\* Recording a send, field by field.
LEMMA RecordFields ==
  ASSUME TokioTypeOK
  PROVE  /\ record_success => /\ metrics'.send_calls = metrics.send_calls + 1
                              /\ metrics'.packets_sent = metrics.packets_sent + 1
                              /\ metrics'.send_errors = metrics.send_errors
         /\ record_error => /\ metrics'.send_calls = metrics.send_calls + 1
                            /\ metrics'.packets_sent = metrics.packets_sent
                            /\ metrics'.send_errors = metrics.send_errors + 1
  BY DEF TokioTypeOK, record_success, record_error

\* The counters tell what callers saw: on success, on failure, on a full buffer
\* in either build, and after a cancellation.
THEOREM CountersCorrect == TokioSpec => []CountersAgree
<1>1. TokioInit => CountersAgree
  <2> SUFFICES ASSUME TokioInit PROVE CountersAgree
    OBVIOUS
  <2>1. ASSUME NEW s, s # "idle" PROVE In(s) = 0
    <3>1. {t \in Calls : stages[t] = s} = {}
      BY <2>1 DEF TokioInit
    <3> QED
      BY <3>1, FS_EmptySet DEF In
  <2>2. In("ok") = 0 /\ In("error") = 0 /\ In("blocked") = 0
    BY <2>1
  <2>3. metrics.send_calls = 0 /\ metrics.packets_sent = 0 /\ metrics.send_errors = 0
    BY DEF TokioInit
  <2> QED
    BY <2>2, <2>3 DEF CountersAgree
<1>2. TokioTypeOK /\ CountersAgree /\ [TokioNext]_tokioVars => CountersAgree'
  <2> SUFFICES ASSUME TokioTypeOK, CountersAgree, [TokioNext]_tokioVars
               PROVE  CountersAgree'
    OBVIOUS
  <2> DEFINE calls == metrics.send_calls
             packets == metrics.packets_sent
             errors == metrics.send_errors
  <2>0. /\ calls \in Nat /\ packets \in Nat /\ errors \in Nat
        /\ packets = In("ok") /\ calls = packets + errors
        /\ IF unix THEN errors >= In("error") + In("blocked")
           ELSE errors = In("error")
    BY DEF TokioTypeOK, CountersAgree
  <2>1. ASSUME NEW t \in Calls, NEW stage \in Stages \ {"ok", "error", "blocked"},
               Goto(t, stage), stages[t] \notin {"ok", "error", stage},
               UNCHANGED <<unix, metrics>>
        PROVE  CountersAgree'
    <3>1. stages[t] \in Stages
      BY DEF TokioTypeOK
    <3>2. {"ok", "error", "blocked"} \subseteq Stages
      BY DEF Stages, Ended
    <3>3. /\ In("ok")' = In("ok") /\ In("error")' = In("error")
          /\ In("blocked")' \in {In("blocked"), In("blocked") - 1}
          /\ In("ok") \in Nat /\ In("error") \in Nat /\ In("blocked") \in Nat
      <4>1. CASE stages[t] = "blocked"
        BY <2>1, <3>1, <3>2, <4>1, MoveCounts
      <4>2. CASE stages[t] # "blocked"
        BY <2>1, <3>1, <3>2, <4>2, MoveCounts
      <4> QED
        BY <4>1, <4>2
    <3> QED
      BY <2>0, <2>1, <3>3 DEF CountersAgree
  <2>2. ASSUME NEW t \in Calls, stages[t] = "granted", Goto(t, "ok"), record_success,
               UNCHANGED unix
        PROVE  CountersAgree'
    <3>1. /\ In("ok")' = In("ok") + 1 /\ In("error")' = In("error")
          /\ In("blocked")' = In("blocked")
      BY <2>2, MoveCounts DEF Stages, Ended
    <3> QED
      BY <2>0, <2>2, <3>1, RecordFields DEF CountersAgree
  <2>3. ASSUME NEW t \in Calls, stages[t] = "granted", Goto(t, "error"), record_error,
               UNCHANGED unix
        PROVE  CountersAgree'
    <3>1. /\ In("error")' = In("error") + 1 /\ In("ok")' = In("ok")
          /\ In("blocked")' = In("blocked")
          /\ In("error") \in Nat /\ In("blocked") \in Nat
      BY <2>3, MoveCounts DEF Stages, Ended
    <3> QED
      BY <2>0, <2>3, <3>1, RecordFields DEF CountersAgree
  <2>4. ASSUME NEW t \in Calls, WouldBlock(t) PROVE CountersAgree'
    <3>1. /\ In("blocked")' = In("blocked") + 1 /\ In("ok")' = In("ok")
          /\ In("error")' = In("error")
          /\ In("error") \in Nat /\ In("blocked") \in Nat
      BY <2>4, MoveCounts DEF WouldBlock, Stages, Ended
    <3>2. unix' = unix
      BY <2>4 DEF WouldBlock
    <3>3. CASE unix
      BY <2>0, <2>4, <3>1, <3>2, <3>3, RecordFields DEF CountersAgree,
         WouldBlock
    <3>4. CASE ~unix
      BY <2>0, <2>4, <3>1, <3>2, <3>4 DEF CountersAgree, WouldBlock
    <3> QED
      BY <3>3, <3>4
  <2>5. ASSUME NEW t \in Calls, Begin(t) PROVE CountersAgree'
    BY <2>1, <2>5 DEF Begin, Stages, Awaiting
  <2>6. ASSUME NEW t \in Calls, Wake(t) PROVE CountersAgree'
    BY <2>1, <2>6 DEF Wake, Stages
  <2>7. ASSUME NEW t \in Calls, WakeFails(t) PROVE CountersAgree'
    BY <2>1, <2>7 DEF WakeFails, Stages, Ended
  <2>8. ASSUME NEW t \in Calls, TrySend(t) PROVE CountersAgree'
    BY <2>1, <2>8 DEF TrySend, Stages, Awaiting
  <2>9. ASSUME NEW t \in Calls, Sent(t) PROVE CountersAgree'
    BY <2>2, <2>9 DEF Sent, Enqueue
  <2>10. ASSUME NEW t \in Calls, ClearReady(t) PROVE CountersAgree'
    BY <2>1, <2>10 DEF ClearReady, Stages, Awaiting
  <2>11. ASSUME NEW t \in Calls, SendFails(t) PROVE CountersAgree'
    BY <2>3, <2>11 DEF SendFails
  <2>12. ASSUME NEW t \in Calls, CancelSend(t) PROVE CountersAgree'
    BY <2>1, <2>12 DEF CancelSend, Stages, Awaiting, Ended
  <2>13. CASE DrainBuffer \/ Deliver \/ Quiet \/ UNCHANGED tokioVars
    <3>1. UNCHANGED <<unix, stages, metrics>>
      BY <2>13 DEF DrainBuffer, Deliver, Quiet, tokioVars
    <3> QED
      BY <3>1 DEF CountersAgree, In
  <2> QED
    BY <2>4, <2>5, <2>6, <2>7, <2>8, <2>9, <2>10, <2>11, <2>12, <2>13 DEF TokioNext,
       Step
<1> QED
  BY <1>1, <1>2, TokioTypeCorrect, PTL DEF TokioSpec
=============================================================================
