------------------------------ MODULE PollSet ------------------------------
(***************************************************************************)
(* The set of descriptors a worker polls (xpoll.c), in the form that uses  *)
(* poll(): a list of xpoll_fd_t and an array of struct pollfd, tied        *)
(* together by pollfd_n.  A handler may take its own descriptor out of the *)
(* set while xpoll walks the list.                                         *)
(***************************************************************************)
EXTENDS Integers, Sequences, Lists

CONSTANT Fd               \* the descriptors that come and go

VARIABLES fds,            \* the list, newest first
          pollfd,         \* the array: records [fd, out, revents]
          pollfd_n,       \* the index each listed descriptor believes it has
          polling,        \* is xpoll walking the list?
          walk,           \* what it has still to visit
          ready,          \* what poll reported for this walk
          called          \* the handler calls of this walk

setVars == <<fds, pollfd, pollfd_n>>
walkVars == <<polling, walk, ready, called>>
pollVars == <<setVars, walkVars>>

Event == {"in", "out"}
NoEvents == [f \in Fd |-> {}]

PollInit ==
    /\ fds = <<>> /\ pollfd = <<>> /\ pollfd_n = [f \in Fd |-> 0]
    /\ polling = FALSE /\ walk = <<>> /\ ready = NoEvents /\ called = <<>>

Listed == Members(fds)

(* xpoll_add *)
Add(f) ==
    /\ ~polling /\ f \notin Listed
    /\ fds' = <<f>> \o fds
    /\ pollfd' = Append(pollfd, [fd |-> f, out |-> FALSE, revents |-> {}])
    /\ pollfd_n' = [pollfd_n EXCEPT ![f] = Len(pollfd) + 1]
    /\ UNCHANGED walkVars

(* xpoll_remove: the tail of the array is moved, the list is unlinked. *)
RemoveFromSet(f) ==
    /\ pollfd' = Without(pollfd, pollfd_n[f])
    /\ pollfd_n' = [g \in Fd |-> IF g \in Listed /\ pollfd_n[g] > pollfd_n[f]
                                 THEN pollfd_n[g] - 1 ELSE pollfd_n[g]]
    /\ fds' = Without(fds, CHOOSE k \in DOMAIN fds : fds[k] = f)

(* A client is closed between two walks. *)
TakeOut(f) ==
    /\ ~polling /\ f \in Listed
    /\ RemoveFromSet(f)
    /\ UNCHANGED walkVars

(* xpoll_outgoing *)
Outgoing(f, have) ==
    /\ pollfd' = [pollfd EXCEPT ![pollfd_n[f]].out = have]
    /\ UNCHANGED <<fds, pollfd_n>>

WriteSome(f) ==
    /\ ~polling /\ f \in Listed
    /\ \E have \in BOOLEAN : Outgoing(f, have)
    /\ UNCHANGED walkVars

(* poll reports what happened on the descriptors in the array. *)
Poll ==
    /\ ~polling /\ fds # <<>>
    /\ \E r \in [Fd -> SUBSET Event] :
         /\ \A f \in Fd \ Listed : r[f] = {}
         /\ \A k \in 1..Len(pollfd) : "out" \in r[pollfd[k].fd] => pollfd[k].out
         /\ pollfd' = [k \in 1..Len(pollfd) |-> [pollfd[k] EXCEPT !.revents = r[pollfd[k].fd]]]
         /\ ready' = r
    /\ polling' = TRUE /\ walk' = fds /\ called' = <<>>
    /\ UNCHANGED <<fds, pollfd_n>>

(* Mutant: the next one is looked up once the handler has returned. *)
NextVisitLate == IF Head(walk) \in Members(fds') THEN Tail(walk) ELSE <<>>

(* next = xfd->next is read before the handler is called. *)
NextVisit == Tail(walk)

(* A descriptor without events is passed over. *)
PassOver ==
    /\ polling /\ walk # <<>>
    /\ pollfd[pollfd_n[Head(walk)]].revents = {}
    /\ UNCHANGED <<setVars, polling, ready, called>>
    /\ walk' = NextVisit

(* The handler of a descriptor with events may close it or change whether  *)
(* output is polled for.                                                   *)
Handle ==
    /\ polling /\ walk # <<>>
    /\ \E f \in {Head(walk)} : \E ev \in {pollfd[pollfd_n[f]].revents} :
         /\ ev # {}
         /\ called' = Append(called, <<f, ev>>)
         /\ \/ RemoveFromSet(f)
            \/ \E have \in BOOLEAN : Outgoing(f, have)
    /\ UNCHANGED <<polling, ready>>
    /\ walk' = NextVisit

WalkDone ==
    /\ polling /\ walk = <<>>
    /\ polling' = FALSE /\ ready' = NoEvents /\ called' = <<>>
    /\ UNCHANGED <<setVars, walk>>

PollNext ==
    \/ \E f \in Fd : Add(f) \/ TakeOut(f) \/ WriteSome(f)
    \/ Poll \/ PassOver \/ Handle \/ WalkDone

PollSpec == PollInit /\ [][PollNext]_pollVars
-----------------------------------------------------------------------------

(* A walk calls the handler of each descriptor on which something happened *)
(* exactly once, with its own events, although handlers remove entries     *)
(* from the list and the array under the walk.                             *)
EachHandledOnce ==
    polling /\ walk = <<>> =>
      /\ Members(called) = {<<f, ready[f]>> : f \in {g \in Fd : ready[g] # {}}}
      /\ \A j, k \in DOMAIN called : called[j] = called[k] => j = k
=============================================================================
