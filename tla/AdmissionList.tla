--------------------------- MODULE AdmissionList ---------------------------
(***************************************************************************)
(* CompilationAdmission with the pending list as the code keeps it: a      *)
(* doubly linked list threaded through the requests, relinked by           *)
(* #enqueueCompilation and #removeQueuedCompilation, and drained by the    *)
(* loop of #startQueuedCompilations.  It implements CompilationAdmission:  *)
(* its queue is the walk from the first request along the next links, and  *)
(* every handler, written here statement by statement, is a step of it.    *)
(***************************************************************************)
EXTENDS CompilationAdmission

CONSTANT Undefined   \* the absent link

(* Requests are numbered in the order of the calls that made them.         *)
ASSUME ListAssumption == Requests = 1 .. Cardinality(Requests) /\ Undefined \notin Requests

VARIABLE
    list   \* [first, last: #first/#lastPendingCompilation,
           \*  previous, next, queued: the fields of each PendingCompilation]

listVars == <<vars, list>>

Link == Requests \cup {Undefined}

(* The value of the only member of a set: TLC evaluates what defines the   *)
(* member once.                                                            *)
Only(S) == CHOOSE x \in S : TRUE

(* A walk that starts at r, continued by one request where there is one.   *)
Further(path, r, links) ==
    LET following == IF path = <<>> THEN r ELSE links[path[Len(path)]]
    IN  IF following = Undefined THEN path ELSE Append(path, following)

(* The walk from r along one direction of links, at most bound requests.   *)
Walk(r, links, bound) ==
    LET path[n \in 0 .. bound] ==
            IF n = 0 THEN <<>> ELSE Only({Further(p, r, links) : p \in {path[n - 1]}})
    IN  path[bound]

Forward(l) == Walk(l.first, l.next, Cardinality(Requests))

Backward(l) == Walk(l.last, l.previous, Cardinality(Requests))

-----------------------------------------------------------------------------
Enqueue(l, r) ==
    [first    |-> IF l.last = Undefined THEN r ELSE l.first,
     last     |-> r,
     previous |-> [l.previous EXCEPT ![r] = l.last],
     next     |-> IF l.last = Undefined THEN l.next ELSE [l.next EXCEPT ![l.last] = r],
     queued   |-> [l.queued EXCEPT ![r] = TRUE]]

(* Where links lead when the request x on one side is unlinked.            *)
Relinked(links, r, x, to) ==
    [q \in Requests |-> IF q = r THEN Undefined ELSE IF q = x THEN to ELSE links[q]]

MutantRemoveForgetsLast(l, r) ==
    LET p == l.previous[r]
        n == l.next[r]
    IN  [first    |-> IF p = Undefined THEN n ELSE l.first,
         last     |-> l.last,
         previous |-> Relinked(l.previous, r, n, p),
         next     |-> Relinked(l.next, r, p, n),
         queued   |-> [l.queued EXCEPT ![r] = FALSE]]

Remove(l, r) ==
    LET p == l.previous[r]
        n == l.next[r]
    IN  [first    |-> IF p = Undefined THEN n ELSE l.first,
         last     |-> IF n = Undefined THEN p ELSE l.last,
         previous |-> Relinked(l.previous, r, n, p),
         next     |-> Relinked(l.next, r, p, n),
         queued   |-> [l.queued EXCEPT ![r] = FALSE]]

(* What a handler works on: the list, the counters, the promises and the   *)
(* registered listeners.                                                   *)
Handler(l, count, bytes, states, heard) ==
    [list |-> l, count |-> count, bytes |-> bytes, state |-> states, listening |-> heard]

Here == Handler(list, activeCount, activeWeight, state, listening)

(* #startCompilation: unhook the listener, then reject or start.           *)
StartCompilation(c, r, w, s) ==
    LET unhooked == [c EXCEPT !.listening = @ \ {r}]
    IN  IF s \in aborted THEN [unhooked EXCEPT !.state[r] = "cancelled"]
        ELSE [unhooked EXCEPT !.state[r] = "active", !.count = @ + 1, !.bytes = @ + w]

(* One turn of the loop of #startQueuedCompilations; it changes nothing    *)
(* where the loop ends.                                                    *)
StartFirst(c) ==
    LET r == c.list.first IN
    IF r = Undefined \/ ~CanStartCompilation(c.count, c.bytes, weight[r]) THEN c
    ELSE StartCompilation([c EXCEPT !.list = Remove(@, r)], r, weight[r], signal[r])

(* The loop.  It takes a request off the list in each turn.                *)
StartQueued(handler) ==
    LET after[n \in 0 .. Cardinality(Requests)] ==
            IF n = 0 THEN handler ELSE Only({StartFirst(c) : c \in {after[n - 1]}})
    IN  after[Cardinality(Requests)]

Become(handler) ==
    \E c \in {handler} :
        /\ list' = c.list
        /\ queue' = Forward(c.list)
        /\ activeCount' = c.count
        /\ activeWeight' = c.bytes
        /\ state' = c.state
        /\ listening' = c.listening

-----------------------------------------------------------------------------
ListInit ==
    /\ Init
    /\ list = [first |-> Undefined, last |-> Undefined,
               previous |-> [r \in Requests |-> Undefined],
               next |-> [r \in Requests |-> Undefined],
               queued |-> [r \in Requests |-> FALSE]]

IsNextCall(r) == state[r] = "idle" /\ \A q \in 1 .. (r - 1) : state[q] # "idle"

MutantAdmitPastTheQueue(r, estimate, s) ==
    LET w == AdmissionWeight(estimate) IN
    /\ IsNextCall(r)
    /\ weight' = [weight EXCEPT ![r] = w]
    /\ signal' = [signal EXCEPT ![r] = s]
    /\ IF CanStartCompilation(activeCount, activeWeight, w)
       THEN Become(StartCompilation(Here, r, w, s))
       ELSE Become(Handler(Enqueue(list, r), activeCount, activeWeight,
                           [state EXCEPT ![r] = "queued"],
                           IF s = NoSignal \/ s \in aborted THEN listening
                           ELSE listening \cup {r}))
    /\ UNCHANGED aborted

Admit(r, estimate, s) ==
    LET w == AdmissionWeight(estimate) IN
    /\ IsNextCall(r)
    /\ weight' = [weight EXCEPT ![r] = w]
    /\ signal' = [signal EXCEPT ![r] = s]
    /\ IF list.first = Undefined /\ CanStartCompilation(activeCount, activeWeight, w)
       THEN Become(StartCompilation(Here, r, w, s))
       ELSE Become(Handler(Enqueue(list, r), activeCount, activeWeight,
                           [state EXCEPT ![r] = "queued"],
                           IF s = NoSignal \/ s \in aborted THEN listening
                           ELSE listening \cup {r}))
    /\ UNCHANGED aborted

AbortSignal(s) == Abort(s) /\ UNCHANGED list

MutantListenerWithoutDrain(r) ==
    /\ r \in listening
    /\ signal[r] \in aborted
    /\ Become(Handler(Remove(list, r), activeCount, activeWeight,
                      [state EXCEPT ![r] = "cancelled"], listening \ {r}))
    /\ UNCHANGED <<weight, signal, aborted>>

AbortListener(r) ==
    /\ r \in listening
    /\ signal[r] \in aborted
    /\ LET heard == listening \ {r}
       IN  Become(IF ~list.queued[r]
                  THEN Handler(list, activeCount, activeWeight, state, heard)
                  ELSE StartQueued(Handler(Remove(list, r), activeCount, activeWeight,
                                           [state EXCEPT ![r] = "cancelled"], heard)))
    /\ UNCHANGED <<weight, signal, aborted>>

MutantSettleStopsTheQueue(r, outcome) ==
    /\ state[r] = "active"
    /\ LET settled == Handler(list, activeCount - 1, activeWeight - weight[r],
                              [state EXCEPT ![r] = outcome], listening)
       IN  Become(IF outcome = "failed" THEN settled ELSE StartQueued(settled))
    /\ UNCHANGED <<weight, signal, aborted>>

Settle(r, outcome) ==
    /\ state[r] = "active"
    /\ Become(StartQueued(Handler(list, activeCount - 1, activeWeight - weight[r],
                                  [state EXCEPT ![r] = outcome], listening)))
    /\ UNCHANGED <<weight, signal, aborted>>

ListNext ==
    \/ \E r \in Requests, e \in Estimates, s \in Signals \cup {NoSignal} : Admit(r, e, s)
    \/ \E s \in Signals : AbortSignal(s)
    \/ \E r \in Requests : AbortListener(r)
    \/ \E r \in Requests, outcome \in {"resolved", "failed"} : Settle(r, outcome)

(* As for CompilationAdmission: compilations settle, listeners run.        *)
ListSpec ==
    /\ ListInit /\ [][ListNext]_listVars
    /\ \A r \in Requests : WF_listVars(\E outcome \in {"resolved", "failed"} : Settle(r, outcome))
    /\ \A r \in Requests : WF_listVars(AbortListener(r))

-----------------------------------------------------------------------------
(* The linked list and its loop implement the admission specification,     *)
(* whose queue is the walk along the links: same starts, same order.       *)
Admission == INSTANCE CompilationAdmission WITH queue <- Forward(list)
ImplementsAdmission == Admission!Spec
=============================================================================
