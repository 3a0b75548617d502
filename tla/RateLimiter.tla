---------------------------- MODULE RateLimiter ----------------------------
(***************************************************************************)
(* app/core/rate_limit.py: InMemoryRateLimiter.check, run by the threads   *)
(* that serve requests.                                                    *)
(*                                                                         *)
(* check reads time.monotonic() before it takes the lock; between the two  *)
(* other threads may run and time may pass.  All that happens under the    *)
(* lock is one step.  A deque is a sequence of the readings it holds.  The *)
(* state is the process's own: a restart forgets it.                       *)
(***************************************************************************)
EXTENDS Naturals, Sequences, FiniteSets

CONSTANTS
    Threads,       \* request threads of the process, finitely many
    Keys,          \* client hosts, or usernames
    MaxRequests,   \* max_requests
    Window,        \* window_seconds
    MaxTime,       \* bound: latest reading of the monotonic clock
    MaxAllowed,    \* bound: calls of a key let through
    MaxRestarts,   \* bound: restarts of the process
    NULL

ASSUME LimiterAssumption ==
    /\ MaxRequests \in Nat \ {0} /\ Window \in Nat \ {0}
    /\ MaxTime \in Nat /\ MaxAllowed \in Nat
    /\ MaxRestarts \in Nat
    /\ IsFiniteSet(Threads) /\ Threads # {}

VARIABLES
    hits,       \* _hits: the deque of each key, empty until it is first used
    clock,      \* time.monotonic()
    call        \* the check each thread is in, [key, now], or NULL

VARIABLES
    allowed,    \* history: the calls of each key let through, [now, at]
    started     \* history: when each run of the process began

vars == <<hits, clock, call, allowed, started>>

Init ==
    /\ hits = [k \in Keys |-> <<>>]
    /\ clock = 0
    /\ call = [t \in Threads |-> NULL]
    /\ allowed = [k \in Keys |-> <<>>]
    /\ started = <<0>>

InProgress(key) == {t \in Threads : call[t] # NULL /\ call[t].key = key}

\* now = time.monotonic(), before the lock.
ReadClock(t) ==
    /\ call[t] = NULL
    /\ \E key \in Keys :
         /\ Len(allowed[key]) + Cardinality(InProgress(key)) < MaxAllowed
         /\ call' = [call EXCEPT ![t] = [key |-> key, now |-> clock]]
    /\ UNCHANGED <<hits, clock, allowed, started>>

\* Mutant: the window is forgotten.
ExpiredAtOnce(hit, now) == hit < now

\* hit < cutoff, with cutoff = now - Window.
Expired(hit, now) == hit + Window < now

\* The pops at the head stop at the first hit that has not expired, whatever
\* is behind it.
Pruned(deque, now) ==
    LET popped == {i \in 1..Len(deque) : \A j \in 1..i : Expired(deque[j], now)}
    IN  SubSeq(deque, Cardinality(popped) + 1, Len(deque))

\* Mutant: the pruned deque is not kept.
AllowUnpruned(t) ==
    /\ call[t] # NULL
    /\ LET key  == call[t].key
           kept == Pruned(hits[key], call[t].now)
       IN  /\ Len(kept) < MaxRequests
           /\ hits' = [hits EXCEPT ![key] = Append(@, call[t].now)]
           /\ allowed' = [allowed EXCEPT ![key] = Append(@, [now |-> call[t].now, at |-> clock])]
    /\ call' = [call EXCEPT ![t] = NULL]
    /\ UNCHANGED <<clock, started>>

\* Under the lock: prune, and let through.
Allow(t) ==
    /\ call[t] # NULL
    /\ LET key  == call[t].key
           kept == Pruned(hits[key], call[t].now)
       IN  /\ Len(kept) < MaxRequests
           /\ hits' = [hits EXCEPT ![key] = Append(kept, call[t].now)]
           /\ allowed' = [allowed EXCEPT ![key] = Append(@, [now |-> call[t].now, at |-> clock])]
    /\ call' = [call EXCEPT ![t] = NULL]
    /\ UNCHANGED <<clock, started>>

\* Mutant: the deque is counted before it is pruned.
DenyUnpruned(t) ==
    /\ call[t] # NULL
    /\ LET key  == call[t].key
           kept == Pruned(hits[key], call[t].now)
       IN  /\ Len(hits[key]) >= MaxRequests
           /\ hits' = [hits EXCEPT ![key] = kept]
    /\ call' = [call EXCEPT ![t] = NULL]
    /\ UNCHANGED <<clock, allowed, started>>

\* Under the lock: prune, and turn away with 429.  The code returns before it
\* appends to the deque: a denied call leaves no reading.
Deny(t) ==
    /\ call[t] # NULL
    /\ LET key  == call[t].key
           kept == Pruned(hits[key], call[t].now)
       IN  /\ Len(kept) >= MaxRequests
           /\ hits' = [hits EXCEPT ![key] = kept]
    /\ call' = [call EXCEPT ![t] = NULL]
    /\ UNCHANGED <<clock, allowed, started>>

Tick ==
    /\ clock < MaxTime
    /\ clock' = clock + 1
    /\ UNCHANGED <<hits, call, allowed, started>>

\* The process stops and another takes its place: calls in progress and all
\* deques are gone.  The monotonic clock is the machine's.
Restart ==
    /\ Len(started) <= MaxRestarts
    /\ hits' = [k \in Keys |-> <<>>]
    /\ call' = [t \in Threads |-> NULL]
    /\ started' = Append(started, clock)
    /\ UNCHANGED <<clock, allowed>>

Next == (\E t \in Threads : ReadClock(t) \/ Allow(t) \/ Deny(t)) \/ Tick \/ Restart

Spec == Init /\ [][Next]_vars

-----------------------------------------------------------------------------
(* Correctness.                                                            *)

\* Types, and the bound on the memory a key takes: its deque never outgrows
\* the limit.
TypeOK ==
    /\ clock \in 0..MaxTime
    /\ \A t \in Threads : call[t] # NULL =>
         (call[t].key \in Keys /\ call[t].now \in 0..clock)
    /\ \A k \in Keys : /\ Len(hits[k]) <= MaxRequests
                       /\ \A i \in 1..Len(hits[k]) : hits[k][i] \in 0..clock

\* The calls of key let through whose own reading lies in the window that
\* ends at time end.
InWindow(key, end) ==
    {i \in 1..Len(allowed[key]) : /\ allowed[key][i].now <= end
                                  /\ end <= allowed[key][i].now + Window}

\* The runs of the process that were up at some time of that window.
RunsInWindow(end) ==
    {n \in DOMAIN started : /\ started[n] <= end
                            /\ n < Len(started) => end <= started[n + 1] + Window}

\* How many calls a stale reading may let through.
Late == IF MaxRequests = 1 THEN 0 ELSE Cardinality(Threads) - 1

\* The limit of the class, "at most max_requests per key within any trailing
\* window_seconds window", as far as the code keeps it.  A call with a later
\* reading prunes the window's calls and takes one place; calls whose reading
\* is of the window may then take others, one per further thread.  For a
\* single thread, or a limit of one, the limit is exact.  Each run of the
\* process within the window counts afresh.
OverrunBounded ==
    \A k \in Keys, end \in 0..MaxTime :
      Cardinality(InWindow(k, end)) <= Cardinality(RunsInWindow(end)) * (MaxRequests + Late)

\* What the class comment says of a process, whatever its threads do.  It holds
\* for one thread; with more the code does not keep it, because a call whose
\* reading is older than that of a call before it is let through on the places
\* that call freed.
LimitIsExact ==
    \A k \in Keys, end \in 0..MaxTime : Cardinality(InWindow(k, end)) <= MaxRequests

\* Nobody is turned away without cause: when a call is denied, max_requests
\* calls of its key have been let through since the start of its window,
\* though stale readings may sit behind a fresh one in the deque.  So calls
\* that were denied do not keep their key out.  This is what lines 56 to 59 of
\* rate_limit.py do; the docstring of check (lines 45 to 48) says otherwise:
\* "Records this attempt [...] Every call counts against the limit".
DenialsAreJustified ==
    [][\A t \in Threads : Deny(t) =>
         LET mine == allowed[call[t].key]
         IN  Cardinality({i \in 1..Len(mine) : call[t].now <= mine[i].at + Window})
               >= MaxRequests]_vars

-----------------------------------------------------------------------------
(* The inductive invariant behind these properties.                        *)

\* Calls let through, in their order; not before their own reading.
AllowedInv ==
    /\ allowed = [k \in Keys |-> allowed[k]]
    /\ \A k \in Keys :
         /\ allowed[k] \in Seq([now : Nat, at : Nat])
         /\ \A i \in 1..Len(allowed[k]) :
              allowed[k][i].now <= allowed[k][i].at /\ allowed[k][i].at <= clock
         /\ \A i, j \in 1..Len(allowed[k]) : (i < j) => (allowed[k][i].at <= allowed[k][j].at)

\* Calls let through that the deque of key does not hold any more.
Gone(key) == Len(allowed[key]) - Len(hits[key])

\* A deque holds the readings of the last calls let through.
DequesInv ==
    \A k \in Keys : /\ Gone(k) \in Nat
                    /\ \A j \in 1..Len(hits[k]) : hits[k][j] = allowed[k][Gone(k) + j].now

StartedInv ==
    /\ started \in Seq(Nat) /\ started # <<>>
    /\ started[Len(started)] <= clock
    /\ \A t \in Threads : (call[t] # NULL) => (started[Len(started)] <= call[t].now)

PastRuns(end) == RunsInWindow(end) \ {Len(started)}

\* Of the calls in the window, those of earlier runs and those of this one,
\* which are the calls after the first so many.
Earlier(key, end, first) == {i \in InWindow(key, end) : i <= first}
Current(key, end, first) == {i \in InWindow(key, end) : first < i}

\* Threads that may still add to the window.
Stale(key, end) == {t \in InProgress(key) : call[t].now <= end}

\* This run's calls in the window are all in the deque; or a call with a
\* later reading has been let through, and then no thread adds more than its
\* one stale call, and none if the limit is one.
WindowInv(key, end, first) ==
    /\ Cardinality(Earlier(key, end, first)) <= Cardinality(PastRuns(end)) * (MaxRequests + Late)
    /\ \/ \A i \in Current(key, end, first) : Gone(key) < i
       \/ /\ MaxRequests # 1 /\ end < clock
          /\ Cardinality(Current(key, end, first)) + Cardinality(Stale(key, end)) <= MaxRequests + Late
       \/ /\ MaxRequests = 1 /\ Cardinality(Current(key, end, first)) <= 1
          /\ Len(hits[key]) = 1 /\ end < hits[key][1]

RunInv(key, first) ==
    /\ \A i \in 1..Len(allowed[key]) : (first < i) => (started[Len(started)] <= allowed[key][i].now)
    /\ \A end \in 0..MaxTime : WindowInv(key, end, first)

OverrunInv == \A k \in Keys : \E first \in 0..Len(allowed[k]) : RunInv(k, first)
=============================================================================
