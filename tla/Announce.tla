------------------------------ MODULE Announce ------------------------------
(***************************************************************************)
(* The announce stage: channels are rendered in registry order, their      *)
(* sends run on a bounded pool of detached workers, a collector harvests   *)
(* the results until an aggregate deadline, and the channels that took the *)
(* message are written to the per-version sent marker that a later run of  *)
(* the same dist directory reads.                                          *)
(*                                                                         *)
(* A send may hang for ever: no step of a worker is fair.  Lost answers,   *)
(* refusals, panics, failed marker writes, broken templates and kills are  *)
(* drawn from a budget of MaxFaults.                                       *)
(***************************************************************************)
EXTENDS Naturals, Sequences, FiniteSets, SequencesExt

CONSTANTS
  Channel,     \* the announcers whose enabled: template is truthy
  Registry,    \* those announcers in registry order
  PoolCap,     \* MAX_ANNOUNCE_WORKERS
  MaxAttempts, \* retry.max_attempts of the configuration
  MaxRuns,     \* bound: runs of the stage on one dist directory
  MaxFaults,   \* bound: how many things go wrong in a behaviour
  NoChannel

ASSUME AnnounceAssumption ==
  /\ Registry \in Seq(Channel)
  /\ \A c \in Channel : \E i \in 1..Len(Registry) : Registry[i] = c
  /\ \A i, j \in 1..Len(Registry) : Registry[i] = Registry[j] => i = j
  /\ PoolCap \in Nat \ {0}
  /\ MaxAttempts \in Nat \ {0}
  /\ MaxRuns \in Nat
  /\ MaxFaults \in Nat
  /\ NoChannel \notin Channel

VARIABLES
  \* the world
  posted,    \* [Channel -> Nat]: messages that reached the channel
  \* dist/.announce-sent-<version>.json: the channels on record, or torn
  marker,
  \* the main thread
  pc, record, errors, succeeded, abandoned, expected, expired,
  \* shared with the workers
  work, results, open,
  \* [1..PoolCap -> Worker]
  worker,
  \* bookkeeping of the model
  runs, faults,
  window     \* channels that may lawfully be posted to again

main == <<pc, record, errors, succeeded, abandoned, expected, expired>>
pool == <<work, results, open, worker>>
vars == <<posted, marker, main, pool, runs, faults, window>>

Torn == {NoChannel}
Pool == 1..PoolCap
Off == [at |-> "off", chan |-> NoChannel, tries |-> 0, ok |-> FALSE]
Worker == [at : {"off", "pop", "post", "answer", "tell"},
           chan : Channel \cup {NoChannel}, tries : Nat, ok : BOOLEAN]

\* The shape of the state: a type invariant for every variable.
AnnounceTypeOK ==
  /\ posted \in [Channel -> Nat]
  /\ marker \in {Torn} \cup SUBSET Channel
  /\ pc \in {"idle", "render", "collect", "drain", "close", "mark", "flush", "done"}
  /\ record \in SUBSET Channel
  /\ errors \in SUBSET Channel
  /\ abandoned \in SUBSET Channel
  /\ expected \in SUBSET Channel
  /\ succeeded \in Seq(Channel)
  /\ expired \in BOOLEAN
  /\ work \subseteq Channel
  /\ results \in Seq(Channel \X BOOLEAN)
  /\ open \in BOOLEAN
  /\ worker \in [Pool -> Worker]
  /\ runs \in Nat
  /\ faults \in Nat
  /\ window \in SUBSET Channel

Init ==
  /\ posted = [c \in Channel |-> 0]
  /\ marker = {}
  /\ pc = "idle"
  /\ record = {} /\ errors = {} /\ abandoned = {} /\ expected = {}
  /\ succeeded = <<>>
  /\ expired = FALSE
  /\ work = {} /\ results = <<>> /\ open = FALSE
  /\ worker = [w \in Pool |-> Off]
  /\ runs = 0 /\ faults = 0
  /\ window = {}

Fault == faults < MaxFaults /\ faults' = faults + 1

-----------------------------------------------------------------------------
(***************************************************************************)
(* The serial part: load the marker, render, enqueue.                      *)
(***************************************************************************)
\* Mutant: an unreadable marker is taken at its word.
LoadTorn(file) == file

\* An absent or unreadable marker means that nothing was sent yet.
load(file) == IF file = Torn THEN {} ELSE file

StartStage ==
  /\ pc = "idle" /\ runs < MaxRuns
  /\ runs' = runs + 1
  /\ pc' = "render"
  /\ record' = load(marker)
  /\ errors' = {} /\ abandoned' = {} /\ expected' = {}
  /\ succeeded' = <<>>
  /\ UNCHANGED <<posted, marker, expired, pool, faults, window>>

\* A broken enabled: template aborts the stage before anything is sent.
EnabledFails ==
  /\ pc = "render"
  /\ Fault
  /\ pc' = "idle"
  /\ UNCHANGED <<posted, marker, record, errors, succeeded, abandoned, expected,
                 expired, pool, runs, window>>

\* Mutant: the idempotency gate is dropped.
EnqueueEvery(broken) == {c \in Channel : c \notin broken}

\* What the render pass enqueues when the templates of `broken` fail.
Enqueue(broken) == {c \in Channel : c \notin record /\ c \notin broken}

\* As many workers as there are sends, up to the cap.
Spawned(n) == [w \in Pool |-> IF w <= n THEN [Off EXCEPT !.at = "pop"] ELSE Off]

Render ==
  /\ pc = "render"
  /\ \E broken \in SUBSET (Channel \ record) :
       /\ IF broken = {} THEN UNCHANGED faults ELSE Fault
       /\ errors' = broken
       /\ work' = Enqueue(broken)
       /\ expected' = Enqueue(broken)
       /\ worker' = Spawned(Cardinality(Enqueue(broken)))
       /\ open' = (Enqueue(broken) # {})
       /\ pc' = IF Enqueue(broken) = {} THEN "done" ELSE "collect"
  /\ results' = <<>>
  /\ expired' = FALSE
  /\ UNCHANGED <<posted, marker, record, succeeded, abandoned, runs, window>>

-----------------------------------------------------------------------------
(***************************************************************************)
(* A worker: pop, send with at most one retry, report.                     *)
(***************************************************************************)
Set(w, s) == worker' = [worker EXCEPT ![w] = s]

IsLast(c) ==
  \A i, j \in 1..Len(Registry) : Registry[i] = c /\ Registry[j] \in work => j <= i

\* The work list, in registry order, is popped from its end, whoever comes
\* first.
Pop(w) ==
  /\ worker[w].at = "pop"
  /\ \/ \E c \in work :
          /\ IsLast(c)
          /\ Set(w, [at |-> "post", chan |-> c, tries |-> 1, ok |-> FALSE])
          /\ work' = work \ {c}
     \/ /\ work = {}
        /\ Set(w, Off)
        /\ UNCHANGED work
  /\ UNCHANGED <<posted, marker, main, results, open, runs, faults, window>>

\* The request reaches the channel.
Deliver(w) ==
  /\ worker[w].at = "post"
  /\ posted' = [posted EXCEPT ![worker[w].chan] = @ + 1]
  /\ Set(w, [worker[w] EXCEPT !.at = "answer"])
  /\ UNCHANGED <<marker, main, work, results, open, runs, faults, window>>

\* The channel says yes.
Accept(w) ==
  /\ worker[w].at = "answer"
  /\ Set(w, [worker[w] EXCEPT !.at = "tell", !.ok = TRUE])
  /\ UNCHANGED <<posted, marker, main, work, results, open, runs, faults, window>>

\* The announce profile clamps the configured attempts to one retry.
announce_retry_policy == IF MaxAttempts < 2 THEN MaxAttempts ELSE 2

\* A transport failure or a 5xx, before the message arrived or after: retried
\* while the policy allows.  A retry of a message that arrived posts it again.
Unanswered(w) ==
  /\ worker[w].at \in {"post", "answer"}
  /\ Fault
  /\ Set(w, IF worker[w].tries < announce_retry_policy
            THEN [worker[w] EXCEPT !.at = "post", !.tries = @ + 1]
            ELSE [worker[w] EXCEPT !.at = "tell"])
  /\ window' = IF worker[w].at = "answer" THEN window \cup {worker[w].chan} ELSE window
  /\ UNCHANGED <<posted, marker, main, work, results, open, runs>>

\* The channel refuses: no retry.
Refuse(w) ==
  /\ worker[w].at = "post"
  /\ Fault
  /\ Set(w, [worker[w] EXCEPT !.at = "tell"])
  /\ UNCHANGED <<posted, marker, main, work, results, open, runs, window>>

\* A send that panics takes its worker with it, and its result.
Panic(w) ==
  /\ worker[w].at \in {"post", "answer"}
  /\ Fault
  /\ Set(w, Off)
  /\ window' = IF worker[w].at = "answer" THEN window \cup {worker[w].chan} ELSE window
  /\ UNCHANGED <<posted, marker, main, work, results, open, runs>>

\* A closed receiver stops the worker.
Tell(w) ==
  /\ worker[w].at = "tell"
  /\ \/ /\ open
        /\ results' = Append(results, <<worker[w].chan, worker[w].ok>>)
        /\ Set(w, [Off EXCEPT !.at = "pop"])
     \/ /\ ~open
        /\ Set(w, Off)
        /\ UNCHANGED results
  /\ UNCHANGED <<posted, marker, main, work, open, runs, faults, window>>

-----------------------------------------------------------------------------
(***************************************************************************)
(* The collector.                                                          *)
(***************************************************************************)
Reported == ToSet(succeeded) \cup (errors \cap expected)

Harvest ==
  LET c == Head(results)[1] IN
  /\ results' = Tail(results)
  /\ IF Head(results)[2]
     THEN succeeded' = Append(succeeded, c) /\ UNCHANGED errors
     ELSE errors' = errors \cup {c} /\ UNCHANGED succeeded

\* Mutant: the collector waits for as long as it takes.
DeadlineNeverPasses ==
  /\ pc = "collect" /\ ~expired
  /\ UNCHANGED vars

DeadlinePasses ==
  /\ pc = "collect" /\ ~expired
  /\ expired' = TRUE
  /\ UNCHANGED <<posted, marker, pc, record, errors, succeeded, abandoned,
                 expected, pool, runs, faults, window>>

Collect ==
  /\ pc = "collect" /\ ~expired /\ results # <<>>
  /\ Harvest
  /\ UNCHANGED <<posted, marker, pc, record, abandoned, expected, expired, work,
                 open, worker, runs, faults, window>>

Disconnected == results = <<>> /\ \A w \in Pool : worker[w].at = "off"

StopCollecting ==
  /\ pc = "collect"
  /\ expired \/ Reported = expected \/ Disconnected
  /\ pc' = "drain"
  /\ UNCHANGED <<posted, marker, record, errors, succeeded, abandoned, expected,
                 expired, pool, runs, faults, window>>

\* Results that are already there are harvested after the deadline.
Drain ==
  /\ pc = "drain" /\ results # <<>>
  /\ Harvest
  /\ UNCHANGED <<posted, marker, pc, record, abandoned, expected, expired, work,
                 open, worker, runs, faults, window>>

\* Not yet reported by any worker: in flight, about to report, or unpopped.
Undecided ==
  work \cup {worker[w].chan : w \in {v \in Pool : worker[v].chan # NoChannel}}

\* Mutant: the final drain is skipped.
AbandonUndrained ==
  /\ pc = "drain"
  /\ abandoned' = expected \ Reported
  /\ window' = window \cup Undecided
  /\ pc' = "close"
  /\ UNCHANGED <<posted, marker, record, errors, succeeded, expected, expired,
                 pool, runs, faults>>

\* The channels nobody reported are named in a warning.
Abandon ==
  /\ pc = "drain" /\ results = <<>>
  /\ abandoned' = expected \ Reported
  /\ window' = window \cup Undecided
  /\ pc' = "close"
  /\ UNCHANGED <<posted, marker, record, errors, succeeded, expected, expired,
                 pool, runs, faults>>

\* The receiver goes out of scope, with whatever arrived since the drain.
Close ==
  /\ pc = "close"
  /\ open' = FALSE
  /\ results' = <<>>
  /\ pc' = "mark"
  /\ UNCHANGED <<posted, marker, record, errors, succeeded, abandoned, expected,
                 expired, work, worker, runs, faults, window>>

-----------------------------------------------------------------------------
(***************************************************************************)
(* The marker: one flush per channel, after the join, written in place.    *)
(***************************************************************************)
Unmarked == {i \in 1..Len(succeeded) : succeeded[i] \notin record}

\* The successes are marked in the order in which they were harvested.
NextMark(c) == \E i \in Unmarked : c = succeeded[i] /\ \A j \in Unmarked : i <= j

\* Mutant: a channel that failed is put on record too.
MarkFailedToo ==
  /\ pc = "mark"
  /\ \E c \in Channel : NextMark(c) /\ record' = record \cup {c} \cup errors
  /\ marker' = Torn
  /\ pc' = "flush"
  /\ UNCHANGED <<posted, errors, succeeded, abandoned, expected, expired, pool,
                 runs, faults, window>>

mark_sent ==
  /\ pc = "mark"
  /\ \E c \in Channel : NextMark(c) /\ record' = record \cup {c}
  /\ marker' = Torn
  /\ pc' = "flush"
  /\ UNCHANGED <<posted, errors, succeeded, abandoned, expected, expired, pool,
                 runs, faults, window>>

flush ==
  /\ pc = "flush"
  /\ marker' = record
  /\ pc' = "mark"
  /\ UNCHANGED <<posted, record, errors, succeeded, abandoned, expected, expired,
                 pool, runs, faults, window>>

\* The write fails, before the file was truncated or after: logged, no more.
MarkerWriteFails ==
  /\ \/ /\ pc = "mark"
        /\ \E c \in Channel : NextMark(c) /\ record' = record \cup {c}
     \/ pc = "flush" /\ UNCHANGED record
  /\ Fault
  /\ window' = window \cup record'
  /\ pc' = "mark"
  /\ UNCHANGED <<posted, marker, errors, succeeded, abandoned, expected, expired,
                 pool, runs>>

EndStage ==
  /\ pc = "mark" /\ Unmarked = {}
  /\ pc' = "done"
  /\ UNCHANGED <<posted, marker, record, errors, succeeded, abandoned, expected,
                 expired, pool, runs, faults, window>>

-----------------------------------------------------------------------------
(***************************************************************************)
(* The process ends, and takes the detached workers with it.               *)
(***************************************************************************)
Stopped ==
  /\ pc' = "idle"
  /\ worker' = [w \in Pool |-> Off]
  /\ work' = {} /\ results' = <<>> /\ open' = FALSE

Exit ==
  /\ pc = "done"
  /\ Stopped
  /\ UNCHANGED <<posted, marker, record, errors, succeeded, abandoned, expected,
                 expired, runs, faults, window>>

\* A kill loses what no flush has written.
Kill ==
  /\ pc \notin {"idle", "done"}
  /\ Fault
  /\ Stopped
  /\ window' = window \cup ((expected \cup record) \ load(marker))
  /\ UNCHANGED <<posted, marker, record, errors, succeeded, abandoned, expected,
                 expired, runs>>

\* The operator has no more reason to announce.
Rest == pc = "idle" /\ runs = MaxRuns /\ UNCHANGED vars

Main ==
  \/ StartStage \/ EnabledFails \/ Render
  \/ DeadlinePasses \/ Collect \/ StopCollecting \/ Drain \/ Abandon \/ Close
  \/ mark_sent \/ flush \/ MarkerWriteFails \/ EndStage
  \/ Exit \/ Kill \/ Rest

Work(w) ==
  \/ Pop(w) \/ Deliver(w) \/ Accept(w) \/ Unanswered(w) \/ Refuse(w)
  \/ Panic(w) \/ Tell(w)

Next == Main \/ \E w \in Pool : Work(w)

Spec == Init /\ [][Next]_vars

\* Time passes and the main thread runs; a send may hang for ever.
Fairness ==
  /\ WF_vars(DeadlinePasses)
  /\ WF_vars(StopCollecting) /\ WF_vars(Drain) /\ WF_vars(Abandon)
  /\ WF_vars(Close) /\ WF_vars(mark_sent) /\ WF_vars(flush) /\ WF_vars(EndStage)

FairSpec == Spec /\ Fairness

-----------------------------------------------------------------------------
(***************************************************************************)
(* What the stage must do.                                                 *)
(***************************************************************************)
\* The marker is what Delivery calls the record.
Promise == INSTANCE Delivery WITH recorded <- load(marker)

\* The stage implements Delivery: no channel that a readable marker names is
\* posted to, and none is named that no message has reached (dispatch_active's
\* idempotency gate and its record of successful sends).
KeepsPromise == Promise!Spec

\* A channel that took no message in any run is named in a warning of the
\* stage that ends: neither the marker nor the deadline hides it.
NoSilentLoss ==
  pc = "done" => \A c \in Channel : posted[c] > 0 \/ c \in errors \cup abandoned

\* A channel is posted to twice only through a window the code leaves open:
\* an answer lost after the message arrived, a send unreported at the final
\* drain, a process killed before its flush or a marker that was not written.
DuplicatesExcused == \A c \in Channel : posted[c] > 1 => c \in window

\* run_queue returns although a channel hangs: the stage ends, or is killed.
StageReturns == pc = "collect" ~> pc \in {"done", "idle"}
=============================================================================
