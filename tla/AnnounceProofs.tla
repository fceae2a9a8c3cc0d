--------------------------- MODULE AnnounceProofs ---------------------------
(***************************************************************************)
(* Theorems about Announce, for any set of channels, any pool, any number  *)
(* of runs and any number of faults.                                       *)
(***************************************************************************)
EXTENDS Announce, SequenceTheorems, TLAPS

-----------------------------------------------------------------------------
(***************************************************************************)
(* Where a channel can be while a run is on: queued (work), held by a      *)
(* worker, reported and not yet harvested, or harvested as a success.      *)
(***************************************************************************)
Reports == ToSet(results)
Done == ToSet(succeeded)

Past == {"close", "mark", "flush", "done"}

\* The message of worker w is known to have reached its channel.
Sent(w) == worker[w].at = "answer" \/ (worker[w].at = "tell" /\ worker[w].ok)

\* Worker w has not reached its channel, or may not have.
Unsent(w) == worker[w].at = "post" \/ (worker[w].at = "tell" /\ ~worker[w].ok)

\* A worker with a send in hand names its channel, only an answer makes it a
\* success, the pool is empty until the render pass is over, and the receiver
\* is open until the collector is through.
PoolShape ==
  /\ \A w \in Pool : /\ worker[w].chan = NoChannel <=> worker[w].at \in {"off", "pop"}
                     /\ worker[w].ok => worker[w].at = "tell"
  /\ pc \in {"idle", "render"} => work = {} /\ results = <<>> /\ \A w \in Pool : worker[w] = Off
  /\ pc \in {"collect", "drain", "close"} => open

\* A channel is in one place only.
ReportedOnce == \A i, j \in 1..Len(results) : results[i][1] = results[j][1] => i = j

OnePlace ==
  /\ \A v, w \in Pool : worker[v].chan = worker[w].chan /\ worker[v].chan # NoChannel => v = w
  /\ \A w \in Pool : worker[w].chan \notin work
  /\ \A r \in Reports : r[1] \notin work /\ \A w \in Pool : worker[w].chan # r[1]
  /\ pc # "idle" => \A c \in Done : /\ c \notin work
                                    /\ \A w \in Pool : worker[w].chan # c
                                    /\ \A r \in Reports : r[1] # c

\* Only what the render pass enqueued is sent, and nothing on record.
OnlyExpected ==
  pc # "idle" => /\ work \subseteq expected \ record
                 /\ \A w \in Pool : worker[w].chan # NoChannel => worker[w].chan \in expected \ record
                 /\ \A r \in Reports : r[1] \in expected \ record
                 /\ Done \subseteq expected

\* The record of the run and the marker it came from.
MarkerShape ==
  /\ pc = "render" => record = load(marker) /\ expected = {} /\ succeeded = <<>>
  /\ pc = "flush" => marker = Torn
  /\ pc # "idle" => load(marker) \subseteq record
  /\ pc \notin {"idle", "flush"} => record \ window \subseteq load(marker)
  /\ pc = "done" => Done \subseteq record

\* What counts as sent has arrived.
Arrived ==
  /\ \A c \in load(marker) : posted[c] > 0
  /\ pc # "idle" => \A c \in record \cup Done : posted[c] > 0
  /\ \A r \in Reports : r[2] => posted[r[1]] > 0
  /\ \A w \in Pool : Sent(w) => posted[worker[w].chan] > 0

\* After the final drain, whatever is not harvested may be sent again.
LateIsExcused ==
  pc \in Past => /\ work \subseteq window
                 /\ \A w \in Pool : worker[w].chan # NoChannel => worker[w].chan \in window
                 /\ \A r \in Reports : r[1] \in window

\* Outside the window, a channel about to be posted to has no message yet.
NotYet ==
  /\ \A c \in work \ window : posted[c] = 0
  /\ \A w \in Pool : Unsent(w) /\ worker[w].chan \notin window => posted[worker[w].chan] = 0
  /\ \A r \in Reports : ~r[2] /\ r[1] \notin window => posted[r[1]] = 0

\* Outside the window, a channel with a message is on its way to the record.
Traced ==
  \A c \in Channel \ window : posted[c] > 0 =>
    IF pc = "idle" THEN c \in load(marker)
    ELSE \/ c \in record \cup Done
         \/ \E w \in Pool : worker[w].chan = c /\ Sent(w)
         \/ <<c, TRUE>> \in Reports

\* Every channel of the run is on record, broken, or expected; after the drain
\* the expected ones are reported or abandoned.
Accounted ==
  /\ pc \notin {"idle", "render"} => Channel \subseteq record \cup errors \cup expected
  /\ pc \in Past => expected \subseteq Done \cup errors \cup abandoned

AnnounceInv ==
  /\ AnnounceTypeOK
  /\ PoolShape
  /\ ReportedOnce
  /\ OnePlace
  /\ OnlyExpected
  /\ MarkerShape
  /\ Arrived
  /\ LateIsExcused
  /\ NotYet
  /\ Traced
  /\ Accounted
  /\ DuplicatesExcused
-----------------------------------------------------------------------------
(***************************************************************************)
(* Sequences as sets of their elements.                                    *)
(***************************************************************************)
\* The elements after an Append.
LEMMA AppendSet ==
  ASSUME NEW S, NEW s \in Seq(S), NEW e \in S
  PROVE  ToSet(Append(s, e)) = ToSet(s) \cup {e}
<1>1. DOMAIN s = 1..Len(s) /\ DOMAIN Append(s, e) = 1..(Len(s) + 1) /\ Len(s) \in Nat
  BY AppendProperties, LenProperties
<1> QED BY <1>1, AppendProperties DEF ToSet

\* The elements of a sequence are its head and those of its tail.
LEMMA TailSet ==
  ASSUME NEW S, NEW s \in Seq(S), s # <<>>
  PROVE  ToSet(s) = ToSet(Tail(s)) \cup {Head(s)}
<1>1. /\ Tail(s) \in Seq(S) /\ Len(s) \in Nat /\ Len(s) > 0
      /\ Head(s) = s[1]
      /\ DOMAIN s = 1..Len(s) /\ DOMAIN Tail(s) = 1..(Len(s) - 1)
      /\ \A i \in 1..(Len(s) - 1) : Tail(s)[i] = s[i + 1]
  BY HeadTailProperties, LenProperties, EmptySeq
<1>2. ASSUME NEW x \in ToSet(s) PROVE x \in ToSet(Tail(s)) \cup {Head(s)}
  <2>1. PICK i \in 1..Len(s) : x = s[i]
    BY <1>1, <1>2 DEF ToSet
  <2>2. CASE i = 1
    BY <1>1, <2>1, <2>2
  <2>3. CASE i # 1
    <3>1. i - 1 \in 1..(Len(s) - 1) /\ x = Tail(s)[i - 1]
      BY <1>1, <2>1, <2>3
    <3> QED BY <1>1, <3>1 DEF ToSet
  <2> QED BY <2>2, <2>3
<1>3. ASSUME NEW x \in ToSet(Tail(s)) \cup {Head(s)} PROVE x \in ToSet(s)
  <2>1. CASE x = Head(s)
    BY <1>1, <2>1 DEF ToSet
  <2>2. CASE x \in ToSet(Tail(s))
    <3>1. PICK i \in 1..(Len(s) - 1) : x = Tail(s)[i]
      BY <1>1, <2>2 DEF ToSet
    <3>2. i + 1 \in 1..Len(s) /\ x = s[i + 1]
      BY <1>1, <3>1
    <3> QED BY <1>1, <3>2 DEF ToSet
  <2> QED BY <1>3, <2>1, <2>2
<1> QED BY <1>2, <1>3

\* The empty sequence has no elements.
LEMMA EmptySet == ToSet(<<>>) = {}
BY DEF ToSet

\* The elements of a typed sequence.
LEMMA ElementSet ==
  ASSUME NEW S, NEW s \in Seq(S)
  PROVE  ToSet(s) \subseteq S /\ ToSet(s) = {s[i] : i \in 1..Len(s)}
BY LenProperties, ElementOfSeq DEF ToSet

-----------------------------------------------------------------------------
(***************************************************************************)
(* What the steps do to those sets.                                        *)
(***************************************************************************)
\* The states a worker goes through are worker states.
LEMMA WorkerTypes ==
  /\ Off \in Worker /\ [Off EXCEPT !.at = "pop"] \in Worker
  /\ \A c \in Channel : [at |-> "post", chan |-> c, tries |-> 1, ok |-> FALSE] \in Worker
  /\ \A x \in Worker : /\ [x EXCEPT !.at = "answer"] \in Worker
                       /\ [x EXCEPT !.at = "tell", !.ok = TRUE] \in Worker
                       /\ [x EXCEPT !.at = "tell"] \in Worker
                       /\ [x EXCEPT !.at = "post", !.tries = @ + 1] \in Worker
<1>1. Off \in Worker /\ [Off EXCEPT !.at = "pop"] \in Worker
  BY DEF Off, Worker
<1>2. \A c \in Channel : [at |-> "post", chan |-> c, tries |-> 1, ok |-> FALSE] \in Worker
  BY DEF Worker
<1>3. \A x \in Worker : /\ [x EXCEPT !.at = "answer"] \in Worker
                        /\ [x EXCEPT !.at = "tell", !.ok = TRUE] \in Worker
                        /\ [x EXCEPT !.at = "tell"] \in Worker
  BY DEF Worker
<1>4. \A x \in Worker : [x EXCEPT !.at = "post", !.tries = @ + 1] \in Worker
  <2> SUFFICES ASSUME NEW x \in Worker
               PROVE  [x EXCEPT !.at = "post", !.tries = @ + 1] \in Worker
    OBVIOUS
  <2>1. x.tries + 1 \in Nat
    BY DEF Worker
  <2> QED BY <2>1 DEF Worker
<1> QED BY <1>1, <1>2, <1>3, <1>4

\* Harvesting takes one report away and files it.
LEMMA HarvestEffect ==
  ASSUME AnnounceTypeOK, ReportedOnce, results # <<>>, Harvest
  PROVE  /\ results' \in Seq(Channel \X BOOLEAN) /\ succeeded' \in Seq(Channel)
         /\ ReportedOnce'
         /\ \E r \in Channel \X BOOLEAN :
              /\ r \in Reports /\ Reports = Reports' \cup {r}
              /\ \A q \in Reports' : q[1] # r[1]
              /\ IF r[2] THEN Done' = Done \cup {r[1]} /\ errors' = errors
                         ELSE Done' = Done /\ errors' = errors \cup {r[1]}
<1> DEFINE R == Channel \X BOOLEAN
           r == Head(results)
<1>1. results \in Seq(R) /\ succeeded \in Seq(Channel)
  BY DEF AnnounceTypeOK
<1>2. /\ results' = Tail(results)
      /\ IF r[2] THEN succeeded' = Append(succeeded, r[1]) /\ errors' = errors
                 ELSE errors' = errors \cup {r[1]} /\ succeeded' = succeeded
  BY DEF Harvest
<1>3. /\ r \in R /\ r = results[1] /\ results' \in Seq(R)
      /\ Len(results) \in Nat /\ Len(results) > 0
      /\ Len(results') = Len(results) - 1
      /\ \A i \in 1..Len(results') : results'[i] = results[i + 1]
  BY <1>1, <1>2, HeadTailProperties, LenProperties, EmptySeq
<1>4. ReportedOnce'
  <2> SUFFICES ASSUME NEW i \in 1..Len(results'), NEW j \in 1..Len(results'),
                      results'[i][1] = results'[j][1]
               PROVE  i = j
    BY DEF ReportedOnce
  <2>1. i + 1 \in 1..Len(results) /\ j + 1 \in 1..Len(results)
    BY <1>3
  <2>2. results[i + 1][1] = results[j + 1][1]
    BY <1>3
  <2>3. i + 1 = j + 1
    BY <2>1, <2>2 DEF ReportedOnce
  <2> QED BY <2>3
<1>5. Reports = Reports' \cup {r}
  BY <1>1, <1>2, TailSet DEF Reports
<1>6. ASSUME NEW q \in Reports' PROVE q[1] # r[1]
  <2>1. PICK i \in 1..Len(results') : q = results'[i]
    BY <1>3, ElementSet DEF Reports
  <2>2. i + 1 \in 1..Len(results) /\ 1 \in 1..Len(results) /\ i + 1 # 1 /\ q = results[i + 1]
    BY <1>3, <2>1
  <2> QED BY <1>3, <2>2 DEF ReportedOnce
<1>7. succeeded' \in Seq(Channel) /\ IF r[2] THEN Done' = Done \cup {r[1]} ELSE Done' = Done
  <2>1. r[1] \in Channel
    BY <1>3
  <2>2. CASE r[2]
    <3>1. succeeded' = Append(succeeded, r[1])
      BY <1>2, <2>2
    <3>2. ToSet(succeeded') = ToSet(succeeded) \cup {r[1]}
      BY <1>1, <2>1, <3>1, AppendSet
    <3>3. succeeded' \in Seq(Channel)
      BY <1>1, <2>1, <3>1, AppendProperties
    <3> QED BY <2>2, <3>2, <3>3 DEF Done
  <2>3. CASE ~r[2]
    BY <1>1, <1>2, <2>3 DEF Done
  <2> QED BY <2>2, <2>3
<1>8. r \in Reports
  BY <1>5
<1> QED BY <1>2, <1>3, <1>4, <1>5, <1>6, <1>7, <1>8

\* A worker that tells an open receiver adds its report.
LEMMA TellEffect ==
  ASSUME AnnounceTypeOK, ReportedOnce, OnePlace, NEW w \in Pool, worker[w].chan \in Channel,
         results' = Append(results, <<worker[w].chan, worker[w].ok>>)
  PROVE  /\ results' \in Seq(Channel \X BOOLEAN)
         /\ ReportedOnce'
         /\ Reports' = Reports \cup {<<worker[w].chan, worker[w].ok>>}
<1> DEFINE R == Channel \X BOOLEAN
           r == <<worker[w].chan, worker[w].ok>>
<1>1. results \in Seq(R) /\ r \in R
  BY DEF AnnounceTypeOK, Worker
<1>2. /\ results' \in Seq(R) /\ Len(results) \in Nat
      /\ Len(results') = Len(results) + 1
      /\ \A i \in 1..Len(results) : results'[i] = results[i]
      /\ results'[Len(results) + 1] = r
  BY <1>1, AppendProperties, LenProperties
<1>3. \A i \in 1..Len(results) : results[i][1] # worker[w].chan
  BY <1>1, ElementSet DEF OnePlace, Reports
<1>4. ReportedOnce'
  <2> SUFFICES ASSUME NEW i \in 1..Len(results'), NEW j \in 1..Len(results'),
                      results'[i][1] = results'[j][1]
               PROVE  i = j
    BY DEF ReportedOnce
  <2>1. r[1] = worker[w].chan
    OBVIOUS
  <2>2. CASE i = Len(results) + 1
    BY <1>2, <1>3, <2>1, <2>2
  <2>3. CASE j = Len(results) + 1
    BY <1>2, <1>3, <2>1, <2>3
  <2>4. CASE i \in 1..Len(results) /\ j \in 1..Len(results)
    BY <1>2, <2>4 DEF ReportedOnce
  <2> QED BY <1>2, <2>2, <2>3, <2>4
<1>5. Reports' = Reports \cup {r}
  BY <1>1, AppendSet DEF Reports
<1> QED BY <1>2, <1>4, <1>5

\* Everything that names a channel names one of Channel.
LEMMA Places ==
  ASSUME AnnounceInv
  PROVE  /\ \A r \in Reports : r \in Channel \X BOOLEAN /\ r[1] \in Channel
         /\ Done \subseteq Channel /\ record \subseteq Channel /\ load(marker) \subseteq Channel
         /\ work \subseteq Channel
         /\ \A w \in Pool : /\ worker[w] \in Worker
                            /\ worker[w].chan # NoChannel => worker[w].chan \in Channel
<1>1. Reports \subseteq Channel \X BOOLEAN
  BY ElementSet DEF AnnounceInv, AnnounceTypeOK, Reports
<1>2. Done \subseteq Channel
  BY ElementSet DEF AnnounceInv, AnnounceTypeOK, Done
<1>3. record \subseteq Channel /\ load(marker) \subseteq Channel /\ work \subseteq Channel
  BY DEF AnnounceInv, AnnounceTypeOK, load
<1>4. \A w \in Pool : /\ worker[w] \in Worker
                      /\ worker[w].chan # NoChannel => worker[w].chan \in Channel
  BY DEF AnnounceInv, AnnounceTypeOK, Worker
<1>5. \A r \in Reports : r \in Channel \X BOOLEAN /\ r[1] \in Channel
  BY <1>1
<1> QED BY <1>2, <1>3, <1>4, <1>5
-----------------------------------------------------------------------------
(***************************************************************************)
(* The steps of a worker: everything but its own entry stays.              *)
(***************************************************************************)
\* What the main thread and the other workers see of a worker's step.
Beside(w) ==
  /\ \A v \in Pool \ {w} : worker'[v] = worker[v]
  /\ UNCHANGED <<pc, record, errors, succeeded, abandoned, expected, marker, open>>
  /\ Done' = Done

\* Pop takes a channel from the list, or finds the list empty.
LEMMA PopStep ==
  ASSUME AnnounceInv, NEW w \in Pool, Pop(w)
  PROVE  AnnounceInv'
<1>1. AnnounceTypeOK'
  BY WorkerTypes DEF AnnounceInv, Pop, Set, main, AnnounceTypeOK
<1>2. /\ Beside(w) /\ Reports' = Reports
      /\ UNCHANGED <<posted, window, results>>
      /\ worker[w].at = "pop" /\ worker[w].chan = NoChannel
  BY DEF AnnounceInv, AnnounceTypeOK, PoolShape, Pop, Set, main, Beside, Done, Reports
<1>3. \/ \E c \in work : /\ work' = work \ {c}
                         /\ worker'[w] = [at |-> "post", chan |-> c, tries |-> 1, ok |-> FALSE]
      \/ work = {} /\ work' = {} /\ worker'[w] = Off
  BY DEF AnnounceInv, AnnounceTypeOK, Pop, Set
<1>4. work \subseteq Channel /\ NoChannel \notin work
  BY AnnounceAssumption DEF AnnounceInv, AnnounceTypeOK
<1>5. CASE work = {} /\ work' = {} /\ worker'[w] = Off
  <2>1. PoolShape'
    BY <1>2, <1>5 DEF AnnounceInv, PoolShape, Beside, Off
  <2>2. ReportedOnce'
    BY <1>2 DEF AnnounceInv, ReportedOnce
  <2>3. OnePlace' /\ OnlyExpected' /\ LateIsExcused'
    BY <1>2, <1>5 DEF AnnounceInv, OnePlace, OnlyExpected, LateIsExcused, Beside, Off
  <2>4. MarkerShape' /\ Accounted'
    BY <1>2 DEF AnnounceInv, MarkerShape, Accounted, Beside
  <2>5. Arrived' /\ DuplicatesExcused'
    BY <1>2, <1>5 DEF AnnounceInv, Arrived, DuplicatesExcused, Sent, Beside, Off
  <2>6. NotYet'
    BY <1>2, <1>5 DEF AnnounceInv, NotYet, Unsent, Beside, Off
  <2>7. Traced'
    BY <1>2, <1>5 DEF AnnounceInv, Traced, Sent, Beside, Off
  <2> QED BY <1>1, <2>1, <2>2, <2>3, <2>4, <2>5, <2>6, <2>7 DEF AnnounceInv
<1>6. ASSUME NEW c \in work, work' = work \ {c},
             worker'[w] = [at |-> "post", chan |-> c, tries |-> 1, ok |-> FALSE]
      PROVE  AnnounceInv'
  <2>1. PoolShape'
    BY <1>2, <1>4, <1>6 DEF AnnounceInv, PoolShape, Beside
  <2>2. ReportedOnce'
    BY <1>2 DEF AnnounceInv, ReportedOnce
  <2>3. OnePlace' /\ OnlyExpected' /\ LateIsExcused'
    BY <1>2, <1>4, <1>6 DEF AnnounceInv, OnePlace, OnlyExpected, LateIsExcused, Beside
  <2>4. MarkerShape' /\ Accounted'
    BY <1>2 DEF AnnounceInv, MarkerShape, Accounted, Beside
  <2>5. Arrived' /\ DuplicatesExcused'
    BY <1>2, <1>6 DEF AnnounceInv, Arrived, DuplicatesExcused, Sent, Beside, Off
  <2>6. NotYet'
    BY <1>2, <1>6 DEF AnnounceInv, NotYet, Unsent, Beside, Off
  <2>7. Traced'
    BY <1>2, <1>6 DEF AnnounceInv, Traced, Sent, Beside, Off
  <2> QED BY <1>1, <2>1, <2>2, <2>3, <2>4, <2>5, <2>6, <2>7 DEF AnnounceInv
<1> QED BY <1>3, <1>5, <1>6

\* The channel answers yes: the message has arrived.
LEMMA AcceptStep ==
  ASSUME AnnounceInv, NEW w \in Pool, Accept(w)
  PROVE  AnnounceInv'
<1>1. worker[w] \in Worker /\ worker[w].chan \in Channel /\ worker[w].chan # NoChannel
  BY AnnounceAssumption DEF AnnounceInv, AnnounceTypeOK, PoolShape, Accept, Worker
<1>2. /\ Beside(w) /\ Reports' = Reports
      /\ UNCHANGED <<posted, window, work, results>>
  BY DEF AnnounceInv, AnnounceTypeOK, Accept, Set, main, Beside, Done, Reports
<1>3. AnnounceTypeOK'
  <2>1. worker' \in [Pool -> Worker]
    BY WorkerTypes DEF AnnounceInv, Accept, Set, AnnounceTypeOK
  <2> QED BY <1>1, <2>1 DEF AnnounceInv, Accept, main, AnnounceTypeOK
<1>4. /\ worker[w].at = "answer" /\ worker'[w].at = "tell"
      /\ worker'[w].chan = worker[w].chan /\ worker'[w].ok = TRUE
  BY <1>1 DEF AnnounceInv, AnnounceTypeOK, Accept, Set, Worker
<1>5. PoolShape'
  BY <1>1, <1>2, <1>4 DEF AnnounceInv, PoolShape, Beside, Off
<1>6. ReportedOnce'
  BY <1>2 DEF AnnounceInv, ReportedOnce
<1>7. OnePlace'
  BY <1>1, <1>2, <1>4 DEF AnnounceInv, OnePlace, Beside
<1>8. OnlyExpected' /\ LateIsExcused'
  BY <1>1, <1>2, <1>4 DEF AnnounceInv, OnlyExpected, LateIsExcused, Beside
<1>9. MarkerShape' /\ Accounted'
  BY <1>2 DEF AnnounceInv, MarkerShape, Accounted, Beside
<1>10. Arrived'
  BY <1>1, <1>2, <1>4 DEF AnnounceInv, Arrived, Sent, Beside
<1>11. DuplicatesExcused'
  BY <1>1, <1>2, <1>4 DEF AnnounceInv, DuplicatesExcused
<1>12. NotYet'
  BY <1>1, <1>2, <1>4 DEF AnnounceInv, NotYet, PoolShape, Unsent, Beside
<1>13. Traced'
  BY <1>1, <1>2, <1>4 DEF AnnounceInv, Traced, Sent, Beside
<1> QED BY <1>3, <1>5, <1>6, <1>7, <1>8, <1>9, <1>10, <1>11, <1>12, <1>13 DEF AnnounceInv

\* The channel refuses: nothing has arrived, and a failure is reported.
LEMMA RefuseStep ==
  ASSUME AnnounceInv, NEW w \in Pool, Refuse(w)
  PROVE  AnnounceInv'
<1>1. worker[w] \in Worker /\ worker[w].chan \in Channel /\ worker[w].chan # NoChannel
  BY AnnounceAssumption DEF AnnounceInv, AnnounceTypeOK, PoolShape, Refuse, Worker
<1>2. /\ Beside(w) /\ Reports' = Reports
      /\ UNCHANGED <<posted, window, work, results>>
  BY DEF AnnounceInv, AnnounceTypeOK, Refuse, Set, main, Beside, Done, Reports
<1>3. AnnounceTypeOK'
  <2>1. worker' \in [Pool -> Worker]
    BY WorkerTypes DEF AnnounceInv, Refuse, Set, AnnounceTypeOK
  <2> QED BY <1>1, <2>1 DEF AnnounceInv, Refuse, Fault, main, AnnounceTypeOK
<1>4. /\ worker[w].at = "post" /\ worker'[w].at = "tell"
      /\ worker'[w].chan = worker[w].chan /\ worker'[w].ok = FALSE
  BY <1>1 DEF AnnounceInv, AnnounceTypeOK, PoolShape, Refuse, Set, Worker
<1>5. PoolShape'
  BY <1>1, <1>2, <1>4 DEF AnnounceInv, PoolShape, Beside, Off
<1>6. ReportedOnce'
  BY <1>2 DEF AnnounceInv, ReportedOnce
<1>7. OnePlace'
  BY <1>1, <1>2, <1>4 DEF AnnounceInv, OnePlace, Beside
<1>8. OnlyExpected' /\ LateIsExcused'
  BY <1>1, <1>2, <1>4 DEF AnnounceInv, OnlyExpected, LateIsExcused, Beside
<1>9. MarkerShape' /\ Accounted'
  BY <1>2 DEF AnnounceInv, MarkerShape, Accounted, Beside
<1>10. Arrived'
  BY <1>1, <1>2, <1>4 DEF AnnounceInv, Arrived, Sent, Beside
<1>11. DuplicatesExcused'
  BY <1>1, <1>2, <1>4 DEF AnnounceInv, DuplicatesExcused
<1>12. NotYet'
  BY <1>1, <1>2, <1>4 DEF AnnounceInv, NotYet, PoolShape, Unsent, Beside
<1>13. Traced'
  BY <1>1, <1>2, <1>4 DEF AnnounceInv, Traced, Sent, Beside
<1> QED BY <1>3, <1>5, <1>6, <1>7, <1>8, <1>9, <1>10, <1>11, <1>12, <1>13 DEF AnnounceInv

\* No answer: whether the message arrived is not known, so the channel joins
\* the window when it may have.
LEMMA UnansweredStep ==
  ASSUME AnnounceInv, NEW w \in Pool, Unanswered(w)
  PROVE  AnnounceInv'
<1>1. worker[w] \in Worker /\ worker[w].chan \in Channel /\ worker[w].chan # NoChannel
  BY AnnounceAssumption DEF AnnounceInv, AnnounceTypeOK, PoolShape, Unanswered, Worker
<1>2. /\ Beside(w) /\ Reports' = Reports
      /\ UNCHANGED <<posted, work, results>>
  BY DEF AnnounceInv, AnnounceTypeOK, Unanswered, Set, main, Beside, Done, Reports
<1>3. AnnounceTypeOK'
  <2>1. worker' \in [Pool -> Worker]
    BY WorkerTypes DEF AnnounceInv, Unanswered, Set, AnnounceTypeOK
  <2> QED BY <1>1, <2>1 DEF AnnounceInv, Unanswered, Fault, main, AnnounceTypeOK
<1>4. /\ worker[w].at \in {"post", "answer"} /\ worker'[w].at \in {"post", "tell"}
      /\ worker'[w].chan = worker[w].chan /\ worker'[w].ok = FALSE
      /\ window' = IF worker[w].at = "answer" THEN window \cup {worker[w].chan} ELSE window
  BY <1>1 DEF AnnounceInv, AnnounceTypeOK, PoolShape, Unanswered, Set, Worker
<1>5. PoolShape'
  BY <1>1, <1>2, <1>4 DEF AnnounceInv, PoolShape, Beside, Off
<1>6. ReportedOnce'
  BY <1>2 DEF AnnounceInv, ReportedOnce
<1>7. OnePlace'
  BY <1>1, <1>2, <1>4 DEF AnnounceInv, OnePlace, Beside
<1>8. OnlyExpected' /\ LateIsExcused'
  BY <1>1, <1>2, <1>4 DEF AnnounceInv, OnlyExpected, LateIsExcused, Beside
<1>9. MarkerShape' /\ Accounted'
  BY <1>2, <1>4 DEF AnnounceInv, MarkerShape, Accounted, Beside
<1>10. Arrived'
  BY <1>1, <1>2, <1>4 DEF AnnounceInv, Arrived, Sent, Beside
<1>11. DuplicatesExcused'
  BY <1>1, <1>2, <1>4 DEF AnnounceInv, DuplicatesExcused
<1>12. NotYet'
  BY <1>1, <1>2, <1>4 DEF AnnounceInv, NotYet, PoolShape, Unsent, Beside
<1>13. Traced'
  <2> SUFFICES ASSUME NEW c \in Channel \ window', posted[c] > 0
               PROVE  IF pc = "idle" THEN c \in load(marker)
                      ELSE \/ c \in record \cup Done
                           \/ \E v \in Pool : worker'[v].chan = c /\ Sent(v)'
                           \/ <<c, TRUE>> \in Reports
    BY <1>2 DEF Traced, Beside
  <2>1. c \notin window
    BY <1>4
  <2>2. \A v \in Pool : worker[v].chan = c /\ Sent(v) => v # w
    BY <1>4 DEF AnnounceInv, PoolShape, Sent
  <2>3. \A v \in Pool : worker[v].chan = c /\ Sent(v) => worker'[v].chan = c /\ Sent(v)'
    BY <1>2, <2>2 DEF Sent, Beside
  <2> QED BY <2>1, <2>3 DEF AnnounceInv, Traced
<1> QED BY <1>3, <1>5, <1>6, <1>7, <1>8, <1>9, <1>10, <1>11, <1>12, <1>13 DEF AnnounceInv

\* A panic loses the result of the send.
LEMMA PanicStep ==
  ASSUME AnnounceInv, NEW w \in Pool, Panic(w)
  PROVE  AnnounceInv'
<1>1. worker[w] \in Worker /\ worker[w].chan \in Channel /\ worker[w].chan # NoChannel
  BY AnnounceAssumption DEF AnnounceInv, AnnounceTypeOK, PoolShape, Panic, Worker
<1>2. /\ Beside(w) /\ Reports' = Reports
      /\ UNCHANGED <<posted, work, results>>
  BY DEF AnnounceInv, AnnounceTypeOK, Panic, Set, main, Beside, Done, Reports
<1>3. AnnounceTypeOK'
  <2>1. worker' \in [Pool -> Worker]
    BY WorkerTypes DEF AnnounceInv, Panic, Set, AnnounceTypeOK
  <2> QED BY <1>1, <2>1 DEF AnnounceInv, Panic, Fault, main, AnnounceTypeOK
<1>4. /\ worker[w].at \in {"post", "answer"} /\ worker'[w] = Off
      /\ window' = IF worker[w].at = "answer" THEN window \cup {worker[w].chan} ELSE window
  BY <1>1 DEF AnnounceInv, AnnounceTypeOK, Panic, Set
<1>5. PoolShape'
  BY <1>1, <1>2, <1>4 DEF AnnounceInv, PoolShape, Beside, Off
<1>6. ReportedOnce'
  BY <1>2 DEF AnnounceInv, ReportedOnce
<1>7. OnePlace'
  <2>1. worker'[w].chan = NoChannel /\ NoChannel \notin Channel
    BY <1>4, AnnounceAssumption DEF Off
  <2> QED BY <1>2, <2>1, Places DEF AnnounceInv, OnePlace, Beside
<1>8. OnlyExpected' /\ LateIsExcused'
  BY <1>1, <1>2, <1>4 DEF AnnounceInv, OnlyExpected, LateIsExcused, Beside, Off
<1>9. MarkerShape' /\ Accounted'
  BY <1>2, <1>4 DEF AnnounceInv, MarkerShape, Accounted, Beside
<1>10. Arrived'
  BY <1>1, <1>2, <1>4 DEF AnnounceInv, Arrived, Sent, Beside, Off
<1>11. DuplicatesExcused'
  BY <1>1, <1>2, <1>4 DEF AnnounceInv, DuplicatesExcused
<1>12. NotYet'
  BY <1>1, <1>2, <1>4 DEF AnnounceInv, NotYet, PoolShape, Unsent, Beside, Off
<1>13. Traced'
  <2> SUFFICES ASSUME NEW c \in Channel \ window', posted[c] > 0
               PROVE  IF pc = "idle" THEN c \in load(marker)
                      ELSE \/ c \in record \cup Done
                           \/ \E v \in Pool : worker'[v].chan = c /\ Sent(v)'
                           \/ <<c, TRUE>> \in Reports
    BY <1>2 DEF Traced, Beside
  <2>1. c \notin window
    BY <1>4
  <2>2. \A v \in Pool : worker[v].chan = c /\ Sent(v) => v # w
    BY <1>4 DEF AnnounceInv, PoolShape, Sent
  <2>3. \A v \in Pool : worker[v].chan = c /\ Sent(v) => worker'[v].chan = c /\ Sent(v)'
    BY <1>2, <2>2 DEF Sent, Beside
  <2> QED BY <2>1, <2>3 DEF AnnounceInv, Traced
<1> QED BY <1>3, <1>5, <1>6, <1>7, <1>8, <1>9, <1>10, <1>11, <1>12, <1>13 DEF AnnounceInv

\* The message reaches the channel.
LEMMA DeliverStep ==
  ASSUME AnnounceInv, NEW w \in Pool, Deliver(w)
  PROVE  AnnounceInv'
<1>1. worker[w] \in Worker /\ worker[w].chan \in Channel /\ worker[w].chan # NoChannel
  BY AnnounceAssumption DEF AnnounceInv, AnnounceTypeOK, PoolShape, Deliver, Worker
<1>2. /\ Beside(w) /\ Reports' = Reports
      /\ UNCHANGED <<window, work, results>>
  BY DEF AnnounceInv, AnnounceTypeOK, Deliver, Set, main, Beside, Done, Reports
<1>3. AnnounceTypeOK'
  <2>1. worker' \in [Pool -> Worker]
    BY WorkerTypes DEF AnnounceInv, Deliver, Set, AnnounceTypeOK
  <2>2. posted' \in [Channel -> Nat]
    BY <1>1 DEF AnnounceInv, Deliver, AnnounceTypeOK
  <2> QED BY <2>1, <2>2 DEF AnnounceInv, Deliver, main, AnnounceTypeOK
<1>4. /\ worker[w].at = "post" /\ worker'[w].at = "answer"
      /\ worker'[w].chan = worker[w].chan /\ worker'[w].ok = FALSE
      /\ posted'[worker[w].chan] = posted[worker[w].chan] + 1
      /\ \A c \in Channel : /\ posted[c] \in Nat
                            /\ c # worker[w].chan => posted'[c] = posted[c]
  BY <1>1 DEF AnnounceInv, AnnounceTypeOK, PoolShape, Deliver, Set, Worker
<1>5. PoolShape'
  BY <1>1, <1>2, <1>4 DEF AnnounceInv, PoolShape, Beside, Off
<1>6. ReportedOnce'
  BY <1>2 DEF AnnounceInv, ReportedOnce
<1>7. OnePlace'
  BY <1>1, <1>2, <1>4 DEF AnnounceInv, OnePlace, Beside
<1>8. OnlyExpected' /\ LateIsExcused'
  BY <1>1, <1>2, <1>4 DEF AnnounceInv, OnlyExpected, LateIsExcused, Beside
<1>9. MarkerShape' /\ Accounted'
  BY <1>2 DEF AnnounceInv, MarkerShape, Accounted, Beside
<1>10. Arrived'
  <2>1. \A c \in Channel : posted[c] > 0 => posted'[c] > 0
    BY <1>1, <1>4
  <2>2. posted'[worker[w].chan] > 0
    BY <1>1, <1>4
  <2>3. \A v \in Pool : Sent(v)' => posted'[worker'[v].chan] > 0
    <3> SUFFICES ASSUME NEW v \in Pool, v # w, Sent(v)'
                 PROVE  posted'[worker'[v].chan] > 0
      BY <1>4, <2>2
    <3>1. worker'[v] = worker[v] /\ Sent(v)
      BY <1>2 DEF Beside, Sent
    <3>2. worker[v].chan \in Channel
      BY <3>1, Places DEF AnnounceInv, PoolShape, Sent
    <3> QED BY <2>1, <3>1, <3>2 DEF AnnounceInv, Arrived
  <2> QED BY <1>2, <2>1, <2>3, Places DEF AnnounceInv, Arrived, Beside
<1>11. DuplicatesExcused'
  BY <1>1, <1>2, <1>4 DEF AnnounceInv, DuplicatesExcused, NotYet, Unsent
<1>12. NotYet'
  <2>1. \A v \in Pool : v # w /\ Unsent(v) => worker[v].chan \in Channel /\ worker[v].chan # worker[w].chan
    BY <1>1, Places DEF AnnounceInv, OnePlace, PoolShape, Unsent
  <2>2. \A r \in Reports : r[1] \in Channel /\ r[1] # worker[w].chan
    BY <1>1, Places DEF AnnounceInv, OnePlace
  <2>3. \A c \in work : c \in Channel /\ c # worker[w].chan
    BY <1>1, Places DEF AnnounceInv, OnePlace
  <2>4. ~Unsent(w)'
    BY <1>4 DEF Unsent
  <2>5. \A v \in Pool : v # w => Unsent(v)' = Unsent(v) /\ worker'[v] = worker[v]
    BY <1>2 DEF Unsent, Beside
  <2>6. \A v \in Pool : Unsent(v)' /\ worker'[v].chan \notin window => posted'[worker'[v].chan] = 0
    BY <1>2, <1>4, <2>1, <2>4, <2>5 DEF AnnounceInv, NotYet
  <2> QED BY <1>2, <1>4, <2>2, <2>3, <2>6 DEF AnnounceInv, NotYet
<1>13. Traced'
  <2> SUFFICES ASSUME NEW c \in Channel \ window, posted'[c] > 0
               PROVE  IF pc = "idle" THEN c \in load(marker)
                      ELSE \/ c \in record \cup Done
                           \/ \E v \in Pool : worker'[v].chan = c /\ Sent(v)'
                           \/ <<c, TRUE>> \in Reports
    BY <1>2 DEF Traced, Beside
  <2>1. CASE c = worker[w].chan
    <3>1. pc # "idle"
      BY <1>4 DEF AnnounceInv, PoolShape, Off
    <3> QED BY <1>4, <2>1, <3>1 DEF Sent
  <2>2. CASE c # worker[w].chan
    <3>1. \A v \in Pool : worker[v].chan = c /\ Sent(v) => worker'[v].chan = c /\ Sent(v)'
      BY <1>2, <2>2 DEF Sent, Beside
    <3> QED BY <1>4, <2>2, <3>1 DEF AnnounceInv, Traced
  <2> QED BY <2>1, <2>2
<1> QED BY <1>3, <1>5, <1>6, <1>7, <1>8, <1>9, <1>10, <1>11, <1>12, <1>13 DEF AnnounceInv

\* A worker tells the collector, or finds that nobody listens any more.
LEMMA TellStep ==
  ASSUME AnnounceInv, NEW w \in Pool, Tell(w)
  PROVE  AnnounceInv'
<1>1. worker[w] \in Worker /\ worker[w].chan \in Channel /\ worker[w].chan # NoChannel
  BY AnnounceAssumption DEF AnnounceInv, AnnounceTypeOK, PoolShape, Tell, Worker
<1>2. /\ Beside(w)
      /\ UNCHANGED <<posted, window, work>>
      /\ worker[w].at = "tell"
  BY DEF AnnounceInv, AnnounceTypeOK, Tell, Set, main, Beside, Done
<1>3. /\ worker' \in [Pool -> Worker]
      /\ worker'[w].chan = NoChannel /\ worker'[w].ok = FALSE /\ worker'[w].at \in {"off", "pop"}
      /\ NoChannel \notin Channel
  <2>1. worker' \in [Pool -> Worker] /\ worker'[w] \in {Off, [Off EXCEPT !.at = "pop"]}
    BY WorkerTypes DEF AnnounceInv, Tell, Set, AnnounceTypeOK
  <2> QED BY <2>1, AnnounceAssumption DEF Off
<1>4. /\ results' \in Seq(Channel \X BOOLEAN) /\ ReportedOnce'
      /\ IF open THEN Reports' = Reports \cup {<<worker[w].chan, worker[w].ok>>}
                 ELSE Reports' = Reports
  <2>1. CASE open
    <3>1. results' = Append(results, <<worker[w].chan, worker[w].ok>>)
      BY <2>1 DEF Tell
    <3> QED BY <1>1, <2>1, <3>1, TellEffect DEF AnnounceInv
  <2>2. CASE ~open
    BY <2>2 DEF AnnounceInv, AnnounceTypeOK, ReportedOnce, Reports, Tell
  <2> QED BY <2>1, <2>2
<1>5. AnnounceTypeOK'
  BY <1>3, <1>4 DEF AnnounceInv, Tell, main, AnnounceTypeOK
<1>6. pc \notin {"idle", "render"}
  BY <1>2 DEF AnnounceInv, PoolShape, Off
<1>7. PoolShape'
  BY <1>2, <1>3, <1>6 DEF AnnounceInv, PoolShape, Beside
<1>8. \A r \in Reports' \ Reports : r = <<worker[w].chan, worker[w].ok>> /\ r[1] = worker[w].chan /\ r[2] = worker[w].ok
  BY <1>4
<1>9. OnePlace'
  <2>1. \A u, v \in Pool : worker'[u].chan = worker'[v].chan /\ worker'[u].chan # NoChannel => u = v
    BY <1>2, <1>3 DEF AnnounceInv, OnePlace, Beside
  <2>2. \A v \in Pool : worker'[v].chan \notin work' /\ worker'[v].chan # worker[w].chan
    BY <1>1, <1>2, <1>3, Places DEF AnnounceInv, OnePlace, Beside
  <2>3. \A r \in Reports' : r[1] \notin work' /\ \A v \in Pool : worker'[v].chan # r[1]
    BY <1>2, <1>3, <1>8, <2>2, Places DEF AnnounceInv, OnePlace, Beside
  <2>4. \A c \in Done' : /\ c \notin work'
                         /\ \A v \in Pool : worker'[v].chan # c
                         /\ \A r \in Reports' : r[1] # c
    BY <1>2, <1>3, <1>6, <1>8, Places DEF AnnounceInv, OnePlace, Beside
  <2> QED BY <2>1, <2>2, <2>3, <2>4 DEF OnePlace
<1>10. OnlyExpected' /\ LateIsExcused'
  BY <1>1, <1>2, <1>3, <1>8 DEF AnnounceInv, OnlyExpected, LateIsExcused, Beside
<1>11. MarkerShape' /\ Accounted'
  BY <1>2 DEF AnnounceInv, MarkerShape, Accounted, Beside
<1>12. Arrived' /\ DuplicatesExcused'
  BY <1>1, <1>2, <1>3, <1>8 DEF AnnounceInv, Arrived, DuplicatesExcused, Sent, Beside
<1>13. NotYet'
  BY <1>1, <1>2, <1>3, <1>8 DEF AnnounceInv, NotYet, Unsent, Beside
<1>14. Traced'
  <2> SUFFICES ASSUME NEW c \in Channel \ window, posted[c] > 0
               PROVE  \/ c \in record \cup Done
                      \/ \E v \in Pool : worker'[v].chan = c /\ Sent(v)'
                      \/ <<c, TRUE>> \in Reports'
    BY <1>2, <1>6 DEF Traced, Beside
  <2>1. \/ c \in record \cup Done
        \/ \E v \in Pool : worker[v].chan = c /\ Sent(v)
        \/ <<c, TRUE>> \in Reports
    BY <1>6 DEF AnnounceInv, Traced
  <2>2. \A v \in Pool : v # w /\ worker[v].chan = c /\ Sent(v) => worker'[v].chan = c /\ Sent(v)'
    BY <1>2 DEF Beside, Sent
  <2>3. worker[w].chan = c /\ Sent(w) => open
    BY <1>2, <1>6 DEF AnnounceInv, AnnounceTypeOK, PoolShape, LateIsExcused, Past
  <2>4. worker[w].chan = c /\ Sent(w) => <<c, TRUE>> \in Reports'
    BY <1>2, <1>4, <2>3, <1>1 DEF Sent, Worker
  <2> QED BY <1>4, <2>1, <2>2, <2>4
<1> QED BY <1>4, <1>5, <1>7, <1>9, <1>10, <1>11, <1>12, <1>13, <1>14 DEF AnnounceInv

-----------------------------------------------------------------------------
(***************************************************************************)
(* The steps of the main thread.                                           *)
(***************************************************************************)
\* The steps that only move the program counter.
LEMMA QuietStep ==
  ASSUME AnnounceInv,
         EnabledFails \/ DeadlinePasses \/ StopCollecting \/ EndStage \/ Rest
  PROVE  AnnounceInv'
<1>1. /\ UNCHANGED <<posted, marker, record, errors, succeeded, abandoned, expected,
                     work, results, open, worker, window>>
      /\ \/ pc = "render" /\ pc' = "idle"
         \/ pc' = pc
         \/ pc = "collect" /\ pc' = "drain"
         \/ pc = "mark" /\ pc' = "done" /\ Unmarked = {}
  BY DEF EnabledFails, DeadlinePasses, StopCollecting, EndStage, Rest, pool, main, vars
<1>2. AnnounceTypeOK'
  <2>1. expired' = expired \/ expired' = TRUE
    BY DEF EnabledFails, DeadlinePasses, StopCollecting, EndStage, Rest, main, vars
  <2>2. runs' = runs /\ (faults' = faults \/ faults' = faults + 1)
    BY DEF EnabledFails, DeadlinePasses, StopCollecting, EndStage, Rest, Fault, vars
  <2>3. expired' \in BOOLEAN
    BY <2>1 DEF AnnounceInv, AnnounceTypeOK
  <2>4. runs' \in Nat /\ faults' \in Nat
    BY <2>2 DEF AnnounceInv, AnnounceTypeOK
  <2>5. pc' \in {"idle", "render", "collect", "drain", "close", "mark", "flush", "done"}
    BY <1>1 DEF AnnounceInv, AnnounceTypeOK
  <2> QED BY <1>1, <2>3, <2>4, <2>5 DEF AnnounceInv, AnnounceTypeOK
<1>3. Reports' = Reports /\ Done' = Done
  BY <1>1 DEF Reports, Done
<1>4. PoolShape' /\ ReportedOnce' /\ OnePlace' /\ OnlyExpected'
  BY <1>1, <1>3 DEF AnnounceInv, PoolShape, ReportedOnce, OnePlace, OnlyExpected
<1>5. MarkerShape'
  <2>1. Done = {succeeded[i] : i \in 1..Len(succeeded)}
    BY ElementSet DEF AnnounceInv, AnnounceTypeOK, Done
  <2>2. Unmarked = {} => Done \subseteq record
    BY <2>1 DEF Unmarked
  <2> QED BY <1>1, <1>3, <2>2 DEF AnnounceInv, MarkerShape
<1>6. Arrived' /\ LateIsExcused'
  BY <1>1, <1>3 DEF AnnounceInv, Arrived, LateIsExcused, Past, Sent
<1>7. NotYet' /\ DuplicatesExcused' /\ Accounted'
  BY <1>1, <1>3 DEF AnnounceInv, NotYet, DuplicatesExcused, Accounted, Past, Unsent
<1>8. Traced'
  <2>1. pc = "render" => record = load(marker) /\ Done = {} /\ Reports = {} /\ \A w \in Pool : ~Sent(w)
    BY EmptySet DEF AnnounceInv, MarkerShape, PoolShape, Done, Reports, Sent, Off
  <2> QED BY <1>1, <1>3, <2>1 DEF AnnounceInv, Traced, Sent
<1> QED BY <1>2, <1>4, <1>5, <1>6, <1>7, <1>8 DEF AnnounceInv

\* A run starts from what the marker says.
LEMMA StartStep ==
  ASSUME AnnounceInv, StartStage
  PROVE  AnnounceInv'
<1>1. /\ UNCHANGED <<posted, marker, work, results, open, worker, window>>
      /\ pc = "idle" /\ pc' = "render" /\ record' = load(marker)
      /\ errors' = {} /\ abandoned' = {} /\ expected' = {} /\ succeeded' = <<>>
  BY DEF StartStage, pool
<1>2. AnnounceTypeOK'
  <2>1. expired' \in BOOLEAN /\ runs' \in Nat /\ faults' \in Nat
    BY DEF AnnounceInv, AnnounceTypeOK, StartStage
  <2> QED BY <1>1, <2>1, Places DEF AnnounceInv, AnnounceTypeOK
<1>3. Reports' = Reports /\ Done' = {} /\ Reports = {} /\ work = {} /\ \A w \in Pool : worker[w] = Off
  BY <1>1, EmptySet DEF AnnounceInv, PoolShape, Reports, Done
<1>4. PoolShape' /\ ReportedOnce'
  BY <1>1, <1>3 DEF AnnounceInv, PoolShape, ReportedOnce
<1>8. OnePlace' /\ OnlyExpected'
  BY <1>1, <1>3 DEF OnePlace, OnlyExpected, Off
<1>5. MarkerShape' /\ Accounted' /\ LateIsExcused'
  BY <1>1, <1>3 DEF AnnounceInv, MarkerShape, Accounted, LateIsExcused, Past
<1>6. Arrived' /\ NotYet' /\ DuplicatesExcused'
  BY <1>1, <1>3 DEF AnnounceInv, Arrived, NotYet, DuplicatesExcused, Sent, Unsent, Off
<1>7. Traced'
  BY <1>1, <1>3 DEF AnnounceInv, Traced
<1> QED BY <1>2, <1>4, <1>5, <1>6, <1>7, <1>8 DEF AnnounceInv

\* The render pass enqueues what is neither on record nor broken, and nothing
\* of that has a message outside the window.
LEMMA RenderStep ==
  ASSUME AnnounceInv, Render
  PROVE  AnnounceInv'
<1>1. /\ UNCHANGED <<posted, marker, record, succeeded, abandoned, window, runs>>
      /\ pc = "render" /\ results' = <<>> /\ expired' = FALSE
  BY DEF Render
<1>2. PICK broken \in SUBSET (Channel \ record) :
        /\ IF broken = {} THEN UNCHANGED faults ELSE Fault
        /\ errors' = broken
        /\ work' = Enqueue(broken)
        /\ expected' = Enqueue(broken)
        /\ worker' = Spawned(Cardinality(Enqueue(broken)))
        /\ open' = (Enqueue(broken) # {})
        /\ pc' = IF Enqueue(broken) = {} THEN "done" ELSE "collect"
  BY DEF Render
<1>3. /\ work' \subseteq Channel \ record /\ expected' = work'
      /\ Channel \subseteq record \cup errors' \cup work'
      /\ pc' \in {"done", "collect"} /\ (pc' = "done" <=> work' = {}) /\ (pc' = "collect" => open')
  BY <1>2 DEF Enqueue
<1>4. worker' \in [Pool -> Worker] /\ \A w \in Pool : worker'[w] \in {Off, [Off EXCEPT !.at = "pop"]}
  BY <1>2, WorkerTypes DEF Spawned
<1>5. \A w \in Pool : worker'[w].chan = NoChannel /\ ~worker'[w].ok /\ worker'[w].at \in {"off", "pop"}
  BY <1>4 DEF Off
<1>6. Reports' = {} /\ Done = {} /\ Done' = {} /\ Reports = {} /\ \A w \in Pool : worker[w] = Off
  BY <1>1, EmptySet DEF AnnounceInv, MarkerShape, PoolShape, Reports, Done
<1>7. NoChannel \notin Channel
  BY AnnounceAssumption
<1>8. AnnounceTypeOK'
  <2>1. faults' \in Nat /\ open' \in BOOLEAN
    BY <1>2 DEF AnnounceInv, AnnounceTypeOK, Fault
  <2> QED BY <1>1, <1>2, <1>3, <1>4, <2>1, EmptySeq DEF AnnounceInv, AnnounceTypeOK
<1>9. PoolShape' /\ OnePlace'
  BY <1>1, <1>3, <1>5, <1>6, <1>7 DEF PoolShape, OnePlace
<1>10. ReportedOnce'
  BY <1>1, EmptySeq DEF ReportedOnce
<1>11. OnlyExpected' /\ LateIsExcused'
  BY <1>1, <1>3, <1>5, <1>6 DEF OnlyExpected, LateIsExcused, Past
<1>12. MarkerShape' /\ Accounted'
  BY <1>1, <1>3, <1>6 DEF AnnounceInv, MarkerShape, Accounted, Past
<1>13. Arrived' /\ DuplicatesExcused'
  BY <1>1, <1>5, <1>6 DEF AnnounceInv, Arrived, DuplicatesExcused, Sent
<1>14. \A c \in Channel \ window : posted[c] > 0 => c \in record
  BY <1>1, <1>6 DEF AnnounceInv, Traced, Sent, Off
<1>15. NotYet'
  BY <1>1, <1>3, <1>5, <1>6, <1>14 DEF AnnounceInv, AnnounceTypeOK, NotYet, Unsent
<1>16. Traced'
  BY <1>1, <1>3, <1>14 DEF Traced
<1> QED BY <1>8, <1>9, <1>10, <1>11, <1>12, <1>13, <1>15, <1>16 DEF AnnounceInv

\* A harvested report is a success, or a failure that is named.
LEMMA HarvestStep ==
  ASSUME AnnounceInv, Collect \/ Drain
  PROVE  AnnounceInv'
<1>1. /\ UNCHANGED <<posted, marker, pc, record, abandoned, expected, expired, work,
                     open, worker, runs, faults, window>>
      /\ pc \in {"collect", "drain"} /\ results # <<>> /\ Harvest
  BY DEF Collect, Drain
<1>2. /\ results' \in Seq(Channel \X BOOLEAN) /\ succeeded' \in Seq(Channel) /\ ReportedOnce'
      /\ \E r \in Channel \X BOOLEAN :
           /\ r \in Reports /\ Reports = Reports' \cup {r}
           /\ \A q \in Reports' : q[1] # r[1]
           /\ IF r[2] THEN Done' = Done \cup {r[1]} /\ errors' = errors
                      ELSE Done' = Done /\ errors' = errors \cup {r[1]}
  BY <1>1, HarvestEffect DEF AnnounceInv
<1>3. PICK r \in Channel \X BOOLEAN :
        /\ r \in Reports /\ Reports = Reports' \cup {r}
        /\ \A q \in Reports' : q[1] # r[1]
        /\ IF r[2] THEN Done' = Done \cup {r[1]} /\ errors' = errors
                   ELSE Done' = Done /\ errors' = errors \cup {r[1]}
  BY <1>2
<1>4. r[1] \in Channel /\ r[2] \in BOOLEAN /\ r = <<r[1], r[2]>>
  OBVIOUS
<1>5. /\ Reports' \subseteq Reports /\ Done \subseteq Done' /\ Done' \subseteq Done \cup {r[1]}
      /\ errors \subseteq errors' /\ errors' \subseteq errors \cup {r[1]}
  BY <1>3
<1>6. AnnounceTypeOK'
  BY <1>1, <1>2, <1>4, <1>5 DEF AnnounceInv, AnnounceTypeOK
<1>7. PoolShape'
  BY <1>1 DEF AnnounceInv, PoolShape
<1>8. OnePlace'
  <2>1. \A q \in Reports' : q[1] \notin work /\ \A w \in Pool : worker[w].chan # q[1]
    BY <1>5 DEF AnnounceInv, OnePlace
  <2>2. r[1] \notin work /\ \A w \in Pool : worker[w].chan # r[1]
    BY <1>3 DEF AnnounceInv, OnePlace
  <2>3. \A c \in Done' : /\ c \notin work
                         /\ \A w \in Pool : worker[w].chan # c
                         /\ \A q \in Reports' : q[1] # c
    BY <1>1, <1>3, <1>5, <2>2 DEF AnnounceInv, OnePlace
  <2> QED BY <1>1, <2>1, <2>3 DEF AnnounceInv, OnePlace
<1>9. OnlyExpected' /\ LateIsExcused'
  BY <1>1, <1>3, <1>5 DEF AnnounceInv, OnlyExpected, LateIsExcused, Past
<1>10. MarkerShape' /\ Accounted'
  BY <1>1, <1>5 DEF AnnounceInv, MarkerShape, Accounted, Past
<1>11. Arrived'
  BY <1>1, <1>3, <1>5 DEF AnnounceInv, Arrived, Sent
<1>12. NotYet' /\ DuplicatesExcused'
  BY <1>1, <1>5 DEF AnnounceInv, NotYet, DuplicatesExcused, Unsent
<1>13. Traced'
  <2> SUFFICES ASSUME NEW c \in Channel \ window, posted[c] > 0
               PROVE  \/ c \in record \cup Done'
                      \/ \E v \in Pool : worker[v].chan = c /\ Sent(v)
                      \/ <<c, TRUE>> \in Reports'
    BY <1>1 DEF Traced, Sent
  <2>1. \/ c \in record \cup Done
        \/ \E v \in Pool : worker[v].chan = c /\ Sent(v)
        \/ <<c, TRUE>> \in Reports
    BY <1>1 DEF AnnounceInv, Traced
  <2>2. ASSUME <<c, TRUE>> = r PROVE c \in Done'
    <3>1. r[1] = c /\ r[2] = TRUE
      BY <2>2
    <3> QED BY <1>3, <3>1
  <2> QED BY <1>3, <1>5, <2>1, <2>2
<1> QED BY <1>2, <1>6, <1>7, <1>8, <1>9, <1>10, <1>11, <1>12, <1>13 DEF AnnounceInv

\* After the final drain what is still out joins the window.
LEMMA AbandonStep ==
  ASSUME AnnounceInv, Abandon
  PROVE  AnnounceInv'
<1>1. /\ UNCHANGED <<posted, marker, record, errors, succeeded, expected, expired, work,
                     results, open, worker, runs, faults>>
      /\ pc = "drain" /\ pc' = "close" /\ results = <<>>
      /\ abandoned' = expected \ Reported /\ window' = window \cup Undecided
  BY DEF Abandon, pool
<1>2. /\ Reports' = {} /\ Reports = {} /\ Done' = Done
      /\ Undecided \subseteq Channel /\ work \subseteq Undecided
      /\ \A w \in Pool : worker[w].chan # NoChannel => worker[w].chan \in Undecided
  BY <1>1, EmptySet, Places DEF Reports, Done, Undecided
<1>3. AnnounceTypeOK'
  BY <1>1, <1>2 DEF AnnounceInv, AnnounceTypeOK
<1>4. PoolShape' /\ ReportedOnce' /\ OnePlace' /\ OnlyExpected'
  BY <1>1, <1>2 DEF AnnounceInv, PoolShape, ReportedOnce, OnePlace, OnlyExpected
<1>5. MarkerShape' /\ LateIsExcused'
  BY <1>1, <1>2 DEF AnnounceInv, MarkerShape, LateIsExcused
<1>6. Accounted'
  BY <1>1, <1>2 DEF AnnounceInv, Accounted, Reported, Done
<1>7. Arrived' /\ NotYet' /\ DuplicatesExcused'
  BY <1>1, <1>2 DEF AnnounceInv, Arrived, NotYet, DuplicatesExcused, Sent, Unsent
<1>8. Traced'
  BY <1>1, <1>2 DEF AnnounceInv, Traced, Sent
<1> QED BY <1>3, <1>4, <1>5, <1>6, <1>7, <1>8 DEF AnnounceInv

\* Reports that came after the drain are lost with the receiver.
LEMMA CloseStep ==
  ASSUME AnnounceInv, Close
  PROVE  AnnounceInv'
<1>1. /\ UNCHANGED <<posted, marker, record, errors, succeeded, abandoned, expected, expired,
                     work, worker, runs, faults, window>>
      /\ pc = "close" /\ pc' = "mark" /\ open' = FALSE /\ results' = <<>>
  BY DEF Close
<1>2. Reports' = {} /\ Done' = Done
  BY <1>1, EmptySet DEF Reports, Done
<1>3. AnnounceTypeOK' /\ ReportedOnce'
  <2>1. results' \in Seq(Channel \X BOOLEAN) /\ Len(results') = 0
    BY <1>1, EmptySeq
  <2>2. AnnounceTypeOK'
    BY <1>1, <2>1 DEF AnnounceInv, AnnounceTypeOK
  <2> QED BY <2>1, <2>2 DEF ReportedOnce
<1>4. PoolShape' /\ OnePlace' /\ OnlyExpected'
  BY <1>1, <1>2 DEF AnnounceInv, PoolShape, OnePlace, OnlyExpected
<1>5. MarkerShape' /\ LateIsExcused' /\ Accounted'
  BY <1>1, <1>2 DEF AnnounceInv, MarkerShape, LateIsExcused, Accounted, Past
<1>6. Arrived' /\ NotYet' /\ DuplicatesExcused'
  BY <1>1, <1>2 DEF AnnounceInv, Arrived, NotYet, DuplicatesExcused, Sent, Unsent
<1>7. Traced'
  <2>1. \A c \in Channel \ window : <<c, TRUE>> \notin Reports
    BY <1>1 DEF AnnounceInv, LateIsExcused, Past
  <2> QED BY <1>1, <1>2, <2>1 DEF AnnounceInv, Traced, Sent
<1> QED BY <1>3, <1>4, <1>5, <1>6, <1>7 DEF AnnounceInv

\* The next success to be marked is a success, and has left every other place.
LEMMA NextMarkDone ==
  ASSUME AnnounceInv, NEW c, NextMark(c)
  PROVE  c \in Done
<1>1. Done = {succeeded[i] : i \in 1..Len(succeeded)}
  BY ElementSet DEF AnnounceInv, AnnounceTypeOK, Done
<1> QED BY <1>1 DEF NextMark, Unmarked

\* A success goes on record; until the flush the marker says nothing.
LEMMA MarkStep ==
  ASSUME AnnounceInv, mark_sent
  PROVE  AnnounceInv'
<1>1. /\ UNCHANGED <<posted, errors, succeeded, abandoned, expected, expired, work, results,
                     open, worker, runs, faults, window>>
      /\ pc = "mark" /\ pc' = "flush" /\ marker' = Torn
  BY DEF mark_sent, pool
<1>2. PICK c \in Channel : NextMark(c) /\ record' = record \cup {c}
  BY DEF mark_sent
<1>3. c \in Done /\ load(marker') = {} /\ Reports' = Reports /\ Done' = Done
  BY <1>1, <1>2, NextMarkDone DEF load, Reports, Done
<1>4. AnnounceTypeOK'
  BY <1>1, <1>2 DEF AnnounceInv, AnnounceTypeOK
<1>5. PoolShape' /\ ReportedOnce' /\ OnePlace'
  BY <1>1, <1>3 DEF AnnounceInv, PoolShape, ReportedOnce, OnePlace
<1>6. OnlyExpected'
  BY <1>1, <1>2, <1>3 DEF AnnounceInv, OnlyExpected, OnePlace
<1>7. MarkerShape' /\ LateIsExcused' /\ Accounted'
  BY <1>1, <1>2, <1>3 DEF AnnounceInv, MarkerShape, LateIsExcused, Accounted, Past
<1>8. Arrived' /\ NotYet' /\ DuplicatesExcused'
  BY <1>1, <1>2, <1>3 DEF AnnounceInv, Arrived, NotYet, DuplicatesExcused, Sent, Unsent
<1>9. Traced'
  BY <1>1, <1>2, <1>3 DEF AnnounceInv, Traced, Sent
<1> QED BY <1>4, <1>5, <1>6, <1>7, <1>8, <1>9 DEF AnnounceInv

\* The flush writes the whole record.
LEMMA FlushStep ==
  ASSUME AnnounceInv, flush
  PROVE  AnnounceInv' /\ load(marker') = record
<1>1. /\ UNCHANGED <<posted, record, errors, succeeded, abandoned, expected, expired, work, results,
                     open, worker, runs, faults, window>>
      /\ pc = "flush" /\ pc' = "mark" /\ marker' = record
  BY DEF flush, pool
<1>2. load(marker') = record /\ Reports' = Reports /\ Done' = Done
  BY <1>1, AnnounceAssumption DEF AnnounceInv, AnnounceTypeOK, load, Torn, Reports, Done
<1>3. AnnounceTypeOK'
  BY <1>1 DEF AnnounceInv, AnnounceTypeOK
<1>4. PoolShape' /\ ReportedOnce' /\ OnePlace' /\ OnlyExpected'
  BY <1>1, <1>2 DEF AnnounceInv, PoolShape, ReportedOnce, OnePlace, OnlyExpected
<1>5. MarkerShape' /\ LateIsExcused' /\ Accounted'
  BY <1>1, <1>2 DEF AnnounceInv, MarkerShape, LateIsExcused, Accounted, Past
<1>6. Arrived' /\ NotYet' /\ DuplicatesExcused'
  BY <1>1, <1>2 DEF AnnounceInv, Arrived, NotYet, DuplicatesExcused, Sent, Unsent
<1>7. Traced'
  BY <1>1, <1>2 DEF AnnounceInv, Traced, Sent
<1> QED BY <1>2, <1>3, <1>4, <1>5, <1>6, <1>7 DEF AnnounceInv

\* A failed write leaves the marker behind the record: the window grows.
LEMMA MarkerWriteFailsStep ==
  ASSUME AnnounceInv, MarkerWriteFails
  PROVE  AnnounceInv'
<1>1. /\ UNCHANGED <<posted, marker, errors, succeeded, abandoned, expected, expired, work, results,
                     open, worker, runs>>
      /\ pc \in {"mark", "flush"} /\ pc' = "mark" /\ window' = window \cup record'
      /\ faults' = faults + 1
  BY DEF MarkerWriteFails, Fault, pool
<1>2. record \subseteq record' /\ record' \subseteq record \cup Done /\ record' \subseteq Channel
  BY NextMarkDone DEF AnnounceInv, AnnounceTypeOK, MarkerWriteFails
<1>3. Reports' = Reports /\ Done' = Done
  BY <1>1 DEF Reports, Done
<1>4. AnnounceTypeOK'
  BY <1>1, <1>2 DEF AnnounceInv, AnnounceTypeOK
<1>5. PoolShape' /\ ReportedOnce' /\ OnePlace'
  BY <1>1, <1>3 DEF AnnounceInv, PoolShape, ReportedOnce, OnePlace
<1>6. OnlyExpected'
  BY <1>1, <1>2, <1>3 DEF AnnounceInv, OnlyExpected, OnePlace
<1>7. MarkerShape' /\ LateIsExcused' /\ Accounted'
  BY <1>1, <1>2, <1>3 DEF AnnounceInv, MarkerShape, LateIsExcused, Accounted, Past
<1>8. Arrived' /\ NotYet' /\ DuplicatesExcused'
  BY <1>1, <1>2, <1>3 DEF AnnounceInv, Arrived, NotYet, DuplicatesExcused, Sent, Unsent
<1>9. Traced'
  BY <1>1, <1>2, <1>3 DEF AnnounceInv, Traced, Sent
<1> QED BY <1>4, <1>5, <1>6, <1>7, <1>8, <1>9 DEF AnnounceInv

\* The process ends by itself or is killed: what is left is the marker.
LEMMA StopStep ==
  ASSUME AnnounceInv, Exit \/ Kill
  PROVE  AnnounceInv'
<1>1. /\ UNCHANGED <<posted, marker, record, errors, succeeded, abandoned, expected, expired, runs>>
      /\ pc # "idle" /\ pc' = "idle"
      /\ worker' = [w \in Pool |-> Off] /\ work' = {} /\ results' = <<>> /\ open' = FALSE
      /\ faults' = faults \/ faults' = faults + 1
      /\ \/ pc = "done" /\ window' = window
         \/ window' = window \cup ((expected \cup record) \ load(marker))
  BY DEF Exit, Kill, Stopped, Fault
<1>2. Reports' = {} /\ Done' = Done /\ \A w \in Pool : worker'[w] = Off
  BY <1>1, EmptySet DEF Reports, Done
<1>3. window \subseteq window' /\ window' \subseteq Channel
  BY <1>1 DEF AnnounceInv, AnnounceTypeOK
<1>4. AnnounceTypeOK'
  <2>1. worker' \in [Pool -> Worker] /\ results' \in Seq(Channel \X BOOLEAN)
    BY <1>1, WorkerTypes, EmptySeq
  <2>2. faults' \in Nat
    BY <1>1 DEF AnnounceInv, AnnounceTypeOK
  <2> QED BY <1>1, <1>3, <2>1, <2>2 DEF AnnounceInv, AnnounceTypeOK
<1>5. PoolShape'
  BY <1>1, <1>2 DEF PoolShape, Off
<1>6. ReportedOnce'
  BY <1>1, EmptySeq DEF ReportedOnce
<1>7. OnePlace' /\ OnlyExpected'
  BY <1>1, <1>2 DEF OnePlace, OnlyExpected, Off
<1>8. MarkerShape' /\ LateIsExcused' /\ Accounted'
  BY <1>1 DEF MarkerShape, LateIsExcused, Accounted, Past
<1>9. Arrived' /\ NotYet' /\ DuplicatesExcused'
  BY <1>1, <1>2, <1>3 DEF AnnounceInv, Arrived, NotYet, DuplicatesExcused, Sent, Unsent, Off
<1>10. Traced'
  <2> SUFFICES ASSUME NEW c \in Channel \ window', posted[c] > 0
               PROVE  c \in load(marker)
    BY <1>1 DEF Traced
  <2>1. \/ c \in record \cup Done
        \/ \E v \in Pool : worker[v].chan = c /\ Sent(v)
        \/ <<c, TRUE>> \in Reports
    BY <1>1, <1>3 DEF AnnounceInv, Traced
  <2>2. NoChannel \notin Channel /\ <<c, TRUE>>[1] = c
    BY AnnounceAssumption
  <2>3. CASE pc = "done" /\ window' = window
    <3>1. c \in record
      BY <2>1, <2>2, <2>3 DEF AnnounceInv, LateIsExcused, MarkerShape, Past
    <3> QED BY <2>3, <3>1 DEF AnnounceInv, MarkerShape
  <2>4. CASE window' = window \cup ((expected \cup record) \ load(marker))
    <3>1. c \in expected \cup record
      BY <1>1, <2>1, <2>2 DEF AnnounceInv, OnlyExpected
    <3> QED BY <2>4, <3>1
  <2> QED BY <1>1, <2>3, <2>4
<1> QED BY <1>4, <1>5, <1>6, <1>7, <1>8, <1>9, <1>10 DEF AnnounceInv

-----------------------------------------------------------------------------
(***************************************************************************)
(* The invariant is inductive.                                             *)
(***************************************************************************)
\* Before the first run nothing is on record and nothing is posted.
LEMMA AnnounceInit == Init => AnnounceInv
<1> SUFFICES ASSUME Init PROVE AnnounceInv
  OBVIOUS
<1>1. /\ Reports = {} /\ Done = {} /\ load(marker) = {} /\ \A w \in Pool : worker[w] = Off
      /\ work = {} /\ results = <<>> /\ pc = "idle" /\ window = {}
      /\ \A c \in Channel : posted[c] = 0
  BY EmptySet DEF Init, Reports, Done, load
<1>2. AnnounceTypeOK
  <2>1. worker \in [Pool -> Worker] /\ results \in Seq(Channel \X BOOLEAN) /\ succeeded \in Seq(Channel)
    BY WorkerTypes, EmptySeq DEF Init
  <2> QED BY <2>1 DEF Init, AnnounceTypeOK
<1>3. PoolShape /\ OnePlace
  <2>1. \A w \in Pool : worker[w].chan = NoChannel /\ worker[w].at = "off" /\ worker[w].ok = FALSE
    BY <1>1 DEF Off
  <2>2. PoolShape
    BY <1>1, <2>1 DEF PoolShape
  <2>3. OnePlace
    BY <1>1, <2>1 DEF OnePlace
  <2> QED BY <2>2, <2>3
<1>6. OnlyExpected /\ MarkerShape
  BY <1>1 DEF OnlyExpected, MarkerShape
<1>4. ReportedOnce
  BY <1>1, EmptySeq DEF ReportedOnce
<1>5. Arrived /\ LateIsExcused /\ NotYet /\ Traced /\ Accounted /\ DuplicatesExcused
  BY <1>1 DEF Arrived, LateIsExcused, NotYet, Traced, Accounted, DuplicatesExcused, Sent, Unsent, Past, Off
<1> QED BY <1>2, <1>3, <1>4, <1>5, <1>6 DEF AnnounceInv

\* Every step keeps the invariant.
LEMMA AnnounceStep == AnnounceInv /\ [Next]_vars => AnnounceInv'
<1> SUFFICES ASSUME AnnounceInv, [Next]_vars
             PROVE  AnnounceInv'
  OBVIOUS
<1>1. ASSUME UNCHANGED vars PROVE AnnounceInv'
  <2>1. /\ UNCHANGED <<posted, marker, pc, record, errors, succeeded, abandoned, expected, expired>>
        /\ UNCHANGED <<work, results, open, worker, runs, faults, window>>
    BY <1>1 DEF vars, main, pool
  <2>2. Reports' = Reports /\ Done' = Done
    BY <2>1 DEF Reports, Done
  <2>3. AnnounceTypeOK' /\ PoolShape' /\ ReportedOnce' /\ OnePlace' /\ OnlyExpected'
    BY <2>1, <2>2 DEF AnnounceInv, AnnounceTypeOK, PoolShape, ReportedOnce, OnePlace, OnlyExpected
  <2>4. MarkerShape' /\ LateIsExcused' /\ Accounted'
    BY <2>1, <2>2 DEF AnnounceInv, MarkerShape, LateIsExcused, Accounted
  <2>5. Arrived' /\ NotYet' /\ Traced' /\ DuplicatesExcused'
    BY <2>1, <2>2 DEF AnnounceInv, Arrived, NotYet, Traced, DuplicatesExcused, Sent, Unsent
  <2> QED BY <2>3, <2>4, <2>5 DEF AnnounceInv
<1>2. ASSUME Main PROVE AnnounceInv'
  BY <1>2, QuietStep, StartStep, RenderStep, HarvestStep, AbandonStep, CloseStep, MarkStep, FlushStep,
     MarkerWriteFailsStep, StopStep DEF Main
<1>3. ASSUME NEW w \in Pool, Work(w) PROVE AnnounceInv'
  BY <1>3, PopStep, DeliverStep, AcceptStep, UnansweredStep, RefuseStep, PanicStep, TellStep DEF Work
<1> QED BY <1>1, <1>2, <1>3 DEF Next

\* The invariant holds in every state of every behaviour.
LEMMA AnnounceInvariant == Spec => []AnnounceInv
BY AnnounceInit, AnnounceStep, PTL DEF Spec

-----------------------------------------------------------------------------
(***************************************************************************)
(* What the stage does, for any instance.                                  *)
(***************************************************************************)
\* Every variable keeps its type.
THEOREM AnnounceTypes == Spec => []AnnounceTypeOK
<1>1. AnnounceInv => AnnounceTypeOK
  BY DEF AnnounceInv
<1> QED BY <1>1, AnnounceInvariant, PTL

\* A second message goes to a channel only through one of the windows that
\* dispatch_active leaves open, however many runs, workers and faults.
THEOREM DuplicatesAreExcused == Spec => []DuplicatesExcused
<1>1. AnnounceInv => DuplicatesExcused
  BY DEF AnnounceInv
<1> QED BY <1>1, AnnounceInvariant, PTL

\* A stage that ends names in a warning every channel that took no message.
THEOREM NothingIsLostSilently == Spec => []NoSilentLoss
<1>1. ASSUME AnnounceInv PROVE NoSilentLoss
  <2> SUFFICES ASSUME pc = "done", NEW c \in Channel
               PROVE  posted[c] > 0 \/ c \in errors \cup abandoned
    BY DEF NoSilentLoss
  <2>1. c \in record \cup Done \/ c \in errors \cup abandoned
    BY <1>1 DEF AnnounceInv, Accounted, Past
  <2> QED BY <1>1, <2>1 DEF AnnounceInv, Arrived
<1> QED BY <1>1, AnnounceInvariant, PTL

\* Every step of the stage is a step of Delivery or leaves it alone.
LEMMA StepKeepsPromise ==
  ASSUME AnnounceInv, AnnounceInv', [Next]_vars
  PROVE  [Promise!Next]_<<posted, load(marker)>>
<1>2. ASSUME NEW w \in Pool, Deliver(w) PROVE Promise!Next
  <2>1. worker[w].at = "post" /\ worker[w].chan # NoChannel /\ worker[w].chan \in Channel
    BY <1>2, Places DEF AnnounceInv, PoolShape, Deliver
  <2>2. pc # "idle" /\ worker[w].chan \notin record
    BY <2>1 DEF AnnounceInv, PoolShape, OnlyExpected, Off
  <2>3. worker[w].chan \notin load(marker)
    BY <2>2 DEF AnnounceInv, MarkerShape
  <2>4. Promise!Post(worker[w].chan)
    BY <1>2, <2>3 DEF Deliver, Promise!Post
  <2> QED BY <2>1, <2>4 DEF Promise!Next
<1>3. ASSUME posted' = posted PROVE Promise!Record(load(marker'))
  BY <1>3 DEF AnnounceInv, Arrived, Promise!Record
<1>4. load(marker') \in SUBSET Channel
  BY DEF AnnounceInv, AnnounceTypeOK, load
<1>5. \/ posted' = posted
      \/ \E w \in Pool : Deliver(w)
  BY DEF Next, Main, Work, StartStage, EnabledFails, Render, DeadlinePasses, Collect, StopCollecting,
         Drain, Abandon, Close, mark_sent, flush, MarkerWriteFails, EndStage, Exit, Kill, Rest,
         Pop, Accept, Unanswered, Refuse, Panic, Tell, vars
<1> QED BY <1>2, <1>3, <1>4, <1>5 DEF Promise!Next

\* The announce stage implements Delivery: no channel that a readable marker
\* names is posted to, and none is named that no message has reached.
THEOREM AnnounceKeepsPromise == Spec => KeepsPromise
<1>1. Init => Promise!Init
  BY DEF Init, Promise!Init, load
<1>2. AnnounceInv /\ AnnounceInv' /\ [Next]_vars => [Promise!Next]_<<posted, load(marker)>>
  BY StepKeepsPromise
<1> QED BY <1>1, <1>2, AnnounceInvariant, PTL DEF Spec, KeepsPromise, Promise!Spec
=============================================================================
