------------------------ MODULE MatrixBuilderProofs -------------------------
(***************************************************************************)
(* Proofs about MatrixBuilder for any number of workers and pairs: however *)
(* the threads, the watchdog, the caller and the clock interleave.         *)
(***************************************************************************)
EXTENDS MatrixBuilder, FiniteSetTheorems, TLAPS

(* The workers that have a pair, that have answered one and not counted    *)
(* it, and that have returned; the pairs with an answer.                   *)
HasPair(w) == worker[w] \in {"check", "query"}
Counting == {w \in Workers : worker[w] = "count"}
Ended == {w \in Workers : worker[w] = "ended"}
Answered == {i \in Indices : results[i] # "missing"}

(* The types without the bounds that need an argument. *)
PlainTypes ==
  /\ next_pair \in Nat \ {0}
  /\ results \in [Indices -> Answers \cup {"missing"}]
  /\ completed_pairs \in Nat
  /\ progress_lock \in Workers \cup {NoWorker}
  /\ observed \in Nat
  /\ first_error \in 0..Pairs
  /\ matrix_timed_out \in BOOLEAN
  /\ caller_cancelled \in BOOLEAN
  /\ cancellation \in BOOLEAN
  /\ worker \in [Workers -> {"top", "take", "check", "query", "count", "report", "ended"}]
  /\ pair \in [Workers -> Nat]
  /\ watchdog \in {"watching", "ended"}
  /\ finished \in BOOLEAN
  /\ outcome \in {"none", "cancelled", "failed", "matrix", "panicked"}
  /\ caller_token \in BOOLEAN
  /\ deadline_passed \in BOOLEAN

(* A pair is with at most one worker, unanswered, and below the index.     *)
PairsApart ==
  /\ \A w \in Workers : HasPair(w) =>
       pair[w] \in Indices /\ pair[w] < next_pair /\ results[pair[w]] = "missing"
  /\ \A v, w \in Workers : (v # w /\ HasPair(v) /\ HasPair(w)) => pair[v] # pair[w]
  /\ \A i \in Indices : i >= next_pair => results[i] = "missing"

(* The counter lags behind the answers by the workers about to count, and  *)
(* the one that holds the lock reports the count it made.                  *)
AnswersCounted ==
  /\ completed_pairs + Cardinality(Counting) = Cardinality(Answered)
  /\ completed_pairs = observed + (IF progress_lock = NoWorker THEN 0 ELSE 1)
  /\ \A w \in Workers : worker[w] = "report" =>
       progress_lock = w /\ pair[w] = completed_pairs

(* A worker overshoots the shared index only to return. *)
OvershootBounded == next_pair <= Pairs + 1 + Cardinality(Ended)

(* The token is cancelled for a reason that is recorded, and a recorded    *)
(* failure has cancelled it.                                               *)
StopsAreRecorded ==
  /\ cancellation => matrix_timed_out \/ caller_cancelled \/ first_error # 0
  /\ first_error # 0 => cancellation

(* Until the token is cancelled every pair handed out is answered or with  *)
(* a worker, and nobody returns before all are handed out.                 *)
NothingIsDropped ==
  /\ ~cancellation => \A i \in Indices : (i < next_pair /\ results[i] = "missing") =>
       \E w \in Workers : HasPair(w) /\ pair[w] = i
  /\ \A w \in Workers : worker[w] = "ended" => cancellation \/ next_pair > Pairs

JoinedMeansEnded == finished => \A w \in Workers : worker[w] = "ended"

BuilderInvariant ==
  /\ PlainTypes /\ PairsApart /\ AnswersCounted /\ OvershootBounded
  /\ StopsAreRecorded /\ NothingIsDropped /\ JoinedMeansEnded
  /\ TimeoutIsHonest /\ AssemblyNeverPanics

-----------------------------------------------------------------------------
(* The sets of workers and of pairs are finite, with numbers for sizes. *)
LEMMA SizesFinite ==
  /\ IsFiniteSet(Counting) /\ Cardinality(Counting) \in Nat
  /\ IsFiniteSet(Ended) /\ Cardinality(Ended) \in Nat
  /\ Cardinality(Ended) <= Cardinality(Workers) /\ Cardinality(Workers) \in Nat
  /\ IsFiniteSet(Answered) /\ Cardinality(Answered) \in Nat /\ Cardinality(Answered) <= Pairs
<1>1. IsFiniteSet(Indices) /\ Cardinality(Indices) = Pairs
  BY PairsAssumption, FS_Interval DEF Indices
<1>2. Counting \subseteq Workers /\ Ended \subseteq Workers /\ Answered \subseteq Indices
  BY DEF Counting, Ended, Answered
<1> QED
  BY <1>1, <1>2, WorkersAssumption, FS_Subset, FS_CardinalityType

(* A pair without an answer is one the counter cannot have reached. *)
LEMMA AllAnswered ==
  ASSUME Cardinality(Answered) = Pairs
  PROVE  Missing = {}
<1>1. IsFiniteSet(Indices) /\ Cardinality(Indices) = Pairs
  BY PairsAssumption, FS_Interval DEF Indices
<1>2. Answered \subseteq Indices
  BY DEF Answered
<1>3. Answered = Indices
  BY <1>1, <1>2, FS_Subset
<1> QED
  BY <1>3 DEF Answered, Missing

(* Before the threads start nothing is handed out. *)
LEMMA InitBuilder == Init => BuilderInvariant
<1> SUFFICES ASSUME Init
             PROVE  BuilderInvariant
  OBVIOUS
<1>1. PlainTypes
  <2>1. /\ next_pair \in Nat \ {0} /\ first_error \in 0..Pairs
        /\ completed_pairs \in Nat /\ observed \in Nat
    BY PairsAssumption DEF Init
  <2>2. /\ results \in [Indices -> Answers \cup {"missing"}]
        /\ pair \in [Workers -> Nat]
    BY DEF Init
  <2> QED
    BY <2>1, <2>2 DEF Init, PlainTypes
<1>2. PairsApart
  BY DEF Init, PairsApart, HasPair
<1>3. AnswersCounted
  <2>1. Counting = {} /\ Answered = {}
    BY DEF Init, Counting, Answered
  <2> QED
    BY <2>1, FS_EmptySet DEF Init, AnswersCounted
<1>4. OvershootBounded
  BY SizesFinite, PairsAssumption DEF Init, OvershootBounded
<1>5. StopsAreRecorded /\ NothingIsDropped /\ JoinedMeansEnded
  BY DEF Init, StopsAreRecorded, NothingIsDropped, JoinedMeansEnded, Indices
<1>6. TimeoutIsHonest /\ AssemblyNeverPanics
  BY DEF Init, TimeoutIsHonest, AssemblyNeverPanics
<1> QED
  BY <1>1, <1>2, <1>3, <1>4, <1>5, <1>6 DEF BuilderInvariant

(* A step that leaves the workers and what they share alone, but for the   *)
(* token and its causes, keeps what is said about pairs and counters.      *)
LEMMA WorkUnchanged ==
  ASSUME BuilderInvariant,
         UNCHANGED <<next_pair, results, completed_pairs, progress_lock, observed, worker, pair>>
  PROVE  PairsApart' /\ AnswersCounted' /\ OvershootBounded'
<1>1. Counting' = Counting /\ Answered' = Answered /\ Ended' = Ended
  BY DEF Counting, Answered, Ended
<1> QED
  BY <1>1 DEF BuilderInvariant, PairsApart, AnswersCounted, OvershootBounded, HasPair

(* The caller, the clock and the watchdog stop the workers, in whichever   *)
(* order, and leave the cause behind.                                      *)
LEMMA OutsideSteps ==
  ASSUME BuilderInvariant, CallerCancels \/ DeadlinePasses \/ Watch \/ UNCHANGED vars
  PROVE  BuilderInvariant'
<1> USE DEF CallerCancels, DeadlinePasses, Watch, watch_caller, watch_deadline, watch_finished,
            shared, environment, vars
<1>1. /\ UNCHANGED <<next_pair, results, completed_pairs, progress_lock, observed, worker, pair,
                     first_error, finished, outcome>>
      /\ \/ UNCHANGED cancellation
         \/ cancellation' /\ (matrix_timed_out' \/ caller_cancelled')
      /\ matrix_timed_out => matrix_timed_out'
      /\ caller_cancelled => caller_cancelled'
      /\ deadline_passed => deadline_passed'
      /\ matrix_timed_out' => matrix_timed_out \/ deadline_passed
      /\ cancellation => cancellation'
  BY DEF BuilderInvariant, PlainTypes
<1>2. PlainTypes'
  <2>1. /\ matrix_timed_out' \in BOOLEAN /\ caller_cancelled' \in BOOLEAN
        /\ cancellation' \in BOOLEAN /\ watchdog' \in {"watching", "ended"}
    BY DEF BuilderInvariant, PlainTypes
  <2> QED
    BY <1>1, <2>1 DEF BuilderInvariant, PlainTypes
<1>3. StopsAreRecorded' /\ NothingIsDropped'
  BY <1>1 DEF BuilderInvariant, StopsAreRecorded, NothingIsDropped, HasPair
<1>4. JoinedMeansEnded' /\ TimeoutIsHonest' /\ AssemblyNeverPanics'
  BY <1>1 DEF BuilderInvariant, JoinedMeansEnded, TimeoutIsHonest, AssemblyNeverPanics
<1> QED
  BY <1>1, <1>2, <1>3, <1>4, WorkUnchanged DEF BuilderInvariant

(* Whoever returns is counted once among those that have returned. *)
LEMMA EndedGrows ==
  ASSUME PlainTypes, NEW w \in Workers, worker[w] # "ended", NEW to,
         worker' = [worker EXCEPT ![w] = to]
  PROVE  /\ to = "ended" => Cardinality(Ended') = Cardinality(Ended) + 1
         /\ to # "ended" => Ended' = Ended
         /\ Cardinality(Ended') \in Nat /\ Cardinality(Ended) \in Nat
         /\ Cardinality(Ended) <= Cardinality(Ended')
<1>1. IsFiniteSet(Ended) /\ Cardinality(Ended) \in Nat
  BY SizesFinite
<1>2. CASE to = "ended"
  <2>1. Ended' = Ended \cup {w} /\ w \notin Ended
    BY <1>2 DEF Ended, PlainTypes
  <2>2. Cardinality(Ended \cup {w}) = Cardinality(Ended) + 1
    BY <1>1, <2>1, FS_AddElement
  <2> QED
    BY <1>1, <1>2, <2>1, <2>2
<1>3. CASE to # "ended"
  BY <1>1, <1>3 DEF Ended, PlainTypes
<1> QED
  BY <1>2, <1>3

(* check_token: a worker that finds the token cancelled returns. *)
LEMMA CheckTokenStep ==
  ASSUME BuilderInvariant, NEW w \in Workers, check_token(w)
  PROVE  BuilderInvariant'
<1>1. /\ UNCHANGED <<next_pair, results, completed_pairs, progress_lock, observed, first_error,
                     matrix_timed_out, caller_cancelled, cancellation, pair, watchdog, finished,
                     outcome, caller_token, deadline_passed>>
      /\ worker[w] = "top"
      /\ worker' = [worker EXCEPT ![w] = IF cancellation THEN "ended" ELSE "take"]
  BY DEF check_token, Step, Elsewhere, shared, environment
<1>2. Counting' = Counting /\ Answered' = Answered
  BY <1>1 DEF BuilderInvariant, PlainTypes, Counting, Answered
<1>3. OvershootBounded'
  <2>1. PlainTypes /\ worker[w] # "ended"
    BY <1>1 DEF BuilderInvariant
  <2>2. /\ Cardinality(Ended') \in Nat /\ Cardinality(Ended) \in Nat
        /\ Cardinality(Ended) <= Cardinality(Ended')
    BY <1>1, <2>1, EndedGrows
  <2> QED
    BY <1>1, <2>1, <2>2, PairsAssumption DEF BuilderInvariant, PlainTypes, OvershootBounded
<1>4. PlainTypes' /\ PairsApart' /\ AnswersCounted'
  BY <1>1, <1>2 DEF BuilderInvariant, PlainTypes, PairsApart, AnswersCounted, HasPair
<1>5. NothingIsDropped'
  BY <1>1 DEF BuilderInvariant, PlainTypes, NothingIsDropped, HasPair
<1>6. StopsAreRecorded' /\ JoinedMeansEnded' /\ TimeoutIsHonest' /\ AssemblyNeverPanics'
  BY <1>1 DEF BuilderInvariant, PlainTypes, StopsAreRecorded, JoinedMeansEnded, TimeoutIsHonest,
              AssemblyNeverPanics
<1> QED
  BY <1>3, <1>4, <1>5, <1>6 DEF BuilderInvariant

(* take_pair: the index goes to this worker alone. *)
LEMMA TakePairStep ==
  ASSUME BuilderInvariant, NEW w \in Workers, take_pair(w)
  PROVE  BuilderInvariant'
<1>1. /\ UNCHANGED <<results, completed_pairs, progress_lock, observed, first_error,
                     matrix_timed_out, caller_cancelled, cancellation, watchdog, finished,
                     outcome, caller_token, deadline_passed>>
      /\ worker[w] = "take"
      /\ worker' = [worker EXCEPT ![w] = IF next_pair \in Indices THEN "check" ELSE "ended"]
      /\ next_pair' = next_pair + 1
      /\ pair' = [pair EXCEPT ![w] = next_pair]
  BY DEF take_pair, Step, Elsewhere, environment
<1>2. Counting' = Counting /\ Answered' = Answered
  BY <1>1 DEF BuilderInvariant, PlainTypes, Counting, Answered
<1>3. PlainTypes' /\ AnswersCounted'
  BY <1>1, <1>2 DEF BuilderInvariant, PlainTypes, AnswersCounted
<1>4. PairsApart'
  BY <1>1 DEF BuilderInvariant, PlainTypes, PairsApart, HasPair, Indices
<1>5. OvershootBounded'
  <2>0. PlainTypes /\ worker[w] # "ended"
    BY <1>1 DEF BuilderInvariant
  <2>1. CASE next_pair \in Indices
    <3>1. Cardinality(Ended') \in Nat
      BY <1>1, <2>0, EndedGrows
    <3> QED
      BY <1>1, <2>1, <3>1, PairsAssumption DEF OvershootBounded, Indices
  <2>2. CASE next_pair \notin Indices
    <3>1. Cardinality(Ended') = Cardinality(Ended) + 1
      BY <1>1, <2>0, <2>2, EndedGrows
    <3> QED
      BY <1>1, <2>0, <3>1, SizesFinite, PairsAssumption
         DEF BuilderInvariant, PlainTypes, OvershootBounded
  <2> QED
    BY <2>1, <2>2
<1>6. NothingIsDropped'
  <2>1. ASSUME ~cancellation, NEW i \in Indices, i < next_pair', results[i] = "missing"
        PROVE  \E v \in Workers : HasPair(v)' /\ pair'[v] = i
    <3>1. CASE i = next_pair
      BY <1>1, <3>1 DEF BuilderInvariant, PlainTypes, HasPair
    <3>2. CASE i < next_pair
      <4>1. PICK v \in Workers : HasPair(v) /\ pair[v] = i
        BY <2>1, <3>2 DEF BuilderInvariant, NothingIsDropped
      <4>2. v # w
        BY <1>1, <4>1 DEF HasPair
      <4> QED
        BY <1>1, <4>1, <4>2 DEF BuilderInvariant, PlainTypes, HasPair
    <3> QED
      BY <1>1, <2>1, <3>1, <3>2 DEF BuilderInvariant, PlainTypes, Indices
  <2>2. ASSUME NEW v \in Workers, worker'[v] = "ended"
        PROVE  cancellation \/ next_pair' > Pairs
    BY <1>1, <2>2, PairsAssumption DEF BuilderInvariant, PlainTypes, NothingIsDropped, Indices
  <2> QED
    BY <1>1, <2>1, <2>2 DEF NothingIsDropped
<1>7. StopsAreRecorded' /\ JoinedMeansEnded' /\ TimeoutIsHonest' /\ AssemblyNeverPanics'
  BY <1>1 DEF BuilderInvariant, PlainTypes, StopsAreRecorded, JoinedMeansEnded, TimeoutIsHonest,
              AssemblyNeverPanics
<1> QED
  BY <1>3, <1>4, <1>5, <1>6, <1>7 DEF BuilderInvariant

(* fail: the first failure is recorded together with the stop it causes. *)
LEMMA FailStep ==
  ASSUME BuilderInvariant, NEW w \in Workers, HasPair(w), NEW timed_out \in BOOLEAN,
         timed_out => deadline_passed, fail(w, timed_out), Elsewhere
  PROVE  BuilderInvariant'
<1>1. /\ UNCHANGED <<next_pair, results, completed_pairs, progress_lock, observed,
                     caller_cancelled, pair, watchdog, finished, outcome, caller_token,
                     deadline_passed>>
      /\ worker' = [worker EXCEPT ![w] = "ended"]
      /\ matrix_timed_out' = (matrix_timed_out \/ timed_out)
  BY DEF fail, Elsewhere, environment
<1>2. /\ PlainTypes /\ worker[w] \in {"check", "query"} /\ worker[w] # "ended"
      /\ pair[w] \in Indices
  BY DEF BuilderInvariant, HasPair, PairsApart
<1>3. cancellation' = TRUE /\ first_error' \in 1..Pairs
  BY <1>2 DEF fail, BuilderInvariant, StopsAreRecorded, PlainTypes, Indices
<1>4. Counting' = Counting /\ Answered' = Answered
  BY <1>1, <1>2 DEF PlainTypes, Counting, Answered
<1>5. OvershootBounded'
  <2>1. /\ Cardinality(Ended') \in Nat /\ Cardinality(Ended) \in Nat
        /\ Cardinality(Ended) <= Cardinality(Ended')
    BY <1>1, <1>2, EndedGrows
  <2> QED
    BY <1>1, <1>2, <2>1, PairsAssumption DEF BuilderInvariant, PlainTypes, OvershootBounded
<1>6. PlainTypes'
  BY <1>1, <1>2, <1>3 DEF PlainTypes
<1>7. PairsApart' /\ AnswersCounted'
  BY <1>1, <1>2, <1>4 DEF BuilderInvariant, PlainTypes, PairsApart, AnswersCounted, HasPair
<1>8. StopsAreRecorded' /\ NothingIsDropped'
  BY <1>3, PairsAssumption DEF StopsAreRecorded, NothingIsDropped
<1>9. JoinedMeansEnded' /\ TimeoutIsHonest' /\ AssemblyNeverPanics'
  BY <1>1, <1>2 DEF BuilderInvariant, PlainTypes, JoinedMeansEnded, TimeoutIsHonest,
                    AssemblyNeverPanics
<1> QED
  BY <1>5, <1>6, <1>7, <1>8, <1>9 DEF BuilderInvariant

(* check_deadline: the pair is dropped, with a recorded cause, or queried. *)
LEMMA CheckDeadlineStep ==
  ASSUME BuilderInvariant, NEW w \in Workers, check_deadline(w)
  PROVE  BuilderInvariant'
<1>1. CASE deadline_passed /\ fail(w, TRUE)
  BY <1>1, FailStep DEF check_deadline, HasPair
<1>2. CASE ~(deadline_passed /\ fail(w, TRUE))
  <2>1. /\ UNCHANGED <<next_pair, results, completed_pairs, progress_lock, observed, first_error,
                       matrix_timed_out, caller_cancelled, cancellation, pair, watchdog,
                       finished, outcome, caller_token, deadline_passed>>
        /\ worker[w] = "check"
        /\ worker' = [worker EXCEPT ![w] = IF cancellation THEN "ended" ELSE "query"]
    BY <1>2 DEF check_deadline, Step, Elsewhere, shared, environment
  <2>2. Counting' = Counting /\ Answered' = Answered
    BY <2>1 DEF BuilderInvariant, PlainTypes, Counting, Answered
  <2>3. OvershootBounded'
    <3>1. PlainTypes /\ worker[w] # "ended"
      BY <2>1 DEF BuilderInvariant
    <3>2. /\ Cardinality(Ended') \in Nat /\ Cardinality(Ended) \in Nat
          /\ Cardinality(Ended) <= Cardinality(Ended')
      BY <2>1, <3>1, EndedGrows
    <3> QED
      BY <2>1, <3>1, <3>2, PairsAssumption DEF BuilderInvariant, PlainTypes, OvershootBounded
  <2>4. PlainTypes' /\ PairsApart' /\ AnswersCounted'
    BY <2>1, <2>2 DEF BuilderInvariant, PlainTypes, PairsApart, AnswersCounted, HasPair
  <2>5. NothingIsDropped'
    BY <2>1 DEF BuilderInvariant, PlainTypes, NothingIsDropped, HasPair
  <2>6. StopsAreRecorded' /\ JoinedMeansEnded' /\ TimeoutIsHonest' /\ AssemblyNeverPanics'
    BY <2>1 DEF BuilderInvariant, PlainTypes, StopsAreRecorded, JoinedMeansEnded,
                TimeoutIsHonest, AssemblyNeverPanics
  <2> QED
    BY <2>3, <2>4, <2>5, <2>6 DEF BuilderInvariant
<1> QED
  BY <1>1, <1>2

(* The provider's answer is stored for the pair nobody else works on. *)
LEMMA ProviderStep ==
  ASSUME BuilderInvariant, NEW w \in Workers, provider_answers(w) \/ provider_fails(w)
  PROVE  BuilderInvariant'
<1>0. HasPair(w) /\ Elsewhere /\ PlainTypes /\ worker[w] = "query" /\ deadline_passed \in BOOLEAN
  BY DEF provider_answers, provider_fails, HasPair, BuilderInvariant, PlainTypes
<1>1. CASE fail(w, TRUE) /\ deadline_passed
  BY <1>0, <1>1, FailStep
<1>2. CASE fail(w, deadline_passed)
  BY <1>0, <1>2, FailStep
<1>3. ASSUME NEW answer \in Answers, results' = [results EXCEPT ![pair[w]] = answer],
             Step(w, "query", "count"),
             UNCHANGED <<next_pair, completed_pairs, progress_lock, observed, first_error,
                         matrix_timed_out, caller_cancelled, cancellation, pair>>
      PROVE  BuilderInvariant'
  <2>1. /\ worker' = [worker EXCEPT ![w] = "count"]
        /\ UNCHANGED <<watchdog, finished, outcome, caller_token, deadline_passed>>
    BY <1>0, <1>3 DEF Step, Elsewhere, environment
  <2>2. pair[w] \in Indices /\ results[pair[w]] = "missing" /\ pair[w] < next_pair
    BY <1>0 DEF BuilderInvariant, PairsApart
  <2>3. Counting' = Counting \cup {w} /\ w \notin Counting
    BY <1>0, <2>1 DEF PlainTypes, Counting
  <2>4. Answered' = Answered \cup {pair[w]} /\ pair[w] \notin Answered
    BY <1>0, <1>3, <2>2 DEF PlainTypes, Answered, Answers
  <2>5. /\ Cardinality(Counting \cup {w}) = Cardinality(Counting) + 1
        /\ Cardinality(Answered \cup {pair[w]}) = Cardinality(Answered) + 1
    BY <2>3, <2>4, SizesFinite, FS_AddElement
  <2>6. PlainTypes'
    BY <1>0, <1>3, <2>1, <2>2 DEF PlainTypes
  <2>7. PairsApart'
    BY <1>0, <1>3, <2>1, <2>2 DEF BuilderInvariant, PlainTypes, PairsApart, HasPair, Indices
  <2>8. AnswersCounted'
    <3>1. completed_pairs + Cardinality(Counting') = Cardinality(Answered')
      BY <1>0, <2>3, <2>4, <2>5, SizesFinite DEF BuilderInvariant, PlainTypes, AnswersCounted
    <3> QED
      BY <1>0, <1>3, <2>1, <3>1 DEF BuilderInvariant, PlainTypes, AnswersCounted
  <2>9. OvershootBounded'
    <3>1. Ended' = Ended
      BY <1>0, <2>1 DEF PlainTypes, Ended
    <3> QED
      BY <1>3, <3>1 DEF BuilderInvariant, OvershootBounded
  <2>10. NothingIsDropped'
    <3>1. ASSUME ~cancellation, NEW i \in Indices, i < next_pair, results'[i] = "missing"
          PROVE  \E v \in Workers : HasPair(v)' /\ pair'[v] = i
      <4>1. i # pair[w] /\ results[i] = "missing"
        BY <1>0, <1>3, <2>2, <3>1 DEF PlainTypes, Answers
      <4>2. PICK v \in Workers : HasPair(v) /\ pair[v] = i
        BY <3>1, <4>1 DEF BuilderInvariant, NothingIsDropped
      <4> QED
        BY <1>0, <1>3, <2>1, <4>1, <4>2 DEF PlainTypes, HasPair
    <3> QED
      BY <1>0, <1>3, <2>1, <3>1 DEF BuilderInvariant, PlainTypes, NothingIsDropped
  <2>11. StopsAreRecorded' /\ JoinedMeansEnded' /\ TimeoutIsHonest' /\ AssemblyNeverPanics'
    BY <1>0, <1>3, <2>1 DEF BuilderInvariant, PlainTypes, StopsAreRecorded, JoinedMeansEnded,
                            TimeoutIsHonest, AssemblyNeverPanics
  <2> QED
    BY <2>6, <2>7, <2>8, <2>9, <2>10, <2>11 DEF BuilderInvariant
<1> QED
  BY <1>1, <1>2, <1>3 DEF provider_answers, provider_fails

(* count_pair: under the lock one answer moves into the counter. *)
LEMMA CountPairStep ==
  ASSUME BuilderInvariant, NEW w \in Workers, count_pair(w)
  PROVE  BuilderInvariant'
<1>1. /\ UNCHANGED <<next_pair, results, observed, first_error, matrix_timed_out,
                     caller_cancelled, cancellation, watchdog, finished, outcome,
                     caller_token, deadline_passed>>
      /\ worker[w] = "count" /\ worker' = [worker EXCEPT ![w] = "report"]
      /\ progress_lock = NoWorker /\ progress_lock' = w
      /\ completed_pairs' = completed_pairs + 1
      /\ pair' = [pair EXCEPT ![w] = completed_pairs + 1]
  BY DEF count_pair, Step, Elsewhere, environment
<1>2. PlainTypes
  BY DEF BuilderInvariant
<1>3. Counting' = Counting \ {w} /\ w \in Counting /\ Answered' = Answered /\ Ended' = Ended
  BY <1>1, <1>2 DEF PlainTypes, Counting, Answered, Ended
<1>4. /\ Cardinality(Counting \ {w}) = Cardinality(Counting) - 1
      /\ Cardinality(Counting) \in Nat /\ Cardinality(Answered) \in Nat
  BY <1>3, SizesFinite, FS_RemoveElement
<1>5. PlainTypes'
  BY <1>1, <1>2 DEF PlainTypes
<1>6. AnswersCounted'
  <2>1. completed_pairs' + Cardinality(Counting') = Cardinality(Answered')
    BY <1>1, <1>2, <1>3, <1>4 DEF BuilderInvariant, PlainTypes, AnswersCounted
  <2>2. completed_pairs' = observed' + 1 /\ progress_lock' # NoWorker
    BY <1>1, <1>2, NoWorkerAssumption DEF BuilderInvariant, PlainTypes, AnswersCounted
  <2>3. \A v \in Workers : worker[v] # "report"
    BY <1>1, NoWorkerAssumption DEF BuilderInvariant, AnswersCounted
  <2> QED
    BY <1>1, <1>2, <2>1, <2>2, <2>3 DEF PlainTypes, AnswersCounted
<1>7. PairsApart' /\ OvershootBounded'
  BY <1>1, <1>2, <1>3 DEF BuilderInvariant, PlainTypes, PairsApart, OvershootBounded, HasPair
<1>8. NothingIsDropped'
  <2>1. ASSUME ~cancellation, NEW i \in Indices, i < next_pair, results[i] = "missing"
        PROVE  \E v \in Workers : HasPair(v)' /\ pair'[v] = i
    <3>1. PICK v \in Workers : HasPair(v) /\ pair[v] = i
      BY <2>1 DEF BuilderInvariant, NothingIsDropped
    <3> QED
      BY <1>1, <1>2, <3>1 DEF PlainTypes, HasPair
  <2> QED
    BY <1>1, <1>2, <2>1 DEF BuilderInvariant, PlainTypes, NothingIsDropped
<1>9. StopsAreRecorded' /\ JoinedMeansEnded' /\ TimeoutIsHonest' /\ AssemblyNeverPanics'
  BY <1>1, <1>2 DEF BuilderInvariant, PlainTypes, StopsAreRecorded, JoinedMeansEnded,
                    TimeoutIsHonest, AssemblyNeverPanics
<1> QED
  BY <1>5, <1>6, <1>7, <1>8, <1>9 DEF BuilderInvariant

(* pairs_completed: the observer is told the count, then the lock is free. *)
LEMMA ReportStep ==
  ASSUME BuilderInvariant, NEW w \in Workers, pairs_completed(w)
  PROVE  BuilderInvariant'
<1>1. /\ UNCHANGED <<next_pair, results, completed_pairs, first_error, matrix_timed_out,
                     caller_cancelled, cancellation, pair, watchdog, finished, outcome,
                     caller_token, deadline_passed>>
      /\ worker[w] = "report" /\ worker' = [worker EXCEPT ![w] = "top"]
      /\ observed' = pair[w] /\ progress_lock' = NoWorker
  BY DEF pairs_completed, Step, Elsewhere, environment
<1>2. PlainTypes
  BY DEF BuilderInvariant
<1>3. Counting' = Counting /\ Answered' = Answered /\ Ended' = Ended
  BY <1>1, <1>2 DEF PlainTypes, Counting, Answered, Ended
<1>4. PlainTypes'
  BY <1>1, <1>2 DEF PlainTypes
<1>5. AnswersCounted'
  <2>1. pair[w] = completed_pairs /\ \A v \in Workers : v # w => worker[v] # "report"
    BY <1>1 DEF BuilderInvariant, AnswersCounted
  <2> QED
    BY <1>1, <1>2, <1>3, <2>1 DEF BuilderInvariant, PlainTypes, AnswersCounted
<1>6. PairsApart' /\ OvershootBounded'
  BY <1>1, <1>2, <1>3 DEF BuilderInvariant, PlainTypes, PairsApart, OvershootBounded, HasPair
<1>7. NothingIsDropped'
  BY <1>1, <1>2 DEF BuilderInvariant, PlainTypes, NothingIsDropped, HasPair
<1>8. StopsAreRecorded' /\ JoinedMeansEnded' /\ TimeoutIsHonest' /\ AssemblyNeverPanics'
  BY <1>1, <1>2 DEF BuilderInvariant, PlainTypes, StopsAreRecorded, JoinedMeansEnded,
                    TimeoutIsHonest, AssemblyNeverPanics
<1> QED
  BY <1>4, <1>5, <1>6, <1>7, <1>8 DEF BuilderInvariant

(* What the owner finds when everybody has returned: either a cause is     *)
(* recorded or every pair is answered, and the counter tells which.        *)
LEMMA JoinedState ==
  ASSUME BuilderInvariant, finished
  PROVE  /\ completed_pairs = Cardinality(Answered)
         /\ (~matrix_timed_out /\ ~caller_cancelled /\ first_error = 0) => Missing = {}
<1>1. \A w \in Workers : worker[w] = "ended"
  BY DEF BuilderInvariant, JoinedMeansEnded
<1>2. Cardinality(Counting) = 0
  <2>1. Counting = {}
    BY <1>1 DEF Counting
  <2> QED
    BY <2>1, FS_EmptySet
<1>3. ASSUME ~matrix_timed_out, ~caller_cancelled, first_error = 0
      PROVE  Missing = {}
  <2>1. ~cancellation
    BY <1>3 DEF BuilderInvariant, StopsAreRecorded
  <2>2. next_pair > Pairs
    BY <1>1, <2>1, WorkersAssumption DEF BuilderInvariant, NothingIsDropped
  <2>3. \A i \in Indices : i < next_pair
    BY <2>2, PairsAssumption DEF BuilderInvariant, PlainTypes, Indices
  <2> QED
    BY <1>1, <2>1, <2>3 DEF BuilderInvariant, NothingIsDropped, HasPair, Missing
<1> QED
  BY <1>2, <1>3, SizesFinite DEF BuilderInvariant, PlainTypes, AnswersCounted

(* The owner: joining the workers, then the assembly whose expects hold. *)
LEMMA OwnerSteps ==
  ASSUME BuilderInvariant, join_workers \/ assemble
  PROVE  BuilderInvariant'
<1>1. UNCHANGED <<next_pair, results, completed_pairs, progress_lock, observed, first_error,
                  matrix_timed_out, caller_cancelled, cancellation, worker, pair, watchdog,
                  caller_token, deadline_passed>>
  BY DEF join_workers, assemble, shared, environment
<1>2. CASE join_workers
  <2>1. finished' = TRUE /\ outcome' = outcome /\ \A w \in Workers : worker[w] = "ended"
    BY <1>2 DEF join_workers
  <2> QED
    BY <1>1, <2>1, WorkUnchanged DEF BuilderInvariant, PlainTypes, StopsAreRecorded,
       NothingIsDropped, HasPair, JoinedMeansEnded, TimeoutIsHonest, AssemblyNeverPanics
<1>3. CASE assemble
  <2>1. finished /\ finished' = finished /\ outcome' = BuildOutcome
    BY <1>3 DEF assemble
  <2>2. /\ completed_pairs = Cardinality(Answered)
        /\ (~matrix_timed_out /\ ~caller_cancelled /\ first_error = 0) => Missing = {}
    BY <2>1, JoinedState
  <2>3. completed_pairs \in Nat /\ completed_pairs <= Pairs
    BY <2>2, SizesFinite
  <2>4. ~(completed_pairs < Pairs) => Missing = {}
    BY <2>2, <2>3, AllAnswered, PairsAssumption
  <2>5. completed_pairs < Pairs => Missing # {}
    <3>1. ASSUME Missing = {}
          PROVE  completed_pairs = Pairs
      <4>1. Answered = Indices
        BY <3>1 DEF Answered, Missing
      <4> QED
        BY <2>2, <4>1, PairsAssumption, FS_Interval DEF Indices
    <3> QED
      BY <3>1, PairsAssumption
  <2>6. BuildOutcome \in {"cancelled", "failed", "matrix"}
    <3>1. CASE caller_cancelled \/ caller_token
      BY <3>1 DEF BuildOutcome
    <3>2. CASE ~(caller_cancelled \/ caller_token) /\ first_error # 0
      BY <3>2 DEF BuildOutcome
    <3>3. CASE ~(caller_cancelled \/ caller_token) /\ first_error = 0
                 /\ matrix_timed_out /\ completed_pairs < Pairs
      BY <3>3, <2>5 DEF BuildOutcome
    <3>4. CASE ~(caller_cancelled \/ caller_token) /\ first_error = 0
                 /\ ~(matrix_timed_out /\ completed_pairs < Pairs)
      BY <3>4, <2>2, <2>4 DEF BuildOutcome
    <3> QED
      BY <3>1, <3>2, <3>3, <3>4
  <2> QED
    BY <1>1, <2>1, <2>6, WorkUnchanged DEF BuilderInvariant, PlainTypes, StopsAreRecorded,
       NothingIsDropped, HasPair, JoinedMeansEnded, TimeoutIsHonest, AssemblyNeverPanics
<1> QED
  BY <1>2, <1>3

-----------------------------------------------------------------------------
(* Every step of every thread keeps the invariant. *)
LEMMA NextBuilder == BuilderInvariant /\ [Next]_vars => BuilderInvariant'
<1> SUFFICES ASSUME BuilderInvariant, [Next]_vars
             PROVE  BuilderInvariant'
  OBVIOUS
<1>1. CASE CallerCancels \/ DeadlinePasses \/ Watch \/ UNCHANGED vars
  BY <1>1, OutsideSteps
<1>2. ASSUME NEW w \in Workers, Work(w)
      PROVE  BuilderInvariant'
  BY <1>2, CheckTokenStep, TakePairStep, CheckDeadlineStep, ProviderStep, CountPairStep,
     ReportStep DEF Work
<1>3. CASE join_workers \/ assemble
  BY <1>3, OwnerSteps
<1> QED
  BY <1>1, <1>2, <1>3 DEF Next

(* The strengthening gives the bounds of TypeOK and the two properties. *)
LEMMA InvariantImplies == BuilderInvariant => BuildInvariant /\ AssemblyNeverPanics
<1> SUFFICES ASSUME BuilderInvariant
             PROVE  BuildInvariant /\ AssemblyNeverPanics
  OBVIOUS
<1>1. next_pair \in 1..(Pairs + 1 + Cardinality(Workers))
  BY SizesFinite, PairsAssumption DEF BuilderInvariant, PlainTypes, OvershootBounded
<1>2. completed_pairs \in 0..Pairs /\ observed \in 0..Pairs
  BY SizesFinite, PairsAssumption DEF BuilderInvariant, PlainTypes, AnswersCounted
<1>3. TypeOK
  BY <1>1, <1>2 DEF BuilderInvariant, PlainTypes, TypeOK
<1>4. PairsHandedOutOnce
  BY DEF BuilderInvariant, PairsApart, HasPair, PairsHandedOutOnce
<1> QED
  BY <1>3, <1>4 DEF BuilderInvariant, BuildInvariant

(* However the threads interleave and whoever stops them, no pair is       *)
(* worked on twice, the counters stay within the pairs, and a timeout is   *)
(* recorded only after the deadline.                                       *)
THEOREM BuildIsSound == Spec => []BuildInvariant
BY InitBuilder, NextBuilder, InvariantImplies, PTL DEF Spec

(* Under the lock each report follows the previous one by exactly one. *)
THEOREM ReportsInOrder == Spec => ObservedInOrder
<1>1. ASSUME BuilderInvariant, [Next]_vars
      PROVE  [observed' = observed + 1]_observed
  <2> SUFFICES ASSUME observed' # observed
               PROVE  observed' = observed + 1
    OBVIOUS
  <2>1. PICK w \in Workers : pairs_completed(w)
    BY <1>1 DEF Next, vars, CallerCancels, DeadlinePasses, Work, check_token, take_pair,
       check_deadline, provider_answers, provider_fails, fail, count_pair, Watch, watch_caller,
       watch_deadline, watch_finished, join_workers, assemble, shared
  <2> QED
    BY <1>1, <2>1, NoWorkerAssumption
       DEF pairs_completed, Step, BuilderInvariant, PlainTypes, AnswersCounted
<1> QED
  BY <1>1, InitBuilder, NextBuilder, PTL DEF Spec, ObservedInOrder

(* The two expects of the assembly (src/routing/matrix_builder.rs) never   *)
(* fail: without a recorded cause every pair has its result, and a build   *)
(* that timed out before the last pair has one without.                    *)
THEOREM ExpectsHold == Spec => []AssemblyNeverPanics
BY InitBuilder, NextBuilder, InvariantImplies, PTL DEF Spec
=============================================================================
