------------------------- MODULE SolverEventsProofs --------------------------
(***************************************************************************)
(* Proofs about SolverEvents for every trace, page limit, cursor and       *)
(* number of failures.                                                     *)
(***************************************************************************)
EXTENDS SolverEvents, FiniteSetTheorems, FunctionTheorems, TLAPS

Pieces == [entry : Nat \ {0}, whole : BOOLEAN]

TypeOK ==
  /\ up \in BOOLEAN
  /\ runner \in {"consuming", "done"}
  /\ next \in 1..(Len(Trace) + 1)
  /\ log \in [lines : Seq(Seq(Pieces)), open : BOOLEAN]
  /\ kept \in SUBSET Nat /\ IsFiniteSet(kept)
  /\ faults \in Nat
  /\ status \in {"running"} \union Terminal
  /\ stream \in [pc : {"absent", "page", "check", "ended", "broken"}, cursor : Nat, from : Nat,
                 got : Seq(Nat), short : BOOLEAN, seen : Nat]
  /\ poller \in [pc : {"absent", "job", "events", "idle"}, after : Nat, from : Nat,
                 got : Seq(Nat), summary : BOOLEAN, terminal : BOOLEAN, done : BOOLEAN]

(* Another event may still reach the file: Trace[next], whole or in part. *)
Writable == runner = "consuming" /\ next <= Len(Trace)

(* The lines of the file are in the order of the trace, and the next event *)
(* is younger than everything begun, stored or kept.                       *)
FileIsOrdered ==
  /\ log.open => log.lines # <<>>
  /\ \A i \in DOMAIN log.lines : Len(log.lines[i]) > 0
  /\ \A i, j \in DOMAIN log.lines : i < j => EntryAt(log, i) < EntryAt(log, j)
  /\ Writable => \A i \in DOMAIN log.lines : EntryAt(log, i) < Trace[next]
  /\ Writable => \A e \in kept : e < Trace[next]

(* An open line was begun by a failed append, and the event that continues *)
(* it is the one loss that this failure may still cause.                   *)
LossIsBounded ==
  /\ log.open => EntryAt(log, Len(log.lines)) \notin kept
  /\ Cardinality(kept \ Readable) + (IF log.open THEN 1 ELSE 0) <= faults

(* What a reader with a cursor holds. *)
Follows(got, from, cursor) ==
  /\ \A i, j \in DOMAIN got : i < j => got[i] < got[j]
  /\ \A e \in ToSet(got) : from < e /\ e <= cursor
  /\ cursor = from \/ cursor \in ToSet(got)
  /\ Writable => \A e \in ToSet(got) : e < Trace[next]
  /\ \A e \in Readable : from < e /\ e <= cursor => e \in ToSet(got)

HasAll(got, from) == \A e \in Readable : e > from => e \in ToSet(got)

StreamInvariant ==
  /\ Follows(stream.got, stream.from, stream.cursor)
  /\ stream.pc = "ended" => status \in Terminal
  /\ stream.seen <= Len(log.lines)
  /\ stream.pc \in {"check", "ended"} /\ stream.short /\ stream.seen = Len(log.lines)
       => HasAll(stream.got, stream.from)

(* Only the stored result of a completed job answers for the file. *)
PollerInvariant ==
  /\ Follows(poller.got, poller.from, poller.after)
  /\ status = "completed" => runner = "done"
  /\ poller.summary => status = "completed"
  /\ poller.done => poller.pc = "idle"
  /\ poller.done /\ poller.summary => HasAll(poller.got, poller.from)

TelemetryInvariant ==
  TypeOK /\ FileIsOrdered /\ LossIsBounded /\ StreamInvariant /\ PollerInvariant

-----------------------------------------------------------------------------
(* The rank of a position counts the positions up to it: ranks grow with   *)
(* positions, and every number up to the size of the set is a rank.        *)
LEMMA RanksGrow ==
  ASSUME NEW S \in SUBSET Nat, IsFiniteSet(S), NEW i \in S, NEW j \in S, i < j
  PROVE  /\ Cardinality({m \in S : m <= i}) \in Nat /\ Cardinality({m \in S : m <= j}) \in Nat
         /\ Cardinality({m \in S : m <= i}) < Cardinality({m \in S : m <= j})
<1> DEFINE A == {m \in S : m <= i}
           B == {m \in S : m <= j}
<1>1. A \in SUBSET S /\ B \in SUBSET S /\ IsFiniteSet(A) /\ IsFiniteSet(B)
  BY FS_Subset
<1>2. Cardinality(A) \in Nat /\ Cardinality(B) \in Nat
  BY <1>1, FS_CardinalityType
<1>3. j \in B /\ j \notin A /\ A \subseteq B
  <2>1. \A m \in S : m \in Nat
    OBVIOUS
  <2>2. i \in Nat /\ j \in Nat /\ i < j
    BY <2>1
  <2>3. j <= j /\ ~(j <= i)
    BY <2>2
  <2>4. \A m \in S : m <= i => m <= j
    BY <2>1, <2>2
  <2> QED
    BY <2>3, <2>4, Zenon
<1>4. IsFiniteSet(A \union {j}) /\ Cardinality(A \union {j}) = Cardinality(A) + 1
  BY <1>1, <1>3, FS_AddElement
<1>5. Cardinality(A \union {j}) <= Cardinality(B)
  BY <1>1, <1>3, FS_Subset
<1> HIDE DEF A, B
<1>6. Cardinality(A) < Cardinality(B)
  BY <1>2, <1>4, <1>5
<1> QED
  BY <1>2, <1>6 DEF A, B

(* The ranks of a finite set of positions are exactly 1..Cardinality: InOrder leaves
   no place of the sequence without a line. *)
LEMMA RanksExhaust ==
  ASSUME NEW S \in SUBSET Nat, IsFiniteSet(S), NEW k \in 1..Cardinality(S)
  PROVE  \E i \in S : Cardinality({m \in S : m <= i}) = k
<1> DEFINE n == Cardinality(S)
           r == [i \in S |-> Cardinality({m \in S : m <= i})]
<1>1. n \in Nat
  BY FS_CardinalityType
<1>2. \A i \in S : r[i] \in 1..n
  <2> TAKE i \in S
  <2> DEFINE A == {m \in S : m <= i}
  <2>1. A \in SUBSET S /\ IsFiniteSet(A) /\ Cardinality(A) <= n
    BY FS_Subset
  <2>2. Cardinality(A) \in Nat /\ i \in A
    BY <2>1, FS_CardinalityType
  <2>3. Cardinality(A) # 0
    BY <2>1, <2>2, FS_EmptySet
  <2>4. r[i] = Cardinality(A)
    OBVIOUS
  <2> HIDE DEF A, n, r
  <2> QED
    BY <1>1, <2>1, <2>2, <2>3, <2>4
<1>3. \A i, j \in S : i < j => r[i] < r[j]
  BY RanksGrow
<1>4. r \in Injection(S, 1..n)
  <2>1. r \in [S -> 1..n]
    BY <1>2
  <2>2. \A i, j \in S : r[i] = r[j] => i = j
    <3> HIDE DEF r, n
    <3> SUFFICES ASSUME NEW i \in S, NEW j \in S, r[i] = r[j], i # j
                 PROVE  FALSE
      OBVIOUS
    <3>1. i \in Nat /\ j \in Nat /\ r[i] \in Nat
      BY <1>1, <1>2
    <3> QED
      BY <1>3, <3>1
  <2> HIDE DEF r, n
  <2> QED
    BY <2>1, <2>2 DEF Injection, IsInjective
<1>5. IsFiniteSet(1..n) /\ Cardinality(1..n) = n
  <2> HIDE DEF n
  <2> QED
    BY <1>1, FS_Interval
<1>6. r \in Surjection(S, 1..n)
  BY <1>4, <1>5, FS_Injection
<1> QED
  BY <1>6 DEF Surjection

(* InOrder enumerates a finite set of positions in increasing order. *)
LEMMA InOrderEnumerates ==
  ASSUME NEW S \in SUBSET Nat, IsFiniteSet(S)
  PROVE  /\ Cardinality(S) \in Nat
         /\ InOrder(S) \in [1..Cardinality(S) -> S]
         /\ \A k, l \in 1..Cardinality(S) : k < l => InOrder(S)[k] < InOrder(S)[l]
         /\ \A i \in S : \E k \in 1..Cardinality(S) : InOrder(S)[k] = i
<1> DEFINE n == Cardinality(S)
           Rank(i) == Cardinality({m \in S : m <= i})
           f == InOrder(S)
<1>1. n \in Nat
  BY FS_CardinalityType
<1>2. \A k \in 1..n : f[k] \in S /\ Rank(f[k]) = k
  <2> TAKE k \in 1..n
  <2>1. f[k] = CHOOSE i \in S : Rank(i) = k
    BY DEF InOrder
  <2>2. \E i \in S : Rank(i) = k
    BY RanksExhaust
  <2> HIDE DEF Rank, f
  <2> QED
    BY <2>1, <2>2
<1>3. \A i, j \in S : i < j => Rank(i) \in Nat /\ Rank(j) \in Nat /\ Rank(i) < Rank(j)
  BY RanksGrow
<1>4. f \in [1..n -> S]
  <2> DEFINE c == [k \in 1..n |-> CHOOSE i \in S : Rank(i) = k]
  <2>1. f = c
    BY DEF InOrder
  <2>2. \A k \in 1..n : c[k] \in S
    BY <1>2, <2>1
  <2>3. c \in [1..n -> S]
    BY <2>2
  <2> QED
    BY <2>1, <2>3
<1>5. \A k, l \in 1..n : k < l => f[k] < f[l]
  <2> SUFFICES ASSUME NEW k \in 1..n, NEW l \in 1..n, k < l
               PROVE  f[k] < f[l]
    OBVIOUS
  <2>1. f[k] \in S /\ f[l] \in S /\ Rank(f[k]) = k /\ Rank(f[l]) = l
    BY <1>2
  <2> HIDE DEF f, n, Rank
  <2>2. k \in Nat /\ l \in Nat /\ f[k] \in Nat /\ f[l] \in Nat
    <3>1. \A i \in S : i \in Nat
      OBVIOUS
    <3>2. f[k] \in Nat /\ f[l] \in Nat
      BY <2>1, <3>1, Zenon
    <3>3. k \in Nat /\ l \in Nat
      BY <1>1
    <3> QED
      BY <3>2, <3>3
  <2>3. f[k] # f[l]
    BY <2>1, <2>2
  <2>4. ~(f[l] < f[k])
    BY <1>3, <2>1, <2>2
  <2> QED
    BY <2>2, <2>3, <2>4
<1>6. f \in Injection(1..n, S)
  <2> HIDE DEF f, n, Rank
  <2>1. \A k, l \in 1..n : f[k] = f[l] => k = l
    BY <1>2
  <2> QED
    BY <1>4, <2>1 DEF Injection, IsInjective
<1>7. Cardinality(1..n) = n
  <2> HIDE DEF n
  <2> QED
    BY <1>1, FS_Interval
<1>8. f \in Surjection(1..n, S)
  BY <1>6, <1>7, FS_Injection
<1>9. \A i \in S : \E k \in 1..n : f[k] = i
  BY <1>8 DEF Surjection
<1> QED
  BY <1>1, <1>4, <1>5, <1>9

PageOf(S, f, limit) == Truncated([k \in DOMAIN InOrder(S) |-> f[InOrder(S)[k]]], limit)

(* A page of events that are in the order of their positions: it is in     *)
(* order, it has everything up to its last event, and all of it when it is *)
(* not full.                                                               *)
LEMMA PageFacts ==
  ASSUME NEW S \in SUBSET Nat, IsFiniteSet(S), NEW f \in [S -> Nat],
         \A i, j \in S : i < j => f[i] < f[j],
         NEW limit \in Nat \ {0},
         NEW page, page = PageOf(S, f, limit)
  PROVE  /\ page \in Seq(Nat) /\ Len(page) <= limit
         /\ \A k, l \in DOMAIN page : k < l => page[k] < page[l]
         /\ \A e \in ToSet(page) : \E i \in S : e = f[i]
         /\ page = <<>> => S = {}
         /\ page # <<>> => \A i \in S : f[i] <= page[Len(page)] => f[i] \in ToSet(page)
         /\ Len(page) < limit => \A i \in S : f[i] \in ToSet(page)
<1> DEFINE n == Cardinality(S)
           g == InOrder(S)
           h == [k \in DOMAIN g |-> f[g[k]]]
           m == IF n < limit THEN n ELSE limit
<1>1. n \in Nat /\ g \in [1..n -> S] /\ DOMAIN g = 1..n
  BY InOrderEnumerates
<1>2. \A k, l \in 1..n : k < l => g[k] < g[l]
  BY InOrderEnumerates
<1>3. \A i \in S : \E k \in 1..n : g[k] = i
  BY InOrderEnumerates
<1> HIDE DEF n, g
<1>4. h \in [1..n -> Nat] /\ \A k \in 1..n : h[k] = f[g[k]]
  BY <1>1
<1>5. \A k, l \in 1..n : k < l => h[k] < h[l]
  BY <1>1, <1>2, <1>4
<1>6. h \in Seq(Nat) /\ Len(h) = n
  <2> HIDE DEF h
  <2> QED
    BY <1>1, <1>4
<1>7. page = SubSeq(h, 1, m) /\ m \in 0..n /\ m <= limit /\ (m < limit => m = n)
      /\ (n > 0 => m > 0)
  <2>1. page = Truncated(h, limit)
    BY DEF g, PageOf
  <2> HIDE DEF h
  <2>2. limit \in Nat /\ limit > 0
    OBVIOUS
  <2>3. page = SubSeq(h, 1, m)
    BY <1>6, <2>1 DEF Truncated
  <2> QED
    BY <1>1, <2>2, <2>3
<1> HIDE DEF h, m
<1>8. /\ page \in Seq(Nat) /\ Len(page) = m /\ DOMAIN page = 1..m
      /\ \A k \in 1..m : k \in 1..n /\ page[k] = h[k]
  BY <1>1, <1>6, <1>7
<1>9. \A k, l \in DOMAIN page : k < l => page[k] < page[l]
  BY <1>5, <1>8
<1>10. \A e \in ToSet(page) : \E i \in S : e = f[i]
  <2>1. ASSUME NEW k \in 1..m
        PROVE  \E i \in S : page[k] = f[i]
    <3>1. k \in 1..n /\ page[k] = h[k]
      BY <1>8
    <3>2. g[k] \in S /\ page[k] = f[g[k]]
      BY <1>1, <1>4, <3>1
    <3> QED
      BY <3>2
  <2>2. \A e \in ToSet(page) : \E k \in 1..m : e = page[k]
    BY <1>8 DEF ToSet
  <2> QED
    BY <2>1, <2>2
<1>11. \A k \in 1..m : h[k] \in ToSet(page)
  BY <1>8 DEF ToSet
<1>12. page = <<>> => S = {}
  <2> SUFFICES ASSUME page = <<>>, NEW i \in S
               PROVE  FALSE
    OBVIOUS
  <2>1. m = 0
    BY <1>8
  <2> QED
    BY <1>1, <1>3, <1>7, <2>1
<1>13. page # <<>> => \A i \in S : f[i] <= page[Len(page)] => f[i] \in ToSet(page)
  <2> SUFFICES ASSUME page # <<>>, NEW i \in S, f[i] <= page[Len(page)]
               PROVE  f[i] \in ToSet(page)
    OBVIOUS
  <2>1. PICK k \in 1..n : g[k] = i
    BY <1>3
  <2>2. m \in 1..n /\ page[Len(page)] = h[m] /\ h[k] = f[i]
    BY <1>1, <1>4, <1>7, <1>8, <2>1
  <2>3. ~(m < k)
    <3> SUFFICES ASSUME m < k
                 PROVE  FALSE
      OBVIOUS
    <3>1. h[m] < h[k] /\ h[m] \in Nat /\ h[k] \in Nat
      BY <1>4, <1>5, <2>2
    <3> QED
      BY <2>2, <3>1
  <2> QED
    BY <1>1, <1>11, <2>2, <2>3
<1>14. Len(page) < limit => \A i \in S : f[i] \in ToSet(page)
  BY <1>3, <1>4, <1>7, <1>8, <1>11
<1> QED
  BY <1>7, <1>8, <1>9, <1>10, <1>12, <1>13, <1>14

-----------------------------------------------------------------------------
(* The lines of the file. *)
LEMMA FileFacts ==
  ASSUME TypeOK, FileIsOrdered
  PROVE  /\ Len(log.lines) \in Nat /\ DOMAIN log.lines = 1..Len(log.lines)
         /\ log.lines \in Seq(Seq(Pieces)) /\ log.open \in BOOLEAN
         /\ log = [lines |-> log.lines, open |-> log.open]
         /\ \A i \in DOMAIN log.lines : log.lines[i] \in Seq(Pieces) /\ EntryAt(log, i) \in Nat
         /\ ReadableLines(log) \in SUBSET Nat /\ IsFiniteSet(ReadableLines(log))
         /\ \A e \in Readable : e \in Nat
<1>1. /\ log.lines \in Seq(Seq(Pieces)) /\ log.open \in BOOLEAN
      /\ log = [lines |-> log.lines, open |-> log.open]
  BY DEF TypeOK
<1>2. Len(log.lines) \in Nat /\ DOMAIN log.lines = 1..Len(log.lines)
  BY <1>1
<1>3. \A i \in DOMAIN log.lines : log.lines[i] \in Seq(Pieces)
  BY <1>1
<1>4. ASSUME NEW i \in DOMAIN log.lines
      PROVE  EntryAt(log, i) \in Nat
  <2>1. log.lines[i] \in Seq(Pieces) /\ Len(log.lines[i]) > 0
    BY <1>3 DEF FileIsOrdered
  <2>2. log.lines[i][1] \in Pieces
    BY <2>1
  <2> QED
    BY <2>2 DEF EntryAt, Pieces
<1>5. ReadableLines(log) \in SUBSET DOMAIN log.lines
  BY DEF ReadableLines
<1>6. IsFiniteSet(DOMAIN log.lines) /\ DOMAIN log.lines \in SUBSET Nat
  BY <1>2, FS_Interval
<1>7. IsFiniteSet(ReadableLines(log)) /\ ReadableLines(log) \in SUBSET Nat
  BY <1>5, <1>6, FS_Subset
<1>8. \A e \in Readable : e \in Nat
  BY <1>4, <1>5 DEF Readable
<1> QED
  BY <1>1, <1>2, <1>3, <1>4, <1>7, <1>8

(* One read of the file. *)
LEMMA ListFacts ==
  ASSUME TypeOK, FileIsOrdered, NEW after \in Nat, NEW limit \in Nat \ {0},
         NEW page, page = list_solver_events(after, limit)
  PROVE  /\ page \in Seq(Nat) /\ Len(page) <= limit
         /\ \A k, l \in DOMAIN page : k < l => page[k] < page[l]
         /\ \A e \in ToSet(page) : e \in Readable /\ after < e
         /\ page # <<>> => \A e \in Readable : after < e /\ e <= Last(page) => e \in ToSet(page)
         /\ Len(page) < limit => \A e \in Readable : after < e => e \in ToSet(page)
<1> DEFINE S == {i \in ReadableLines(log) : EntryAt(log, i) > after}
           f == [i \in S |-> EntryAt(log, i)]
           g == InOrder(S)
<1>1. S \in SUBSET Nat /\ IsFiniteSet(S) /\ S \in SUBSET DOMAIN log.lines
  <2>1. S \in SUBSET ReadableLines(log)
    OBVIOUS
  <2> HIDE DEF S
  <2> QED
    BY <2>1, FileFacts, FS_Subset DEF ReadableLines
<1>2. \A i \in S : EntryAt(log, i) \in Nat
  BY <1>1, FileFacts
<1>3. f \in [S -> Nat] /\ \A i \in S : f[i] = EntryAt(log, i)
  BY <1>2
<1>4. \A i, j \in S : i < j => f[i] < f[j]
  BY <1>1, <1>3 DEF FileIsOrdered
<1>5. DOMAIN g = 1..Cardinality(S) /\ \A k \in DOMAIN g : g[k] \in S
  <2> HIDE DEF S
  <2> QED
    BY <1>1, InOrderEnumerates
<1>6. [k \in DOMAIN g |-> EntryAt(log, g[k])] = [k \in DOMAIN g |-> f[g[k]]]
  <2> HIDE DEF g, f
  <2> QED
    BY <1>3, <1>5
<1>7. page = PageOf(S, f, limit)
  <2>1. page = Truncated([k \in DOMAIN g |-> EntryAt(log, g[k])], limit)
    BY DEF list_solver_events
  <2> HIDE DEF S, f
  <2> QED
    BY <1>6, <2>1 DEF PageOf
<1>8. \A e : e \in Readable /\ after < e <=> \E i \in S : e = f[i]
  <2> TAKE e
  <2>1. e \in Readable <=> \E i \in ReadableLines(log) : e = EntryAt(log, i)
    BY DEF Readable
  <2>2. \A i \in ReadableLines(log) : EntryAt(log, i) \in Nat
    BY FileFacts DEF ReadableLines
  <2>3. \A i \in ReadableLines(log) : i \in S <=> after < EntryAt(log, i)
    BY <2>2
  <2>4. S \in SUBSET ReadableLines(log)
    OBVIOUS
  <2> HIDE DEF S, f
  <2> QED
    BY <1>3, <2>1, <2>3, <2>4
<1> HIDE DEF S, f, g
<1>9. /\ page \in Seq(Nat) /\ Len(page) <= limit
      /\ \A k, l \in DOMAIN page : k < l => page[k] < page[l]
      /\ \A e \in ToSet(page) : \E i \in S : e = f[i]
      /\ page # <<>> => \A i \in S : f[i] <= page[Len(page)] => f[i] \in ToSet(page)
      /\ Len(page) < limit => \A i \in S : f[i] \in ToSet(page)
  BY <1>1, <1>3, <1>4, <1>7, PageFacts
<1>10. \A e \in ToSet(page) : e \in Readable /\ after < e
  BY <1>8, <1>9
<1>11. page # <<>> => \A e \in Readable : after < e /\ e <= Last(page) => e \in ToSet(page)
  BY <1>8, <1>9 DEF Last
<1>12. Len(page) < limit => \A e \in Readable : after < e => e \in ToSet(page)
  BY <1>8, <1>9
<1> QED
  BY <1>9, <1>10, <1>11, <1>12

(* One read of the stored trace. *)
LEMMA StoredFacts ==
  ASSUME NEW after \in Nat, NEW limit \in Nat \ {0}, NEW page, page = stored_events(after, limit)
  PROVE  /\ page \in Seq(Nat)
         /\ \A k, l \in DOMAIN page : k < l => page[k] < page[l]
         /\ \A e \in ToSet(page) : after < e
<1> DEFINE S == {i \in DOMAIN Trace : Trace[i] > after}
           f == [i \in S |-> Trace[i]]
           g == InOrder(S)
<1>1. S \in SUBSET Nat /\ IsFiniteSet(S) /\ S \in SUBSET DOMAIN Trace
  <2>1. S \in SUBSET DOMAIN Trace
    OBVIOUS
  <2>2. Trace \in Seq(Nat \ {0})
    BY SolverEventsAssumption
  <2>3. DOMAIN Trace = 1..Len(Trace) /\ Len(Trace) \in Nat
    BY <2>2
  <2>4. IsFiniteSet(DOMAIN Trace) /\ DOMAIN Trace \in SUBSET Nat
    BY <2>3, FS_Interval
  <2> HIDE DEF S
  <2> QED
    BY <2>1, <2>4, FS_Subset
<1>2. \A i \in S : Trace[i] \in Nat /\ after < Trace[i]
  <2>1. \A i \in DOMAIN Trace : Trace[i] \in Nat
    BY SolverEventsAssumption
  <2> QED
    BY <2>1
<1>3. f \in [S -> Nat] /\ \A i \in S : f[i] = Trace[i]
  BY <1>2
<1>4. \A i, j \in S : i < j => f[i] < f[j]
  BY <1>1, <1>3, SolverEventsAssumption
<1>5. DOMAIN g = 1..Cardinality(S) /\ \A k \in DOMAIN g : g[k] \in S
  <2> HIDE DEF S
  <2> QED
    BY <1>1, InOrderEnumerates
<1>6. [k \in DOMAIN g |-> Trace[g[k]]] = [k \in DOMAIN g |-> f[g[k]]]
  <2> HIDE DEF g, f
  <2> QED
    BY <1>3, <1>5
<1>7. page = PageOf(S, f, limit)
  <2>1. page = Truncated([k \in DOMAIN g |-> Trace[g[k]]], limit)
    BY DEF stored_events
  <2> HIDE DEF S, f
  <2> QED
    BY <1>6, <2>1 DEF PageOf
<1> HIDE DEF S, f, g
<1>8. /\ page \in Seq(Nat)
      /\ \A k, l \in DOMAIN page : k < l => page[k] < page[l]
      /\ \A e \in ToSet(page) : \E i \in S : e = f[i]
  BY <1>1, <1>3, <1>4, <1>7, PageFacts
<1> QED
  BY <1>2, <1>3, <1>8

-----------------------------------------------------------------------------
(* Appends.  A piece continues the open line, which no longer parses, or   *)
(* begins a line of its own.                                               *)
LEMMA Continued ==
  ASSUME TypeOK, FileIsOrdered, log.open, NEW x \in Nat \ {0}, NEW w \in BOOLEAN,
         NEW nl \in BOOLEAN, log' = Written(log, Piece(x, w), nl)
  PROVE  /\ log' \in [lines : Seq(Seq(Pieces)), open : BOOLEAN] /\ log'.open = ~nl
         /\ Len(log'.lines) = Len(log.lines) /\ DOMAIN log'.lines = DOMAIN log.lines
         /\ Len(log.lines) \in DOMAIN log.lines
         /\ \A i \in DOMAIN log.lines : Len(log'.lines[i]) > 0 /\ EntryAt(log', i) = EntryAt(log, i)
         /\ Readable' \subseteq Readable
         /\ \A e \in Readable : e # EntryAt(log, Len(log.lines)) => e \in Readable'
<1> DEFINE n == Len(log.lines)
           p == Piece(x, w)
<1>1. /\ n \in Nat /\ DOMAIN log.lines = 1..n /\ log.lines \in Seq(Seq(Pieces)) /\ n > 0
      /\ \A i \in 1..n : log.lines[i] \in Seq(Pieces) /\ Len(log.lines[i]) > 0
  <2>1. log.lines # <<>>
    BY DEF FileIsOrdered
  <2> QED
    BY <2>1, FileFacts DEF FileIsOrdered
<1>2. p \in Pieces
  BY DEF Piece, Pieces
<1> HIDE DEF p
<1>3. log' = [lines |-> [log.lines EXCEPT ![n] = Append(@, p)], open |-> ~nl]
  BY DEF Written, p
<1>4. /\ log'.lines = [log.lines EXCEPT ![n] = Append(@, p)] /\ log'.open = ~nl
      /\ log' = [lines |-> log'.lines, open |-> ~nl]
  BY <1>3
<1> DEFINE l == Append(log.lines[n], p)
<1>5. n \in 1..n /\ l \in Seq(Pieces) /\ Len(l) > 0 /\ Len(l) # 1 /\ l[1] = log.lines[n][1]
  <2> HIDE DEF n
  <2>1. n \in 1..n
    BY <1>1
  <2>2. log.lines[n] \in Seq(Pieces) /\ Len(log.lines[n]) > 0
    BY <1>1, <2>1
  <2> QED
    BY <1>2, <2>1, <2>2
<1>6. log'.lines \in Seq(Seq(Pieces)) /\ Len(log'.lines) = n /\ DOMAIN log'.lines = 1..n
  <2> HIDE DEF n
  <2> QED
    BY <1>1, <1>4, <1>5
<1>7. \A i \in 1..n : log'.lines[i] = IF i = n THEN l ELSE log.lines[i]
  BY <1>1, <1>4
<1> HIDE DEF l
<1>8. \A i \in 1..n : Len(log'.lines[i]) > 0 /\ EntryAt(log', i) = EntryAt(log, i)
  <2> TAKE i \in 1..n
  <2> HIDE DEF n
  <2>1. CASE i = n
    <3>1. log'.lines[i] = l
      BY <1>7, <2>1
    <3>2. Len(l) > 0
      BY <1>5
    <3> QED
      BY <1>5, <2>1, <3>1, <3>2 DEF EntryAt
  <2>2. CASE i # n
    BY <1>1, <1>7, <2>2 DEF EntryAt
  <2> QED
    BY <2>1, <2>2
<1>9. \A i \in 1..n : Parses(log'.lines[i]) <=> i # n /\ Parses(log.lines[i])
  <2> TAKE i \in 1..n
  <2> HIDE DEF n
  <2>1. CASE i = n
    <3>1. log'.lines[i] = l
      BY <1>7, <2>1
    <3>2. Len(l) # 1
      BY <1>5
    <3> QED
      BY <2>1, <3>1, <3>2 DEF Parses
  <2>2. CASE i # n
    BY <1>7, <2>2
  <2> QED
    BY <2>1, <2>2
<1>10. Readable' \subseteq Readable
  <2> SUFFICES ASSUME NEW i \in 1..n, Parses(log'.lines[i])
               PROVE  EntryAt(log', i) \in Readable
    BY <1>6 DEF Readable, ReadableLines
  <2>1. Parses(log.lines[i]) /\ EntryAt(log', i) = EntryAt(log, i) /\ i \in DOMAIN log.lines
    BY <1>1, <1>8, <1>9
  <2> QED
    BY <2>1 DEF Readable, ReadableLines
<1>11. \A e \in Readable : e # EntryAt(log, n) => e \in Readable'
  <2> SUFFICES ASSUME NEW i \in 1..n, Parses(log.lines[i]), EntryAt(log, i) # EntryAt(log, n)
               PROVE  EntryAt(log, i) \in Readable'
    BY <1>1 DEF Readable, ReadableLines
  <2>1. Parses(log'.lines[i]) /\ EntryAt(log', i) = EntryAt(log, i) /\ i \in DOMAIN log'.lines
    BY <1>6, <1>8, <1>9
  <2> QED
    BY <2>1 DEF Readable, ReadableLines
<1>12. log' \in [lines : Seq(Seq(Pieces)), open : BOOLEAN]
  BY <1>4, <1>6
<1> QED
  BY <1>1, <1>4, <1>5, <1>6, <1>8, <1>10, <1>11, <1>12

(* A line begun on a fresh line (the whole entry or the part that reached the disk):
   what was there before reads as before, and the new line is the last one. *)
LEMMA Begun ==
  ASSUME TypeOK, FileIsOrdered, ~log.open, NEW x \in Nat \ {0}, NEW w \in BOOLEAN,
         NEW nl \in BOOLEAN, log' = Written(log, Piece(x, w), nl)
  PROVE  /\ log' \in [lines : Seq(Seq(Pieces)), open : BOOLEAN] /\ log'.open = ~nl
         /\ Len(log'.lines) = Len(log.lines) + 1 /\ DOMAIN log'.lines = 1..(Len(log.lines) + 1)
         /\ \A i \in DOMAIN log'.lines : Len(log'.lines[i]) > 0
         /\ \A i \in DOMAIN log.lines : EntryAt(log', i) = EntryAt(log, i)
         /\ EntryAt(log', Len(log.lines) + 1) = x
         /\ Readable' = Readable \union (IF w THEN {x} ELSE {})
<1> DEFINE n == Len(log.lines)
           p == Piece(x, w)
<1>1. /\ n \in Nat /\ DOMAIN log.lines = 1..n /\ log.lines \in Seq(Seq(Pieces))
      /\ \A i \in 1..n : Len(log.lines[i]) > 0
  BY FileFacts DEF FileIsOrdered
<1>2. p \in Pieces /\ p.entry = x /\ p.whole = w
  BY DEF Piece, Pieces
<1> HIDE DEF p
<1>3. log' = [lines |-> Append(log.lines, <<p>>), open |-> ~nl]
  BY DEF Written, p
<1>4. /\ log'.lines = Append(log.lines, <<p>>) /\ log'.open = ~nl
      /\ log' = [lines |-> log'.lines, open |-> ~nl]
  BY <1>3
<1>5. <<p>> \in Seq(Pieces) /\ Len(<<p>>) = 1 /\ <<p>>[1] = p
  BY <1>2
<1>6. /\ log'.lines \in Seq(Seq(Pieces)) /\ Len(log'.lines) = n + 1
      /\ DOMAIN log'.lines = 1..(n + 1) /\ log'.lines[n + 1] = <<p>>
      /\ \A i \in 1..n : log'.lines[i] = log.lines[i]
  <2> DEFINE q == <<p>>
  <2>1. q \in Seq(Pieces) /\ log'.lines = Append(log.lines, q)
    BY <1>4, <1>5
  <2> HIDE DEF q
  <2>2. /\ log'.lines \in Seq(Seq(Pieces)) /\ Len(log'.lines) = n + 1
        /\ DOMAIN log'.lines = 1..(n + 1) /\ log'.lines[n + 1] = q
        /\ \A i \in 1..n : log'.lines[i] = log.lines[i]
    BY <1>1, <2>1
  <2> QED
    BY <2>2 DEF q
<1> HIDE DEF n
<1>7. \A i \in 1..(n + 1) : i = n + 1 \/ i \in 1..n
  BY <1>1
<1>8. \A i \in 1..(n + 1) : Len(log'.lines[i]) > 0
  <2>1. \A i \in 1..n : Len(log'.lines[i]) > 0
    BY <1>1, <1>6
  <2>2. Len(log'.lines[n + 1]) > 0
    BY <1>5, <1>6
  <2> QED
    BY <1>7, <2>1, <2>2
<1>9. EntryAt(log', n + 1) = x /\ (Parses(log'.lines[n + 1]) <=> w)
  BY <1>2, <1>5, <1>6 DEF EntryAt, Parses
<1>10. \A i \in 1..n : EntryAt(log', i) = EntryAt(log, i)
  BY <1>6 DEF EntryAt
<1>11. \A i \in 1..n : Parses(log'.lines[i]) <=> Parses(log.lines[i])
  BY <1>6
<1>12. ReadableLines(log') = ReadableLines(log) \union (IF w THEN {n + 1} ELSE {})
  <2>1. n + 1 \in 1..(n + 1) /\ n + 1 \notin 1..n /\ 1..n \subseteq 1..(n + 1)
    BY <1>1
  <2>2. ASSUME NEW i
        PROVE  i \in ReadableLines(log') <=> i \in ReadableLines(log) \/ (w /\ i = n + 1)
    <3>1. i \in ReadableLines(log') <=> i \in 1..(n + 1) /\ Parses(log'.lines[i])
      BY <1>6 DEF ReadableLines
    <3>2. i \in ReadableLines(log) <=> i \in 1..n /\ Parses(log.lines[i])
      BY <1>1 DEF ReadableLines
    <3>3. CASE i \in 1..n
      BY <1>11, <2>1, <3>1, <3>2, <3>3
    <3>4. CASE i = n + 1
      BY <1>9, <2>1, <3>1, <3>2, <3>4
    <3>5. CASE i \notin 1..n /\ i # n + 1
      BY <1>7, <3>1, <3>2, <3>5
    <3> QED
      BY <3>3, <3>4, <3>5
  <2>3. CASE w
    BY <2>2, <2>3
  <2>4. CASE ~w
    BY <2>2, <2>4
  <2> QED
    BY <2>3, <2>4
<1>13. Readable' = Readable \union (IF w THEN {x} ELSE {})
  <2>1. \A i \in ReadableLines(log) : i \in 1..n /\ EntryAt(log', i) = EntryAt(log, i)
    BY <1>1, <1>10 DEF ReadableLines
  <2>2. Readable' = {EntryAt(log', i) : i \in ReadableLines(log')}
    BY DEF Readable
  <2>3. Readable = {EntryAt(log, i) : i \in ReadableLines(log)}
    BY DEF Readable
  <2> QED
    BY <1>9, <1>12, <2>1, <2>2, <2>3
<1>14. log' \in [lines : Seq(Seq(Pieces)), open : BOOLEAN]
  BY <1>4, <1>6
<1> QED
  BY <1>1, <1>4, <1>6, <1>8, <1>9, <1>10, <1>13, <1>14 DEF n

(* The trace is younger the further it is read. *)
LEMMA TraceFacts ==
  ASSUME TypeOK, Writable
  PROVE  /\ Trace[next] \in Nat \ {0} /\ next \in Nat
         /\ next + 1 <= Len(Trace) => Trace[next] < Trace[next + 1] /\ Trace[next + 1] \in Nat
<1>1. Trace \in Seq(Nat \ {0}) /\ next \in 1..(Len(Trace) + 1) /\ next <= Len(Trace)
  BY SolverEventsAssumption DEF TypeOK, Writable
<1>2. next \in DOMAIN Trace /\ next \in Nat /\ Trace[next] \in Nat \ {0}
  BY <1>1
<1>3. next + 1 <= Len(Trace) => next + 1 \in DOMAIN Trace /\ Trace[next + 1] \in Nat
  BY <1>1
<1> QED
  BY <1>2, <1>3, SolverEventsAssumption

(* Whatever an append of the next event leaves behind, the file stays in   *)
(* order.                                                                  *)
LEMMA FileGrows ==
  ASSUME TypeOK, FileIsOrdered, Writable, NEW w \in BOOLEAN, NEW nl \in BOOLEAN,
         log' = Written(log, Piece(Trace[next], w), nl)
  PROVE  /\ log' \in [lines : Seq(Seq(Pieces)), open : BOOLEAN]
         /\ log'.open => log'.lines # <<>>
         /\ \A i \in DOMAIN log'.lines : Len(log'.lines[i]) > 0 /\ EntryAt(log', i) \in Nat
         /\ \A i, j \in DOMAIN log'.lines : i < j => EntryAt(log', i) < EntryAt(log', j)
         /\ \A i \in DOMAIN log'.lines : EntryAt(log', i) <= Trace[next]
         /\ \A e \in Readable' : e \in Readable \/ e = Trace[next]
         /\ Len(log'.lines) \in Nat /\ Len(log.lines) <= Len(log'.lines)
         /\ Len(log'.lines) = Len(log.lines) => Readable' \subseteq Readable
<1> DEFINE x == Trace[next]
           n == Len(log.lines)
<1>1. x \in Nat \ {0}
  BY TraceFacts
<1>2. /\ n \in Nat /\ DOMAIN log.lines = 1..n
      /\ \A i \in 1..n : EntryAt(log, i) \in Nat /\ EntryAt(log, i) < x
  BY FileFacts DEF FileIsOrdered
<1>3. \A i, j \in 1..n : i < j => EntryAt(log, i) < EntryAt(log, j)
  BY <1>2 DEF FileIsOrdered
<1> HIDE DEF x
<1>4. CASE log.open
  <2>1. /\ log' \in [lines : Seq(Seq(Pieces)), open : BOOLEAN]
        /\ Len(log'.lines) = n /\ DOMAIN log'.lines = 1..n /\ n \in 1..n
        /\ \A i \in 1..n : Len(log'.lines[i]) > 0 /\ EntryAt(log', i) = EntryAt(log, i)
        /\ Readable' \subseteq Readable
    BY <1>1, <1>2, <1>4, Continued DEF x
  <2>2. log'.lines # <<>>
    BY <1>2, <2>1
  <2>3. \A i \in 1..n : EntryAt(log', i) \in Nat /\ EntryAt(log', i) <= x
    BY <1>1, <1>2, <2>1
  <2>4. \A i, j \in 1..n : i < j => EntryAt(log', i) < EntryAt(log', j)
    BY <1>3, <2>1
  <2> QED
    BY <1>2, <2>1, <2>2, <2>3, <2>4 DEF x
<1>5. CASE ~log.open
  <2>1. /\ log' \in [lines : Seq(Seq(Pieces)), open : BOOLEAN]
        /\ Len(log'.lines) = n + 1 /\ DOMAIN log'.lines = 1..(n + 1)
        /\ \A i \in 1..(n + 1) : Len(log'.lines[i]) > 0
        /\ \A i \in 1..n : EntryAt(log', i) = EntryAt(log, i)
        /\ EntryAt(log', n + 1) = x
        /\ Readable' = Readable \union (IF w THEN {x} ELSE {})
    BY <1>1, <1>2, <1>5, Begun DEF x
  <2> HIDE DEF n
  <2>2. log'.lines # <<>>
    BY <1>2, <2>1
  <2>3. \A i \in 1..(n + 1) : i = n + 1 \/ i \in 1..n
    BY <1>2
  <2>4. \A i \in 1..(n + 1) : EntryAt(log', i) \in Nat /\ EntryAt(log', i) <= x
    BY <1>1, <1>2, <2>1, <2>3
  <2>5. ASSUME NEW i \in 1..(n + 1), NEW j \in 1..(n + 1), i < j
        PROVE  EntryAt(log', i) < EntryAt(log', j)
    <3>1. i \in 1..n
      BY <1>2, <2>5
    <3>2. CASE j = n + 1
      BY <1>2, <2>1, <3>1, <3>2
    <3>3. CASE j \in 1..n
      BY <1>3, <2>1, <2>5, <3>1, <3>3
    <3> QED
      BY <2>3, <3>2, <3>3
  <2>6. \A e \in Readable' : e \in Readable \/ e = x
    BY <2>1
  <2>7. n <= n + 1 /\ n + 1 # n /\ n + 1 \in Nat
    BY <1>2
  <2> QED
    BY <2>1, <2>2, <2>4, <2>5, <2>6, <2>7 DEF x, n
<1> QED
  BY <1>4, <1>5

(* What the readers hold stays complete while the file grows: a new event  *)
(* is behind no cursor that moved.                                         *)
Grows ==
  /\ \A e \in Readable' : e \in Readable \/ (Writable /\ e = Trace[next])
  /\ Writable' => Writable /\ Trace[next]' \in Nat /\ Trace[next] <= Trace[next]'

(* The stream task's copy still follows the file after a step of the writer. *)
LEMMA StreamFollows ==
  ASSUME TypeOK, FileIsOrdered, Follows(stream.got, stream.from, stream.cursor), Grows,
         stream'.got = stream.got, stream'.from = stream.from, stream'.cursor = stream.cursor
  PROVE  Follows(stream.got, stream.from, stream.cursor)'
<1> DEFINE G == ToSet(stream.got)
<1>1. stream.cursor \in Nat /\ stream.from \in Nat /\ stream.got \in Seq(Nat)
  BY DEF TypeOK
<1>2. ToSet(stream'.got) = G /\ \A e \in G : e \in Nat
  BY <1>1 DEF ToSet
<1>3. Writable => Trace[next] \in Nat
  BY TraceFacts
<1> HIDE DEF G
<1>4. /\ \A e \in G : stream.from < e /\ e <= stream.cursor
      /\ stream.cursor = stream.from \/ stream.cursor \in G
      /\ Writable => \A e \in G : e < Trace[next]
      /\ \A e \in Readable : stream.from < e /\ e <= stream.cursor => e \in G
  BY DEF Follows, G
<1>5. \A i, j \in DOMAIN stream'.got : i < j => stream'.got[i] < stream'.got[j]
  BY DEF Follows
<1>6. Writable' => \A e \in G : e < Trace[next]'
  BY <1>2, <1>3, <1>4 DEF Grows
<1>7. ASSUME NEW e \in Readable', stream.from < e, e <= stream.cursor
      PROVE  e \in G
  <2>1. CASE e \in Readable
    BY <1>4, <1>7, <2>1
  <2>2. CASE Writable /\ e = Trace[next]
    BY <1>1, <1>2, <1>3, <1>4, <1>7, <2>2
  <2> QED
    BY <2>1, <2>2 DEF Grows
<1> QED
  BY <1>2, <1>4, <1>5, <1>6, <1>7 DEF Follows

(* The same for the polling client's copy. *)
LEMMA PollerFollows ==
  ASSUME TypeOK, FileIsOrdered, Follows(poller.got, poller.from, poller.after), Grows,
         poller'.got = poller.got, poller'.from = poller.from, poller'.after = poller.after
  PROVE  Follows(poller.got, poller.from, poller.after)'
<1> DEFINE G == ToSet(poller.got)
<1>1. poller.after \in Nat /\ poller.from \in Nat /\ poller.got \in Seq(Nat)
  BY DEF TypeOK
<1>2. ToSet(poller'.got) = G /\ \A e \in G : e \in Nat
  BY <1>1 DEF ToSet
<1>3. Writable => Trace[next] \in Nat
  BY TraceFacts
<1> HIDE DEF G
<1>4. /\ \A e \in G : poller.from < e /\ e <= poller.after
      /\ poller.after = poller.from \/ poller.after \in G
      /\ Writable => \A e \in G : e < Trace[next]
      /\ \A e \in Readable : poller.from < e /\ e <= poller.after => e \in G
  BY DEF Follows, G
<1>5. \A i, j \in DOMAIN poller'.got : i < j => poller'.got[i] < poller'.got[j]
  BY DEF Follows
<1>6. Writable' => \A e \in G : e < Trace[next]'
  BY <1>2, <1>3, <1>4 DEF Grows
<1>7. ASSUME NEW e \in Readable', poller.from < e, e <= poller.after
      PROVE  e \in G
  <2>1. CASE e \in Readable
    BY <1>4, <1>7, <2>1
  <2>2. CASE Writable /\ e = Trace[next]
    BY <1>1, <1>2, <1>3, <1>4, <1>7, <2>2
  <2> QED
    BY <2>1, <2>2 DEF Grows
<1> QED
  BY <1>2, <1>4, <1>5, <1>6, <1>7 DEF Follows

-----------------------------------------------------------------------------
(* Readers.  What a reader holds after a page. *)
LEMMA Joined ==
  ASSUME NEW got \in Seq(Nat), NEW page \in Seq(Nat)
  PROVE  /\ got \o page \in Seq(Nat)
         /\ ToSet(got \o page) = ToSet(got) \union ToSet(page)
         /\ page = <<>> => got \o page = got /\ ToSet(page) = {}
<1> DEFINE m == Len(got)
           n == Len(page)
           j == got \o page
<1>1. /\ m \in Nat /\ n \in Nat /\ DOMAIN got = 1..m /\ DOMAIN page = 1..n
      /\ j \in Seq(Nat) /\ DOMAIN j = 1..(m + n)
      /\ \A i \in 1..m : j[i] = got[i]
      /\ \A i \in 1..n : j[m + i] = page[i]
  OBVIOUS
<1>2. page = <<>> => j = got /\ ToSet(page) = {}
  BY DEF ToSet
<1> HIDE DEF m, n, j
<1>3. \A i \in 1..m : i \in 1..(m + n)
  BY <1>1
<1>4. \A i \in 1..n : m + i \in 1..(m + n)
  BY <1>1
<1>5. \A i \in 1..(m + n) : i \in 1..m \/ \E k \in 1..n : i = m + k
  <2> SUFFICES ASSUME NEW i \in 1..(m + n), i \notin 1..m
               PROVE  \E k \in 1..n : i = m + k
    OBVIOUS
  <2>1. i - m \in 1..n /\ i = m + (i - m)
    BY <1>1
  <2> QED
    BY <2>1
<1>6. ToSet(j) = ToSet(got) \union ToSet(page)
  <2>1. ToSet(j) = {j[i] : i \in 1..(m + n)} /\ ToSet(got) = {got[i] : i \in 1..m}
        /\ ToSet(page) = {page[i] : i \in 1..n}
    BY <1>1 DEF ToSet
  <2>2. \A i \in 1..(m + n) : j[i] \in ToSet(got) \union ToSet(page)
    <3> TAKE i \in 1..(m + n)
    <3>1. CASE i \in 1..m
      BY <1>1, <2>1, <3>1
    <3>2. CASE \E k \in 1..n : i = m + k
      BY <1>1, <2>1, <3>2
    <3> QED
      BY <1>5, <3>1, <3>2
  <2>3. ToSet(got) \subseteq ToSet(j)
    BY <1>1, <1>3, <2>1
  <2>4. ToSet(page) \subseteq ToSet(j)
    BY <1>1, <1>4, <2>1
  <2> QED
    BY <2>1, <2>2, <2>3, <2>4
<1> QED
  BY <1>1, <1>2, <1>6 DEF j

(* A page read after the cursor extends a copy that follows the file: it is in order,
   and nothing readable up to its last event is missing from it. *)
LEMMA PageFollows ==
  ASSUME TypeOK, FileIsOrdered, NEW got \in Seq(Nat), NEW from \in Nat, NEW cursor \in Nat,
         Follows(got, from, cursor), NEW page \in Seq(Nat), page # <<>>,
         \A k, l \in DOMAIN page : k < l => page[k] < page[l],
         \A e \in ToSet(page) : cursor < e,
         Writable => \A e \in ToSet(page) : e < Trace[next],
         \A e \in Readable : cursor < e /\ e <= Last(page) => e \in ToSet(page)
  PROVE  /\ Follows(got \o page, from, Last(page))
         /\ Last(page) \in ToSet(page) /\ \A e \in ToSet(page) : e <= Last(page)
         /\ Last(page) \in Nat
<1> DEFINE m == Len(got)
           n == Len(page)
           j == got \o page
           A == ToSet(got)
           B == ToSet(page)
<1>1. /\ m \in Nat /\ n \in Nat /\ n > 0 /\ DOMAIN got = 1..m /\ DOMAIN page = 1..n
      /\ DOMAIN j = 1..(m + n)
      /\ \A i \in 1..m : j[i] = got[i] /\ got[i] \in Nat
      /\ \A i \in 1..(m + n) : i \notin 1..m => i - m \in 1..n /\ j[i] = page[i - m]
  OBVIOUS
<1>2. ToSet(j) = A \union B
  BY Joined
<1>3. (\A i \in 1..m : got[i] \in A) /\ \A i \in 1..n : page[i] \in B
  BY <1>1 DEF ToSet
<1>4. (\A e \in A : e \in Nat) /\ \A e \in B : e \in Nat
  BY <1>1 DEF ToSet
<1>5. /\ \A i, k \in 1..m : i < k => got[i] < got[k]
      /\ \A e \in A : from < e /\ e <= cursor
      /\ cursor = from \/ cursor \in A
      /\ Writable => \A e \in A : e < Trace[next]
      /\ \A e \in Readable : from < e /\ e <= cursor => e \in A
  BY <1>1 DEF Follows
<1>6. Last(page) = page[n] /\ n \in 1..n
  BY <1>1 DEF Last
<1>7. Last(page) \in B /\ \A e \in B : e <= Last(page)
  <2>1. \A i \in 1..n : page[i] <= page[n]
    <3> TAKE i \in 1..n
    <3>1. page[i] \in Nat /\ page[n] \in Nat
      BY <1>3, <1>4, <1>6
    <3>2. i = n \/ i < n
      <4> HIDE DEF n
      <4> QED
        BY <1>1
    <3>3. i < n => page[i] < page[n]
      BY <1>1, <1>6
    <3> QED
      BY <3>1, <3>2, <3>3
  <2>2. \A e \in B : \E i \in 1..n : e = page[i]
    BY <1>1 DEF ToSet
  <2> HIDE DEF B, n
  <2> QED
    BY <1>3, <1>6, <2>1, <2>2
<1>8. from <= cursor
  BY <1>4, <1>5
<1> HIDE DEF m, n, j, A, B
<1>9. \A i, k \in DOMAIN j : i < k => j[i] < j[k]
  <2> SUFFICES ASSUME NEW i \in 1..(m + n), NEW k \in 1..(m + n), i < k
               PROVE  j[i] < j[k]
    BY <1>1
  <2>1. CASE i \in 1..m /\ k \in 1..m
    BY <1>1, <1>5, <2>1
  <2>2. CASE i \in 1..m /\ k \notin 1..m
    <3>1. k - m \in 1..n /\ j[k] = page[k - m] /\ j[i] = got[i]
      BY <1>1, <2>2
    <3>2. got[i] \in A /\ page[k - m] \in B
      BY <1>3, <2>2, <3>1
    <3>3. got[i] \in Nat /\ page[k - m] \in Nat /\ got[i] <= cursor /\ cursor < page[k - m]
      BY <1>4, <1>5, <3>2 DEF B
    <3> QED
      BY <3>1, <3>3
  <2>3. CASE i \notin 1..m
    <3>1. k \notin 1..m
      BY <1>1, <2>3
    <3>2. /\ i - m \in 1..n /\ k - m \in 1..n /\ j[i] = page[i - m] /\ j[k] = page[k - m]
          /\ i - m < k - m
      BY <1>1, <2>3, <3>1
    <3> QED
      BY <1>1, <3>2
  <2> QED
    BY <2>1, <2>2, <2>3
<1>10. \A e \in ToSet(j) : from < e /\ e <= Last(page)
  <2>1. cursor < Last(page) /\ Last(page) \in Nat
    BY <1>4, <1>7 DEF B
  <2>2. \A e \in A : from < e /\ e <= Last(page)
    BY <1>4, <1>5, <2>1
  <2>3. \A e \in B : from < e /\ e <= Last(page)
    <3> TAKE e \in B
    <3>1. cursor < e /\ e \in Nat
      BY <1>4 DEF B
    <3> QED
      BY <1>7, <1>8, <3>1
  <2> QED
    BY <1>2, <2>2, <2>3
<1>11. Last(page) \in ToSet(j)
  BY <1>2, <1>7
<1>12. Writable => \A e \in ToSet(j) : e < Trace[next]
  BY <1>2, <1>5 DEF B
<1>13. ASSUME NEW e \in Readable, from < e, e <= Last(page)
       PROVE  e \in ToSet(j)
  <2>1. e \in Nat
    BY FileFacts
  <2>2. CASE e <= cursor
    BY <1>2, <1>5, <1>13, <2>2
  <2>3. CASE cursor < e
    <3>1. e \in B
      BY <1>13, <2>3 DEF B
    <3> QED
      BY <1>2, <3>1
  <2> QED
    BY <2>1, <2>2, <2>3
<1>14. Follows(j, from, Last(page))
  BY <1>9, <1>10, <1>11, <1>12, <1>13 DEF Follows
<1> QED
  BY <1>4, <1>7, <1>14 DEF j, B

(* After everything newer than the cursor, it holds all there is. *)
LEMMA RestFollows ==
  ASSUME NEW got \in Seq(Nat), NEW from \in Nat, NEW cursor \in Nat, TypeOK, FileIsOrdered,
         Follows(got, from, cursor), NEW page \in Seq(Nat),
         \A e \in Readable : cursor < e => e \in ToSet(page)
  PROVE  HasAll(got \o page, from)
<1>1. ToSet(got \o page) = ToSet(got) \union ToSet(page)
  BY Joined
<1> SUFFICES ASSUME NEW e \in Readable, e > from
             PROVE  e \in ToSet(got) \union ToSet(page)
  BY <1>1 DEF HasAll
<1>2. e \in Nat
  BY FileFacts
<1>3. e <= cursor => e \in ToSet(got)
  BY <1>2 DEF Follows
<1> QED
  BY <1>2, <1>3

(* The cursor of the SSE request is the last event of its page. *)
LEMMA MaxOfPage ==
  ASSUME NEW cursor \in Nat, NEW B \in SUBSET Nat, NEW x \in B,
         \A e \in B : cursor < e /\ e <= x
  PROVE  Max({cursor} \union B) = x
<1>1. \A y \in {cursor} \union B : x >= y
  OBVIOUS
<1>2. \A z \in {cursor} \union B : (\A y \in {cursor} \union B : z >= y) => z = x
  <2> SUFFICES ASSUME NEW z \in {cursor} \union B, \A y \in {cursor} \union B : z >= y
               PROVE  z = x
    OBVIOUS
  <2>1. z \in Nat /\ x \in Nat /\ z >= x /\ x >= z
    BY <1>1
  <2> QED
    BY <2>1
<1> QED
  BY <1>1, <1>2 DEF Max

-----------------------------------------------------------------------------
(* The losses, and what the steps of the runner preserve. *)
LEMMA LossGrows ==
  ASSUME NEW A, IsFiniteSet(A), NEW B, NEW x
  PROVE  /\ Cardinality(A) \in Nat
         /\ B \subseteq A => Cardinality(B) \in Nat /\ Cardinality(B) <= Cardinality(A)
         /\ B \subseteq A \union {x}
              => Cardinality(B) \in Nat /\ Cardinality(B) <= Cardinality(A) + 1
<1>1. Cardinality(A) \in Nat
  BY FS_CardinalityType
<1>2. B \subseteq A => Cardinality(B) \in Nat /\ Cardinality(B) <= Cardinality(A)
  BY FS_Subset, FS_CardinalityType
<1>3. /\ IsFiniteSet(A \union {x})
      /\ Cardinality(A \union {x}) = IF x \in A THEN Cardinality(A) ELSE Cardinality(A) + 1
  BY FS_AddElement
<1>4. B \subseteq A \union {x}
        => Cardinality(B) \in Nat /\ Cardinality(B) <= Cardinality(A \union {x})
  BY <1>3, FS_Subset, FS_CardinalityType
<1> QED
  BY <1>1, <1>2, <1>3, <1>4

(* The readers do not notice a step of the file's writer. *)
LEMMA ReadersHold ==
  ASSUME TelemetryInvariant, Grows, Len(log'.lines) \in Nat, Len(log.lines) <= Len(log'.lines),
         Len(log'.lines) = Len(log.lines) => Readable' \subseteq Readable,
         runner = "done" => runner' = "done" /\ Readable' \subseteq Readable,
         status \in Terminal => status' = status,
         status' = "completed" => runner' = "done",
         \/ stream' = stream \/ stream' = [stream EXCEPT !.pc = "broken"],
         \/ poller' = poller
         \/ poller.pc = "events" /\ poller' = [poller EXCEPT !.pc = "job"]
  PROVE  StreamInvariant' /\ PollerInvariant'
<1> USE DEF TelemetryInvariant
<1>1. /\ stream'.got = stream.got /\ stream'.from = stream.from /\ stream'.cursor = stream.cursor
      /\ stream'.seen = stream.seen /\ stream'.short = stream.short
      /\ stream'.pc = stream.pc \/ stream'.pc = "broken"
      /\ stream.seen \in Nat
  BY DEF TypeOK
<1>2. /\ poller'.got = poller.got /\ poller'.from = poller.from /\ poller'.after = poller.after
      /\ poller'.summary = poller.summary /\ poller'.done = poller.done
      /\ poller'.pc = poller.pc \/ (poller.pc = "events" /\ poller'.pc = "job")
  BY DEF TypeOK
<1>3. Follows(stream.got, stream.from, stream.cursor)'
  BY <1>1, StreamFollows DEF StreamInvariant
<1>4. Follows(poller.got, poller.from, poller.after)'
  BY <1>2, PollerFollows DEF PollerInvariant
<1>5. stream'.pc = "ended" => status' \in Terminal
  BY <1>1 DEF StreamInvariant
<1>6. stream'.seen <= Len(log'.lines) /\ Len(log.lines) \in Nat
  BY <1>1, FileFacts DEF StreamInvariant
<1>7. stream'.pc \in {"check", "ended"} /\ stream'.short /\ stream'.seen = Len(log'.lines)
        => HasAll(stream.got, stream.from)'
  <2> SUFFICES ASSUME stream'.pc \in {"check", "ended"}, stream'.short,
                      stream'.seen = Len(log'.lines)
               PROVE  HasAll(stream.got, stream.from)'
    OBVIOUS
  <2>1. Len(log'.lines) = Len(log.lines) /\ stream.seen = Len(log.lines)
    BY <1>1, <1>6 DEF StreamInvariant
  <2>2. HasAll(stream.got, stream.from)
    BY <1>1, <2>1 DEF StreamInvariant
  <2> QED
    BY <1>1, <2>1, <2>2 DEF HasAll
<1>8. /\ status' = "completed" => runner' = "done"
      /\ poller'.summary => status' = "completed"
      /\ poller'.done => poller'.pc = "idle"
  BY <1>2 DEF PollerInvariant, Terminal
<1>9. poller'.done /\ poller'.summary => HasAll(poller.got, poller.from)'
  <2> SUFFICES ASSUME poller'.done, poller'.summary
               PROVE  HasAll(poller.got, poller.from)'
    OBVIOUS
  <2>1. HasAll(poller.got, poller.from) /\ runner = "done"
    BY <1>2 DEF PollerInvariant
  <2> QED
    BY <1>2, <2>1 DEF HasAll
<1> QED
  BY <1>3, <1>4, <1>5, <1>6, <1>7, <1>8, <1>9 DEF StreamInvariant, PollerInvariant

(* append_solver_event: the entry goes onto a line of its own, or is lost with the line
   an earlier failure left open; every reader has only seen earlier events. *)
LEMMA append_solver_event_Step ==
  ASSUME TelemetryInvariant, append_solver_event
  PROVE  TelemetryInvariant'
<1> DEFINE x == Trace[next]
<1>1. /\ TypeOK /\ FileIsOrdered /\ LossIsBounded /\ Writable
      /\ log' = Written(log, Piece(x, TRUE), TRUE)
  BY DEF TelemetryInvariant, append_solver_event, Consuming, Writable, AppendLine
<1>2. /\ kept' = kept \union {x} /\ next' = next + 1 /\ faults' = faults
      /\ UNCHANGED <<up, runner, status, stream, poller>>
  BY DEF append_solver_event
<1>3. x \in Nat \ {0} /\ next \in Nat
  BY <1>1, TraceFacts
<1>4. next + 1 <= Len(Trace) => x < Trace[next + 1] /\ Trace[next + 1] \in Nat
  BY <1>1, TraceFacts
<1>5. /\ log' \in [lines : Seq(Seq(Pieces)), open : BOOLEAN]
      /\ log'.open => log'.lines # <<>>
      /\ \A i \in DOMAIN log'.lines : Len(log'.lines[i]) > 0 /\ EntryAt(log', i) \in Nat
      /\ \A i, j \in DOMAIN log'.lines : i < j => EntryAt(log', i) < EntryAt(log', j)
      /\ \A i \in DOMAIN log'.lines : EntryAt(log', i) <= x
      /\ \A e \in Readable' : e \in Readable \/ e = x
      /\ Len(log'.lines) \in Nat /\ Len(log.lines) <= Len(log'.lines)
      /\ Len(log'.lines) = Len(log.lines) => Readable' \subseteq Readable
  BY <1>1, FileGrows
<1> HIDE DEF x
<1>6. /\ kept \in SUBSET Nat /\ IsFiniteSet(kept) /\ faults \in Nat /\ \A e \in kept : e < x
  BY <1>1 DEF TypeOK, FileIsOrdered, x
<1>7. TypeOK'
  <2>1. next' \in 1..(Len(Trace) + 1)
    BY <1>1, <1>2, SolverEventsAssumption DEF TypeOK, Writable
  <2>2. kept' \in SUBSET Nat /\ IsFiniteSet(kept')
    BY <1>2, <1>3, <1>6, FS_AddElement
  <2> QED
    BY <1>1, <1>2, <1>5, <2>1, <2>2 DEF TypeOK
<1>8. FileIsOrdered'
  <2>1. Writable' => next + 1 <= Len(Trace)
    BY <1>2 DEF Writable
  <2>2. Writable' => \A i \in DOMAIN log'.lines : EntryAt(log', i) < Trace[next']
    BY <1>2, <1>3, <1>4, <1>5, <2>1
  <2>3. Writable' => \A e \in kept' : e < Trace[next']
    BY <1>2, <1>3, <1>4, <1>6, <2>1
  <2> QED
    BY <1>5, <2>2, <2>3 DEF FileIsOrdered
<1>9. LossIsBounded'
  <2> DEFINE A == kept \ Readable
             B == kept' \ Readable'
  <2>1. IsFiniteSet(A)
    BY <1>6, FS_Subset
  <2>2. CASE log.open
    <3>1. /\ log'.open = FALSE
          /\ \A e \in Readable : e # EntryAt(log, Len(log.lines)) => e \in Readable'
      BY <1>1, <1>3, <2>2, Continued
    <3>2. EntryAt(log, Len(log.lines)) \notin kept /\ Cardinality(A) + 1 <= faults
      BY <1>1, <2>2 DEF LossIsBounded
    <3>3. B \subseteq A \union {x}
      BY <1>2, <3>1, <3>2
    <3>4. Cardinality(A) \in Nat /\ Cardinality(B) \in Nat /\ Cardinality(B) <= Cardinality(A) + 1
      <4> HIDE DEF A, B
      <4> QED
        BY <2>1, <3>3, LossGrows
    <3>5. Cardinality(B) + 0 <= faults'
      <4> HIDE DEF A, B
      <4> QED
        BY <1>2, <1>6, <3>2, <3>4
    <3> QED
      BY <3>1, <3>5 DEF LossIsBounded
  <2>3. CASE ~log.open
    <3>1. log'.open = FALSE /\ Readable' = Readable \union {x}
      BY <1>1, <1>3, <2>3, Begun
    <3>2. Cardinality(A) + 0 <= faults
      BY <1>1, <2>3 DEF LossIsBounded
    <3>3. B \subseteq A
      BY <1>2, <3>1
    <3>4. Cardinality(A) \in Nat /\ Cardinality(B) \in Nat /\ Cardinality(B) <= Cardinality(A)
      <4> HIDE DEF A, B
      <4> QED
        BY <2>1, <3>3, LossGrows
    <3>5. Cardinality(B) + 0 <= faults'
      <4> HIDE DEF A, B
      <4> QED
        BY <1>2, <1>6, <3>2, <3>4
    <3> QED
      BY <3>1, <3>5 DEF LossIsBounded
  <2> QED
    BY <2>2, <2>3
<1>10. Grows
  <2>1. Writable' => next + 1 <= Len(Trace)
    BY <1>2 DEF Writable
  <2>2. Writable' => Trace[next]' \in Nat /\ Trace[next] <= Trace[next]'
    BY <1>2, <1>3, <1>4, <2>1 DEF x
  <2> QED
    BY <1>1, <1>5, <2>2 DEF Grows, x
<1>11. StreamInvariant' /\ PollerInvariant'
  <2>1. runner = "consuming" /\ status # "completed"
    BY <1>1 DEF Writable, TelemetryInvariant, PollerInvariant
  <2> QED
    BY <1>2, <1>5, <1>10, <2>1, ReadersHold
<1> QED
  BY <1>7, <1>8, <1>9, <1>11 DEF TelemetryInvariant

(* A failed append, or one that a crash interrupts: the event is not kept, *)
(* and the failure pays for the one that may continue its line.            *)
LEMMA InterruptedFile ==
  ASSUME TypeOK, FileIsOrdered, LossIsBounded, Writable,
         log' \in InterruptedAppends(log, Trace[next]), kept' = kept, faults' = faults + 1
  PROVE  /\ log' \in [lines : Seq(Seq(Pieces)), open : BOOLEAN]
         /\ log'.open => log'.lines # <<>>
         /\ \A i \in DOMAIN log'.lines : Len(log'.lines[i]) > 0 /\ EntryAt(log', i) \in Nat
         /\ \A i, j \in DOMAIN log'.lines : i < j => EntryAt(log', i) < EntryAt(log', j)
         /\ \A i \in DOMAIN log'.lines : EntryAt(log', i) <= Trace[next]
         /\ \A e \in Readable' : e \in Readable \/ e = Trace[next]
         /\ Len(log'.lines) \in Nat /\ Len(log.lines) <= Len(log'.lines)
         /\ Len(log'.lines) = Len(log.lines) => Readable' \subseteq Readable
         /\ LossIsBounded'
<1> DEFINE x == Trace[next]
           A == kept \ Readable
           B == kept \ Readable'
<1>1. x \in Nat \ {0}
  BY TraceFacts
<1>2. /\ kept \in SUBSET Nat /\ IsFiniteSet(kept) /\ faults \in Nat /\ \A e \in kept : e < x
  BY DEF TypeOK, FileIsOrdered
<1>3. IsFiniteSet(A) /\ Cardinality(A) \in Nat
  BY <1>2, FS_Subset, FS_CardinalityType
<1>4. /\ log.open => EntryAt(log, Len(log.lines)) \notin kept /\ Cardinality(A) + 1 <= faults
      /\ ~log.open => Cardinality(A) + 0 <= faults
  BY DEF LossIsBounded
<1>5. CASE log' = log
  <2>1. Readable' = Readable
    BY <1>5 DEF Readable
  <2>2. Cardinality(kept' \ Readable') = Cardinality(A)
    BY <2>1
  <2>3. LossIsBounded'
    <3> HIDE DEF A
    <3>1. CASE log.open
      BY <1>2, <1>3, <1>4, <1>5, <2>2, <3>1 DEF LossIsBounded
    <3>2. CASE ~log.open
      BY <1>2, <1>3, <1>4, <1>5, <2>2, <3>2 DEF LossIsBounded
    <3> QED
      BY <3>1, <3>2
  <2>4. log \in [lines : Seq(Seq(Pieces)), open : BOOLEAN]
    BY DEF TypeOK
  <2>5. /\ log.open => log.lines # <<>>
        /\ \A i \in DOMAIN log.lines : Len(log.lines[i]) > 0 /\ EntryAt(log, i) \in Nat
        /\ \A i, j \in DOMAIN log.lines : i < j => EntryAt(log, i) < EntryAt(log, j)
        /\ Len(log.lines) \in Nat
    BY FileFacts DEF FileIsOrdered
  <2>6. \A i \in DOMAIN log.lines : EntryAt(log, i) <= Trace[next]
    BY <1>1, <2>5 DEF FileIsOrdered
  <2> QED
    BY <1>5, <2>1, <2>3, <2>4, <2>5, <2>6
<1>6. CASE \E w \in BOOLEAN : log' = Written(log, Piece(x, w), FALSE)
  <2>1. PICK w \in BOOLEAN : log' = Written(log, Piece(x, w), FALSE)
    BY <1>6
  <2>2. log'.open = TRUE /\ EntryAt(log', Len(log'.lines)) \notin kept /\ B \subseteq A
    <3>1. CASE log.open
      <4>1. /\ log'.open = TRUE /\ Len(log'.lines) = Len(log.lines)
            /\ Len(log.lines) \in DOMAIN log.lines
            /\ \A i \in DOMAIN log.lines : EntryAt(log', i) = EntryAt(log, i)
            /\ \A e \in Readable : e # EntryAt(log, Len(log.lines)) => e \in Readable'
        BY <1>1, <2>1, <3>1, Continued
      <4> QED
        BY <1>4, <3>1, <4>1
    <3>2. CASE ~log.open
      <4>1. /\ log'.open = TRUE /\ Len(log'.lines) = Len(log.lines) + 1
            /\ EntryAt(log', Len(log.lines) + 1) = x /\ Readable \subseteq Readable'
        BY <1>1, <2>1, <3>2, Begun
      <4>2. x \notin kept
        BY <1>1, <1>2
      <4> QED
        BY <4>1, <4>2
    <3> QED
      BY <3>1, <3>2
  <2>3. Cardinality(B) \in Nat /\ Cardinality(B) <= Cardinality(A)
    <3> HIDE DEF A, B
    <3> QED
      BY <1>3, <2>2, LossGrows
  <2>4. Cardinality(B) + 1 <= faults + 1
    <3> HIDE DEF A, B
    <3>1. Cardinality(A) <= faults
      BY <1>2, <1>3, <1>4
    <3> QED
      BY <1>2, <1>3, <2>3, <3>1
  <2>5. LossIsBounded'
    BY <2>2, <2>4 DEF LossIsBounded
  <2> HIDE DEF A, B
  <2> QED
    BY <2>1, <2>5, FileGrows
<1> QED
  BY <1>5, <1>6 DEF InterruptedAppends

(* append_fails: whatever part of the line was written, one event more may be missing,
   and one fault more has been counted. *)
LEMMA append_fails_Step ==
  ASSUME TelemetryInvariant, append_fails
  PROVE  TelemetryInvariant'
<1> DEFINE x == Trace[next]
<1>1. /\ TypeOK /\ FileIsOrdered /\ LossIsBounded /\ Writable
      /\ log' \in InterruptedAppends(log, Trace[next])
  BY DEF TelemetryInvariant, append_fails, Consuming, Writable
<1>2. /\ kept' = kept /\ next' = next + 1 /\ faults' = faults + 1
      /\ UNCHANGED <<up, runner, status, stream, poller>>
  BY DEF append_fails
<1>3. x \in Nat \ {0} /\ next \in Nat
  BY <1>1, TraceFacts
<1>4. next + 1 <= Len(Trace) => x < Trace[next + 1] /\ Trace[next + 1] \in Nat
  BY <1>1, TraceFacts
<1>5. /\ log' \in [lines : Seq(Seq(Pieces)), open : BOOLEAN]
      /\ log'.open => log'.lines # <<>>
      /\ \A i \in DOMAIN log'.lines : Len(log'.lines[i]) > 0 /\ EntryAt(log', i) \in Nat
      /\ \A i, j \in DOMAIN log'.lines : i < j => EntryAt(log', i) < EntryAt(log', j)
      /\ \A i \in DOMAIN log'.lines : EntryAt(log', i) <= x
      /\ \A e \in Readable' : e \in Readable \/ e = x
      /\ Len(log'.lines) \in Nat /\ Len(log.lines) <= Len(log'.lines)
      /\ Len(log'.lines) = Len(log.lines) => Readable' \subseteq Readable
      /\ LossIsBounded'
  BY <1>1, <1>2, InterruptedFile
<1> HIDE DEF x
<1>6. kept \in SUBSET Nat /\ \A e \in kept : e < x
  BY <1>1 DEF TypeOK, FileIsOrdered, x
<1>7. TypeOK'
  <2>1. next' \in 1..(Len(Trace) + 1) /\ faults' \in Nat
    BY <1>1, <1>2, SolverEventsAssumption DEF TypeOK, Writable
  <2> QED
    BY <1>1, <1>2, <1>5, <2>1 DEF TypeOK
<1>8. FileIsOrdered'
  <2>1. Writable' => next + 1 <= Len(Trace)
    BY <1>2 DEF Writable
  <2>2. Writable' => \A i \in DOMAIN log'.lines : EntryAt(log', i) < Trace[next']
    BY <1>2, <1>3, <1>4, <1>5, <2>1
  <2>3. Writable' => \A e \in kept' : e < Trace[next']
    BY <1>2, <1>3, <1>4, <1>6, <2>1
  <2> QED
    BY <1>5, <2>2, <2>3 DEF FileIsOrdered
<1>9. Grows
  <2>1. Writable' => next + 1 <= Len(Trace)
    BY <1>2 DEF Writable
  <2>2. Writable' => Trace[next]' \in Nat /\ Trace[next] <= Trace[next]'
    BY <1>2, <1>3, <1>4, <2>1 DEF x
  <2> QED
    BY <1>1, <1>5, <2>2 DEF Grows, x
<1>10. StreamInvariant' /\ PollerInvariant'
  <2>1. runner = "consuming" /\ status # "completed"
    BY <1>1 DEF Writable, TelemetryInvariant, PollerInvariant
  <2> QED
    BY <1>2, <1>5, <1>9, <2>1, ReadersHold
<1> QED
  BY <1>5, <1>7, <1>8, <1>10 DEF TelemetryInvariant

(* Crash: the event being written may be lost; the writer is gone for good, the stream
   connection breaks. *)
LEMMA Crash_Step ==
  ASSUME TelemetryInvariant, Crash
  PROVE  TelemetryInvariant'
<1>1. TypeOK /\ FileIsOrdered /\ LossIsBounded
  BY DEF TelemetryInvariant
<1>2. /\ kept' = kept /\ next' = next /\ faults' = faults + 1 /\ up' = FALSE /\ runner' = "done"
      /\ status' = status /\ ~Writable'
  BY DEF Crash, Writable
<1>3. /\ stream' = [stream EXCEPT !.pc = IF @ \in {"page", "check"} THEN "broken" ELSE @]
      /\ poller' = [poller EXCEPT !.pc = IF @ = "events" THEN "job" ELSE @]
      /\ Writable => log' \in InterruptedAppends(log, Trace[next])
      /\ ~Writable => log' = log
  BY DEF Crash, Writable
<1>4. /\ log' \in [lines : Seq(Seq(Pieces)), open : BOOLEAN]
      /\ log'.open => log'.lines # <<>>
      /\ \A i \in DOMAIN log'.lines : Len(log'.lines[i]) > 0
      /\ \A i, j \in DOMAIN log'.lines : i < j => EntryAt(log', i) < EntryAt(log', j)
      /\ \A e \in Readable' : e \in Readable \/ (Writable /\ e = Trace[next])
      /\ Len(log'.lines) \in Nat /\ Len(log.lines) <= Len(log'.lines)
      /\ Len(log'.lines) = Len(log.lines) => Readable' \subseteq Readable
      /\ LossIsBounded'
  <2>1. CASE Writable
    BY <1>1, <1>2, <1>3, <2>1, InterruptedFile
  <2>2. CASE ~Writable
    <3>1. log' = log /\ Readable' = Readable
      BY <1>3, <2>2 DEF Readable
    <3>2. LossIsBounded'
      <4>1. faults \in Nat /\ IsFiniteSet(kept \ Readable)
        BY <1>1, FS_Subset DEF TypeOK
      <4>2. Cardinality(kept \ Readable) \in Nat
        BY <4>1, FS_CardinalityType
      <4> DEFINE c == Cardinality(kept \ Readable) + (IF log.open THEN 1 ELSE 0)
      <4>3. c \in Nat /\ c <= faults
        BY <1>1, <4>2 DEF LossIsBounded
      <4>4. (Cardinality(kept \ Readable) + (IF log.open THEN 1 ELSE 0))' = c
        BY <1>2, <3>1
      <4>5. c <= faults'
        <5> HIDE DEF c
        <5> QED
          BY <1>2, <4>1, <4>3
      <4>6. log'.open => EntryAt(log', Len(log'.lines)) \notin kept'
        BY <1>1, <1>2, <3>1 DEF LossIsBounded
      <4> HIDE DEF c
      <4> QED
        BY <4>4, <4>5, <4>6 DEF LossIsBounded
    <3>3. log \in [lines : Seq(Seq(Pieces)), open : BOOLEAN] /\ Len(log.lines) \in Nat
      BY <1>1, FileFacts DEF TypeOK
    <3> QED
      BY <1>1, <3>1, <3>2, <3>3 DEF FileIsOrdered
  <2> QED
    BY <2>1, <2>2
<1>5. TypeOK'
  <2>1. stream' \in [pc : {"absent", "page", "check", "ended", "broken"}, cursor : Nat,
                     from : Nat, got : Seq(Nat), short : BOOLEAN, seen : Nat]
    BY <1>1, <1>3 DEF TypeOK
  <2>2. poller' \in [pc : {"absent", "job", "events", "idle"}, after : Nat, from : Nat,
                     got : Seq(Nat), summary : BOOLEAN, terminal : BOOLEAN, done : BOOLEAN]
    BY <1>1, <1>3 DEF TypeOK
  <2>3. faults' \in Nat
    BY <1>1, <1>2 DEF TypeOK
  <2> QED
    BY <1>1, <1>2, <1>4, <2>1, <2>2, <2>3 DEF TypeOK
<1>6. FileIsOrdered'
  BY <1>2, <1>4 DEF FileIsOrdered
<1>7. Grows
  BY <1>2, <1>4 DEF Grows
<1>8. runner = "done" => Readable' \subseteq Readable
  BY <1>4 DEF Writable
<1>9. /\ \/ stream' = stream \/ stream' = [stream EXCEPT !.pc = "broken"]
      /\ \/ poller' = poller
         \/ poller.pc = "events" /\ poller' = [poller EXCEPT !.pc = "job"]
  BY <1>1, <1>3 DEF TypeOK
<1>10. StreamInvariant' /\ PollerInvariant'
  BY <1>2, <1>4, <1>7, <1>8, <1>9, ReadersHold
<1> QED
  BY <1>4, <1>5, <1>6, <1>10 DEF TelemetryInvariant

(* The steps that leave the file alone. *)
LEMMA FileHolds ==
  ASSUME TypeOK, FileIsOrdered, LossIsBounded, UNCHANGED <<next, log, kept>>,
         faults' \in Nat, faults <= faults', Writable' => Writable
  PROVE  /\ FileIsOrdered' /\ LossIsBounded' /\ Grows /\ Readable' = Readable
         /\ Len(log.lines) \in Nat
<1>1. Readable' = Readable
  BY DEF Readable
<1>2. FileIsOrdered'
  BY DEF FileIsOrdered
<1>3. LossIsBounded'
  <2>1. faults \in Nat /\ IsFiniteSet(kept \ Readable)
    BY FS_Subset DEF TypeOK
  <2>2. Cardinality(kept \ Readable) \in Nat
    BY <2>1, FS_CardinalityType
  <2> DEFINE c == Cardinality(kept \ Readable) + (IF log.open THEN 1 ELSE 0)
  <2>3. c \in Nat /\ c <= faults
    BY <2>2 DEF LossIsBounded
  <2>4. (Cardinality(kept \ Readable) + (IF log.open THEN 1 ELSE 0))' = c
    BY <1>1
  <2>5. c <= faults'
    <3> HIDE DEF c
    <3> QED
      BY <2>1, <2>3
  <2>6. log'.open => EntryAt(log', Len(log'.lines)) \notin kept'
    BY DEF LossIsBounded
  <2> HIDE DEF c
  <2> QED
    BY <2>4, <2>5, <2>6 DEF LossIsBounded
<1>4. Grows
  <2>1. Writable' => Trace[next] \in Nat /\ Trace[next]' = Trace[next]
    BY TraceFacts
  <2> QED
    BY <1>1, <2>1 DEF Grows
<1> QED
  BY <1>1, <1>2, <1>3, <1>4, FileFacts

(* The steps that change the state of the job and never the file or a reader. *)
LEMMA RunnerSteps ==
  ASSUME TelemetryInvariant,
         persist_execution \/ stop_consuming \/ cancel_job \/ Restart
  PROVE  TelemetryInvariant'
<1>1. TypeOK /\ FileIsOrdered /\ LossIsBounded
  BY DEF TelemetryInvariant
<1>2. /\ UNCHANGED <<next, log, kept, faults, stream, poller>>
      /\ up' \in BOOLEAN /\ runner' \in {runner, "done"}
  BY <1>1 DEF persist_execution, stop_consuming, cancel_job, Restart, TypeOK
<1>3. runner \in {"consuming", "done"} /\ faults \in Nat /\ status \in {"running"} \union Terminal
  BY <1>1 DEF TypeOK
<1>4. /\ status' \in {"running"} \union Terminal
      /\ status \in Terminal => status' = status
      /\ status' = "completed" => runner' = "done"
  <2>1. status = "completed" => runner = "done"
    BY DEF TelemetryInvariant, PollerInvariant
  <2>2. CASE persist_execution
    BY <1>3, <2>1, <2>2 DEF persist_execution, Terminal
  <2>3. CASE stop_consuming
    BY <1>3, <2>1, <2>3 DEF stop_consuming, Terminal
  <2>4. CASE cancel_job
    BY <1>3, <2>1, <2>4 DEF cancel_job, Terminal
  <2>5. CASE Restart
    BY <1>3, <2>1, <2>5 DEF Restart, Terminal
  <2> QED
    BY <2>2, <2>3, <2>4, <2>5
<1>5. TypeOK'
  BY <1>1, <1>2, <1>3, <1>4 DEF TypeOK
<1>6. Writable' => Writable
  BY <1>2, <1>3 DEF Writable
<1>7. /\ FileIsOrdered' /\ LossIsBounded' /\ Grows /\ Readable' = Readable
      /\ Len(log.lines) \in Nat
  BY <1>1, <1>2, <1>3, <1>6, FileHolds
<1>8. StreamInvariant' /\ PollerInvariant'
  BY <1>2, <1>3, <1>4, <1>7, ReadersHold
<1> QED
  BY <1>5, <1>7, <1>8 DEF TelemetryInvariant

-----------------------------------------------------------------------------
(* The steps of the requests. *)
LEMMA RequestsHold ==
  ASSUME TelemetryInvariant, UNCHANGED <<up, runner, next, log, kept, status>>,
         faults' \in Nat, faults <= faults'
  PROVE  /\ TypeOK /\ FileIsOrdered /\ LossIsBounded
         /\ FileIsOrdered' /\ LossIsBounded' /\ Readable' = Readable
         /\ Writable' <=> Writable
         /\ stream' = stream => StreamInvariant'
         /\ poller' = poller => PollerInvariant'
<1>1. TypeOK /\ FileIsOrdered /\ LossIsBounded
  BY DEF TelemetryInvariant
<1>2. Writable' <=> Writable
  BY DEF Writable
<1>3. FileIsOrdered' /\ LossIsBounded' /\ Readable' = Readable
  BY <1>1, <1>2, FileHolds
<1>4. stream' = stream => StreamInvariant'
  BY <1>2, <1>3 DEF TelemetryInvariant, StreamInvariant, Follows, HasAll
<1>5. poller' = poller => PollerInvariant'
  BY <1>2, <1>3 DEF TelemetryInvariant, PollerInvariant, Follows, HasAll
<1> QED
  BY <1>1, <1>2, <1>3, <1>4, <1>5

(* stream_page: one page of list_solver_events after the cursor of the stream. *)
LEMMA stream_page_Step ==
  ASSUME TelemetryInvariant, stream_page
  PROVE  TelemetryInvariant'
<1> DEFINE page == list_solver_events(stream.cursor, PageLimit)
           got == stream.got \o page
           cursor == Max({stream.cursor} \union ToSet(page))
<1>1. /\ UNCHANGED <<up, runner, next, log, kept, faults, status, poller>>
      /\ stream' = [stream EXCEPT !.pc = "check", !.cursor = cursor, !.got = got,
                                  !.short = Len(page) < PageLimit, !.seen = Len(log.lines)]
  BY DEF stream_page
<1>2. faults \in Nat
  BY DEF TelemetryInvariant, TypeOK
<1>3. /\ TypeOK /\ FileIsOrdered /\ LossIsBounded
      /\ FileIsOrdered' /\ LossIsBounded' /\ Readable' = Readable
      /\ Writable' <=> Writable
      /\ PollerInvariant'
  BY <1>1, <1>2, RequestsHold
<1>4. /\ stream.cursor \in Nat /\ stream.from \in Nat /\ stream.got \in Seq(Nat)
      /\ PageLimit \in Nat \ {0} /\ Follows(stream.got, stream.from, stream.cursor)
  BY <1>3, SolverEventsAssumption DEF TypeOK, TelemetryInvariant, StreamInvariant
<1>5. /\ page \in Seq(Nat)
      /\ \A k, l \in DOMAIN page : k < l => page[k] < page[l]
      /\ \A e \in ToSet(page) : e \in Readable /\ stream.cursor < e
      /\ page # <<>> => \A e \in Readable : stream.cursor < e /\ e <= Last(page) => e \in ToSet(page)
      /\ Len(page) < PageLimit => \A e \in Readable : stream.cursor < e => e \in ToSet(page)
  BY <1>3, <1>4, ListFacts
<1>6. Writable => \A e \in ToSet(page) : e < Trace[next]
  <2>1. Writable => \A e \in Readable : e < Trace[next]
    BY <1>3 DEF FileIsOrdered, Readable, ReadableLines
  <2> QED
    BY <1>5, <2>1
<1> HIDE DEF page
<1>7. Len(page) < PageLimit => HasAll(got, stream.from)
  BY <1>3, <1>4, <1>5, RestFollows
<1>8. got \in Seq(Nat) /\ cursor \in Nat /\ Follows(got, stream.from, cursor)
  <2>1. CASE page = <<>>
    <3>1. got = stream.got /\ ToSet(page) = {}
      BY <1>4, <1>5, <2>1, Joined
    <3>2. cursor = stream.cursor
      <4>1. \A z \in {stream.cursor} : z >= z
        BY <1>4
      <4>2. {stream.cursor} \union ToSet(page) = {stream.cursor}
        BY <3>1
      <4>3. Max({stream.cursor}) = stream.cursor
        BY <4>1 DEF Max
      <4> QED
        BY <4>2, <4>3
    <3> QED
      BY <1>4, <3>1, <3>2
  <2>2. CASE page # <<>>
    <3>1. /\ Follows(got, stream.from, Last(page)) /\ Last(page) \in Nat
          /\ Last(page) \in ToSet(page) /\ \A e \in ToSet(page) : e <= Last(page)
      BY <1>3, <1>4, <1>5, <1>6, <2>2, PageFollows
    <3>2. ToSet(page) \in SUBSET Nat
      BY <1>5 DEF ToSet
    <3>3. cursor = Last(page)
      BY <1>4, <1>5, <3>1, <3>2, MaxOfPage
    <3>4. got \in Seq(Nat)
      BY <1>4, <1>5, Joined
    <3> QED
      BY <3>1, <3>3, <3>4
  <2> QED
    BY <2>1, <2>2
<1>9. Len(log.lines) \in Nat
  BY <1>3, FileFacts
<1> HIDE DEF got, cursor
<1>10. /\ stream'.pc = "check" /\ stream'.cursor = cursor /\ stream'.got = got
       /\ stream'.from = stream.from /\ stream'.short = (Len(page) < PageLimit)
       /\ stream'.seen = Len(log.lines)
  BY <1>1, <1>3 DEF TypeOK
<1>11. TypeOK'
  <2>1. stream' \in [pc : {"absent", "page", "check", "ended", "broken"}, cursor : Nat,
                     from : Nat, got : Seq(Nat), short : BOOLEAN, seen : Nat]
    <3>1. (Len(page) < PageLimit) \in BOOLEAN
      OBVIOUS
    <3> DEFINE short == Len(page) < PageLimit
    <3> HIDE DEF short
    <3> QED
      BY <1>1, <1>3, <1>8, <1>9, <3>1 DEF TypeOK, short
  <2> QED
    BY <1>1, <1>3, <2>1 DEF TypeOK
<1>12. Follows(stream.got, stream.from, stream.cursor)'
  BY <1>1, <1>3, <1>8, <1>10 DEF Follows
<1>13. StreamInvariant'
  <2>1. stream'.short => HasAll(stream.got, stream.from)'
    BY <1>3, <1>7, <1>10 DEF HasAll, got
  <2>2. stream'.seen <= Len(log'.lines)
    BY <1>1, <1>9, <1>10
  <2> QED
    BY <1>10, <1>12, <2>1, <2>2 DEF StreamInvariant
<1> QED
  BY <1>3, <1>11, <1>13 DEF TelemetryInvariant

(* The status is read, or a read fails: the stream has what it had. *)
LEMMA StreamSteps ==
  ASSUME TelemetryInvariant, stream_check \/ stream_read_fails \/ stream_status_fails
  PROVE  TelemetryInvariant'
<1>1. /\ UNCHANGED <<up, runner, next, log, kept, status, poller>>
      /\ faults \in Nat /\ faults' \in {faults, faults + 1}
  BY DEF stream_check, stream_read_fails, stream_status_fails, TelemetryInvariant, TypeOK
<1>2. faults' \in Nat /\ faults <= faults'
  BY <1>1
<1>3. /\ TypeOK /\ FileIsOrdered' /\ LossIsBounded' /\ Readable' = Readable
      /\ Writable' <=> Writable
      /\ PollerInvariant'
  BY <1>1, <1>2, RequestsHold
<1>4. PICK pc \in {"ended", "page", "broken"} :
        /\ stream' = [stream EXCEPT !.pc = pc]
        /\ pc = "ended" => stream.pc = "check" /\ status \in Terminal
  BY DEF stream_check, stream_read_fails, stream_status_fails
<1>5. /\ stream'.pc = pc /\ stream'.cursor = stream.cursor /\ stream'.got = stream.got
      /\ stream'.from = stream.from /\ stream'.short = stream.short /\ stream'.seen = stream.seen
  BY <1>3, <1>4 DEF TypeOK
<1>6. TypeOK'
  <2>1. stream' \in [pc : {"absent", "page", "check", "ended", "broken"}, cursor : Nat,
                     from : Nat, got : Seq(Nat), short : BOOLEAN, seen : Nat]
    BY <1>3, <1>4 DEF TypeOK
  <2> QED
    BY <1>1, <1>2, <1>3, <2>1 DEF TypeOK
<1>7. StreamInvariant'
  <2>1. Follows(stream.got, stream.from, stream.cursor)'
    BY <1>1, <1>3, <1>5 DEF TelemetryInvariant, StreamInvariant, Follows
  <2>2. stream'.pc = "ended" => status' \in Terminal
    BY <1>1, <1>4, <1>5
  <2>3. stream'.seen <= Len(log'.lines)
    BY <1>1, <1>5 DEF TelemetryInvariant, StreamInvariant
  <2>4. stream'.pc \in {"check", "ended"} /\ stream'.short /\ stream'.seen = Len(log'.lines)
          => HasAll(stream.got, stream.from)'
    BY <1>1, <1>3, <1>4, <1>5 DEF TelemetryInvariant, StreamInvariant, HasAll
  <2> QED
    BY <2>1, <2>2, <2>3, <2>4 DEF StreamInvariant
<1> QED
  BY <1>3, <1>6, <1>7 DEF TelemetryInvariant

(* poll_job: the client remembers whether the job was terminal when it asked. *)
LEMMA poll_job_Step ==
  ASSUME TelemetryInvariant, poll_job
  PROVE  TelemetryInvariant'
<1>1. /\ UNCHANGED <<up, runner, next, log, kept, faults, status, stream>> /\ poller.pc = "job"
      /\ poller' = [poller EXCEPT !.pc = "events", !.summary = (status = "completed"),
                                  !.terminal = (status \in Terminal)]
  BY DEF poll_job
<1>2. faults \in Nat
  BY DEF TelemetryInvariant, TypeOK
<1>3. /\ TypeOK /\ FileIsOrdered' /\ LossIsBounded' /\ Readable' = Readable
      /\ Writable' <=> Writable
      /\ StreamInvariant'
  BY <1>1, <1>2, RequestsHold
<1>4. /\ poller'.pc = "events" /\ poller'.after = poller.after /\ poller'.got = poller.got
      /\ poller'.from = poller.from /\ poller'.summary = (status = "completed")
      /\ poller'.done = poller.done
  BY <1>1, <1>3 DEF TypeOK
<1>5. TypeOK'
  <2>1. poller' \in [pc : {"absent", "job", "events", "idle"}, after : Nat, from : Nat,
                     got : Seq(Nat), summary : BOOLEAN, terminal : BOOLEAN, done : BOOLEAN]
    <3> DEFINE a == status = "completed"
               b == status \in Terminal
    <3>1. a \in BOOLEAN /\ b \in BOOLEAN
      OBVIOUS
    <3>2. poller' = [poller EXCEPT !.pc = "events", !.summary = a, !.terminal = b]
      BY <1>1
    <3> HIDE DEF a, b
    <3> QED
      BY <1>3, <3>1, <3>2 DEF TypeOK
  <2> QED
    BY <1>1, <1>3, <2>1 DEF TypeOK
<1>6. PollerInvariant'
  <2>1. Follows(poller.got, poller.from, poller.after)'
    BY <1>1, <1>3, <1>4 DEF TelemetryInvariant, PollerInvariant, Follows
  <2>2. ~poller'.done
    BY <1>1, <1>3, <1>4 DEF TelemetryInvariant, PollerInvariant, TypeOK
  <2>3. /\ status' = "completed" => runner' = "done"
        /\ poller'.summary => status' = "completed"
    BY <1>1, <1>4 DEF TelemetryInvariant, PollerInvariant
  <2> QED
    BY <2>1, <2>2, <2>3 DEF PollerInvariant
<1> QED
  BY <1>3, <1>5, <1>6 DEF TelemetryInvariant

(* events.truncate(limit). *)
LEMMA TruncatedFacts ==
  ASSUME NEW events \in Seq(Nat), NEW limit \in Nat \ {0},
         \A k, l \in DOMAIN events : k < l => events[k] < events[l],
         NEW page, page = Truncated(events, limit)
  PROVE  /\ page \in Seq(Nat)
         /\ \A k, l \in DOMAIN page : k < l => page[k] < page[l]
         /\ \A e \in ToSet(page) : e \in ToSet(events)
         /\ page # <<>> => /\ events # <<>> /\ Last(page) <= Last(events)
                           /\ \A e \in ToSet(events) : e <= Last(page) => e \in ToSet(page)
         /\ Len(events) <= limit => page = events
<1> DEFINE n == Len(events)
           m == IF n < limit THEN n ELSE limit
<1>1. n \in Nat /\ Len(events) = n /\ DOMAIN events = 1..n /\ \A k \in 1..n : events[k] \in Nat
  OBVIOUS
<1>2. page = SubSeq(events, 1, m)
  BY DEF Truncated
<1> HIDE DEF n
<1>3. m \in 0..n /\ m <= limit /\ (n <= limit => m = n)
  <2>1. limit \in Nat
    OBVIOUS
  <2> QED
    BY <1>1, <2>1
<1> HIDE DEF m
<1>4. /\ page \in Seq(Nat) /\ Len(page) = m /\ DOMAIN page = 1..m
      /\ \A k \in 1..m : k \in 1..n /\ page[k] = events[k]
  BY <1>1, <1>2, <1>3
<1>5. \A k, l \in DOMAIN page : k < l => page[k] < page[l]
  BY <1>1, <1>4
<1>6. \A e \in ToSet(page) : e \in ToSet(events)
  <2>1. \A e \in ToSet(page) : \E k \in 1..m : e = page[k]
    BY <1>4 DEF ToSet
  <2>2. \A k \in 1..n : events[k] \in ToSet(events)
    BY <1>1 DEF ToSet
  <2> QED
    BY <1>4, <2>1, <2>2
<1>7. ASSUME page # <<>>
      PROVE  /\ events # <<>> /\ Last(page) <= Last(events)
             /\ \A e \in ToSet(events) : e <= Last(page) => e \in ToSet(page)
  <2>1. m \in 1..n /\ m \in 1..m /\ n \in 1..n
    BY <1>1, <1>3, <1>4, <1>7
  <2>2. Last(page) = events[m] /\ Last(events) = events[n]
    BY <1>4, <2>1 DEF Last, n
  <2>3. events # <<>>
    BY <1>1, <2>1
  <2>4. events[m] <= events[n]
    <3>1. events[m] \in Nat /\ events[n] \in Nat
      BY <1>1, <2>1
    <3>2. m = n \/ m < n
      BY <1>1, <2>1
    <3>3. m < n => events[m] < events[n]
      BY <1>1, <2>1
    <3> QED
      BY <3>1, <3>2, <3>3
  <2>5. ASSUME NEW k \in 1..n, events[k] <= events[m]
        PROVE  events[k] \in ToSet(page)
    <3>1. ~(m < k)
      <4> SUFFICES ASSUME m < k
                   PROVE  FALSE
        OBVIOUS
      <4>1. events[m] < events[k] /\ events[m] \in Nat /\ events[k] \in Nat
        BY <1>1, <2>1
      <4> QED
        BY <2>5, <4>1
    <3>2. k \in 1..m
      BY <1>1, <2>1, <3>1
    <3> QED
      BY <1>4, <3>2 DEF ToSet
  <2>6. \A e \in ToSet(events) : \E k \in 1..n : e = events[k]
    BY <1>1 DEF ToSet
  <2> QED
    BY <2>2, <2>3, <2>4, <2>5, <2>6
<1>8. n <= limit => page = events
  <2> SUFFICES ASSUME n <= limit
               PROVE  page = events
    OBVIOUS
  <2>1. DOMAIN page = DOMAIN events /\ \A k \in DOMAIN events : page[k] = events[k]
    BY <1>1, <1>3, <1>4
  <2>2. page = [k \in DOMAIN page |-> page[k]] /\ events = [k \in DOMAIN events |-> events[k]]
    BY <1>4
  <2> QED
    BY <2>1, <2>2
<1> QED
  BY <1>4, <1>5, <1>6, <1>7, <1>8 DEF n

(* One page of the polling client: after it the client has everything up   *)
(* to next_after, and everything when there is no more.                    *)
LEMMA TelemetryPageFacts ==
  ASSUME TypeOK, FileIsOrdered, NEW after \in Nat, NEW summary \in BOOLEAN,
         summary => ~Writable,
         NEW t, t = TelemetryPage(after, summary)
  PROVE  /\ t.events \in Seq(Nat)
         /\ \A k, l \in DOMAIN t.events : k < l => t.events[k] < t.events[l]
         /\ \A e \in ToSet(t.events) : after < e
         /\ Writable => \A e \in ToSet(t.events) : e < Trace[next]
         /\ t.events # <<>> =>
              \A e \in Readable : after < e /\ e <= Last(t.events) => e \in ToSet(t.events)
         /\ ~t.has_more => \A e \in Readable : after < e => e \in ToSet(t.events)
         /\ t.next_after = IF t.events = <<>> THEN after ELSE Last(t.events)
         /\ t.has_more \in BOOLEAN
<1> DEFINE filed == list_solver_events(after, PageLimit + 1)
           trace == stored_events(after, PageLimit + 1)
           events == IF filed = <<>> /\ summary THEN trace ELSE filed
           page == Truncated(events, PageLimit)
<1>1. PageLimit \in Nat \ {0} /\ PageLimit \in Nat /\ PageLimit + 1 \in Nat \ {0}
  BY SolverEventsAssumption
<1>2. t = [events |-> page,
           next_after |-> IF page = <<>> THEN after ELSE Last(page),
           has_more |-> Len(events) > PageLimit]
  BY DEF TelemetryPage
<1>3. /\ filed \in Seq(Nat) /\ Len(filed) <= PageLimit + 1
      /\ \A k, l \in DOMAIN filed : k < l => filed[k] < filed[l]
      /\ \A e \in ToSet(filed) : e \in Readable /\ after < e
      /\ filed # <<>> => \A e \in Readable : after < e /\ e <= Last(filed) => e \in ToSet(filed)
      /\ Len(filed) < PageLimit + 1 => \A e \in Readable : after < e => e \in ToSet(filed)
  BY <1>1, ListFacts
<1>4. /\ trace \in Seq(Nat)
      /\ \A k, l \in DOMAIN trace : k < l => trace[k] < trace[l]
      /\ \A e \in ToSet(trace) : after < e
  BY <1>1, StoredFacts
<1> HIDE DEF filed, trace
<1>5. filed = <<>> => \A e \in Readable : ~(after < e)
  <2> SUFFICES ASSUME filed = <<>>
               PROVE  \A e \in Readable : ~(after < e)
    OBVIOUS
  <2>1. Len(filed) < PageLimit + 1 /\ ToSet(filed) = {}
    BY <1>1 DEF ToSet
  <2> QED
    BY <1>3, <2>1
<1>6. /\ events \in Seq(Nat)
      /\ \A k, l \in DOMAIN events : k < l => events[k] < events[l]
      /\ \A e \in ToSet(events) : after < e
  <2>1. CASE filed = <<>> /\ summary
    BY <1>4, <2>1
  <2>2. CASE ~(filed = <<>> /\ summary)
    BY <1>3, <2>2
  <2> QED
    BY <2>1, <2>2
<1>7. Writable => \A e \in ToSet(events) : e < Trace[next]
  <2> SUFFICES ASSUME Writable
               PROVE  \A e \in ToSet(events) : e < Trace[next]
    OBVIOUS
  <2>1. \A e \in Readable : e < Trace[next]
    BY DEF FileIsOrdered, Readable, ReadableLines
  <2>2. events = filed
    OBVIOUS
  <2> HIDE DEF events
  <2> QED
    BY <1>3, <2>1, <2>2
<1>8. events # <<>> => \A e \in Readable : after < e /\ e <= Last(events) => e \in ToSet(events)
  <2>1. CASE filed = <<>> /\ summary
    BY <1>5, <2>1
  <2>2. CASE ~(filed = <<>> /\ summary)
    BY <1>3, <2>2
  <2> QED
    BY <2>1, <2>2
<1>9. ~(Len(events) > PageLimit) => \A e \in Readable : after < e => e \in ToSet(events)
  <2>1. CASE filed = <<>> /\ summary
    BY <1>5, <2>1
  <2>2. CASE ~(filed = <<>> /\ summary)
    <3>1. events = filed /\ Len(filed) \in Nat
      BY <1>3, <2>2
    <3>2. ~(Len(filed) > PageLimit) => Len(filed) < PageLimit + 1
      BY <1>1, <3>1
    <3> HIDE DEF events
    <3> QED
      BY <1>3, <3>1, <3>2
  <2> QED
    BY <2>1, <2>2
<1> HIDE DEF events
<1>10. /\ page \in Seq(Nat)
       /\ \A k, l \in DOMAIN page : k < l => page[k] < page[l]
       /\ \A e \in ToSet(page) : e \in ToSet(events)
       /\ page # <<>> => /\ events # <<>> /\ Last(page) <= Last(events)
                         /\ \A e \in ToSet(events) : e <= Last(page) => e \in ToSet(page)
       /\ Len(events) <= PageLimit => page = events
  BY <1>1, <1>6, TruncatedFacts
<1> HIDE DEF page
<1>11. page # <<>> => \A e \in Readable : after < e /\ e <= Last(page) => e \in ToSet(page)
  <2> SUFFICES ASSUME page # <<>>, NEW e \in Readable, after < e, e <= Last(page)
               PROVE  e \in ToSet(page)
    OBVIOUS
  <2>1. e \in Nat
    BY FileFacts
  <2>2. \A s \in Seq(Nat) : s # <<>> => Last(s) \in Nat
    BY DEF Last
  <2>3. Last(page) \in Nat /\ Last(events) \in Nat /\ Last(page) <= Last(events) /\ events # <<>>
    BY <1>6, <1>10, <2>2
  <2>4. e <= Last(events)
    BY <2>1, <2>3
  <2> QED
    BY <1>8, <1>10, <2>3, <2>4
<1>12. ~(Len(events) > PageLimit) => \A e \in Readable : after < e => e \in ToSet(page)
  <2>1. ~(Len(events) > PageLimit) => Len(events) <= PageLimit
    BY <1>1, <1>6
  <2> QED
    BY <1>9, <1>10, <2>1
<1>13. /\ t.events = page /\ t.has_more = (Len(events) > PageLimit)
       /\ t.next_after = IF page = <<>> THEN after ELSE Last(page)
  BY <1>2
<1>14. t.has_more \in BOOLEAN /\ (~t.has_more => ~(Len(events) > PageLimit))
  <2> DEFINE more == Len(events) > PageLimit
  <2>1. more \in BOOLEAN /\ t.has_more = more
    BY <1>13
  <2>2. (~more) => ~(Len(events) > PageLimit)
    OBVIOUS
  <2> HIDE DEF more
  <2> QED
    BY <2>1, <2>2
<1>15. /\ \A e \in ToSet(page) : after < e
       /\ Writable => \A e \in ToSet(page) : e < Trace[next]
  BY <1>6, <1>7, <1>10
<1>16. ~t.has_more => \A e \in Readable : after < e => e \in ToSet(t.events)
  BY <1>12, <1>13, <1>14
<1>17. /\ t.events \in Seq(Nat)
       /\ \A k, l \in DOMAIN t.events : k < l => t.events[k] < t.events[l]
       /\ t.events # <<>> =>
            \A e \in Readable : after < e /\ e <= Last(t.events) => e \in ToSet(t.events)
  BY <1>10, <1>11, <1>13
<1>18. t.next_after = IF t.events = <<>> THEN after ELSE Last(t.events)
  BY <1>13
<1>19. /\ \A e \in ToSet(t.events) : after < e
       /\ Writable => \A e \in ToSet(t.events) : e < Trace[next]
  BY <1>13, <1>15
<1> QED
  BY <1>14, <1>16, <1>17, <1>18, <1>19

(* poll_events: one page of the endpoint, from the stored result or from the file. *)
LEMMA poll_events_Step ==
  ASSUME TelemetryInvariant, poll_events
  PROVE  TelemetryInvariant'
<1> DEFINE t == TelemetryPage(poller.after, poller.summary)
           got == poller.got \o t.events
           done == ~t.has_more /\ poller.terminal
<1>1. /\ UNCHANGED <<up, runner, next, log, kept, faults, status, stream>> /\ poller.pc = "events"
      /\ poller' = [poller EXCEPT !.pc = IF done THEN "idle" ELSE "job",
                                  !.after = t.next_after, !.got = got, !.done = done]
  BY DEF poll_events
<1>2. faults \in Nat
  BY DEF TelemetryInvariant, TypeOK
<1>3. /\ TypeOK /\ FileIsOrdered /\ FileIsOrdered' /\ LossIsBounded' /\ Readable' = Readable
      /\ Writable' <=> Writable
      /\ StreamInvariant'
  BY <1>1, <1>2, RequestsHold
<1>4. /\ poller.after \in Nat /\ poller.from \in Nat /\ poller.got \in Seq(Nat)
      /\ poller.summary \in BOOLEAN /\ Follows(poller.got, poller.from, poller.after)
      /\ poller.summary => ~Writable
  BY <1>3 DEF TypeOK, TelemetryInvariant, PollerInvariant, Writable
<1>5. /\ t.events \in Seq(Nat)
      /\ \A k, l \in DOMAIN t.events : k < l => t.events[k] < t.events[l]
      /\ \A e \in ToSet(t.events) : poller.after < e
      /\ Writable => \A e \in ToSet(t.events) : e < Trace[next]
      /\ t.events # <<>> =>
           \A e \in Readable : poller.after < e /\ e <= Last(t.events) => e \in ToSet(t.events)
      /\ ~t.has_more => \A e \in Readable : poller.after < e => e \in ToSet(t.events)
      /\ t.next_after = IF t.events = <<>> THEN poller.after ELSE Last(t.events)
      /\ t.has_more \in BOOLEAN
  BY <1>3, <1>4, TelemetryPageFacts
<1> HIDE DEF t
<1>6. ~t.has_more => HasAll(got, poller.from)
  BY <1>3, <1>4, <1>5, RestFollows
<1>7. got \in Seq(Nat) /\ t.next_after \in Nat /\ Follows(got, poller.from, t.next_after)
  <2>1. CASE t.events = <<>>
    <3>1. got = poller.got
      BY <1>4, <1>5, <2>1, Joined
    <3> QED
      BY <1>4, <1>5, <2>1, <3>1
  <2>2. CASE t.events # <<>>
    <3>1. Follows(got, poller.from, Last(t.events)) /\ Last(t.events) \in Nat
      BY <1>3, <1>4, <1>5, <2>2, PageFollows
    <3>2. got \in Seq(Nat)
      BY <1>4, <1>5, Joined
    <3> QED
      BY <1>5, <2>2, <3>1, <3>2
  <2> QED
    BY <2>1, <2>2
<1>8. done \in BOOLEAN /\ (done => ~t.has_more)
  OBVIOUS
<1> HIDE DEF got, done
<1>9. /\ poller'.pc = (IF done THEN "idle" ELSE "job") /\ poller'.after = t.next_after
      /\ poller'.got = got /\ poller'.from = poller.from /\ poller'.summary = poller.summary
      /\ poller'.done = done
  BY <1>1, <1>3 DEF TypeOK
<1>10. TypeOK'
  <2>1. poller' \in [pc : {"absent", "job", "events", "idle"}, after : Nat, from : Nat,
                     got : Seq(Nat), summary : BOOLEAN, terminal : BOOLEAN, done : BOOLEAN]
    BY <1>1, <1>3, <1>7, <1>8 DEF TypeOK
  <2> QED
    BY <1>1, <1>3, <2>1 DEF TypeOK
<1>11. PollerInvariant'
  <2>1. Follows(poller.got, poller.from, poller.after)'
    BY <1>1, <1>3, <1>7, <1>9 DEF Follows
  <2>2. poller'.done => poller'.pc = "idle" /\ HasAll(poller.got, poller.from)'
    BY <1>3, <1>6, <1>8, <1>9 DEF HasAll
  <2>3. /\ status' = "completed" => runner' = "done"
        /\ poller'.summary => status' = "completed"
    BY <1>1, <1>9 DEF TelemetryInvariant, PollerInvariant
  <2> QED
    BY <2>1, <2>2, <2>3 DEF PollerInvariant
<1> QED
  BY <1>3, <1>10, <1>11 DEF TelemetryInvariant

-----------------------------------------------------------------------------
(* Init: an empty file and readers that have read nothing. *)
LEMMA InitTelemetry == Init => TelemetryInvariant
<1> SUFFICES ASSUME Init
             PROVE  TelemetryInvariant
  OBVIOUS
<1>1. log = [lines |-> <<>>, open |-> FALSE] /\ kept = {} /\ faults = 0 /\ next = 1
      /\ runner = "consuming" /\ status = "running" /\ up = TRUE
  BY DEF Init, EmptyFile
<1>2. log.lines = <<>> /\ log.open = FALSE /\ Len(log.lines) = 0 /\ DOMAIN log.lines = {}
  BY <1>1
<1>3. Readable = {}
  BY <1>2 DEF Readable, ReadableLines
<1>4. PICK a \in Afters, streams \in BOOLEAN :
        /\ stream = [pc |-> IF streams THEN "page" ELSE "absent", cursor |-> a, from |-> a,
                     got |-> <<>>, short |-> FALSE, seen |-> 0]
        /\ poller = [pc |-> IF streams THEN "absent" ELSE "job", after |-> a, from |-> a,
                     got |-> <<>>, summary |-> FALSE, terminal |-> FALSE, done |-> FALSE]
  BY DEF Init
<1>5. a \in Nat /\ Len(Trace) \in Nat
  BY SolverEventsAssumption
<1>6. TypeOK
  <2>1. log \in [lines : Seq(Seq(Pieces)), open : BOOLEAN]
    BY <1>1
  <2>2. kept \in SUBSET Nat /\ IsFiniteSet(kept) /\ faults \in Nat /\ next \in 1..(Len(Trace) + 1)
    BY <1>1, <1>5, FS_EmptySet
  <2>3. stream \in [pc : {"absent", "page", "check", "ended", "broken"}, cursor : Nat,
                    from : Nat, got : Seq(Nat), short : BOOLEAN, seen : Nat]
    BY <1>4, <1>5
  <2>4. poller \in [pc : {"absent", "job", "events", "idle"}, after : Nat, from : Nat,
                    got : Seq(Nat), summary : BOOLEAN, terminal : BOOLEAN, done : BOOLEAN]
    BY <1>4, <1>5
  <2> QED
    BY <1>1, <2>1, <2>2, <2>3, <2>4 DEF TypeOK
<1>7. FileIsOrdered
  BY <1>1, <1>2 DEF FileIsOrdered
<1>8. LossIsBounded
  <2>1. kept \ Readable = {} /\ Cardinality({}) = 0
    BY <1>1, FS_EmptySet
  <2> QED
    BY <1>1, <1>2, <2>1 DEF LossIsBounded
<1>9. ToSet(<<>>) = {} /\ DOMAIN <<>> = {}
  BY DEF ToSet
<1>10. StreamInvariant
  BY <1>2, <1>3, <1>4, <1>5, <1>9 DEF StreamInvariant, Follows, HasAll
<1>11. PollerInvariant
  BY <1>1, <1>3, <1>4, <1>5, <1>9 DEF PollerInvariant, Follows, HasAll
<1> QED
  BY <1>6, <1>7, <1>8, <1>10, <1>11 DEF TelemetryInvariant

(* Every step keeps the invariant. *)
LEMMA NextTelemetry == TelemetryInvariant /\ [Next]_vars => TelemetryInvariant'
<1> SUFFICES ASSUME TelemetryInvariant, [Next]_vars
             PROVE  TelemetryInvariant'
  OBVIOUS
<1>1. CASE append_solver_event
  BY <1>1, append_solver_event_Step
<1>2. CASE append_fails
  BY <1>2, append_fails_Step
<1>3. CASE persist_execution \/ stop_consuming \/ cancel_job \/ Restart
  BY <1>3, RunnerSteps
<1>4. CASE Crash
  BY <1>4, Crash_Step
<1>5. CASE stream_page
  BY <1>5, stream_page_Step
<1>6. CASE stream_check \/ stream_read_fails \/ stream_status_fails
  BY <1>6, StreamSteps
<1>7. CASE poll_job
  BY <1>7, poll_job_Step
<1>8. CASE poll_events
  BY <1>8, poll_events_Step
<1>9. CASE UNCHANGED vars
  <2>1. UNCHANGED <<up, runner, next, log, kept, faults, status, stream, poller>>
    BY <1>9 DEF vars
  <2>2. faults \in Nat
    BY DEF TelemetryInvariant, TypeOK
  <2>3. /\ TypeOK /\ FileIsOrdered' /\ LossIsBounded' /\ StreamInvariant' /\ PollerInvariant'
    BY <2>1, <2>2, RequestsHold
  <2>4. TypeOK'
    BY <2>1, <2>3 DEF TypeOK
  <2> QED
    BY <2>3, <2>4 DEF TelemetryInvariant
<1> QED
  BY <1>1, <1>2, <1>3, <1>4, <1>5, <1>6, <1>7, <1>8, <1>9 DEF Next, Terminated

(* The inductive invariant of the telemetry file and its readers: the file *)
(* is in the order of the trace, an open line belongs to a failure that    *)
(* has not yet cost another event, and each reader holds everything        *)
(* readable behind its cursor.                                             *)
THEOREM TelemetryFollows == Spec => []TelemetryInvariant
<1> QED
  BY InitTelemetry, NextTelemetry, PTL DEF Spec

(* For every trace, page limit, starting cursor and any number of failed   *)
(* appends, failed reads and crashes, both readers get the events once and *)
(* in order and miss none that is readable behind their cursor, and no     *)
(* failure costs more than one event besides its own (list_solver_events,  *)
(* solver_events, solver_telemetry, append_solver_event).                  *)
THEOREM TelemetryCompleteness == Spec => []TelemetryIsComplete
<1>1. TelemetryInvariant => TelemetryIsComplete
  <2> SUFFICES ASSUME TelemetryInvariant
               PROVE  TelemetryIsComplete
    OBVIOUS
  <2>1. TypeOK /\ FileIsOrdered /\ LossIsBounded /\ StreamInvariant /\ PollerInvariant
    BY DEF TelemetryInvariant
  <2>2. ASSUME NEW got \in Seq(Nat), \A i, j \in DOMAIN got : i < j => got[i] < got[j]
        PROVE  \A i \in 1..(Len(got) - 1) : got[i] < got[i + 1]
    <3> TAKE i \in 1..(Len(got) - 1)
    <3>1. i \in DOMAIN got /\ i + 1 \in DOMAIN got /\ i < i + 1
      OBVIOUS
    <3> QED
      BY <2>2, <3>1
  <2>3. stream.got \in Seq(Nat) /\ poller.got \in Seq(Nat)
    BY <2>1 DEF TypeOK
  <2>4. /\ \A i \in 1..(Len(stream.got) - 1) : stream.got[i] < stream.got[i + 1]
        /\ \A e \in Readable : stream.from < e /\ e <= stream.cursor => e \in ToSet(stream.got)
    BY <2>1, <2>2, <2>3 DEF StreamInvariant, Follows
  <2>5. /\ \A i \in 1..(Len(poller.got) - 1) : poller.got[i] < poller.got[i + 1]
        /\ \A e \in Readable : poller.from < e /\ e <= poller.after => e \in ToSet(poller.got)
        /\ poller.done /\ poller.summary
             => \A e \in Readable : e > poller.from => e \in ToSet(poller.got)
    BY <2>1, <2>2, <2>3 DEF PollerInvariant, Follows, HasAll
  <2>6. Cardinality(kept \ Readable) <= faults
    <3>1. IsFiniteSet(kept \ Readable) /\ faults \in Nat
      BY <2>1, FS_Subset DEF TypeOK
    <3>2. Cardinality(kept \ Readable) \in Nat
      BY <3>1, FS_CardinalityType
    <3>3. Cardinality(kept \ Readable) + (IF log.open THEN 1 ELSE 0) <= faults
      BY <2>1 DEF LossIsBounded
    <3> QED
      BY <3>1, <3>2, <3>3
  <2> QED
    BY <2>4, <2>5, <2>6 DEF TelemetryIsComplete
<1> QED
  BY <1>1, TelemetryFollows, PTL

(* For every trace and any failures, a stream that ends without a failed   *)
(* read ends for a terminal job, and misses nothing its last page could    *)
(* have shown unless that page was full (solver_events).                   *)
THEOREM StreamsEndHonestly == Spec => []EndedStreamIsHonest
<1>1. TelemetryInvariant => EndedStreamIsHonest
  BY DEF TelemetryInvariant, StreamInvariant, HasAll, EndedStreamIsHonest
<1> QED
  BY <1>1, TelemetryFollows, PTL
=============================================================================
