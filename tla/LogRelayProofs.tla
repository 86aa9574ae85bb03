--------------------------- MODULE LogRelayProofs ---------------------------
(***************************************************************************)
(* Theorems about LogRelay, for any number of workers and of records, and  *)
(* a pipe of any size.  What a worker logged is spread over the files, the *)
(* pipe and its buffer; the invariant says that these three hold it in one *)
(* line, cut at two places that move as the feeder threads and the         *)
(* listener go on.                                                         *)
(***************************************************************************)
EXTENDS LogRelay, TLAPS

\* On its way from worker s to the files nothing is between two records that are next
\* to each other: the files, with those that could not be written, the pipe and the
\* buffer hold it one after the other.
InOneLine(s) ==
  \E a, b \in 0 .. logged[s] :
    /\ a <= b
    /\ Holds(written, s, Writable(s, a))
    /\ \A n \in 1 .. MaxRecords : <<s, n>> \in failed => n <= a
    /\ Holds(pipe, s, a + 1 .. b)
    /\ proc[s] # "killed" => Holds(buffer[s], s, b + 1 .. logged[s])

\* A worker that is not running has nothing left to write, and nobody writes for another.
OwnRecords(s) ==
  /\ ~Alive(s) => buffer[s] = <<>>
  /\ \A i \in DOMAIN buffer[s] : buffer[s][i] \in {s} \X (1 .. MaxRecords)

\* The None is put when no worker is alive, and is behind everything else.
NoneIsLast ==
  /\ svc = "running" => /\ buffer[Service] = <<>>
                        /\ \A i \in DOMAIN pipe : pipe[i] # EndOfLog
                        /\ listener # "ended"
  /\ svc # "running" => \A s \in Workers : ~Alive(s)
  /\ buffer[Service] \in {<<>>, <<EndOfLog>>}
  /\ \A i \in DOMAIN pipe : pipe[i] = EndOfLog => i = Len(pipe) /\ buffer[Service] = <<>>
  /\ listener = "ended" => pipe = <<>> /\ buffer[Service] = <<>>

LogInv == TypeOK /\ NoneIsLast /\ \A s \in Workers : OwnRecords(s) /\ InOneLine(s)

-----------------------------------------------------------------------------
(* What Holds says of a sequence that grows at its end or shrinks at its   *)
(* beginning                                                               *)

Items == Records \cup {EndOfLog}

Other(s, x) == x = EndOfLog \/ x[1] # s

LEMMA HoldsNothing ==
  ASSUME NEW s
  PROVE  /\ Holds(<<>>, s, {})
         /\ \A N : Holds(<<>>, s, N) => N = {}
<1>1. PlacesOf(s, <<>>) = {}
  BY DEF PlacesOf
<1> QED
  BY <1>1 DEF Holds

LEMMA AppendOther ==
  ASSUME NEW q \in Seq(Items), NEW x, NEW s, NEW N, Other(s, x), Holds(q, s, N)
  PROVE  Holds(Append(q, x), s, N)
<1> DEFINE p == Append(q, x)
<1>1. /\ DOMAIN p = 1 .. Len(q) + 1 /\ DOMAIN q = 1 .. Len(q) /\ Len(q) \in Nat
      /\ \A i \in DOMAIN q : p[i] = q[i]
      /\ p[Len(q) + 1] = x
  OBVIOUS
<1>2. PlacesOf(s, p) = PlacesOf(s, q)
  BY <1>1 DEF PlacesOf, Other
<1>3. \A i \in PlacesOf(s, q) : p[i] = q[i]
  BY <1>1 DEF PlacesOf
<1> QED
  BY <1>2, <1>3 DEF Holds

LEMMA AppendNext ==
  ASSUME NEW q \in Seq(Items), NEW s \in Workers, NEW N \in SUBSET Nat, NEW m \in Nat,
         \A n \in N : n < m, Holds(q, s, N), NEW x, x = <<s, m>>
  PROVE  Holds(Append(q, x), s, N \cup {m})
<1> DEFINE p == Append(q, x)
           l == Len(q) + 1
<1>1. /\ DOMAIN p = 1 .. l /\ DOMAIN q = 1 .. Len(q) /\ Len(q) \in Nat
      /\ \A i \in DOMAIN q : p[i] = q[i]
      /\ p[l] = x
  OBVIOUS
<1>2. x # EndOfLog /\ x[1] = s /\ x[2] = m
  BY LogAssumption
<1>3. PlacesOf(s, p) = PlacesOf(s, q) \cup {l}
  BY <1>1, <1>2 DEF PlacesOf
<1>4. \A i \in PlacesOf(s, q) : p[i] = q[i] /\ i < l
  BY <1>1 DEF PlacesOf
<1> HIDE DEF p, l
<1>5. \A i \in PlacesOf(s, p) : p[i][2] \in N \cup {m}
  BY <1>1, <1>2, <1>3, <1>4 DEF Holds
<1>6. \A n \in N \cup {m} : \E i \in PlacesOf(s, p) : p[i][2] = n
  BY <1>1, <1>2, <1>3, <1>4 DEF Holds
<1>7. \A i, j \in PlacesOf(s, p) : i < j => p[i][2] < p[j][2]
  <2> SUFFICES ASSUME NEW i \in PlacesOf(s, p), NEW j \in PlacesOf(s, p), i < j
               PROVE  p[i][2] < p[j][2]
    OBVIOUS
  <2>1. i \in Nat /\ j \in Nat /\ l \in Nat /\ j <= l
    BY <1>1 DEF PlacesOf, l
  <2>2. i \in PlacesOf(s, q)
    BY <1>3, <2>1
  <2>3. CASE j = l
    <3>1. q[i][2] \in N
      BY <2>2 DEF Holds
    <3> QED
      BY <2>2, <2>3, <3>1, <1>1, <1>2, <1>4
  <2>4. CASE j \in PlacesOf(s, q)
    BY <2>2, <2>4, <1>4 DEF Holds
  <2> QED
    BY <1>3, <2>3, <2>4
<1> QED
  BY <1>5, <1>6, <1>7 DEF Holds, p

\* Where the places of a worker are when the head of the sequence has gone.
LEMMA TailPlaces ==
  ASSUME NEW q \in Seq(Items), q # <<>>, NEW s
  PROVE  /\ \A i \in PlacesOf(s, Tail(q)) :
              i + 1 \in PlacesOf(s, q) /\ i + 1 # 1 /\ i \in Nat /\ Tail(q)[i] = q[i + 1]
         /\ \A i \in PlacesOf(s, q) :
              i \in Nat /\ (i # 1 => i - 1 \in PlacesOf(s, Tail(q)) /\ Tail(q)[i - 1] = q[i])
<1>1. /\ DOMAIN q = 1 .. Len(q) /\ Len(q) \in Nat \ {0}
      /\ DOMAIN Tail(q) = 1 .. Len(q) - 1
      /\ \A i \in 1 .. Len(q) - 1 : Tail(q)[i] = q[i + 1]
  OBVIOUS
<1> QED
  BY <1>1 DEF PlacesOf

LEMMA TailKeepsOrder ==
  ASSUME NEW q \in Seq(Items), q # <<>>, NEW s, NEW N, Holds(q, s, N)
  PROVE  \A i, j \in PlacesOf(s, Tail(q)) : i < j => Tail(q)[i][2] < Tail(q)[j][2]
<1> SUFFICES ASSUME NEW i \in PlacesOf(s, Tail(q)), NEW j \in PlacesOf(s, Tail(q)), i < j
             PROVE  Tail(q)[i][2] < Tail(q)[j][2]
  OBVIOUS
<1>1. /\ i \in Nat /\ j \in Nat /\ i + 1 \in PlacesOf(s, q) /\ j + 1 \in PlacesOf(s, q)
      /\ Tail(q)[i] = q[i + 1] /\ Tail(q)[j] = q[j + 1]
  BY TailPlaces
<1>2. i + 1 < j + 1
  BY <1>1
<1>3. q[i + 1][2] < q[j + 1][2]
  BY <1>1, <1>2 DEF Holds
<1> QED
  BY <1>1, <1>3

LEMMA TailOther ==
  ASSUME NEW q \in Seq(Items), q # <<>>, NEW s, NEW N, Other(s, Head(q)),
         Holds(q, s, N)
  PROVE  Holds(Tail(q), s, N)
<1>1. 1 \notin PlacesOf(s, q)
  BY DEF PlacesOf, Other
<1>2. \A n \in N : \E i \in PlacesOf(s, Tail(q)) : Tail(q)[i][2] = n
  <2> SUFFICES ASSUME NEW n \in N
               PROVE  \E i \in PlacesOf(s, Tail(q)) : Tail(q)[i][2] = n
    OBVIOUS
  <2>1. PICK i \in PlacesOf(s, q) : q[i][2] = n
    BY DEF Holds
  <2> QED
    BY <1>1, <2>1, TailPlaces
<1>3. \A i \in PlacesOf(s, Tail(q)) : Tail(q)[i][2] \in N
  <2> SUFFICES ASSUME NEW i \in PlacesOf(s, Tail(q))
               PROVE  Tail(q)[i][2] \in N
    OBVIOUS
  <2>1. i + 1 \in PlacesOf(s, q) /\ Tail(q)[i] = q[i + 1]
    BY TailPlaces
  <2> QED
    BY <2>1 DEF Holds
<1>4. \A i, j \in PlacesOf(s, Tail(q)) : i < j => Tail(q)[i][2] < Tail(q)[j][2]
  BY TailKeepsOrder
<1> QED
  BY <1>2, <1>3, <1>4 DEF Holds

LEMMA TailNext ==
  ASSUME NEW q \in Seq(Items), q # <<>>, NEW s, NEW N \in SUBSET Nat, ~Other(s, Head(q)),
         Holds(q, s, N)
  PROVE  /\ Head(q)[2] \in N
         /\ \A n \in N : n = Head(q)[2] \/ Head(q)[2] < n
         /\ Holds(Tail(q), s, N \ {Head(q)[2]})
<1> DEFINE h == Head(q)[2]
<1>1. 1 \in PlacesOf(s, q) /\ q[1] = Head(q)
  BY DEF PlacesOf, Other
<1>2. \A i \in PlacesOf(s, q) : i # 1 => q[1][2] < q[i][2]
  <2>1. \A i \in PlacesOf(s, q) : i \in Nat /\ (i # 1 => 1 < i)
    BY DEF PlacesOf
  <2> QED
    BY <1>1, <2>1 DEF Holds
<1>3. h \in N
  BY <1>1 DEF Holds
<1>4. \A n \in N : n = h \/ h < n
  <2> SUFFICES ASSUME NEW n \in N
               PROVE  n = h \/ h < n
    OBVIOUS
  <2>1. PICK i \in PlacesOf(s, q) : q[i][2] = n
    BY DEF Holds
  <2> QED
    BY <1>1, <1>2, <2>1
<1> HIDE DEF h
<1>5. \A i \in PlacesOf(s, Tail(q)) : Tail(q)[i][2] \in N \ {h}
  <2> SUFFICES ASSUME NEW i \in PlacesOf(s, Tail(q))
               PROVE  Tail(q)[i][2] \in N \ {h}
    OBVIOUS
  <2>1. i + 1 \in PlacesOf(s, q) /\ i + 1 # 1 /\ Tail(q)[i] = q[i + 1]
    BY TailPlaces
  <2>2. q[i + 1][2] \in N /\ h < q[i + 1][2]
    BY <1>1, <1>2, <2>1 DEF Holds, h
  <2>3. h \in Nat /\ q[i + 1][2] \in Nat
    BY <1>3, <2>2
  <2>4. q[i + 1][2] # h
    BY <2>2, <2>3
  <2> QED
    BY <2>1, <2>2, <2>4
<1>6. \A n \in N \ {h} : \E i \in PlacesOf(s, Tail(q)) : Tail(q)[i][2] = n
  <2> SUFFICES ASSUME NEW n \in N \ {h}
               PROVE  \E i \in PlacesOf(s, Tail(q)) : Tail(q)[i][2] = n
    OBVIOUS
  <2>1. PICK i \in PlacesOf(s, q) : q[i][2] = n
    BY DEF Holds
  <2>2. i # 1
    BY <2>1, <1>1 DEF h
  <2>3. i - 1 \in PlacesOf(s, Tail(q)) /\ Tail(q)[i - 1] = q[i]
    BY <2>1, <2>2, TailPlaces
  <2>4. Tail(q)[i - 1][2] = n
    BY <2>1, <2>3
  <2> QED
    BY <2>3, <2>4
<1> QED
  BY <1>3, <1>4, <1>5, <1>6, TailKeepsOrder DEF Holds, h

\* The head of a stretch of numbers is its first.
LEMMA TailOfStretch ==
  ASSUME NEW q \in Seq(Items), q # <<>>, NEW s, NEW k \in Nat, NEW m \in Nat,
         ~Other(s, Head(q)), Holds(q, s, k + 1 .. m)
  PROVE  k < m /\ Head(q)[2] = k + 1 /\ Holds(Tail(q), s, (k + 1) + 1 .. m)
<1> DEFINE h == Head(q)[2]
<1>1. /\ h \in k + 1 .. m
      /\ \A n \in k + 1 .. m : n = h \/ h < n
      /\ Holds(Tail(q), s, (k + 1 .. m) \ {h})
  <2>1. k + 1 .. m \in SUBSET Nat
    OBVIOUS
  <2> QED
    BY <2>1, TailNext
<1> HIDE DEF h
<1>2. k < m /\ k + 1 \in k + 1 .. m
  BY <1>1
<1>3. h = k + 1
  BY <1>1, <1>2
<1>4. (k + 1 .. m) \ {h} = (k + 1) + 1 .. m
  BY <1>3
<1> QED
  BY <1>1, <1>2, <1>3, <1>4 DEF h

\* A stretch of numbers goes on.
LEMMA AppendToStretch ==
  ASSUME NEW q \in Seq(Items), NEW s \in Workers, NEW k \in Nat, NEW m \in Nat, k <= m,
         Holds(q, s, k + 1 .. m), NEW x, x = <<s, m + 1>>
  PROVE  Holds(Append(q, x), s, k + 1 .. m + 1)
<1>1. /\ k + 1 .. m \in SUBSET Nat /\ m + 1 \in Nat
      /\ \A n \in k + 1 .. m : n < m + 1
      /\ (k + 1 .. m) \cup {m + 1} = k + 1 .. m + 1
  OBVIOUS
<1>2. Holds(Append(q, x), s, (k + 1 .. m) \cup {m + 1})
  BY <1>1, AppendNext
<1> QED
  BY <1>1, <1>2

\* The next record of a worker is written, or cannot be.
LEMMA NextWritable ==
  ASSUME NEW s \in Workers, NEW a \in Nat
  PROVE  /\ Writable(s, a) \in SUBSET Nat
         /\ \A n \in Writable(s, a) : n < a + 1
         /\ <<s, a + 1>> \notin failed => Writable(s, a + 1) = Writable(s, a) \cup {a + 1}
         /\ <<s, a + 1>> \in failed => Writable(s, a + 1) = Writable(s, a)
BY DEF Writable

-----------------------------------------------------------------------------
(* A step keeps a worker's records in one line                             *)

\* A step that leaves the sequences alone, except for the buffer of a worker killed.
LEMMA StaysInLine ==
  ASSUME NEW s \in Workers, InOneLine(s),
         logged'[s] = logged[s], UNCHANGED fileVars, pipe' = pipe,
         proc'[s] # "killed" => proc[s] # "killed" /\ buffer'[s] = buffer[s]
  PROVE  InOneLine(s)'
BY DEF InOneLine, Writable, fileVars

LEMMA LogInLine ==
  ASSUME LogInv, NEW t \in Workers, Log(t), NEW s \in Workers
  PROVE  InOneLine(s)'
<1> USE DEF LogInv
<1>1. /\ UNCHANGED <<proc, fileVars, pipe>>
      /\ s # t => logged'[s] = logged[s] /\ buffer'[s] = buffer[s]
      /\ proc[t] = "running"
      /\ logged'[t] = logged[t] + 1 /\ logged[t] \in Nat
      /\ buffer'[t] = Append(buffer[t], <<t, logged[t] + 1>>)
      /\ buffer[t] \in Seq(Items)
  BY DEF Log, Put, TypeOK, Items
<1>2. CASE s # t
  BY <1>1, <1>2, StaysInLine
<1>3. CASE s = t
  <2>1. PICK a, b \in 0 .. logged[s] :
          /\ a <= b
          /\ Holds(written, s, Writable(s, a)) /\ Holds(pipe, s, a + 1 .. b)
          /\ \A n \in 1 .. MaxRecords : <<s, n>> \in failed => n <= a
          /\ Holds(buffer[s], s, b + 1 .. logged[s])
    BY <1>1, <1>3 DEF InOneLine
  <2>2. Holds(buffer'[s], s, b + 1 .. logged'[s])
    <3>1. b \in Nat /\ b <= logged[s] /\ logged[s] \in Nat
      BY <1>1, <1>3
    <3>2. Holds(Append(buffer[s], <<s, logged[s] + 1>>), s, b + 1 .. logged[s] + 1)
      BY <1>1, <1>3, <2>1, <3>1, AppendToStretch
    <3> QED
      BY <1>1, <1>3, <3>2
  <2>3. a \in 0 .. logged'[s] /\ b \in 0 .. logged'[s]
    BY <1>1, <1>3
  <2> QED
    BY <1>1, <2>1, <2>2, <2>3 DEF InOneLine, Writable, fileVars
<1> QED
  BY <1>2, <1>3

\* What a feeder thread of a worker writes is the worker's next record in the pipe.
LEMMA FeedInLine ==
  ASSUME LogInv, NEW e \in Workers \cup {Service}, Feed(e), NEW s \in Workers
  PROVE  InOneLine(s)'
<1> USE DEF LogInv
<1> DEFINE x == Head(buffer[e])
<1>1. /\ UNCHANGED <<proc, fileVars, logged>>
      /\ s # e => buffer'[s] = buffer[s]
      /\ buffer'[e] = Tail(buffer[e]) /\ buffer[e] # <<>> /\ buffer[e] \in Seq(Items)
      /\ pipe \in Seq(Items) /\ pipe' = Append(pipe, x)
      /\ logged[s] \in Nat
  BY DEF Feed, TypeOK, Items
<1>2. 1 \in DOMAIN buffer[e] /\ x = buffer[e][1]
  BY <1>1
<1>3. PICK a, b \in 0 .. logged[s] :
        /\ a <= b
        /\ Holds(written, s, Writable(s, a)) /\ Holds(pipe, s, a + 1 .. b)
        /\ \A n \in 1 .. MaxRecords : <<s, n>> \in failed => n <= a
        /\ proc[s] # "killed" => Holds(buffer[s], s, b + 1 .. logged[s])
  BY DEF InOneLine
<1>4. CASE s # e
  <2>1. x = EndOfLog \/ x[1] = e
    BY <1>2 DEF NoneIsLast, OwnRecords
  <2>2. Other(s, x)
    BY <1>4, <2>1 DEF Other
  <2>3. Holds(pipe', s, a + 1 .. b)
    BY <1>1, <1>3, <2>2, AppendOther
  <2> QED
    BY <1>1, <1>3, <1>4, <2>3 DEF InOneLine, Writable, fileVars
<1>5. CASE s = e
  <2>1. x \in {s} \X (1 .. MaxRecords)
    BY <1>2, <1>5 DEF OwnRecords
  <2>2. ~Other(s, x) /\ x = <<s, x[2]>>
    BY <2>1, LogAssumption DEF Other
  <2>3. Alive(s)
    BY <1>1, <1>5 DEF OwnRecords
  <2>4. proc[s] # "killed"
    BY <2>3 DEF Alive
  <2>5. b < logged[s] /\ x[2] = b + 1 /\ Holds(buffer'[s], s, (b + 1) + 1 .. logged[s])
    BY <1>1, <1>3, <1>5, <2>2, <2>4, TailOfStretch
  <2>6. Holds(pipe', s, a + 1 .. b + 1)
    <3>1. a \in Nat /\ b \in Nat
      BY <1>1, <1>3
    <3>2. x = <<s, b + 1>>
      BY <2>2, <2>5
    <3> HIDE DEF x
    <3> QED
      BY <1>1, <1>3, <3>1, <3>2, AppendToStretch
  <2>7. b + 1 \in 0 .. logged[s] /\ a <= b + 1
    BY <1>1, <1>3, <2>5
  <2> QED
    BY <1>1, <1>3, <2>5, <2>6, <2>7 DEF InOneLine, Writable, fileVars
<1> QED
  BY <1>4, <1>5

\* What the listener takes is the worker's next record in the files, or could not be
\* written.
LEMMA ReadInLine ==
  ASSUME LogInv, Read, NEW s \in Workers
  PROVE  InOneLine(s)'
<1> USE DEF LogInv
<1> DEFINE x == Head(pipe)
<1>1. /\ UNCHANGED <<proc, logged, buffer>>
      /\ pipe \in Seq(Items) /\ pipe # <<>> /\ pipe' = Tail(pipe)
      /\ written \in Seq(Items)
      /\ x = EndOfLog => UNCHANGED fileVars
      /\ x # EndOfLog => \/ written' = Append(written, x) /\ failed' = failed
                         \/ written' = written /\ failed' = failed \cup {x}
      /\ x # EndOfLog => x \in Records
      /\ logged[s] \in 0 .. MaxRecords /\ MaxRecords \in Nat
  <2>1. written \in Seq(Items) /\ pipe # <<>>
    BY DEF TypeOK, Items, Read, Reading
  <2>2. x \in Items
    BY <2>1 DEF TypeOK, Items
  <2> QED
    BY <2>1, <2>2, LogAssumption DEF Read, TypeOK, Items
<1>2. PICK a, b \in 0 .. logged[s] :
        /\ a <= b
        /\ Holds(written, s, Writable(s, a)) /\ Holds(pipe, s, a + 1 .. b)
        /\ \A n \in 1 .. MaxRecords : <<s, n>> \in failed => n <= a
        /\ proc[s] # "killed" => Holds(buffer[s], s, b + 1 .. logged[s])
  BY DEF InOneLine
<1> HIDE DEF x
<1>3. CASE Other(s, x)
  <2>1. Holds(pipe', s, a + 1 .. b)
    BY <1>1, <1>2, <1>3, TailOther DEF x
  <2>2. \A n \in 1 .. MaxRecords : <<s, n>> \in failed' => <<s, n>> \in failed
    BY <1>1, <1>3 DEF Other, fileVars
  <2>3. Writable(s, a)' = Writable(s, a)
    <3>1. 1 .. a \subseteq 1 .. MaxRecords
      BY <1>1, <1>2
    <3>2. \A n \in 1 .. a : <<s, n>> \in failed' <=> <<s, n>> \in failed
      BY <1>1, <2>2, <3>1 DEF fileVars
    <3> QED
      BY <3>2 DEF Writable
  <2>4. Holds(written', s, Writable(s, a))
    BY <1>1, <1>2, <1>3, AppendOther DEF fileVars
  <2> QED
    BY <1>1, <1>2, <2>1, <2>2, <2>3, <2>4 DEF InOneLine
<1>4. CASE ~Other(s, x)
  <2>0. a \in Nat /\ b \in Nat /\ x # EndOfLog
    BY <1>1, <1>2, <1>4 DEF Other
  <2>1. a < b /\ x[2] = a + 1 /\ Holds(pipe', s, (a + 1) + 1 .. b)
    BY <1>1, <1>2, <1>4, <2>0, TailOfStretch DEF x
  <2>2. x = <<s, a + 1>>
    BY <1>1, <1>4, <2>0, <2>1 DEF Other, Records
  <2>3. a + 1 \in 0 .. logged[s] /\ a + 1 <= b /\ a + 1 \in 1 .. MaxRecords
    BY <1>1, <1>2, <2>1
  <2>4. <<s, a + 1>> \notin failed
    BY <1>2, <2>0, <2>3
  <2>5. \A n \in 1 .. MaxRecords : <<s, n>> \in failed' => n <= a + 1
    <3> SUFFICES ASSUME NEW n \in 1 .. MaxRecords, <<s, n>> \in failed'
                 PROVE  n <= a + 1
      OBVIOUS
    <3>1. <<s, n>> \in failed \/ n = a + 1
      BY <1>1, <2>0, <2>2
    <3> QED
      BY <1>2, <2>0, <3>1
  <2>6. Holds(written', s, Writable(s, a + 1)')
    <3>1. CASE written' = Append(written, x) /\ failed' = failed
      <4>1. Holds(Append(written, x), s, Writable(s, a) \cup {a + 1})
        <5>1. /\ Writable(s, a) \in SUBSET Nat /\ a + 1 \in Nat
              /\ \A n \in Writable(s, a) : n < a + 1
          BY <2>0 DEF Writable
        <5>2. written \in Seq(Items) /\ Holds(written, s, Writable(s, a))
          BY <1>1, <1>2
        <5> DEFINE N == Writable(s, a)
        <5> HIDE DEF N
        <5>3. /\ N \in SUBSET Nat /\ a + 1 \in Nat /\ Holds(written, s, N)
              /\ \A n \in N : n < a + 1
          BY <5>1, <5>2 DEF N
        <5>4. Holds(Append(written, x), s, N \cup {a + 1})
          BY <2>2, <5>2, <5>3, AppendNext
        <5> QED
          BY <5>4 DEF N
      <4>2. Writable(s, a + 1)' = Writable(s, a + 1)
        BY <3>1 DEF Writable
      <4> QED
        BY <2>0, <2>4, <3>1, <4>1, <4>2, NextWritable
    <3>2. CASE written' = written /\ failed' = failed \cup {x}
      <4>1. Writable(s, a + 1)' = Writable(s, a)
        BY <2>0, <2>2, <3>2 DEF Writable
      <4> QED
        BY <1>2, <3>2, <4>1
    <3> QED
      BY <1>1, <2>0, <3>1, <3>2
  <2> QED
    BY <1>1, <1>2, <2>1, <2>3, <2>5, <2>6 DEF InOneLine
<1> QED
  BY <1>3, <1>4

LEMMA LineKept ==
  ASSUME LogInv, Next, NEW s \in Workers
  PROVE  InOneLine(s)'
<1> USE DEF LogInv
<1>1. ASSUME NEW t \in Workers, Start(t)
      PROVE  InOneLine(s)'
  BY <1>1, StaysInLine DEF Start, TypeOK
<1>2. ASSUME NEW t \in Workers, Return(t) \/ Exit(t)
      PROVE  InOneLine(s)'
  BY <1>2, StaysInLine DEF Return, Exit, TypeOK
<1>3. ASSUME NEW t \in Workers, Kill(t)
      PROVE  InOneLine(s)'
  BY <1>3, StaysInLine DEF Kill, TypeOK
<1>4. CASE ListenerFails \/ JoinListener \/ ServiceExit
  BY <1>4, StaysInLine DEF ListenerFails, JoinListener, ServiceExit
<1>5. CASE StopListener
  <2>1. buffer'[s] = buffer[s]
    BY <1>5, LogAssumption DEF StopListener, Put, TypeOK
  <2> QED
    BY <1>5, <2>1, StaysInLine DEF StopListener
<1> QED
  BY <1>1, <1>2, <1>3, <1>4, <1>5, LogInLine, FeedInLine, ReadInLine DEF Next

-----------------------------------------------------------------------------
(* The other parts of the invariant                                        *)

LEMMA TypeKept ==
  ASSUME TypeOK, Next
  PROVE  TypeOK'
<1> USE DEF TypeOK, fileVars
<1>1. ASSUME NEW s \in Workers, Start(s) \/ Return(s) \/ Exit(s)
      PROVE  TypeOK'
  BY <1>1 DEF Start, Return, Exit
<1>2. ASSUME NEW s \in Workers, Log(s)
      PROVE  TypeOK'
  <2>1. logged[s] + 1 \in 1 .. MaxRecords
    BY <1>2, LogAssumption DEF Log
  <2>2. <<s, logged[s] + 1>> \in Records
    BY <2>1 DEF Records
  <2>3. buffer' \in [Workers \cup {Service} -> Seq(Records \cup {EndOfLog})]
    BY <1>2, <2>2 DEF Log, Put
  <2>4. logged' \in [Workers -> 0 .. MaxRecords]
    <3>1. logged[s] + 1 \in 0 .. MaxRecords
      BY <2>1
    <3> QED
      BY <1>2, <3>1 DEF Log
  <2> QED
    BY <1>2, <2>3, <2>4 DEF Log
<1>3. ASSUME NEW s \in Workers, Kill(s)
      PROVE  TypeOK'
  BY <1>3 DEF Kill
<1>4. ASSUME NEW e \in Workers \cup {Service}, Feed(e)
      PROVE  TypeOK'
  <2>1. buffer[e] \in Seq(Records \cup {EndOfLog}) /\ buffer[e] # <<>>
    BY <1>4 DEF Feed
  <2>2. Head(buffer[e]) \in Records \cup {EndOfLog} /\ Tail(buffer[e]) \in Seq(Records \cup {EndOfLog})
    BY <2>1
  <2>3. buffer' \in [Workers \cup {Service} -> Seq(Records \cup {EndOfLog})]
    BY <1>4, <2>2 DEF Feed
  <2>4. pipe' \in Seq(Records \cup {EndOfLog}) /\ Len(pipe') <= PipeSize
    BY <1>4, <2>2, LogAssumption DEF Feed
  <2> QED
    BY <1>4, <2>3, <2>4 DEF Feed
<1>5. CASE Read
  <2>1. /\ pipe' \in Seq(Records \cup {EndOfLog}) /\ Len(pipe') <= PipeSize
        /\ Head(pipe) \in Records \cup {EndOfLog}
    BY <1>5, LogAssumption DEF Read, Reading
  <2>2. written' \in Seq(Records) /\ failed' \subseteq Records
    <3>1. CASE Head(pipe) = EndOfLog
      BY <1>5, <3>1 DEF Read, fileVars
    <3>2. CASE Head(pipe) # EndOfLog
      <4>1. /\ Head(pipe) \in Records
            /\ written' \in {written, Append(written, Head(pipe))}
            /\ failed' \in {failed, failed \cup {Head(pipe)}}
        BY <1>5, <2>1, <3>2 DEF Read
      <4>2. Append(written, Head(pipe)) \in Seq(Records)
        BY <4>1
      <4> QED
        BY <4>1, <4>2
    <3> QED
      BY <3>1, <3>2
  <2> QED
    BY <1>5, <2>1, <2>2 DEF Read
<1>6. CASE ListenerFails \/ JoinListener \/ ServiceExit
  BY <1>6 DEF ListenerFails, JoinListener, ServiceExit
<1>7. CASE StopListener
  BY <1>7 DEF StopListener, Put
<1> QED
  BY <1>1, <1>2, <1>3, <1>4, <1>5, <1>6, <1>7 DEF Next

LEMMA OwnKept ==
  ASSUME LogInv, Next, NEW s \in Workers
  PROVE  OwnRecords(s)'
<1> USE DEF LogInv
<1>0. /\ OwnRecords(s) /\ proc \in [Workers -> {"idle", "running", "exiting", "exited", "killed"}]
      /\ buffer \in [Workers \cup {Service} -> Seq(Items)] /\ s # Service
  BY LogAssumption DEF TypeOK, Items
<1>1. ASSUME NEW t \in Workers, Start(t) \/ Return(t)
      PROVE  OwnRecords(s)'
  BY <1>0, <1>1 DEF Start, Return, OwnRecords, Alive
<1>2. ASSUME NEW t \in Workers, Exit(t)
      PROVE  OwnRecords(s)'
  BY <1>0, <1>2 DEF Exit, OwnRecords, Alive
<1>3. ASSUME NEW t \in Workers, Kill(t)
      PROVE  OwnRecords(s)'
  BY <1>0, <1>3 DEF Kill, OwnRecords, Alive
<1>4. ASSUME NEW t \in Workers, Log(t)
      PROVE  OwnRecords(s)'
  <2>1. CASE s # t
    BY <1>0, <1>4, <2>1 DEF Log, Put, OwnRecords, Alive
  <2>2. CASE s = t
    <3>1. logged[s] + 1 \in 1 .. MaxRecords
      BY <1>4, <2>2, LogAssumption DEF Log, TypeOK
    <3>2. /\ buffer[s] \in Seq(Items)
          /\ buffer'[s] = Append(buffer[s], <<s, logged[s] + 1>>)
      BY <1>0, <1>4, <2>2 DEF Log, Put
    <3>3. \A i \in DOMAIN buffer'[s] : buffer'[s][i] \in {s} \X (1 .. MaxRecords)
      BY <1>0, <3>1, <3>2 DEF OwnRecords
    <3>4. Alive(s)'
      BY <1>4, <2>2 DEF Log, Alive
    <3> QED
      BY <3>3, <3>4 DEF OwnRecords
  <2> QED
    BY <2>1, <2>2
<1>5. ASSUME NEW e \in Workers \cup {Service}, Feed(e)
      PROVE  OwnRecords(s)'
  <2>1. CASE s # e
    BY <1>0, <1>5, <2>1 DEF Feed, OwnRecords, Alive
  <2>2. CASE s = e
    <3>1. buffer[s] \in Seq(Items) /\ buffer[s] # <<>> /\ buffer'[s] = Tail(buffer[s]) /\ proc' = proc
      BY <1>0, <1>5, <2>2 DEF Feed
    <3>2. \A i \in DOMAIN buffer'[s] : i + 1 \in DOMAIN buffer[s] /\ buffer'[s][i] = buffer[s][i + 1]
      BY <3>1
    <3> QED
      BY <1>0, <3>1, <3>2 DEF OwnRecords, Alive
  <2> QED
    BY <2>1, <2>2
<1>6. CASE Read \/ ListenerFails \/ JoinListener \/ ServiceExit
  BY <1>0, <1>6 DEF Read, ListenerFails, JoinListener, ServiceExit, OwnRecords, Alive
<1>7. CASE StopListener
  BY <1>0, <1>7 DEF StopListener, Put, OwnRecords, Alive
<1> QED
  BY <1>1, <1>2, <1>3, <1>4, <1>5, <1>6, <1>7 DEF Next

LEMMA NoneIsLastKept ==
  ASSUME LogInv, Next
  PROVE  NoneIsLast'
<1> USE DEF LogInv
<1>0. /\ NoneIsLast /\ pipe \in Seq(Items) /\ Service \notin Workers
      /\ buffer \in [Workers \cup {Service} -> Seq(Items)]
      /\ proc \in [Workers -> {"idle", "running", "exiting", "exited", "killed"}]
  BY LogAssumption DEF TypeOK, Items
<1>1. ASSUME NEW s \in Workers, Start(s)
      PROVE  NoneIsLast'
  BY <1>0, <1>1 DEF Start, NoneIsLast
<1>2. ASSUME NEW s \in Workers, Return(s) \/ Exit(s) \/ Kill(s)
      PROVE  NoneIsLast'
  <2>1. UNCHANGED <<pipe, listener, svc>> /\ buffer'[Service] = buffer[Service]
    BY <1>0, <1>2 DEF Return, Exit, Kill
  <2>2. \A t \in Workers : Alive(t)' => Alive(t)
    BY <1>0, <1>2 DEF Return, Exit, Kill, Alive
  <2> QED
    BY <1>0, <2>1, <2>2 DEF NoneIsLast
<1>3. ASSUME NEW s \in Workers, Log(s)
      PROVE  NoneIsLast'
  <2>1. UNCHANGED <<proc, pipe, listener, svc>> /\ buffer'[Service] = buffer[Service]
    BY <1>0, <1>3 DEF Log, Put
  <2> QED
    BY <1>0, <2>1 DEF NoneIsLast, Alive
<1>4. ASSUME NEW s \in Workers, Feed(s)
      PROVE  NoneIsLast'
  <2>1. /\ UNCHANGED <<proc, listener, svc>> /\ buffer'[Service] = buffer[Service]
        /\ buffer[s] \in Seq(Items) /\ buffer[s] # <<>>
        /\ pipe' = Append(pipe, Head(buffer[s]))
    BY <1>0, <1>4 DEF Feed
  <2>2. Alive(s)
    BY <2>1 DEF OwnRecords
  <2>3. svc = "running"
    BY <1>0, <2>2 DEF NoneIsLast
  <2>4. Head(buffer[s]) \in {s} \X (1 .. MaxRecords)
    BY <2>1 DEF OwnRecords
  <2>5. Head(buffer[s]) # EndOfLog
    BY <2>4, LogAssumption
  <2>6. \A i \in DOMAIN pipe' : pipe'[i] # EndOfLog
    BY <1>0, <2>1, <2>3, <2>5 DEF NoneIsLast
  <2> QED
    BY <1>0, <2>1, <2>3, <2>6 DEF NoneIsLast
<1>5. CASE Feed(Service)
  <2>1. /\ UNCHANGED <<proc, listener, svc>>
        /\ buffer[Service] # <<>> /\ buffer'[Service] = Tail(buffer[Service])
        /\ pipe' = Append(pipe, Head(buffer[Service]))
    BY <1>0, <1>5 DEF Feed
  <2>2. buffer[Service] = <<EndOfLog>>
    BY <1>0, <2>1 DEF NoneIsLast
  <2>3. buffer'[Service] = <<>> /\ pipe' = Append(pipe, EndOfLog)
    BY <2>1, <2>2
  <2>4. \A i \in DOMAIN pipe : pipe[i] # EndOfLog
    BY <1>0, <2>1 DEF NoneIsLast
  <2>5. \A i \in DOMAIN pipe' : pipe'[i] = EndOfLog => i = Len(pipe')
    BY <1>0, <2>3, <2>4
  <2>6. svc # "running" /\ listener # "ended"
    BY <1>0, <2>1 DEF NoneIsLast
  <2> QED
    BY <1>0, <2>1, <2>3, <2>5, <2>6 DEF NoneIsLast, Alive
<1>6. CASE Read
  <2>1. /\ UNCHANGED <<proc, svc, buffer>> /\ pipe # <<>> /\ pipe' = Tail(pipe)
        /\ listener = "reading"
        /\ IF Head(pipe) = EndOfLog THEN listener' = "ended" ELSE listener' = listener
    BY <1>6 DEF Read, Reading
  <2>2. /\ Len(pipe') = Len(pipe) - 1 /\ Len(pipe) \in Nat
        /\ DOMAIN pipe = 1 .. Len(pipe) /\ DOMAIN pipe' = 1 .. Len(pipe) - 1
        /\ \A i \in DOMAIN pipe' : i + 1 \in DOMAIN pipe /\ pipe'[i] = pipe[i + 1]
    BY <1>0, <2>1
  <2>3. CASE Head(pipe) = EndOfLog
    <3>0. 1 \in DOMAIN pipe /\ pipe[1] = EndOfLog
      BY <1>0, <2>1, <2>2, <2>3
    <3>1. Len(pipe) = 1 /\ buffer[Service] = <<>> /\ svc # "running"
      BY <1>0, <3>0 DEF NoneIsLast
    <3>2. pipe' = <<>>
      BY <1>0, <2>1, <3>1
    <3> QED
      BY <1>0, <2>1, <2>2, <3>1, <3>2 DEF NoneIsLast, Alive
  <2>4. CASE Head(pipe) # EndOfLog
    <3>1. listener' = listener
      BY <2>1, <2>4
    <3>2. \A i \in DOMAIN pipe' : pipe'[i] = EndOfLog => i = Len(pipe') /\ buffer[Service] = <<>>
      BY <1>0, <2>2 DEF NoneIsLast
    <3>3. svc = "running" => \A i \in DOMAIN pipe' : pipe'[i] # EndOfLog
      BY <1>0, <2>2 DEF NoneIsLast
    <3> QED
      BY <1>0, <2>1, <3>1, <3>2, <3>3 DEF NoneIsLast, Alive
  <2> QED
    BY <2>3, <2>4
<1>7. CASE ListenerFails \/ JoinListener \/ ServiceExit
  BY <1>0, <1>7 DEF ListenerFails, JoinListener, ServiceExit, NoneIsLast, Alive
<1>8. CASE StopListener
  <2>1. /\ UNCHANGED <<proc, pipe, listener>> /\ svc = "running" /\ svc' = "stopping"
        /\ \A s \in Workers : ~Alive(s)
        /\ buffer[Service] = <<>> /\ buffer'[Service] = Append(<<>>, EndOfLog)
    BY <1>0, <1>8 DEF StopListener, Put, NoneIsLast
  <2> QED
    BY <1>0, <2>1 DEF NoneIsLast, Alive
<1> QED
  BY <1>1, <1>2, <1>3, <1>4, <1>5, <1>6, <1>7, <1>8 DEF Next

LEMMA InitLogInv == Init => LogInv
<1> SUFFICES ASSUME Init PROVE LogInv
  OBVIOUS
<1>1. TypeOK
  BY LogAssumption DEF Init, TypeOK
<1>2. NoneIsLast
  BY DEF Init, NoneIsLast, Alive
<1>3. ASSUME NEW s \in Workers
      PROVE  OwnRecords(s) /\ InOneLine(s)
  <2>1. /\ buffer[s] = <<>> /\ pipe = <<>> /\ written = <<>> /\ failed = {} /\ logged[s] = 0
        /\ 0 \in 0 .. 0 /\ 0 + 1 .. 0 = {} /\ Writable(s, 0) = {}
    BY DEF Init, Writable
  <2> QED
    BY <2>1, HoldsNothing DEF OwnRecords, InOneLine
<1> QED
  BY <1>1, <1>2, <1>3 DEF LogInv

LEMMA NextLogInv == LogInv /\ [Next]_vars => LogInv'
<1> SUFFICES ASSUME LogInv, [Next]_vars PROVE LogInv'
  OBVIOUS
<1>1. CASE Next
  <2>1. TypeOK' /\ NoneIsLast'
    BY <1>1, TypeKept, NoneIsLastKept DEF LogInv
  <2>2. \A s \in Workers : OwnRecords(s)' /\ InOneLine(s)'
    BY <1>1, OwnKept, LineKept
  <2> QED
    BY <2>1, <2>2 DEF LogInv
<1>2. CASE UNCHANGED vars
  BY <1>2 DEF vars, LogInv, TypeOK, NoneIsLast, OwnRecords, InOneLine, Alive, Writable, fileVars
<1> QED
  BY <1>1, <1>2

LEMMA LogInvAlways == Spec => []LogInv
  BY InitLogInv, NextLogInv, PTL DEF Spec

-----------------------------------------------------------------------------
(* The theorems                                                            *)

\* The types of the log relay: the pipe never holds more than fits into it, and
\* nothing but records gets into the files (logging_setup.py:81-91).
THEOREM LogTypes == Spec => []TypeOK
<1>1. LogInv => TypeOK
  BY DEF LogInv
<1> QED
  BY <1>1, LogInvAlways, PTL

\* Whatever is killed or fails, the files hold a beginning of what a worker logged:
\* each record once, in order, none missing before another but one whose own write
\* failed (logging_setup.py:81-91).
THEOREM FilesHoldABeginning == Spec => []KeepsABeginning
<1>1. LogInv => KeepsABeginning
  BY DEF LogInv, InOneLine, KeepsABeginning
<1> QED
  BY <1>1, LogInvAlways, PTL

\* When the None has ended the listener, the files have everything of each worker
\* that exited by itself, but for the records whose own write failed (main.py:76-80,
\* logging_setup.py:77-79).
THEOREM StopLosesNoRecord == Spec => []NothingLostAtStop
<1>1. ASSUME LogInv, listener = "ended", NEW s \in Workers, proc[s] = "exited"
      PROVE  Holds(written, s, Writable(s, logged[s]))
  <2>1. buffer[s] = <<>> /\ pipe = <<>>
    BY <1>1 DEF LogInv, NoneIsLast, OwnRecords, Alive
  <2>2. PICK a, b \in 0 .. logged[s] :
          /\ a <= b
          /\ Holds(written, s, Writable(s, a))
          /\ Holds(<<>>, s, a + 1 .. b) /\ Holds(<<>>, s, b + 1 .. logged[s])
    BY <1>1, <2>1 DEF LogInv, InOneLine
  <2>3. logged[s] \in Nat
    BY <1>1 DEF LogInv, TypeOK
  <2>4. a \in Nat /\ b \in Nat /\ b <= logged[s]
    BY <2>3
  <2>5. a + 1 .. b = {} /\ b + 1 .. logged[s] = {}
    BY <2>2, HoldsNothing
  <2>6. a = logged[s]
    BY <2>2, <2>3, <2>4, <2>5
  <2> QED
    BY <2>2, <2>6
<1>2. LogInv => NothingLostAtStop
  BY <1>1 DEF NothingLostAtStop
<1> QED
  BY <1>2, LogInvAlways, PTL

=============================================================================
