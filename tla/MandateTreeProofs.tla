-------------------------- MODULE MandateTreeProofs --------------------------
(***************************************************************************)
(* What holds of the delegation tree for any number of sessions, any terms, *)
(* any depth and any table.                                                *)
(*                                                                         *)
(* Sound says that every row fits below its parent's: the properties of a   *)
(* whole line of ancestors follow from it by induction on the order of      *)
(* issue, as the search for a least counterexample.  TreeInv adds what the  *)
(* open handlers hold; Orderly, what they have read while no two overlap.   *)
(***************************************************************************)
EXTENDS MandateTree, FiniteSetTheorems, WellFoundedInduction, TLAPS

(* A set of natural numbers has a least one: induction by a least           *)
(* counterexample.                                                          *)
LEMMA LeastNatural ==
  ASSUME NEW S \in SUBSET Nat, S # {}
  PROVE  \E n \in S : \A m \in S : n <= m
<1>1. PICK n \in S : \A m \in S : ~ (<<m, n>> \in OpToRel(<, Nat))
  BY NatLessThanWellFounded, WFMin
<1>2. \A m \in S : ~ (m < n)
  BY <1>1 DEF OpToRel
<1> QED BY <1>2

(* line gives the mandates from each of the first n up to its root.        *)
LineEquation(n, parent, line) ==
  line = [i \in 0..n |-> IF i = 0 THEN {} ELSE {i} \cup line[parent[i]]]

(* The lines of a table are well defined, since parents come before their   *)
(* children.                                                                *)
LEMMA LineExists ==
  ASSUME NEW n \in Nat, NEW parent, \A i \in 1..n : parent[i] \in 0..(i - 1)
  PROVE  \E line : LineEquation(n, parent, line)
<1> DEFINE Missing == {k \in 0..n : ~ \E line : LineEquation(k, parent, line)}
<1>1. SUFFICES ASSUME Missing # {} PROVE FALSE
  OBVIOUS
<1>2. PICK k \in Missing : \A m \in Missing : k <= m
  <2>1. Missing \in SUBSET Nat
    OBVIOUS
  <2> HIDE DEF Missing
  <2> QED BY <1>1, <2>1, LeastNatural
<1>3. k \in 0..n /\ ~ \E line : LineEquation(k, parent, line)
  BY <1>2
<1>4. CASE k = 0
  <2>1. LineEquation(0, parent, [i \in 0..0 |-> {}])
    BY DEF LineEquation
  <2> QED BY <1>3, <1>4, <2>1
<1>5. CASE k > 0
  <2>1. k - 1 \in 0..n /\ k - 1 \notin Missing
    BY <1>2, <1>3, <1>5
  <2>2. PICK line : LineEquation(k - 1, parent, line)
    BY <2>1
  <2> DEFINE next == [i \in 0..k |-> IF i = k THEN {k} \cup line[parent[k]] ELSE line[i]]
  <2>3. \A i \in 0..(k - 1) :
          line[i] = IF i = 0 THEN {} ELSE {i} \cup line[parent[i]]
    BY <2>2, <1>3, <1>5 DEF LineEquation
  <2>4. \A i \in 1..k : parent[i] \in 0..(k - 1)
    BY <1>3
  <2>5. \A i \in 0..(k - 1) : next[i] = line[i]
    BY <1>3
  <2>6. \A i \in 0..k : next[i] = IF i = 0 THEN {} ELSE {i} \cup next[parent[i]]
    <3>1. TAKE i \in 0..k
    <3>2. CASE i = k
      <4>1. next[k] = {k} \cup line[parent[k]]
        BY <1>3
      <4> QED BY <3>2, <4>1, <2>4, <2>5, <1>3, <1>5
    <3>3. CASE i # k
      <4>1. i \in 0..(k - 1)
        BY <3>3, <1>3
      <4>2. CASE i = 0
        BY <4>1, <4>2, <2>3, <2>5
      <4>3. CASE i # 0
        <5>1. parent[i] \in 0..(k - 1)
          BY <4>1, <4>3, <2>4
        <5>2. next[i] = {i} \cup line[parent[i]]
          BY <4>1, <4>3, <2>3, <2>5
        <5> QED BY <4>3, <5>1, <5>2, <2>5
      <4> QED BY <4>2, <4>3
    <3> QED BY <3>2, <3>3
  <2>7. next = [i \in 0..k |-> next[i]]
    OBVIOUS
  <2>8. LineEquation(k, parent, next)
    <3> HIDE DEF next
    <3> QED BY <2>6, <2>7 DEF LineEquation
  <2> QED BY <1>3, <2>8
<1> QED BY <1>3, <1>4, <1>5

(* The line of a mandate is itself and the line of its parent.              *)
LEMMA LineFacts ==
  ASSUME NEW table, Len(table) \in Nat, \A i \in 1..Len(table) : table[i].parent \in 0..(i - 1)
  PROVE  /\ Lines(table)[0] = {}
         /\ \A i \in 1..Len(table) :
              Lines(table)[i] = {i} \cup Lines(table)[table[i].parent]
<1> DEFINE parent == [i \in 1..Len(table) |-> table[i].parent]
<1>1. PICK line : LineEquation(Len(table), parent, line)
  BY LineExists
<1>2. line = [i \in 0..Len(table) |-> IF i = 0 THEN {} ELSE {i} \cup line[table[i].parent]]
  <2>1. \A i \in 0..Len(table) : i # 0 => parent[i] = table[i].parent
    OBVIOUS
  <2> HIDE DEF parent
  <2> QED BY <1>1, <2>1 DEF LineEquation
<1>3. Lines(table) = [i \in 0..Len(table) |->
                        IF i = 0 THEN {} ELSE {i} \cup Lines(table)[table[i].parent]]
  BY <1>2 DEF Lines
<1> HIDE DEF parent
<1> QED BY <1>3
------------------------------------------------------------------------------
(* What a row is. *)
Row == [parent : Nat, depth : Nat, status : MandateStatus, currency : STRING,
        limit : Nat, cap : Nat, types : SUBSET Types, from : Nat, until : Nat,
        threshold : Nat, used : Nat, allocated : Nat,
        ops : [Requests -> Stages], asked : SUBSET Requests, late : Nat]

(* What no handler changes in a row. *)
SameTerms(m, n) ==
  /\ n.parent = m.parent /\ n.depth = m.depth /\ n.currency = m.currency
  /\ n.limit = m.limit /\ n.cap = m.cap /\ n.types = m.types /\ n.until = m.until
  /\ n.threshold = m.threshold

(* An operation that is stored stays stored. *)
Remembers(m, n) == \A op \in Requests : m.ops[op] # "none" => n.ops[op] # "none"

(* A row is charged within its limit, late captures apart, and what it has  *)
(* of large operations was stored for a review.                            *)
Within(m) ==
  /\ m.used <= m.limit + m.late
  /\ \A op \in Requests :
       m.ops[op] # "none" /\ m.threshold # 0 /\ op.amount >= m.threshold => op \in m.asked

(* The terms of n lie within those of m. *)
Narrower(m, n) ==
  /\ n.currency = m.currency /\ n.limit <= m.limit /\ n.cap <= m.cap /\ n.until <= m.until
  /\ m.types # {} => n.types # {} /\ n.types \subseteq m.types

(* Row i is one below its parent, and narrower.                            *)
Placed(table, i) ==
  LET m == table[i] IN
  /\ m.parent \in 0..(i - 1) /\ m.depth <= MaxDepth
  /\ IF m.parent = 0 THEN m.depth = 0
     ELSE m.depth = table[m.parent].depth + 1 /\ Narrower(table[m.parent], m)

(* A table in which every row is right beside its parent's. *)
Sound(table) ==
  /\ table \in Seq(Row)
  /\ \A i \in 1..Len(table) : Placed(table, i) /\ Within(table[i])

(* Nothing but charges, allocations and statuses changed. *)
LEMMA SoundRows ==
  ASSUME NEW table, Sound(table), NEW other \in Seq(Row), Len(other) = Len(table),
         \A i \in 1..Len(table) : SameTerms(table[i], other[i]) /\ Within(other[i])
  PROVE  Sound(other)
<1>1. ASSUME NEW i \in 1..Len(other) PROVE Placed(other, i)
  <2>1. Placed(table, i) /\ SameTerms(table[i], other[i])
    BY <1>1 DEF Sound
  <2>2. CASE table[i].parent = 0
    BY <2>1, <2>2 DEF Placed, SameTerms
  <2>3. CASE table[i].parent # 0
    <3>1. table[i].parent \in 1..Len(table)
      BY <2>1, <2>3 DEF Placed, Sound
    <3>2. SameTerms(table[table[i].parent], other[table[i].parent])
      BY <3>1
    <3> QED BY <2>1, <2>3, <3>2 DEF Placed, SameTerms, Narrower
  <2> QED BY <2>2, <2>3
<1> QED BY <1>1 DEF Sound

(* A row that fits below its parent may be appended.                        *)
LEMMA SoundAppend ==
  ASSUME NEW table, Sound(table), NEW r \in Row, Within(r),
         r.parent \in 0..Len(table), r.depth <= MaxDepth,
         IF r.parent = 0 THEN r.depth = 0
         ELSE r.depth = table[r.parent].depth + 1 /\ Narrower(table[r.parent], r)
  PROVE  Sound(Append(table, r))
<1> DEFINE other == Append(table, r)
<1>1. table \in Seq(Row)
  BY DEF Sound
<1>2. /\ other \in Seq(Row) /\ Len(other) = Len(table) + 1 /\ Len(table) \in Nat
      /\ other[Len(table) + 1] = r /\ \A j \in 1..Len(table) : other[j] = table[j]
  BY <1>1
<1> HIDE DEF other
<1>3. ASSUME NEW i \in 1..Len(other) PROVE Placed(other, i) /\ Within(other[i])
  <2>1. CASE i = Len(table) + 1
    BY <1>2, <2>1 DEF Placed
  <2>2. CASE i # Len(table) + 1
    <3>1. i \in 1..Len(table)
      BY <1>2, <2>2
    <3>2. Placed(table, i) /\ Within(table[i])
      BY <3>1 DEF Sound
    <3>3. table[i].parent # 0 => table[i].parent \in 1..Len(table)
      BY <3>1, <3>2, <1>2 DEF Placed
    <3> QED BY <1>2, <3>1, <3>2, <3>3 DEF Placed
  <2> QED BY <2>1, <2>2
<1> QED BY <1>2, <1>3 DEF Sound, other
------------------------------------------------------------------------------
(* What a sound table says of parents and lines.                            *)
LEMMA SoundParents ==
  ASSUME NEW table, Sound(table)
  PROVE  /\ Len(table) \in Nat
         /\ \A i \in 1..Len(table) : table[i] \in Row /\ table[i].parent \in 0..(i - 1)
         /\ Lines(table)[0] = {}
         /\ \A i \in 1..Len(table) :
              Lines(table)[i] = {i} \cup Lines(table)[table[i].parent]
<1>1. Len(table) \in Nat /\ \A i \in 1..Len(table) : table[i] \in Row
  BY DEF Sound
<1>2. \A i \in 1..Len(table) : table[i].parent \in 0..(i - 1)
  BY DEF Sound, Placed
<1> QED BY <1>1, <1>2, LineFacts

(* A line has one mandate of each depth. *)
LineAt(table, i) ==
  /\ Lines(table)[i] \subseteq 1..i
  /\ IsFiniteSet(Lines(table)[i])
  /\ Cardinality(Lines(table)[i]) = IF i = 0 THEN 0 ELSE table[i].depth + 1

(* Every line is a finite set of mandates, one per depth.                   *)
LEMMA LinesBounded ==
  ASSUME NEW table, Sound(table)
  PROVE  \A i \in 0..Len(table) : LineAt(table, i)
<1> DEFINE Bad == {i \in 0..Len(table) : ~LineAt(table, i)}
<1>1. SUFFICES ASSUME Bad # {} PROVE FALSE
  OBVIOUS
<1>2. Len(table) \in Nat
  BY SoundParents
<1>3. PICK i \in Bad : \A m \in Bad : i <= m
  <2>1. Bad \in SUBSET Nat
    BY <1>2
  <2> HIDE DEF Bad
  <2> QED BY <1>1, <2>1, LeastNatural
<1>4. i \in 0..Len(table) /\ ~LineAt(table, i)
  BY <1>3
<1>5. CASE i = 0
  BY <1>4, <1>5, SoundParents, FS_EmptySet DEF LineAt
<1>6. CASE i # 0
  <2> DEFINE p == table[i].parent
             line == Lines(table)[p]
  <2>1. i \in 1..Len(table)
    BY <1>2, <1>4, <1>6
  <2>2. p \in 0..(i - 1) /\ Lines(table)[i] = line \cup {i}
    BY <2>1, SoundParents
  <2>3. Placed(table, i) /\ table[i].depth \in Nat
    <3>1. Placed(table, i) /\ table[i] \in Row
      BY <2>1, SoundParents DEF Sound
    <3> QED BY <3>1 DEF Row
  <2>4. p \in 0..Len(table) /\ p \notin Bad
    BY <1>2, <1>3, <2>1, <2>2
  <2>5. LineAt(table, p)
    BY <2>4
  <2>6. i \notin line /\ line \subseteq 1..i /\ IsFiniteSet(line)
    BY <2>1, <2>2, <2>5 DEF LineAt
  <2>7. IsFiniteSet(line \cup {i}) /\ Cardinality(line \cup {i}) = Cardinality(line) + 1
    <3> HIDE DEF line
    <3> QED BY <2>6, FS_AddElement
  <2>8. Cardinality(line) = table[i].depth
    BY <2>3, <2>5 DEF LineAt, Placed
  <2> QED BY <1>4, <1>6, <2>1, <2>2, <2>6, <2>7, <2>8 DEF LineAt
<1> QED BY <1>5, <1>6

(* What is above a mandate is the line of its parent, as long as it is deep. *)
LEMMA AboveIsLineOfParent ==
  ASSUME NEW table, Sound(table), NEW i \in 1..Len(table)
  PROVE  /\ Lines(table)[i] \ {i} = Lines(table)[table[i].parent]
         /\ Lines(table)[i] \ {i} \subseteq 1..Len(table)
         /\ table[i].depth = Cardinality(Lines(table)[i] \ {i})
<1> DEFINE p == table[i].parent
<1>1. Len(table) \in Nat /\ p \in 0..(i - 1) /\ table[i].depth \in Nat /\ Placed(table, i)
  BY SoundParents DEF Sound, Row
<1>2. LineAt(table, i) /\ LineAt(table, p)
  BY <1>1, LinesBounded
<1>3. Lines(table)[i] = {i} \cup Lines(table)[p]
  BY SoundParents
<1>4. Lines(table)[i] \ {i} = Lines(table)[p]
  BY <1>1, <1>2, <1>3 DEF LineAt
<1>5. Lines(table)[p] \subseteq 1..Len(table)
  BY <1>1, <1>2 DEF LineAt
<1>6. table[i].depth = Cardinality(Lines(table)[p])
  BY <1>1, <1>2 DEF LineAt, Placed
<1> QED BY <1>4, <1>5, <1>6

(* Narrower terms of narrower terms are narrower.                           *)
LEMMA NarrowerTransitive ==
  ASSUME NEW l \in Row, NEW m \in Row, NEW n \in Row, Narrower(l, m), Narrower(m, n)
  PROVE  Narrower(l, n)
<1>1. /\ l.limit \in Nat /\ m.limit \in Nat /\ n.limit \in Nat
      /\ l.cap \in Nat /\ m.cap \in Nat /\ n.cap \in Nat
      /\ l.until \in Nat /\ m.until \in Nat /\ n.until \in Nat
  BY DEF Row
<1> QED BY <1>1 DEF Narrower

(* Terms narrow along a line. *)
LEMMA LinesNarrow ==
  ASSUME NEW table, Sound(table)
  PROVE  \A i \in 1..Len(table) : \A j \in Lines(table)[i] : Narrower(table[j], table[i])
<1> DEFINE Good(i) == \A j \in Lines(table)[i] : Narrower(table[j], table[i])
           Bad == {i \in 1..Len(table) : ~Good(i)}
<1>1. SUFFICES ASSUME Bad # {} PROVE FALSE
  OBVIOUS
<1>2. Len(table) \in Nat
  BY SoundParents
<1>3. PICK i \in Bad : \A m \in Bad : i <= m
  <2>1. Bad \in SUBSET Nat
    BY <1>2
  <2> HIDE DEF Bad
  <2> QED BY <1>1, <2>1, LeastNatural
<1> DEFINE p == table[i].parent
<1>4. i \in 1..Len(table) /\ ~Good(i) /\ table[i] \in Row /\ p \in 0..(i - 1)
  BY <1>3, SoundParents
<1>5. PICK j \in Lines(table)[i] : ~Narrower(table[j], table[i])
  BY <1>4
<1>6. j = i \/ j \in Lines(table)[p]
  BY <1>4, <1>5, SoundParents
<1>7. CASE j = i
  BY <1>4, <1>5, <1>7 DEF Narrower, Row
<1>8. CASE j \in Lines(table)[p]
  <2>1. p # 0
    BY <1>8, SoundParents
  <2>2. p \in 1..Len(table) /\ p < i
    BY <1>2, <1>4, <2>1
  <2>3. Narrower(table[j], table[p])
    BY <1>3, <1>8, <2>2
  <2>4. Narrower(table[p], table[i])
    BY <1>4, <2>1 DEF Sound, Placed
  <2>5. j \in 1..Len(table)
    BY <1>2, <1>4, <1>8, LinesBounded DEF LineAt
  <2>6. table[j] \in Row /\ table[p] \in Row
    BY <2>2, <2>5, SoundParents
  <2> QED BY <1>4, <1>5, <2>3, <2>4, <2>6, NarrowerTransitive
<1> QED BY <1>6, <1>7, <1>8

(* Every active mandate that has a parent has an active one. *)
ActiveAbove(table) ==
  \A i \in 1..Len(table) :
    table[i].status = "ACTIVE" /\ table[i].parent # 0 => table[table[i].parent].status = "ACTIVE"

(* With active parents, everything above an active mandate is active.       *)
LEMMA LinesActive ==
  ASSUME NEW table, Sound(table), ActiveAbove(table)
  PROVE  \A i \in 1..Len(table) :
           table[i].status = "ACTIVE" => \A j \in Lines(table)[i] : table[j].status = "ACTIVE"
<1> DEFINE Good(i) == table[i].status = "ACTIVE"
                        => \A j \in Lines(table)[i] : table[j].status = "ACTIVE"
           Bad == {i \in 1..Len(table) : ~Good(i)}
<1>1. SUFFICES ASSUME Bad # {} PROVE FALSE
  OBVIOUS
<1>2. Len(table) \in Nat
  BY SoundParents
<1>3. PICK i \in Bad : \A m \in Bad : i <= m
  <2>1. Bad \in SUBSET Nat
    BY <1>2
  <2> HIDE DEF Bad
  <2> QED BY <1>1, <2>1, LeastNatural
<1> DEFINE p == table[i].parent
<1>4. i \in 1..Len(table) /\ ~Good(i) /\ p \in 0..(i - 1)
  BY <1>3, SoundParents
<1>5. PICK j \in Lines(table)[i] : table[j].status # "ACTIVE"
  BY <1>4
<1>6. j \in Lines(table)[p]
  BY <1>4, <1>5, SoundParents
<1>7. p # 0
  BY <1>6, SoundParents
<1>8. p \in 1..Len(table) /\ p < i
  BY <1>2, <1>4, <1>7
<1>9. table[p].status = "ACTIVE"
  BY <1>4, <1>7 DEF ActiveAbove
<1> QED BY <1>3, <1>5, <1>6, <1>8, <1>9
------------------------------------------------------------------------------
(* The handlers that are open.                                             *)

Work == [call : {"none"} \cup AllCalls,
         step : {"idle", "commit", "list", "visit", "parent", "charge", "act"},
         id : Nat, target : {"ACTIVE", "SUSPENDED", "REVOKED"},
         todo : SUBSET Nat, visited : SUBSET Nat, writes : SUBSET Nat,
         view : Row \cup {<<>>}, want : ChildTerms \cup Requests \cup {<<>>}]

(* What a handler holds of the table. *)
JobOK(job, table) ==
  /\ job.id \in 0..Len(table)
  /\ job.todo \subseteq 1..Len(table) /\ job.visited \subseteq 1..Len(table)
  /\ job.call = "none" <=> job.step = "idle"
  /\ job.call # "none" => job.id # 0
  /\ job.call \in {"delegate", "mcp"} => job.view \in Row /\ SameTerms(table[job.id], job.view)
  /\ job.call = "delegate" => job.want \in ChildTerms /\ ValidDelegation(job.view, job.want)
  /\ job.call = "mcp" => job.want \in Requests
  /\ job.call = "mcp" <=> job.step = "charge"
  /\ job.call \in {"approve", "reject", "webhook"} <=> job.step = "act"
  /\ job.step = "act" => job.want \in Requests /\ table[job.id].ops[job.want] # "none"
  /\ job.call = "delegate" => job.step = "commit"
  /\ job.step \in {"list", "visit"} => job.call = "cascade"
  /\ job.step = "parent" => job.call = "activate"

(* The inductive invariant.                                                *)
TreeInv ==
  /\ Sound(rows)
  /\ work \in [Sessions -> Work]
  /\ \A s \in Sessions : JobOK(work[s], rows)
  /\ now \in Instants /\ overlapped \in BOOLEAN

(* The rows that were there keep their terms. *)
Keeps(table, other) ==
  /\ Sound(table) /\ Sound(other)
  /\ Len(table) <= Len(other)
  /\ \A i \in 1..Len(table) : SameTerms(table[i], other[i]) /\ Remembers(table[i], other[i])

(* A handler that does not move keeps what it holds while rows keep their   *)
(* terms.                                                                   *)
LEMMA JobKept ==
  ASSUME NEW table, NEW other, Keeps(table, other), NEW job \in Work, JobOK(job, table)
  PROVE  JobOK(job, other)
<1>1. /\ Len(table) \in Nat /\ Len(other) \in Nat /\ Len(table) <= Len(other)
      /\ \A i \in 1..Len(table) : SameTerms(table[i], other[i]) /\ Remembers(table[i], other[i])
  BY SoundParents DEF Keeps
<1>2. ASSUME job.call \in {"delegate", "mcp"}
      PROVE  SameTerms(other[job.id], job.view)
  <2>1. job.id \in 1..Len(table)
    BY <1>1, <1>2 DEF JobOK
  <2>2. SameTerms(table[job.id], other[job.id]) /\ SameTerms(table[job.id], job.view)
    BY <1>1, <1>2, <2>1 DEF JobOK
  <2> QED BY <2>2 DEF SameTerms
<1>3. /\ job.id \in 0..Len(other)
      /\ job.todo \subseteq 1..Len(other) /\ job.visited \subseteq 1..Len(other)
  BY <1>1 DEF JobOK
<1>4. ASSUME job.step = "act"
      PROVE  job.want \in Requests /\ other[job.id].ops[job.want] # "none"
  <2>1. job.id \in 1..Len(table) /\ job.want \in Requests /\ table[job.id].ops[job.want] # "none"
    BY <1>1, <1>4 DEF JobOK
  <2> QED BY <1>1, <2>1 DEF Remembers
<1> QED BY <1>2, <1>3, <1>4 DEF JobOK

(* One handler moves, the others keep what they hold.                       *)
LEMMA JobReplaced ==
  ASSUME TreeInv, Keeps(rows, rows'), NEW s \in Sessions, NEW job \in Work, JobOK(job, rows'),
         work' = [work EXCEPT ![s] = job]
  PROVE  work' \in [Sessions -> Work] /\ \A t \in Sessions : JobOK(work'[t], rows')
<1>1. work \in [Sessions -> Work] /\ \A t \in Sessions : JobOK(work[t], rows)
  BY DEF TreeInv
<1>2. work' \in [Sessions -> Work]
      /\ \A t \in Sessions : work'[t] = IF t = s THEN job ELSE work[t]
  BY <1>1
<1>3. ASSUME NEW t \in Sessions PROVE JobOK(work[t], rows')
  <2>1. work[t] \in Work /\ JobOK(work[t], rows)
    BY <1>1, <1>3
  <2> QED BY <2>1, JobKept
<1> QED BY <1>2, <1>3

(* No handler moves.                                                        *)
LEMMA WorkUnchanged ==
  ASSUME TreeInv, Keeps(rows, rows'), work' = work
  PROVE  work' \in [Sessions -> Work] /\ \A t \in Sessions : JobOK(work'[t], rows')
<1>1. ASSUME NEW t \in Sessions PROVE JobOK(work[t], rows')
  <2>1. work[t] \in Work /\ JobOK(work[t], rows)
    BY <1>1 DEF TreeInv
  <2> QED BY <2>1, JobKept
<1> QED BY <1>1 DEF TreeInv

(* An idle session holds nothing.                                           *)
LEMMA NoWorkOK ==
  NoWork \in Work /\ \A table : Sound(table) => JobOK(NoWork, table)
<1>1. NoWork \in Work
  BY DEF NoWork, Work
<1>2. ASSUME NEW table, Sound(table) PROVE JobOK(NoWork, table)
  BY <1>2, SoundParents DEF NoWork, JobOK
<1> QED BY <1>1, <1>2
------------------------------------------------------------------------------
(* What the invariant says of the rows.                                     *)
LEMMA RowsOK ==
  ASSUME TreeInv
  PROVE  /\ rows \in Seq(Row) /\ Len(rows) \in Nat /\ Ids = 1..Len(rows)
         /\ \A i \in Ids : rows[i] \in Row /\ Within(rows[i])
BY SoundParents DEF TreeInv, Sound, Ids

(* A step that leaves the table alone keeps it.                             *)
LEMMA RowsUnchanged ==
  ASSUME TreeInv, rows' = rows
  PROVE  Keeps(rows, rows')
<1>1. \A i \in 1..Len(rows) : SameTerms(rows[i], rows'[i]) /\ Remembers(rows[i], rows'[i])
  BY DEF SameTerms, Remembers
<1> QED BY <1>1, RowsOK DEF Keeps, TreeInv

(* What a row is charged is small or was asked for. *)
ReviewedCharge(m, r) ==
  LET charge == r.used - m.used
  IN  m.threshold # 0 /\ charge >= m.threshold => \E op \in m.asked : op.amount = charge

(* Row i, and no other, is charged, given back or told what became of an    *)
(* operation.                                                              *)
ChargedRow(m, r) ==
  /\ r \in Row /\ SameTerms(m, r) /\ Remembers(m, r) /\ Within(r) /\ ReviewedCharge(m, r)
  /\ r.status = m.status /\ r.allocated = m.allocated
Charged(i) == \E r : rows' = [rows EXCEPT ![i] = r] /\ ChargedRow(rows[i], r)

(* Such a step keeps the table. *)
LEMMA ChargedKeeps ==
  ASSUME TreeInv, NEW i \in Ids, Charged(i)
  PROVE  Keeps(rows, rows')
<1>1. PICK r : rows' = [rows EXCEPT ![i] = r] /\ ChargedRow(rows[i], r)
  BY DEF Charged
<1>2. /\ rows \in Seq(Row) /\ Sound(rows) /\ i \in 1..Len(rows) /\ Len(rows) \in Nat
      /\ \A j \in 1..Len(rows) : Within(rows[j])
  BY RowsOK DEF TreeInv
<1>3. /\ rows' \in Seq(Row) /\ Len(rows') = Len(rows)
      /\ \A j \in 1..Len(rows) : rows'[j] = IF j = i THEN r ELSE rows[j]
  BY <1>1, <1>2 DEF ChargedRow
<1>4. ASSUME NEW j \in 1..Len(rows)
      PROVE  SameTerms(rows[j], rows'[j]) /\ Remembers(rows[j], rows'[j]) /\ Within(rows'[j])
  <2>1. CASE j = i
    BY <1>1, <1>3, <2>1 DEF ChargedRow
  <2>2. CASE j # i
    BY <1>2, <1>3, <2>2 DEF SameTerms, Remembers
  <2> QED BY <2>1, <2>2
<1>5. Sound(rows')
  BY <1>2, <1>3, <1>4, SoundRows
<1> QED BY <1>2, <1>3, <1>4, <1>5 DEF Keeps

(* An operation goes on to a stage: the charge is covered by the limit or by *)
(* what was late, and what is large was asked for.                         *)
LEMMA StageCharges ==
  ASSUME TreeInv, NEW i \in Ids, NEW op \in Requests, NEW stage \in Stages \ {"none"},
         NEW amount \in Int, NEW late \in Nat,
         rows' = [rows EXCEPT ![i] = [rows[i] EXCEPT !.ops = [rows[i].ops EXCEPT ![op] = stage],
                                        !.used = rows[i].used + amount,
                                        !.late = rows[i].late + late]],
         rows[i].used + amount \in Nat,
         rows[i].used + amount <= rows[i].limit + (rows[i].late + late),
         amount \in {0, op.amount} \/ amount <= 0,
         rows[i].threshold # 0 /\ op.amount >= rows[i].threshold => op \in rows[i].asked
  PROVE  Charged(i)
<1> DEFINE m == rows[i]
           n == m.used + amount
           o == [m.ops EXCEPT ![op] = stage]
           l == m.late + late
           r == [m EXCEPT !.ops = o, !.used = n, !.late = l]
<1>1. m \in Row /\ Within(m) /\ op.amount \in Nat \ {0}
  BY RowsOK, TreeConstants
<1>2. /\ m.ops \in [Requests -> Stages] /\ m.late \in Nat /\ m.used \in Nat
      /\ m.threshold \in Nat /\ m.limit \in Nat /\ m.asked \in SUBSET Requests
  BY <1>1 DEF Row
<1>3. /\ o \in [Requests -> Stages] /\ \A q \in Requests : o[q] = IF q = op THEN stage ELSE m.ops[q]
      /\ n \in Nat /\ l \in Nat /\ n <= m.limit + l /\ n - m.used = amount
  BY <1>2
<1>4. rows' = [rows EXCEPT ![i] = r]
  OBVIOUS
<1> HIDE DEF m, n, o, l
<1>5. /\ r \in Row /\ SameTerms(m, r) /\ r.status = m.status /\ r.allocated = m.allocated
      /\ r.ops = o /\ r.used = n /\ r.late = l /\ r.asked = m.asked /\ r.limit = m.limit
      /\ r.threshold = m.threshold
  BY <1>1, <1>3 DEF Row, SameTerms
<1> HIDE DEF r
<1>6. Remembers(m, r)
  BY <1>3, <1>5 DEF Remembers
<1>7. Within(r)
  <2>1. ASSUME NEW q \in Requests, r.ops[q] # "none", r.threshold # 0, q.amount >= r.threshold
        PROVE  q \in r.asked
    <3>1. CASE q = op
      BY <1>5, <2>1, <3>1 DEF m
    <3>2. CASE q # op
      BY <1>1, <1>3, <1>5, <2>1, <3>2 DEF Within
    <3> QED BY <3>1, <3>2
  <2> QED BY <1>3, <1>5, <2>1 DEF Within
<1>8. ReviewedCharge(m, r)
  <2>1. ASSUME m.threshold # 0, amount >= m.threshold PROVE \E q \in m.asked : q.amount = amount
    <3>1. amount = op.amount
      BY <1>1, <1>2, <2>1
    <3> QED BY <2>1, <3>1 DEF m
  <2> QED BY <1>3, <1>5, <2>1 DEF ReviewedCharge
<1> QED BY <1>4, <1>5, <1>6, <1>7, <1>8 DEF Charged, ChargedRow, m

(* The same for a step that leaves what was late.                           *)
LEMMA StageIsCharge ==
  ASSUME TreeInv, NEW i \in Ids, NEW op \in Requests, NEW stage \in Stages \ {"none"},
         NEW amount \in Int, Stage(i, op, stage, amount),
         rows[i].used + amount \in Nat,
         rows[i].used + amount <= rows[i].limit + rows[i].late,
         amount \in {0, op.amount} \/ amount <= 0,
         rows[i].threshold # 0 /\ op.amount >= rows[i].threshold => op \in rows[i].asked
  PROVE  Charged(i)
<1> DEFINE o == [rows[i].ops EXCEPT ![op] = stage]
           n == rows[i].used + amount
           l == rows[i].late + 0
<1>1. rows[i] \in Row
  BY RowsOK
<1>2. l = rows[i].late /\ 0 \in Nat
  BY <1>1 DEF Row
<1>3. rows' = [rows EXCEPT ![i] = [rows[i] EXCEPT !.ops = o, !.used = n]]
  BY DEF Stage
<1>4. n \in Nat /\ n <= rows[i].limit + l
  BY <1>2
<1>5. rows' = [rows EXCEPT ![i] = [rows[i] EXCEPT !.ops = o, !.used = n, !.late = l]]
  <2> HIDE DEF o, n, l
  <2>1. [rows[i] EXCEPT !.ops = o, !.used = n]
          = [rows[i] EXCEPT !.ops = o, !.used = n, !.late = l]
    BY <1>1, <1>2 DEF Row
  <2> QED BY <1>3, <2>1
<1> QED BY <1>2, <1>4, <1>5, StageCharges

(* What the policy allows at once is below the threshold of the row, and     *)
(* what it wants reviewed is asked for.                                    *)
LEMMA DecideCharges ==
  ASSUME TreeInv, NEW i \in Ids, NEW view \in Row, SameTerms(rows[i], view),
         NEW op \in Requests, NEW agentStatus, NEW hasQuota,
         Decide(i, view, op, agentStatus, hasQuota)
  PROVE  Charged(i)
<1> DEFINE m == rows[i]
           decision == Evaluate(agentStatus, view, op, now, {}, FALSE, hasQuota)
<1>1. m \in Row /\ Within(m) /\ op.amount \in Nat /\ ~op.approved
  BY RowsOK, TreeConstants
<1>2. /\ m.used \in Nat /\ m.threshold \in Nat /\ view.threshold = m.threshold /\ m.late \in Nat
      /\ m.limit \in Nat /\ m.ops \in [Requests -> Stages] /\ m.asked \in SUBSET Requests
  BY <1>1 DEF Row, SameTerms
<1>3. CASE decision = "ALLOW" /\ Fits(i, op) /\ Stage(i, op, "open", op.amount)
  <2>1. HumanReviewThresholdRule(view, op) # "REQUIRE_HUMAN_REVIEW"
    BY <1>3 DEF Evaluate
  <2>2. ~(m.threshold # 0 /\ op.amount >= m.threshold)
    BY <1>1, <1>2, <2>1 DEF HumanReviewThresholdRule
  <2>3. /\ m.used + op.amount \in Nat /\ m.used + op.amount <= m.limit + m.late
        /\ op.amount \in Int /\ "open" \in Stages \ {"none"}
    BY <1>1, <1>2, <1>3 DEF Fits, Stages
  <2> QED BY <1>3, <2>2, <2>3, StageIsCharge
<1>4. CASE rows' = [rows EXCEPT ![i].ops = [@ EXCEPT ![op] = "waiting"], ![i].asked = @ \cup {op}]
  <2> DEFINE o == [m.ops EXCEPT ![op] = "waiting"]
             a == m.asked \cup {op}
             r == [m EXCEPT !.ops = o, !.asked = a]
  <2>1. rows' = [rows EXCEPT ![i] = r]
    BY <1>4
  <2>2. /\ o \in [Requests -> Stages] /\ a \in SUBSET Requests
        /\ \A q \in Requests : q # op => o[q] = m.ops[q]
        /\ op \in a /\ m.asked \subseteq a /\ o[op] = "waiting"
    BY <1>2 DEF Stages
  <2> HIDE DEF m, o, a
  <2>3. /\ r \in Row /\ SameTerms(m, r) /\ r.status = m.status /\ r.allocated = m.allocated
        /\ r.ops = o /\ r.used = m.used /\ r.late = m.late /\ r.asked = a /\ r.limit = m.limit
        /\ r.threshold = m.threshold
    BY <1>1, <2>2 DEF Row, SameTerms
  <2> HIDE DEF r
  <2>4. Remembers(m, r) /\ Within(r)
    BY <1>1, <2>2, <2>3 DEF Remembers, Within
  <2>5. ReviewedCharge(m, r)
    BY <1>2, <2>3 DEF ReviewedCharge
  <2> QED BY <2>1, <2>3, <2>4, <2>5 DEF Charged, ChargedRow, m
<1> QED BY <1>3, <1>4 DEF Decide

(* A stored operation that is large was asked for, so that its stages may    *)
(* charge it.                                                              *)
LEMMA StoredCharges ==
  ASSUME TreeInv, NEW i \in Ids, NEW op \in Requests, rows[i].ops[op] # "none",
         \/ Stage(i, op, "closed", 0)
         \/ GiveBack(i, op)
         \/ Fits(i, op) /\ Stage(i, op, "open", op.amount)
         \/ rows' = [rows EXCEPT ![i].ops = [@ EXCEPT ![op] = "closed"], ![i].used = @ + op.amount,
                                 ![i].late = @ + op.amount]
  PROVE  Charged(i)
<1> DEFINE m == rows[i]
<1>1. m \in Row /\ Within(m) /\ op.amount \in Nat
  BY RowsOK, TreeConstants
<1>2. m.used \in Nat /\ m.late \in Nat /\ m.limit \in Nat /\ m.used <= m.limit + m.late
  BY <1>1 DEF Row, Within
<1>3. m.threshold # 0 /\ op.amount >= m.threshold => op \in m.asked
  BY <1>1 DEF Within
<1>4. "open" \in Stages \ {"none"} /\ "closed" \in Stages \ {"none"}
  BY DEF Stages
<1>5. CASE Stage(i, op, "closed", 0)
  <2>1. m.used + 0 \in Nat /\ m.used + 0 <= m.limit + m.late /\ 0 \in Int
    BY <1>2
  <2> QED BY <1>3, <1>4, <1>5, <2>1, StageIsCharge
<1>6. CASE GiveBack(i, op)
  <2>1. /\ -op.amount \in Int /\ -op.amount <= 0
        /\ m.used + (-op.amount) \in Nat /\ m.used + (-op.amount) <= m.limit + m.late
    BY <1>1, <1>2, <1>6 DEF GiveBack
  <2>2. Stage(i, op, "closed", -op.amount)
    BY <1>6 DEF GiveBack
  <2> QED BY <1>3, <1>4, <2>1, <2>2, StageIsCharge
<1>7. CASE Fits(i, op) /\ Stage(i, op, "open", op.amount)
  <2>1. m.used + op.amount \in Nat /\ m.used + op.amount <= m.limit + m.late /\ op.amount \in Int
    BY <1>1, <1>2, <1>7 DEF Fits
  <2> QED BY <1>3, <1>4, <1>7, <2>1, StageIsCharge
<1>8. CASE rows' = [rows EXCEPT ![i].ops = [@ EXCEPT ![op] = "closed"], ![i].used = @ + op.amount,
                                ![i].late = @ + op.amount]
  <2>1. /\ m.used + op.amount \in Nat
        /\ m.used + op.amount <= m.limit + (m.late + op.amount)
    BY <1>1, <1>2
  <2>2. rows' = [rows EXCEPT ![i] = [m EXCEPT !.ops = [m.ops EXCEPT ![op] = "closed"],
                                              !.used = m.used + op.amount,
                                              !.late = m.late + op.amount]]
    BY <1>8
  <2>3. op.amount \in Int /\ op.amount \in Nat
    BY <1>1
  <2> QED BY <1>3, <1>4, <2>1, <2>2, <2>3, StageCharges
<1> QED BY <1>5, <1>6, <1>7, <1>8

(* A handler that acts on an operation acts on one that is stored.          *)
LEMMA ActCharges ==
  ASSUME TreeInv, NEW s \in Sessions, ApproveCommit(s) \/ RejectCommit(s) \/ WebhookCommit(s)
  PROVE  Id(s) \in Ids /\ Step(s) # "idle" /\ End(s) /\ Charged(Id(s))
<1>1. /\ work[s].step = "act" /\ JobOK(work[s], rows) /\ End(s)
      /\ rows \in Seq(Row) /\ Len(rows) \in Nat /\ Ids = 1..Len(rows)
  BY RowsOK DEF TreeInv, ApproveCommit, RejectCommit, WebhookCommit, Step
<1>2. /\ Id(s) \in Ids /\ work[s].want \in Requests
      /\ rows[Id(s)].ops[work[s].want] # "none"
  BY <1>1 DEF JobOK, Id
<1>3. Charged(Id(s))
  BY <1>2, StoredCharges DEF ApproveCommit, RejectCommit, WebhookCommit
<1> QED BY <1>1, <1>2, <1>3 DEF Step

(* A charge of the gateway charges one row or none.                         *)
LEMMA McpCharges ==
  ASSUME TreeInv, NEW s \in Sessions, McpCharge(s)
  PROVE  Id(s) \in Ids /\ Step(s) # "idle" /\ End(s) /\ (Charged(Id(s)) \/ UNCHANGED rows)
<1>1. /\ work[s].step = "charge" /\ JobOK(work[s], rows) /\ End(s)
      /\ rows \in Seq(Row) /\ Len(rows) \in Nat /\ Ids = 1..Len(rows)
  BY RowsOK DEF TreeInv, McpCharge, Step
<1>2. /\ Id(s) \in Ids /\ work[s].want \in Requests /\ work[s].view \in Row
      /\ SameTerms(rows[Id(s)], work[s].view)
  BY <1>1 DEF JobOK, Id
<1>3. Charged(Id(s)) \/ UNCHANGED rows
  BY <1>2, DecideCharges DEF McpCharge
<1> QED BY <1>1, <1>2, <1>3 DEF Step

(* So do a request to the pipeline and a settlement.                        *)
LEMMA DirectCharges ==
  ASSUME TreeInv, NEW i \in Ids, NEW op \in Requests, Charge(i, op) \/ Settle(i, op)
  PROVE  Charged(i) /\ UNCHANGED <<work, now, overlapped>>
<1>1. rows[i] \in Row /\ SameTerms(rows[i], rows[i])
  BY RowsOK DEF SameTerms
<1>2. CASE Charge(i, op)
  BY <1>1, <1>2, DecideCharges DEF Charge
<1>3. CASE Settle(i, op)
  BY <1>3, StoredCharges DEF Settle
<1> QED BY <1>2, <1>3

(* A root mandate is appended below no other.                               *)
LEMMA CreateKeeps ==
  ASSUME TreeInv, NEW terms \in RootTerms, CreateMandate(terms)
  PROVE  Keeps(rows, rows')
<1> DEFINE r == NewRow(terms, 0, 0)
<1>1. terms \in Terms /\ MaxDepth \in Nat
  BY TreeConstants
<1>2. r \in Row /\ Within(r) /\ r.parent = 0 /\ r.depth = 0
  BY <1>1 DEF NewRow, Row, Terms, MandateStatus, Stages, Within
<1>3. rows' = Append(rows, r)
  BY DEF CreateMandate
<1> HIDE DEF r
<1>4. Sound(rows) /\ rows \in Seq(Row) /\ Len(rows) \in Nat
  BY RowsOK DEF TreeInv
<1>5. Sound(rows')
  BY <1>1, <1>2, <1>3, <1>4, SoundAppend
<1>6. Len(rows') = Len(rows) + 1 /\ \A i \in 1..Len(rows) : rows'[i] = rows[i]
  BY <1>2, <1>3, <1>4
<1> QED BY <1>4, <1>5, <1>6 DEF Keeps, SameTerms, Remembers

(* No more than the limit is ever available.                                *)
LEMMA AvailableBounds ==
  ASSUME NEW m \in Row
  PROVE  Available(m) \in Int /\ Available(m) <= m.limit
<1> DEFINE left == m.limit - (m.used + m.allocated)
<1>1. m.limit \in Nat /\ m.used \in Nat /\ m.allocated \in Nat
  BY DEF Row
<1>2. \E x \in {0, left} : \A y \in {0, left} : x >= y
  BY <1>1
<1>3. Available(m) \in {0, left}
  BY <1>2 DEF Available, Max
<1> QED BY <1>1, <1>3

(* A delegated mandate is one deeper than the mandate it comes from, and    *)
(* narrower.                                                               *)
LEMMA ChildIsNarrower ==
  ASSUME NEW m \in Row, NEW terms \in ChildTerms, ValidDelegation(m, terms), NEW p \in Nat
  PROVE  LET granted == GrantedTerms(m, terms)
             child == NewRow(granted, p, ChildDepth(m))
         IN  /\ child \in Row /\ Within(child) /\ child.parent = p
             /\ child.depth = m.depth + 1 /\ child.depth <= MaxDepth
             /\ Narrower(m, child) /\ granted.limit \in Nat
<1> DEFINE granted == GrantedTerms(m, terms)
           child == NewRow(granted, p, ChildDepth(m))
<1>1. terms \in Terms /\ MaxDepth \in Nat
  BY TreeConstants
<1>2. /\ m.depth \in Nat /\ m.limit \in Nat /\ m.cap \in Nat /\ m.until \in Nat
      /\ m.currency \in STRING /\ m.types \in SUBSET Types /\ m.threshold \in Nat
  BY DEF Row
<1>3. /\ granted \in Terms /\ granted.limit = terms.limit /\ granted.cap = terms.cap
      /\ granted.until = terms.until /\ granted.currency = m.currency
      /\ granted.types = IF terms.types = {} THEN m.types ELSE terms.types
  BY <1>1, <1>2 DEF GrantedTerms, Terms
<1>4. terms.limit <= m.limit
  <2>1. terms.limit \in Nat /\ terms.limit <= Available(m)
    BY <1>1 DEF ValidDelegation, Terms
  <2> QED BY <1>2, <2>1, AvailableBounds
<1> HIDE DEF granted
<1>5. /\ child \in Row /\ Within(child) /\ child.parent = p
      /\ child.depth = m.depth + 1 /\ child.depth <= MaxDepth
  <2>1. /\ granted.limit \in Nat /\ granted.cap \in Nat /\ granted.until \in Nat
        /\ granted.currency \in STRING /\ granted.types \in SUBSET Types
        /\ granted.threshold \in Nat
    BY <1>3 DEF Terms
  <2>2. m.depth + 1 \in Nat /\ m.depth + 1 <= MaxDepth
    <3>1. m.depth < MaxDepth
      BY DEF ValidDelegation
    <3> QED BY <1>1, <1>2, <3>1
  <2> QED BY <2>1, <2>2 DEF NewRow, ChildDepth, Row, MandateStatus, Stages, Within
<1>6. Narrower(m, child)
  BY <1>2, <1>3, <1>4 DEF NewRow, Narrower, ValidDelegation
<1>7. granted.limit \in Nat
  BY <1>3 DEF Terms
<1> QED BY <1>5, <1>6, <1>7 DEF granted

(* A delegation appends a narrower row below the one it was read from.      *)
LEMMA DelegateKeeps ==
  ASSUME TreeInv, NEW s \in Sessions, DelegateCommit(s)
  PROVE  Keeps(rows, rows')
<1> DEFINE parent == work[s].view
           terms == GrantedTerms(parent, work[s].want)
           i == Id(s)
           child == NewRow(terms, i, ChildDepth(parent))
           spent == [rows[i] EXCEPT !.allocated = parent.allocated + terms.limit]
           charged == [rows EXCEPT ![i] = spent]
<1>1. JobOK(work[s], rows) /\ work[s].call = "delegate" /\ work[s] \in Work
  BY DEF TreeInv, DelegateCommit
<1>2. /\ parent \in Row /\ SameTerms(rows[i], parent) /\ i \in 1..Len(rows)
      /\ work[s].want \in ChildTerms /\ ValidDelegation(parent, work[s].want)
  BY <1>1, RowsOK DEF JobOK, Id
<1>3. /\ rows \in Seq(Row) /\ Sound(rows) /\ Len(rows) \in Nat
      /\ rows[i] \in Row /\ Within(rows[i])
  BY <1>2, RowsOK DEF TreeInv
<1>4. /\ child \in Row /\ Within(child) /\ child.parent = i
      /\ child.depth = parent.depth + 1 /\ child.depth <= MaxDepth
      /\ Narrower(parent, child) /\ terms.limit \in Nat
  BY <1>2, ChildIsNarrower
<1>5. rows' = Append(charged, child)
  BY DEF DelegateCommit
<1> HIDE DEF child, terms
<1>6. /\ spent \in Row /\ SameTerms(rows[i], spent) /\ Within(spent)
      /\ Remembers(rows[i], spent)
  <2> HIDE DEF parent
  <2>1. parent \in Row /\ terms.limit \in Nat
    BY <1>2, <1>4
  <2>2. parent.allocated \in Nat
    BY <2>1 DEF Row
  <2>3. parent.allocated + terms.limit \in Nat
    BY <2>1, <2>2
  <2>4. /\ spent \in Row /\ SameTerms(rows[i], spent) /\ spent.ops = rows[i].ops
        /\ spent.used = rows[i].used /\ spent.late = rows[i].late /\ spent.asked = rows[i].asked
    BY <1>3, <2>3 DEF Row, SameTerms
  <2> HIDE DEF spent
  <2> QED BY <1>3, <2>4 DEF Within, Remembers, SameTerms
<1> HIDE DEF spent, parent
<1>7. /\ charged \in Seq(Row) /\ Len(charged) = Len(rows)
      /\ \A j \in 1..Len(rows) : charged[j] = IF j = i THEN spent ELSE rows[j]
  BY <1>2, <1>3, <1>6
<1> HIDE DEF charged
<1>8. ASSUME NEW j \in 1..Len(rows)
      PROVE  /\ SameTerms(rows[j], charged[j]) /\ Remembers(rows[j], charged[j])
             /\ Within(charged[j])
  <2>1. CASE j = i
    BY <1>6, <1>7, <2>1
  <2>2. CASE j # i
    BY <1>3, <1>7, <2>2 DEF SameTerms, Remembers, Sound
  <2> QED BY <2>1, <2>2
<1>9. Sound(charged)
  BY <1>3, <1>7, <1>8, SoundRows
<1>10. charged[i].depth = parent.depth /\ Narrower(charged[i], child)
  BY <1>2, <1>4, <1>6, <1>7 DEF SameTerms, Narrower
<1>11. Sound(rows')
  BY <1>2, <1>3, <1>4, <1>5, <1>7, <1>9, <1>10, SoundAppend
<1>12. Len(rows') = Len(rows) + 1 /\ \A j \in 1..Len(rows) : rows'[j] = charged[j]
  BY <1>3, <1>4, <1>5, <1>7
<1> QED BY <1>3, <1>8, <1>11, <1>12 DEF Keeps

(* Writing statuses keeps every term.                                       *)
LEMMA StatusKeeps ==
  ASSUME TreeInv, NEW s \in Sessions, StatusCommit(s)
  PROVE  Keeps(rows, rows')
<1>1. /\ rows \in Seq(Row) /\ Sound(rows) /\ Len(rows) \in Nat /\ Ids = 1..Len(rows)
      /\ \A i \in 1..Len(rows) : rows[i] \in Row /\ Within(rows[i])
  BY RowsOK DEF TreeInv
<1>2. work[s].target \in MandateStatus
  BY DEF TreeInv, Work, MandateStatus
<1>3. rows' = [i \in 1..Len(rows) |-> IF i \in work[s].writes
                                     THEN [rows[i] EXCEPT !.status = work[s].target]
                                     ELSE rows[i]]
  BY <1>1 DEF StatusCommit
<1>4. ASSUME NEW i \in 1..Len(rows)
      PROVE  /\ rows'[i] \in Row /\ SameTerms(rows[i], rows'[i])
             /\ Remembers(rows[i], rows'[i]) /\ Within(rows'[i])
  <2>1. CASE i \in work[s].writes
    <3>1. rows'[i] = [rows[i] EXCEPT !.status = work[s].target]
      BY <1>3, <2>1
    <3>2. /\ rows'[i] \in Row /\ SameTerms(rows[i], rows'[i]) /\ rows'[i].ops = rows[i].ops
          /\ rows'[i].used = rows[i].used /\ rows'[i].late = rows[i].late
          /\ rows'[i].asked = rows[i].asked
      BY <1>1, <1>2, <3>1 DEF Row, SameTerms
    <3> QED BY <1>1, <3>2 DEF Within, Remembers, SameTerms
  <2>2. CASE i \notin work[s].writes
    <3>1. rows'[i] = rows[i]
      BY <1>3, <2>2
    <3> QED BY <1>1, <3>1 DEF SameTerms, Remembers
  <2> QED BY <2>1, <2>2
<1>5. rows' \in Seq(Row) /\ Len(rows') = Len(rows)
  BY <1>1, <1>3, <1>4
<1>6. Sound(rows')
  BY <1>1, <1>4, <1>5, SoundRows
<1> QED BY <1>1, <1>4, <1>5, <1>6 DEF Keeps
------------------------------------------------------------------------------
(* A handler opens, goes on or ends.                                       *)

(* The invariant holds after a handler opens.                               *)
LEMMA BeginOK ==
  ASSUME TreeInv, rows' = rows, NEW s \in Sessions, NEW job \in Work, Begin(s, job),
         JobOK(job, rows)
  PROVE  TreeInv'
<1>1. Keeps(rows, rows') /\ JobOK(job, rows')
  BY RowsUnchanged
<1>2. work' = [work EXCEPT ![s] = job] /\ now' = now /\ overlapped' \in BOOLEAN
  BY DEF Begin, TreeInv
<1>3. work' \in [Sessions -> Work] /\ \A t \in Sessions : JobOK(work'[t], rows')
  BY <1>1, <1>2, JobReplaced
<1> QED BY <1>1, <1>2, <1>3 DEF TreeInv, Keeps

(* The invariant holds after a handler goes on.                             *)
LEMMA ContinueOK ==
  ASSUME TreeInv, rows' = rows, NEW s \in Sessions, NEW job \in Work, JobOK(job, rows),
         work' = [work EXCEPT ![s] = job], UNCHANGED <<now, overlapped>>
  PROVE  TreeInv'
<1>1. Keeps(rows, rows') /\ JobOK(job, rows')
  BY RowsUnchanged
<1>2. work' \in [Sessions -> Work] /\ \A t \in Sessions : JobOK(work'[t], rows')
  BY <1>1, JobReplaced
<1> QED BY <1>1, <1>2 DEF TreeInv, Keeps

(* The invariant holds after a handler ends.                                *)
LEMMA EndOK ==
  ASSUME TreeInv, Keeps(rows, rows'), NEW s \in Sessions, End(s)
  PROVE  TreeInv'
<1>1. Sound(rows') /\ NoWork \in Work /\ JobOK(NoWork, rows')
  BY NoWorkOK DEF Keeps
<1>2. work' = [work EXCEPT ![s] = NoWork] /\ UNCHANGED <<now, overlapped>>
  BY DEF End
<1>3. work' \in [Sessions -> Work] /\ \A t \in Sessions : JobOK(work'[t], rows')
  BY <1>1, <1>2, JobReplaced
<1> QED BY <1>1, <1>2, <1>3 DEF TreeInv

(* The invariant holds after a step that no open handler takes part in.     *)
LEMMA ChargeOK ==
  ASSUME TreeInv, Keeps(rows, rows'), UNCHANGED <<work, now, overlapped>>
  PROVE  TreeInv'
<1>1. work' \in [Sessions -> Work] /\ \A t \in Sessions : JobOK(work'[t], rows')
  BY WorkUnchanged
<1> QED BY <1>1 DEF TreeInv, Keeps

(* What a delegation or a charge of the gateway holds as it opens.          *)
LEMMA OpenedWork ==
  ASSUME NEW call \in AllCalls, NEW step \in {"commit", "charge"}, NEW i \in Nat,
         NEW m \in Row, NEW want \in ChildTerms \cup Requests
  PROVE  [NoWork EXCEPT !.call = call, !.step = step, !.id = i, !.view = m, !.want = want] \in Work
BY NoWorkOK DEF Work

(* A delegation opens with the row it found fit.                            *)
LEMMA DelegateOpenOK ==
  ASSUME TreeInv, NEW s \in Sessions, NEW p \in Ids, NEW terms \in ChildTerms,
         DelegateOpen(s, p, terms)
  PROVE  TreeInv'
<1> DEFINE job == [NoWork EXCEPT !.call = "delegate", !.step = "commit", !.id = p,
                                 !.view = rows[p], !.want = terms]
<1>1. rows[p] \in Row /\ p \in 1..Len(rows) /\ Len(rows) \in Nat
  BY RowsOK
<1>2. job \in Work
  <2>1. "delegate" \in AllCalls /\ "commit" \in {"commit", "charge"} /\ p \in Nat
    BY <1>1 DEF AllCalls
  <2>2. rows[p] \in Row /\ terms \in ChildTerms \cup Requests
    BY <1>1
  <2> QED BY <2>1, <2>2, OpenedWork, Zenon
<1>3. /\ job.id = p /\ job.call = "delegate" /\ job.step = "commit" /\ job.view = rows[p]
      /\ job.want = terms /\ job.todo = {} /\ job.visited = {}
  BY DEF NoWork
<1>4. Begin(s, job) /\ rows' = rows /\ ValidDelegation(rows[p], terms)
  BY DEF DelegateOpen
<1> HIDE DEF job
<1>5. JobOK(job, rows)
  <2>1. job.view \in Row /\ SameTerms(rows[job.id], job.view)
    BY <1>1, <1>3 DEF SameTerms
  <2>2. job.id \in 0..Len(rows) /\ job.id # 0
    BY <1>1, <1>3
  <2> QED BY <1>3, <1>4, <2>1, <2>2 DEF JobOK
<1> QED BY <1>2, <1>4, <1>5, BeginOK

(* A handler opens about an operation that it finds stored.                 *)
LEMMA ReadStageOK ==
  ASSUME TreeInv, NEW s \in Sessions, NEW call \in {"approve", "reject", "webhook"}, NEW i \in Ids,
         NEW op \in Requests, NEW stage \in Stages \ {"none"}, ReadStage(s, call, i, op, stage)
  PROVE  TreeInv'
<1> DEFINE job == [NoWork EXCEPT !.call = call, !.step = "act", !.id = i, !.want = op]
<1>1. i \in 1..Len(rows) /\ Len(rows) \in Nat /\ i \in Nat
  BY RowsOK
<1>2. job \in Work
  BY <1>1, NoWorkOK DEF Work, AllCalls
<1>3. /\ job.id = i /\ job.call = call /\ job.step = "act" /\ job.want = op
      /\ job.todo = {} /\ job.visited = {}
  BY DEF NoWork
<1>4. Begin(s, job) /\ rows' = rows /\ rows[i].ops[op] # "none"
  BY DEF ReadStage
<1> HIDE DEF job
<1>5. JobOK(job, rows)
  BY <1>1, <1>3, <1>4 DEF JobOK
<1> QED BY <1>2, <1>4, <1>5, BeginOK

(* The MCP gateway opens with its copy of the row.                          *)
LEMMA McpOpenOK ==
  ASSUME TreeInv, NEW s \in Sessions, NEW i \in Ids, NEW op \in Requests, McpOpen(s, i, op)
  PROVE  TreeInv'
<1> DEFINE job == [NoWork EXCEPT !.call = "mcp", !.step = "charge", !.id = i,
                                 !.view = rows[i], !.want = op]
<1>1. rows[i] \in Row /\ i \in 1..Len(rows) /\ Len(rows) \in Nat
  BY RowsOK
<1>2. job \in Work
  <2>1. "mcp" \in AllCalls /\ "charge" \in {"commit", "charge"} /\ i \in Nat
    BY <1>1 DEF AllCalls
  <2>2. rows[i] \in Row /\ op \in ChildTerms \cup Requests
    BY <1>1
  <2> QED BY <2>1, <2>2, OpenedWork, Zenon
<1>3. /\ job.id = i /\ job.call = "mcp" /\ job.step = "charge" /\ job.view = rows[i]
      /\ job.want = op /\ job.todo = {} /\ job.visited = {}
  BY DEF NoWork
<1>4. Begin(s, job) /\ rows' = rows
  BY DEF McpOpen
<1> HIDE DEF job
<1>5. JobOK(job, rows)
  <2>1. job.view \in Row /\ SameTerms(rows[job.id], job.view)
    BY <1>1, <1>3 DEF SameTerms
  <2>2. job.id \in 0..Len(rows) /\ job.id # 0
    BY <1>1, <1>3
  <2> QED BY <1>3, <2>1, <2>2 DEF JobOK
<1> QED BY <1>2, <1>4, <1>5, BeginOK

(* A cascade visits a mandate that exists.                                  *)
LEMMA VisitOK ==
  ASSUME TreeInv, NEW job \in Work, job.call = "cascade", job.visited \subseteq Ids,
         job.todo \subseteq Ids, NEW i \in Ids
  PROVE  Visit(job, i) \in Work /\ JobOK(Visit(job, i), rows)
<1> DEFINE next == Visit(job, i)
<1>1. i \in 1..Len(rows) /\ Len(rows) \in Nat /\ Ids = 1..Len(rows)
  BY RowsOK
<1>2. next \in Work
  <2>1. i \in Nat /\ job.todo \subseteq Nat /\ job.visited \subseteq Nat
    BY <1>1
  <2> DEFINE written == IF rows[i].status # job.target THEN job.writes \cup {i} ELSE job.writes
  <2>2. next = [job EXCEPT !.id = i, !.step = "list", !.todo = job.todo \ {i},
                           !.visited = job.visited \cup {i}, !.writes = written]
    BY DEF Visit
  <2>3. written \subseteq Nat
    BY <2>1 DEF Work
  <2> HIDE DEF next, written
  <2> QED BY <2>1, <2>2, <2>3 DEF Work
<1>3. /\ next.id = i /\ next.call = "cascade" /\ next.step = "list"
      /\ next.todo = job.todo \ {i} /\ next.visited = job.visited \cup {i}
  BY DEF Visit, Work
<1> HIDE DEF next
<1>4. JobOK(next, rows)
  BY <1>1, <1>3 DEF JobOK
<1> QED BY <1>2, <1>4 DEF next

(* A cascade opens at the mandate it is asked for.                          *)
LEMMA CascadeOpenOK ==
  ASSUME TreeInv, NEW s \in Sessions, NEW i \in Ids, NEW target \in {"SUSPENDED", "REVOKED"},
         CascadeOpen(s, i, target)
  PROVE  TreeInv'
<1> DEFINE job == [NoWork EXCEPT !.call = "cascade", !.target = target]
<1>1. job \in Work /\ job.call = "cascade" /\ job.visited = {} /\ job.todo = {}
  BY DEF NoWork, Work, AllCalls
<1>2. Begin(s, Visit(job, i)) /\ rows' = rows
  BY DEF CascadeOpen
<1> HIDE DEF job
<1>3. Visit(job, i) \in Work /\ JobOK(Visit(job, i), rows)
  BY <1>1, VisitOK
<1> QED BY <1>2, <1>3, BeginOK

(* The steps of a cascade are taken by a cascade, and so on. *)
LEMMA JobAt ==
  ASSUME TreeInv, NEW s \in Sessions
  PROVE  /\ work[s] \in Work /\ JobOK(work[s], rows) /\ work[s].todo \subseteq Ids
         /\ work[s].visited \subseteq Ids
         /\ Step(s) # "idle" => Id(s) \in Ids
<1>1. work[s] \in Work /\ JobOK(work[s], rows)
  BY DEF TreeInv
<1>2. Ids = 1..Len(rows) /\ Len(rows) \in Nat
  BY RowsOK
<1> QED BY <1>1, <1>2 DEF JobOK, Step, Id

(* A cascade queues children that exist.                                    *)
LEMMA CascadeListOK ==
  ASSUME TreeInv, NEW s \in Sessions, CascadeList(s)
  PROVE  TreeInv'
<1> DEFINE todo == work[s].todo \cup Children(Id(s))
           step == IF todo = {} THEN "commit" ELSE "visit"
           job == [work[s] EXCEPT !.todo = todo, !.step = step]
<1>1. work[s] \in Work /\ JobOK(work[s], rows) /\ Step(s) = "list"
  BY JobAt DEF CascadeList
<1>2. Ids = 1..Len(rows) /\ Len(rows) \in Nat
  BY RowsOK
<1>3. todo \subseteq Ids
  BY JobAt DEF Children
<1>4. work' = [work EXCEPT ![s] = job] /\ UNCHANGED <<rows, now, overlapped>>
  BY DEF CascadeList
<1>5. step \in {"commit", "visit"}
  OBVIOUS
<1> HIDE DEF todo, step
<1>6. job \in Work
  <2>1. todo \in SUBSET Nat
    BY <1>2, <1>3
  <2>2. work[s] \in Work
    BY <1>1
  <2> QED BY <1>5, <2>1, <2>2 DEF Work
<1>7. /\ job.todo = todo /\ job.step = step /\ job.id = work[s].id /\ job.call = work[s].call
      /\ job.visited = work[s].visited /\ job.view = work[s].view /\ job.want = work[s].want
  BY <1>1 DEF Work
<1> HIDE DEF job
<1>8. JobOK(job, rows)
  BY <1>1, <1>2, <1>3, <1>5, <1>7 DEF JobOK, Step
<1> QED BY <1>4, <1>6, <1>8, ContinueOK

(* An activation that found its parent active goes on to its COMMIT.        *)
LEMMA GotoOK ==
  ASSUME TreeInv, NEW s \in Sessions, Step(s) = "parent", Goto(s, "commit"),
         UNCHANGED <<rows, now, overlapped>>
  PROVE  TreeInv'
<1> DEFINE job == [work[s] EXCEPT !.step = "commit"]
<1>1. work[s] \in Work /\ JobOK(work[s], rows)
  BY JobAt
<1>2. work' = [work EXCEPT ![s] = job]
  BY DEF Goto
<1>3. job \in Work
  BY <1>1 DEF Work
<1>4. /\ job.todo = work[s].todo /\ job.step = "commit" /\ job.id = work[s].id
      /\ job.call = work[s].call /\ job.visited = work[s].visited
      /\ job.view = work[s].view /\ job.want = work[s].want
  BY <1>1 DEF Work
<1> HIDE DEF job
<1>5. JobOK(job, rows)
  BY <1>1, <1>4 DEF JobOK, Step
<1> QED BY <1>2, <1>3, <1>5, ContinueOK

(* An activation opens at the mandate it is asked for.                      *)
LEMMA ActivateOpenOK ==
  ASSUME TreeInv, NEW s \in Sessions, NEW i \in Ids, ActivateOpen(s, i)
  PROVE  TreeInv'
<1> DEFINE writes == IF rows[i].status # "ACTIVE" THEN {i} ELSE {}
           step == IF rows[i].parent = 0 THEN "commit" ELSE "parent"
           job == [NoWork EXCEPT !.call = "activate", !.id = i, !.visited = {i},
                                 !.writes = writes, !.step = step]
<1>1. i \in 1..Len(rows) /\ Len(rows) \in Nat /\ i \in Nat
  BY RowsOK
<1>2. writes \subseteq Nat /\ step \in {"commit", "parent"}
  BY <1>1
<1>3. Begin(s, job) /\ rows' = rows
  BY DEF ActivateOpen
<1> HIDE DEF writes, step
<1>4. job \in Work
  BY <1>1, <1>2, NoWorkOK DEF Work, AllCalls
<1>5. job.id = i /\ job.call = "activate" /\ job.step = step /\ job.todo = {} /\ job.visited = {i}
  BY DEF NoWork
<1> HIDE DEF job
<1>6. JobOK(job, rows)
  BY <1>1, <1>2, <1>5 DEF JobOK
<1> QED BY <1>3, <1>4, <1>6, BeginOK

(* The empty table satisfies the invariant.                                 *)
LEMMA TreeInvInit == Init => TreeInv
<1> SUFFICES ASSUME Init PROVE TreeInv
  OBVIOUS
<1>1. rows = <<>> /\ work = [s \in Sessions |-> NoWork] /\ now = 0 /\ overlapped = FALSE
  BY DEF Init
<1>2. Sound(rows)
  BY <1>1 DEF Sound
<1>3. NoWork \in Work /\ JobOK(NoWork, rows)
  BY <1>2, NoWorkOK
<1>4. now \in Instants
  BY <1>1, TreeConstants DEF Instants
<1> QED BY <1>1, <1>2, <1>3, <1>4 DEF TreeInv

(* One step per handler step. *)
LEMMA TreeInvNext == TreeInv /\ [Next]_vars => TreeInv'
<1> SUFFICES ASSUME TreeInv, [Next]_vars PROVE TreeInv'
  OBVIOUS
<1>1. ASSUME NEW terms \in RootTerms, CreateMandate(terms) PROVE TreeInv'
  BY <1>1, CreateKeeps, ChargeOK DEF CreateMandate
<1>2. ASSUME NEW s \in Sessions, NEW i \in Ids, NEW terms \in ChildTerms,
             DelegateOpen(s, i, terms)
      PROVE  TreeInv'
  BY <1>2, DelegateOpenOK
<1>3. ASSUME NEW s \in Sessions, NEW i \in Ids, NEW target \in {"SUSPENDED", "REVOKED"},
             CascadeOpen(s, i, target)
      PROVE  TreeInv'
  BY <1>3, CascadeOpenOK
<1>4. ASSUME NEW s \in Sessions, NEW i \in Ids, ActivateOpen(s, i) PROVE TreeInv'
  BY <1>4, ActivateOpenOK
<1>5. ASSUME NEW s \in Sessions, NEW i \in Ids, NEW op \in Requests, McpOpen(s, i, op)
      PROVE  TreeInv'
  BY <1>5, McpOpenOK
<1>6. ASSUME NEW s \in Sessions, DelegateCommit(s) PROVE TreeInv'
  BY <1>6, DelegateKeeps, EndOK DEF DelegateCommit
<1>7. ASSUME NEW s \in Sessions, CascadeList(s) PROVE TreeInv'
  BY <1>7, CascadeListOK
<1>8. ASSUME NEW s \in Sessions, CascadeVisit(s) PROVE TreeInv'
  <2>1. PICK i \in work[s].todo : work' = [work EXCEPT ![s] = Visit(work[s], i)]
    BY <1>8 DEF CascadeVisit
  <2>2. work[s] \in Work /\ work[s].call = "cascade" /\ i \in Ids
        /\ work[s].todo \subseteq Ids /\ work[s].visited \subseteq Ids
    BY <1>8, <2>1, JobAt DEF CascadeVisit, JobOK, Step
  <2>3. Visit(work[s], i) \in Work /\ JobOK(Visit(work[s], i), rows)
    BY <2>2, VisitOK
  <2> QED BY <1>8, <2>1, <2>3, ContinueOK DEF CascadeVisit
<1>9. ASSUME NEW s \in Sessions, ActivateCheck(s) PROVE TreeInv'
  <2>1. Step(s) = "parent" /\ rows' = rows
    BY <1>9 DEF ActivateCheck
  <2>2. CASE Goto(s, "commit") /\ UNCHANGED <<now, overlapped>>
    BY <2>1, <2>2, GotoOK
  <2>3. CASE End(s)
    BY <2>1, <2>3, RowsUnchanged, EndOK
  <2> QED BY <1>9, <2>2, <2>3 DEF ActivateCheck
<1>10. ASSUME NEW s \in Sessions, StatusCommit(s) PROVE TreeInv'
  BY <1>10, StatusKeeps, EndOK DEF StatusCommit
<1>11. ASSUME NEW s \in Sessions, McpCharge(s) PROVE TreeInv'
  BY <1>11, McpCharges, ChargedKeeps, RowsUnchanged, EndOK
<1>12. ASSUME NEW s \in Sessions, NEW i \in Ids, NEW op \in Requests, ReviewOpen(s, i, op)
       PROVE  TreeInv'
  BY <1>12, ReadStageOK DEF ReviewOpen, Stages
<1>13. ASSUME NEW s \in Sessions, NEW i \in Ids, NEW op \in Requests, WebhookOpen(s, i, op)
       PROVE  TreeInv'
  BY <1>13, ReadStageOK DEF WebhookOpen, Stages
<1>14. ASSUME NEW s \in Sessions, ApproveCommit(s) \/ RejectCommit(s) \/ WebhookCommit(s)
       PROVE  TreeInv'
  BY <1>14, ActCharges, ChargedKeeps, EndOK
<1>15. ASSUME NEW i \in Ids, NEW op \in Requests, Charge(i, op) \/ Settle(i, op) PROVE TreeInv'
  BY <1>15, DirectCharges, ChargedKeeps, ChargeOK
<1>16. CASE Tick
  <2>1. now' \in Instants /\ UNCHANGED <<rows, work, overlapped>>
    BY <1>16, TreeConstants DEF Tick, TreeInv, Instants
  <2>2. Keeps(rows, rows')
    BY <2>1, RowsUnchanged
  <2>3. work' \in [Sessions -> Work] /\ \A t \in Sessions : JobOK(work'[t], rows')
    BY <2>1, <2>2, WorkUnchanged
  <2> QED BY <2>1, <2>2, <2>3 DEF TreeInv, Keeps
<1>17. CASE UNCHANGED vars
  BY <1>17, RowsUnchanged, ChargeOK DEF vars
<1> QED
  BY <1>1, <1>2, <1>3, <1>4, <1>5, <1>6, <1>7, <1>8, <1>9, <1>10, <1>11, <1>12, <1>13,
     <1>14, <1>15, <1>16, <1>17 DEF Next

(* The invariant holds throughout.                                          *)
LEMMA TreeInvariant == Spec => []TreeInv
BY TreeInvInit, TreeInvNext, PTL DEF Spec

(* Mandates hang below mandates issued before them, as deep as they are     *)
(* recorded to be, and handlers hold mandates that exist (mandates.py).     *)
THEOREM TreeTypeOK == Spec => []TypeOK
<1>1. TreeInv => TypeOK
  <2> SUFFICES ASSUME TreeInv PROVE TypeOK
    OBVIOUS
  <2>1. ASSUME NEW i \in Ids
        PROVE  /\ rows[i].status \in MandateStatus
               /\ rows[i].parent \in 0..(i - 1)
               /\ rows[i].depth = Cardinality(Ancestors(i)) /\ rows[i].depth <= MaxDepth
               /\ rows[i].used \in Nat /\ rows[i].allocated \in Nat
               /\ rows[i].late \in Nat /\ rows[i].ops \in [Requests -> Stages]
               /\ rows[i].asked \subseteq Requests
    <3>1. Sound(rows) /\ i \in 1..Len(rows) /\ rows[i] \in Row /\ Placed(rows, i)
      BY RowsOK DEF TreeInv, Sound
    <3>2. rows[i].depth = Cardinality(Ancestors(i))
      BY <3>1, AboveIsLineOfParent DEF Ancestors, LineOf
    <3>3. rows[i].parent \in 0..(i - 1) /\ rows[i].depth <= MaxDepth
      BY <3>1 DEF Placed
    <3> QED BY <3>1, <3>2, <3>3 DEF Row
  <2>2. ASSUME NEW s \in Sessions PROVE Id(s) \in 0..Len(rows) /\ work[s].todo \subseteq Ids
    BY JobAt DEF JobOK, Id
  <2> QED BY <2>1, <2>2 DEF TypeOK, TreeInv
<1> QED BY <1>1, TreeInvariant, PTL

(* A mandate is charged within its limit, whatever approvals and payment     *)
(* events race; only captures that found nothing reserved go beyond         *)
(* (operations.py, the conditional UPDATE that reserves; mcp_gateway.py;    *)
(* webhooks.py, the else branch).                                          *)
THEOREM TreeUsedWithinLimit == Spec => []UsedWithinLimit
<1>1. TreeInv => UsedWithinLimit
  BY RowsOK DEF UsedWithinLimit, Within
<1> QED BY <1>1, TreeInvariant, PTL

(* Narrower terms forbid whatever the wider ones forbid.                    *)
LEMMA NarrowerForbids ==
  ASSUME NEW m \in Row, NEW n \in Row, Narrower(m, n), NEW op \in Requests,
         NEW instant \in Instants, Forbids(m, op, instant)
  PROVE  Forbids(n, op, instant)
<1>1. /\ m.limit \in Nat /\ n.limit \in Nat /\ m.cap \in Nat /\ n.cap \in Nat
      /\ m.until \in Nat /\ n.until \in Nat
  BY DEF Row
<1>2. op.amount \in Nat /\ instant \in Int
  BY TreeConstants DEF Instants
<1>3. \/ op.currency # m.currency
      \/ m.types # {} /\ op.type \notin m.types
      \/ op.amount > m.cap
      \/ op.amount > m.limit
      \/ instant > m.until
  BY DEF Forbids, CurrencyMatchRule, AllowedOperationTypeRule, PerTransactionLimitRule, DenyIf
<1>4. \/ op.currency # n.currency
      \/ n.types # {} /\ op.type \notin n.types
      \/ op.amount > n.cap
      \/ op.amount > n.limit
      \/ instant > n.until
  BY <1>1, <1>2, <1>3 DEF Narrower
<1> QED
  BY <1>4 DEF Forbids, CurrencyMatchRule, AllowedOperationTypeRule, PerTransactionLimitRule, DenyIf

(* However deep the tree and however the handlers interleave, no delegated  *)
(* mandate permits what the terms of one above it forbid (mandates.py,      *)
(* _validate_delegation_invariants).                                       *)
THEOREM TreeNeverWider == Spec => []NeverWiderThanAncestors
<1>1. TreeInv => NeverWiderThanAncestors
  <2> SUFFICES ASSUME TreeInv, NEW i \in Ids, NEW j \in Ancestors(i), NEW op \in Requests,
                      NEW instant \in Instants, Forbids(rows[j], op, instant)
               PROVE  Forbids(rows[i], op, instant)
    BY DEF NeverWiderThanAncestors
  <2>1. Sound(rows) /\ i \in 1..Len(rows) /\ Ids = 1..Len(rows) /\ rows[i] \in Row
    BY RowsOK DEF TreeInv
  <2>2. j \in Lines(rows)[i] /\ j \in Ids
    BY <2>1, AboveIsLineOfParent DEF Ancestors, LineOf
  <2>3. rows[j] \in Row /\ Narrower(rows[j], rows[i])
    BY <2>1, <2>2, RowsOK, LinesNarrow
  <2> QED BY <2>1, <2>3, NarrowerForbids
<1> QED BY <1>1, TreeInvariant, PTL
------------------------------------------------------------------------------
(* What LargeChargesAreReviewed says of one mandate.                       *)
Reviewed(i) == ReviewedCharge(rows[i], rows'[i])

(* A step that spends nothing asks for no review.                           *)
LEMMA UnspentIsReviewed ==
  ASSUME TreeInv, NEW i \in Ids, rows'[i].used = rows[i].used
  PROVE  Reviewed(i)
<1>1. rows[i] \in Row
  BY RowsOK
<1>2. rows[i].used \in Nat /\ rows[i].threshold \in Nat
  BY <1>1 DEF Row
<1>3. ~(rows[i].threshold # 0 /\ rows'[i].used - rows[i].used >= rows[i].threshold)
  BY <1>2
<1> QED BY <1>3 DEF Reviewed, ReviewedCharge

(* Where one mandate is charged, the others are not.                        *)
LEMMA ChargedIsReviewed ==
  ASSUME TreeInv, NEW i \in Ids, Charged(i)
  PROVE  \A j \in Ids : Reviewed(j)
<1>1. PICK r : rows' = [rows EXCEPT ![i] = r] /\ ChargedRow(rows[i], r)
  BY DEF Charged
<1>2. rows \in Seq(Row) /\ Ids = 1..Len(rows)
  BY RowsOK
<1>3. rows'[i] = r /\ \A j \in Ids \ {i} : rows'[j] = rows[j]
  BY <1>1, <1>2
<1>4. Reviewed(i)
  BY <1>1, <1>3 DEF Reviewed, ChargedRow
<1> QED BY <1>3, <1>4, UnspentIsReviewed

(* Issuing, delegating and the cascades spend nothing.                     *)
LEMMA StatusSpendsNothing ==
  ASSUME TreeInv, NEW s \in Sessions, StatusCommit(s), NEW i \in Ids
  PROVE  rows'[i].used = rows[i].used
<1>1. rows[i] \in Row
  BY RowsOK
<1>2. rows'[i] = IF i \in work[s].writes
                 THEN [rows[i] EXCEPT !.status = work[s].target] ELSE rows[i]
  BY DEF StatusCommit
<1> QED BY <1>1, <1>2 DEF Row

(* A delegation allocates and does not spend.                               *)
LEMMA DelegationSpendsNothing ==
  ASSUME TreeInv, NEW s \in Sessions, DelegateCommit(s), NEW i \in Ids
  PROVE  rows'[i].used = rows[i].used
<1> DEFINE terms == GrantedTerms(work[s].view, work[s].want)
           m == [rows[Id(s)] EXCEPT !.allocated = work[s].view.allocated + terms.limit]
           charged == [rows EXCEPT ![Id(s)] = m]
           child == NewRow(terms, Id(s), ChildDepth(work[s].view))
<1>1. /\ rows \in Seq(Row) /\ Ids = 1..Len(rows) /\ Len(rows) \in Nat
      /\ \A j \in Ids : rows[j] \in Row
  BY RowsOK
<1>2. Id(s) \in Ids
  BY JobAt DEF DelegateCommit
<1>3. rows' = Append(charged, child)
  BY DEF DelegateCommit
<1>4. m.used = rows[Id(s)].used
  BY <1>1, <1>2 DEF Row
<1> HIDE DEF m, child
<1>5. rows'[i] = IF i = Id(s) THEN m ELSE rows[i]
  BY <1>1, <1>2, <1>3
<1> QED BY <1>4, <1>5

(* No large charge escapes its review, not even one that the gateway        *)
(* decides on an old copy of the mandate, or an approval or a capture of an *)
(* operation that has gone on: a threshold does not change once it is       *)
(* granted, and an operation that is stored at all and large was stored for *)
(* a review (engine.py, rule on the threshold; mcp_gateway.py;              *)
(* operations.py, approval).                                                *)
THEOREM TreeChargesReviewed == Spec => LargeChargesAreReviewed
<1>1. ASSUME TreeInv, [Next]_vars PROVE (\A i \in Ids : Reviewed(i)) \/ UNCHANGED vars
  <2>1. ASSUME UNCHANGED rows PROVE \A i \in Ids : Reviewed(i)
    BY <1>1, <2>1, UnspentIsReviewed
  <2>2. ASSUME NEW terms \in RootTerms, CreateMandate(terms) PROVE \A i \in Ids : Reviewed(i)
    <3>1. rows \in Seq(Row) /\ Ids = 1..Len(rows) /\ Len(rows) \in Nat
      BY <1>1, RowsOK
    <3> DEFINE r == NewRow(terms, 0, 0)
    <3>2. rows' = Append(rows, r)
      BY <2>2 DEF CreateMandate
    <3> HIDE DEF r
    <3>3. \A i \in Ids : rows'[i] = rows[i]
      BY <3>1, <3>2
    <3> QED BY <1>1, <3>3, UnspentIsReviewed
  <2>3. ASSUME NEW s \in Sessions, DelegateCommit(s) PROVE \A i \in Ids : Reviewed(i)
    BY <1>1, <2>3, DelegationSpendsNothing, UnspentIsReviewed
  <2>4. ASSUME NEW s \in Sessions, StatusCommit(s) PROVE \A i \in Ids : Reviewed(i)
    BY <1>1, <2>4, StatusSpendsNothing, UnspentIsReviewed
  <2>5. ASSUME NEW s \in Sessions, McpCharge(s) PROVE \A i \in Ids : Reviewed(i)
    BY <1>1, <2>1, <2>5, McpCharges, ChargedIsReviewed
  <2>6. ASSUME NEW s \in Sessions, ApproveCommit(s) \/ RejectCommit(s) \/ WebhookCommit(s)
        PROVE  \A i \in Ids : Reviewed(i)
    BY <1>1, <2>6, ActCharges, ChargedIsReviewed
  <2>7. ASSUME NEW i \in Ids, NEW op \in Requests, Charge(i, op) \/ Settle(i, op)
        PROVE  \A j \in Ids : Reviewed(j)
    BY <1>1, <2>7, DirectCharges, ChargedIsReviewed
  <2> QED
    BY <1>1, <2>1, <2>2, <2>3, <2>4, <2>5, <2>6, <2>7
    DEF Next, DelegateOpen, CascadeOpen, ActivateOpen, McpOpen, ReviewOpen, WebhookOpen, ReadStage,
        CascadeList, CascadeVisit, ActivateCheck, Tick
<1>2. TreeInv /\ [Next]_vars => [\A i \in Ids : Reviewed(i)]_vars
  BY <1>1
<1> QED BY <1>2, TreeInvariant, PTL DEF Spec, LargeChargesAreReviewed, Reviewed, ReviewedCharge
------------------------------------------------------------------------------
(* One handler at a time.                                                  *)

(* A cascade misses no child of a mandate it has listed.                   *)
CascadeFits(job, table) ==
  /\ job.target # "ACTIVE"
  /\ job.writes = {i \in job.visited : table[i].status # job.target}
  /\ \A j \in 1..Len(table) :
       table[j].parent \in job.visited /\ (job.step = "list" => table[j].parent # job.id)
         => j \in job.visited \cup job.todo
  /\ job.step = "commit" => job.todo = {}

(* An activation commits below an active parent only.                      *)
ActivateFits(job, table) ==
  /\ job.target = "ACTIVE" /\ job.writes \subseteq {job.id}
  /\ job.step = "commit" /\ table[job.id].parent # 0
       => table[table[job.id].parent].status = "ACTIVE"

(* What an open handler read still holds.                                  *)
JobFits(job, table) ==
  /\ job.call = "delegate" => table[job.id].status = "ACTIVE"
  /\ job.call = "cascade" => CascadeFits(job, table)
  /\ job.call = "activate" => ActivateFits(job, table)

(* While no two handlers have overlapped, at most one is open.             *)
Orderly ==
  ~overlapped =>
    /\ \A s, t \in Sessions : Step(s) # "idle" /\ Step(t) # "idle" => s = t
    /\ ActiveAbove(rows)
    /\ \A s \in Sessions : JobFits(work[s], rows)

(* A step that leaves the statuses alone and issues root mandates only.    *)
Quiet ==
  /\ Keeps(rows, rows')
  /\ \A i \in 1..Len(rows) : rows'[i].status = rows[i].status
  /\ \A i \in 1..Len(rows') : i \notin 1..Len(rows) => rows'[i].parent = 0

(* What a quiet step leaves as it was.                                      *)
LEMMA QuietRows ==
  ASSUME Quiet
  PROVE  /\ Len(rows) \in Nat /\ Len(rows') \in Nat /\ Len(rows) <= Len(rows')
         /\ \A i \in 1..Len(rows) :
              /\ rows[i].parent \in 0..(i - 1) /\ rows'[i].parent = rows[i].parent
              /\ rows'[i].status = rows[i].status
         /\ \A i \in 1..Len(rows') : i \in 1..Len(rows) \/ rows'[i].parent = 0
<1>1. Sound(rows) /\ Sound(rows') /\ Len(rows) <= Len(rows')
  BY DEF Quiet, Keeps
<1>2. /\ Len(rows) \in Nat /\ Len(rows') \in Nat
      /\ \A i \in 1..Len(rows) : rows[i].parent \in 0..(i - 1)
  BY <1>1, SoundParents
<1>3. \A i \in 1..Len(rows) : rows'[i].parent = rows[i].parent /\ rows'[i].status = rows[i].status
  BY DEF Quiet, Keeps, SameTerms
<1> QED BY <1>1, <1>2, <1>3 DEF Quiet

(* A quiet step leaves active mandates below active ones.                   *)
LEMMA QuietAbove ==
  ASSUME Quiet, ActiveAbove(rows)
  PROVE  ActiveAbove(rows')
<1> SUFFICES ASSUME NEW i \in 1..Len(rows'), rows'[i].status = "ACTIVE", rows'[i].parent # 0
             PROVE  rows'[rows'[i].parent].status = "ACTIVE"
  BY DEF ActiveAbove
<1>1. i \in 1..Len(rows) /\ rows[i].parent # 0 /\ rows[i].status = "ACTIVE"
  BY QuietRows
<1>2. rows[i].parent \in 1..Len(rows) /\ rows'[i].parent = rows[i].parent
  BY <1>1, QuietRows
<1>3. rows[rows[i].parent].status = "ACTIVE"
  BY <1>1 DEF ActiveAbove
<1> QED BY <1>2, <1>3, QuietRows

(* A quiet step leaves what an open handler read valid.                     *)
LEMMA QuietFits ==
  ASSUME Quiet, NEW job \in Work, JobOK(job, rows), JobFits(job, rows)
  PROVE  JobFits(job, rows')
<1>1. /\ job.visited \subseteq 1..Len(rows)
      /\ job.call # "none" => job.id \in 1..Len(rows)
  BY QuietRows DEF JobOK
<1>2. CASE job.call = "delegate"
  BY <1>1, <1>2, QuietRows DEF JobFits
<1>3. CASE job.call = "cascade"
  <2>1. CascadeFits(job, rows)
    BY <1>3 DEF JobFits
  <2>2. job.writes = {i \in job.visited : rows'[i].status # job.target}
    BY <1>1, <2>1, QuietRows DEF CascadeFits
  <2>3. ASSUME NEW j \in 1..Len(rows'), rows'[j].parent \in job.visited,
               job.step = "list" => rows'[j].parent # job.id
        PROVE  j \in job.visited \cup job.todo
    <3>1. j \in 1..Len(rows) /\ rows'[j].parent = rows[j].parent
      BY <1>1, <2>3, QuietRows
    <3> QED BY <2>1, <2>3, <3>1 DEF CascadeFits
  <2>4. job.target # "ACTIVE" /\ (job.step = "commit" => job.todo = {})
    BY <2>1 DEF CascadeFits
  <2>5. CascadeFits(job, rows')
    BY <2>2, <2>3, <2>4 DEF CascadeFits
  <2> QED BY <1>3, <2>5 DEF JobFits
<1>4. CASE job.call = "activate"
  <2>1. ActivateFits(job, rows) /\ job.id \in 1..Len(rows)
    BY <1>1, <1>4 DEF JobFits
  <2>2. /\ rows'[job.id].parent = rows[job.id].parent
        /\ rows[job.id].parent # 0 => rows[job.id].parent \in 1..Len(rows)
    BY <2>1, QuietRows
  <2>3. ActivateFits(job, rows')
    BY <2>1, <2>2, QuietRows DEF ActivateFits
  <2> QED BY <1>4, <2>3 DEF JobFits
<1> QED BY <1>2, <1>3, <1>4 DEF JobFits

(* A quiet step beside the open handler keeps the order.                    *)
LEMMA QuietOrderly ==
  ASSUME TreeInv, Orderly, Quiet, UNCHANGED <<work, overlapped>>
  PROVE  Orderly'
<1> SUFFICES ASSUME ~overlapped'
             PROVE  /\ \A s, t \in Sessions : Step(s)' # "idle" /\ Step(t)' # "idle" => s = t
                    /\ ActiveAbove(rows')
                    /\ \A s \in Sessions : JobFits(work'[s], rows')
  BY DEF Orderly
<1>1. /\ \A s, t \in Sessions : Step(s) # "idle" /\ Step(t) # "idle" => s = t
      /\ ActiveAbove(rows)
      /\ \A s \in Sessions : JobFits(work[s], rows)
  BY DEF Orderly
<1>2. ASSUME NEW s \in Sessions PROVE JobFits(work[s], rows')
  BY <1>1, JobAt, QuietFits
<1> QED BY <1>1, <1>2, QuietAbove DEF Step

(* A handler that opens alone keeps the order if what it read holds.        *)
LEMMA BeginOrderly ==
  ASSUME TreeInv, Orderly, rows' = rows, NEW s \in Sessions, NEW job \in Work, Begin(s, job),
         ~overlapped => JobFits(job, rows)
  PROVE  Orderly'
<1> SUFFICES ASSUME ~overlapped'
             PROVE  /\ \A t, u \in Sessions : Step(t)' # "idle" /\ Step(u)' # "idle" => t = u
                    /\ ActiveAbove(rows')
                    /\ \A t \in Sessions : JobFits(work'[t], rows')
  BY DEF Orderly
<1>1. ~overlapped /\ \A t \in Sessions \ {s} : Step(t) = "idle"
  BY DEF Begin
<1>2. work \in [Sessions -> Work] /\ work' = [work EXCEPT ![s] = job]
  BY DEF Begin, TreeInv
<1>3. \A t \in Sessions : work'[t] = IF t = s THEN job ELSE work[t]
  BY <1>2
<1>4. \A t \in Sessions : JobFits(work'[t], rows')
  BY <1>1, <1>3 DEF Orderly
<1>5. \A t \in Sessions \ {s} : Step(t)' = "idle"
  BY <1>1, <1>3 DEF Step
<1> QED BY <1>1, <1>4, <1>5 DEF Orderly

(* The open handler keeps the order if what it has read holds.              *)
LEMMA ContinueOrderly ==
  ASSUME TreeInv, Orderly, rows' = rows, NEW s \in Sessions, NEW job \in Work,
         Step(s) # "idle", work' = [work EXCEPT ![s] = job], UNCHANGED overlapped,
         ~overlapped => JobFits(job, rows)
  PROVE  Orderly'
<1> SUFFICES ASSUME ~overlapped'
             PROVE  /\ \A t, u \in Sessions : Step(t)' # "idle" /\ Step(u)' # "idle" => t = u
                    /\ ActiveAbove(rows')
                    /\ \A t \in Sessions : JobFits(work'[t], rows')
  BY DEF Orderly
<1>1. ~overlapped /\ \A t \in Sessions \ {s} : Step(t) = "idle"
  BY DEF Orderly
<1>2. work \in [Sessions -> Work]
  BY DEF TreeInv
<1>3. \A t \in Sessions : work'[t] = IF t = s THEN job ELSE work[t]
  BY <1>2
<1>4. \A t \in Sessions : JobFits(work'[t], rows')
  BY <1>1, <1>3 DEF Orderly
<1>5. \A t \in Sessions \ {s} : Step(t)' = "idle"
  BY <1>1, <1>3 DEF Step
<1> QED BY <1>1, <1>4, <1>5 DEF Orderly

(* The end of the only handler keeps the order if active rows are below     *)
(* active ones.                                                             *)
LEMMA EndOrderly ==
  ASSUME TreeInv, Orderly, NEW s \in Sessions, Step(s) # "idle", End(s),
         ~overlapped => ActiveAbove(rows')
  PROVE  Orderly'
<1> SUFFICES ASSUME ~overlapped'
             PROVE  /\ \A t, u \in Sessions : Step(t)' # "idle" /\ Step(u)' # "idle" => t = u
                    /\ ActiveAbove(rows')
                    /\ \A t \in Sessions : JobFits(work'[t], rows')
  BY DEF Orderly
<1>1. ~overlapped /\ \A t \in Sessions \ {s} : Step(t) = "idle"
  BY DEF Orderly, End
<1>2. work \in [Sessions -> Work] /\ work' = [work EXCEPT ![s] = NoWork]
  BY DEF TreeInv, End
<1>3. \A t \in Sessions : work'[t] = IF t = s THEN NoWork ELSE work[t]
  BY <1>2
<1>4. \A t \in Sessions \ {s} : work[t].call = "none"
  BY <1>1, JobAt DEF JobOK, Step
<1>5. \A t \in Sessions : work'[t].call = "none" /\ Step(t)' = "idle"
  BY <1>1, <1>3, <1>4 DEF NoWork, Step
<1>6. \A t \in Sessions : JobFits(work'[t], rows')
  BY <1>5 DEF JobFits
<1> QED BY <1>1, <1>5, <1>6

(* A row that keeps its status makes for a quiet step.                      *)
LEMMA SameStatusQuiet ==
  ASSUME TreeInv, Keeps(rows, rows'), NEW i \in Ids, NEW r, r.status = rows[i].status,
         rows' = [rows EXCEPT ![i] = r]
  PROVE  Quiet
<1>1. rows \in Seq(Row) /\ Ids = 1..Len(rows) /\ Len(rows) \in Nat
  BY RowsOK
<1>2. DOMAIN rows' = 1..Len(rows) /\ \A j \in 1..Len(rows) : rows'[j] = IF j = i THEN r ELSE rows[j]
  BY <1>1
<1>3. Len(rows') = Len(rows)
  <2>1. rows' \in Seq(Row)
    BY DEF Keeps, Sound
  <2>2. DOMAIN rows' = 1..Len(rows') /\ Len(rows') \in Nat
    BY <2>1
  <2> QED BY <1>1, <1>2, <2>2
<1>4. \A j \in 1..Len(rows) : rows'[j].status = rows[j].status
  BY <1>2
<1> QED BY <1>3, <1>4 DEF Quiet

(* Charging is quiet.                                                       *)
LEMMA ChargedQuiet ==
  ASSUME TreeInv, NEW i \in Ids, Charged(i)
  PROVE  Quiet
<1>1. PICK r : rows' = [rows EXCEPT ![i] = r] /\ r.status = rows[i].status
  BY DEF Charged, ChargedRow
<1> QED BY <1>1, ChargedKeeps, SameStatusQuiet

(* A step that leaves the table alone is quiet.                             *)
LEMMA UnchangedQuiet ==
  ASSUME TreeInv, rows' = rows
  PROVE  Quiet
BY RowsUnchanged DEF Quiet

(* A handler that opens about a stored operation has nothing to keep valid.  *)
LEMMA ReadStageOrderly ==
  ASSUME TreeInv, Orderly, NEW s \in Sessions, NEW call \in {"approve", "reject", "webhook"},
         NEW i \in Ids, NEW op \in Requests, NEW stage, ReadStage(s, call, i, op, stage)
  PROVE  Orderly'
<1> DEFINE job == [NoWork EXCEPT !.call = call, !.step = "act", !.id = i, !.want = op]
<1>1. i \in Nat
  BY RowsOK
<1>2. job \in Work
  BY <1>1, NoWorkOK DEF Work, AllCalls
<1>3. job.call = call
  BY DEF NoWork
<1>4. Begin(s, job) /\ rows' = rows
  BY DEF ReadStage
<1> HIDE DEF job
<1>5. JobFits(job, rows)
  BY <1>3 DEF JobFits
<1> QED BY <1>2, <1>4, <1>5, BeginOrderly

(* A session that ends with a quiet step keeps the order.                   *)
LEMMA QuietEndOrderly ==
  ASSUME TreeInv, Orderly, NEW s \in Sessions, Step(s) # "idle", End(s), Quiet
  PROVE  Orderly'
<1>1. ~overlapped => ActiveAbove(rows')
  BY QuietAbove DEF Orderly
<1> QED BY <1>1, EndOrderly

(* A root mandate is below no other.                                        *)
LEMMA CreateQuiet ==
  ASSUME TreeInv, NEW terms \in RootTerms, CreateMandate(terms)
  PROVE  Quiet
<1> DEFINE r == NewRow(terms, 0, 0)
<1>1. rows' = Append(rows, r) /\ r.parent = 0
  BY DEF CreateMandate, NewRow
<1> HIDE DEF r
<1>2. rows \in Seq(Row) /\ Len(rows) \in Nat
  BY RowsOK
<1>3. Len(rows') = Len(rows) + 1 /\ rows'[Len(rows) + 1] = r
      /\ \A i \in 1..Len(rows) : rows'[i] = rows[i]
  BY <1>1, <1>2
<1> QED BY <1>1, <1>2, <1>3, CreateKeeps DEF Quiet

(* What a delegation adds hangs below an active mandate.                   *)
LEMMA DelegateOrderly ==
  ASSUME TreeInv, Orderly, NEW s \in Sessions, DelegateCommit(s)
  PROVE  Orderly'
<1> DEFINE terms == GrantedTerms(work[s].view, work[s].want)
           p == Id(s)
           m == [rows[p] EXCEPT !.allocated = work[s].view.allocated + terms.limit]
           charged == [rows EXCEPT ![p] = m]
           child == NewRow(terms, p, ChildDepth(work[s].view))
<1>1. /\ rows \in Seq(Row) /\ Ids = 1..Len(rows) /\ Len(rows) \in Nat
      /\ \A j \in Ids : rows[j] \in Row /\ rows[j].parent \in 0..(j - 1)
  BY RowsOK, SoundParents DEF TreeInv
<1>2. p \in Ids /\ Step(s) # "idle" /\ End(s)
  BY JobAt DEF DelegateCommit
<1>3. rows' = Append(charged, child) /\ child.parent = p
  BY DEF DelegateCommit, NewRow
<1>4. m.status = rows[p].status /\ m.parent = rows[p].parent
  BY <1>1, <1>2 DEF Row
<1> HIDE DEF m, child
<1>5. /\ Len(rows') = Len(rows) + 1 /\ rows'[Len(rows) + 1] = child
      /\ \A i \in 1..Len(rows) : rows'[i] = IF i = p THEN m ELSE rows[i]
  BY <1>1, <1>2, <1>3
<1> HIDE DEF p
<1>6. \A i \in 1..Len(rows) :
        rows'[i].status = rows[i].status /\ rows'[i].parent = rows[i].parent
  BY <1>4, <1>5
<1>7. ASSUME ~overlapped PROVE ActiveAbove(rows')
  <2>1. ActiveAbove(rows) /\ rows[p].status = "ACTIVE"
    BY <1>7 DEF Orderly, JobFits, DelegateCommit, Id, p
  <2>2. ASSUME NEW i \in 1..Len(rows'), rows'[i].status = "ACTIVE", rows'[i].parent # 0
        PROVE  rows'[rows'[i].parent].status = "ACTIVE"
    <3>1. CASE i = Len(rows) + 1
      BY <1>1, <1>2, <1>3, <1>5, <1>6, <2>1, <3>1
    <3>2. CASE i # Len(rows) + 1
      <4>1. i \in 1..Len(rows)
        BY <1>1, <1>5, <3>2
      <4>2. /\ rows[i].parent \in 1..Len(rows) /\ rows'[i].parent = rows[i].parent
            /\ rows[i].status = "ACTIVE"
        BY <1>1, <1>6, <2>2, <4>1
      <4> QED BY <1>6, <2>1, <4>1, <4>2 DEF ActiveAbove
    <3> QED BY <3>1, <3>2
  <2> QED BY <2>2 DEF ActiveAbove
<1> QED BY <1>2, <1>7, EndOrderly

(* A cascade leaves no active mandate below those it has put to rest, and an *)
(* activation finds the parent active.                                     *)
LEMMA StatusOrderly ==
  ASSUME TreeInv, Orderly, NEW s \in Sessions, StatusCommit(s)
  PROVE  Orderly'
<1> DEFINE job == work[s]
<1>1. /\ Ids = 1..Len(rows) /\ Len(rows) \in Nat
      /\ \A i \in 1..Len(rows) : rows[i] \in Row /\ rows[i].parent \in 0..(i - 1)
  BY RowsOK, SoundParents DEF TreeInv
<1>2. /\ job.call \in {"cascade", "activate"} /\ job.step = "commit" /\ job.step # "idle"
      /\ job.id \in 1..Len(rows) /\ job.visited \subseteq 1..Len(rows) /\ End(s)
  BY <1>1, JobAt DEF StatusCommit, Step, Id
<1>3. rows' = [i \in 1..Len(rows) |-> IF i \in job.writes
                                     THEN [rows[i] EXCEPT !.status = job.target] ELSE rows[i]]
  BY <1>1 DEF StatusCommit
<1>4. Len(rows') = Len(rows)
  <2>1. rows' \in Seq(Row)
    BY StatusKeeps DEF Keeps, Sound
  <2>2. DOMAIN rows' = 1..Len(rows') /\ Len(rows') \in Nat
    BY <2>1
  <2> QED BY <1>1, <1>3, <2>2
<1>5. ASSUME NEW i \in 1..Len(rows)
      PROVE  /\ rows'[i].parent = rows[i].parent
             /\ rows'[i].status = IF i \in job.writes THEN job.target ELSE rows[i].status
  <2>1. rows[i] \in Row
    BY <1>1
  <2>2. rows'[i] = IF i \in job.writes THEN [rows[i] EXCEPT !.status = job.target] ELSE rows[i]
    BY <1>3
  <2> QED BY <2>1, <2>2 DEF Row
<1>6. ASSUME ~overlapped PROVE ActiveAbove(rows')
  <2>1. ActiveAbove(rows) /\ JobFits(job, rows)
    BY <1>6 DEF Orderly
  <2> SUFFICES ASSUME NEW i \in 1..Len(rows'), rows'[i].status = "ACTIVE", rows'[i].parent # 0
               PROVE  rows'[rows'[i].parent].status = "ACTIVE"
    BY DEF ActiveAbove
  <2> DEFINE p == rows[i].parent
  <2>2. i \in 1..Len(rows) /\ rows'[i].parent = p
    BY <1>4, <1>5
  <2>3. p \in 1..Len(rows)
    BY <1>1, <2>2
  <2>4. rows'[p].status = IF p \in job.writes THEN job.target ELSE rows[p].status
    BY <1>5, <2>3
  <2>5. rows'[i].status = IF i \in job.writes THEN job.target ELSE rows[i].status
    BY <1>5, <2>2
  <2>6. rows[i].status = "ACTIVE" => rows[p].status = "ACTIVE"
    BY <2>1, <2>2, <2>3 DEF ActiveAbove
  <2>7. CASE job.call = "cascade"
    <3>1. CascadeFits(job, rows)
      BY <2>1, <2>7 DEF JobFits
    <3>2. i \notin job.visited /\ rows[i].status = "ACTIVE"
      BY <2>5, <3>1 DEF CascadeFits
    <3>3. p \notin job.visited
      BY <1>2, <2>2, <3>1, <3>2 DEF CascadeFits
    <3> QED BY <2>2, <2>4, <2>6, <3>1, <3>2, <3>3 DEF CascadeFits
  <2>8. CASE job.call = "activate"
    <3>1. ActivateFits(job, rows)
      BY <2>1, <2>8 DEF JobFits
    <3>2. rows[p].status = "ACTIVE"
      <4>1. CASE i \in job.writes
        <5>1. i = job.id
          BY <3>1, <4>1 DEF ActivateFits
        <5> QED BY <1>2, <2>2, <2>3, <3>1, <5>1 DEF ActivateFits
      <4>2. CASE i \notin job.writes
        BY <2>5, <2>6, <4>2
      <4> QED BY <4>1, <4>2
    <3> QED BY <2>2, <2>4, <3>1, <3>2 DEF ActivateFits
  <2> QED BY <1>2, <2>7, <2>8
<1> QED BY <1>2, <1>6, EndOrderly DEF Step

(* A cascade that opens has visited one mandate and is about to list its    *)
(* children.                                                                *)
LEMMA CascadeOpenOrderly ==
  ASSUME TreeInv, Orderly, NEW s \in Sessions, NEW i \in Ids,
         NEW target \in {"SUSPENDED", "REVOKED"}, CascadeOpen(s, i, target)
  PROVE  Orderly'
<1> DEFINE job == [NoWork EXCEPT !.call = "cascade", !.target = target]
           next == Visit(job, i)
<1>1. /\ job \in Work /\ job.call = "cascade" /\ job.visited = {} /\ job.todo = {}
      /\ job.writes = {} /\ job.target = target
  BY DEF NoWork, Work, AllCalls
<1>2. Begin(s, next) /\ rows' = rows
  BY DEF CascadeOpen
<1> HIDE DEF job
<1>3. next \in Work
  BY <1>1, VisitOK
<1>4. /\ next.call = "cascade" /\ next.target = target /\ next.step = "list" /\ next.id = i
      /\ next.visited = {i} /\ next.todo = {}
      /\ next.writes = IF rows[i].status # target THEN {i} ELSE {}
  BY <1>1 DEF Visit, Work
<1> HIDE DEF next
<1>5. CascadeFits(next, rows)
  BY <1>4 DEF CascadeFits
<1>6. JobFits(next, rows)
  BY <1>4, <1>5 DEF JobFits
<1> QED BY <1>2, <1>3, <1>6, BeginOrderly

(* A cascade that has listed the children of a mandate misses none of them. *)
LEMMA CascadeListOrderly ==
  ASSUME TreeInv, Orderly, NEW s \in Sessions, CascadeList(s)
  PROVE  Orderly'
<1> DEFINE todo == work[s].todo \cup Children(Id(s))
           step == IF todo = {} THEN "commit" ELSE "visit"
           job == [work[s] EXCEPT !.todo = todo, !.step = step]
<1>1. work[s] \in Work /\ JobOK(work[s], rows) /\ work[s].step = "list"
  BY JobAt DEF CascadeList, Step
<1>2. Ids = 1..Len(rows) /\ Len(rows) \in Nat
  BY RowsOK
<1>3. todo \subseteq Nat /\ \A j \in 1..Len(rows) : rows[j].parent = work[s].id => j \in todo
  BY <1>2, JobAt DEF Children, Id
<1>4. work' = [work EXCEPT ![s] = job] /\ UNCHANGED <<rows, now, overlapped>>
  BY DEF CascadeList
<1>5. step \in {"commit", "visit"} /\ (step = "commit" => todo = {}) /\ work[s].todo \subseteq todo
  OBVIOUS
<1> HIDE DEF todo, step
<1>6. job \in Work
  <2>1. todo \in SUBSET Nat /\ work[s] \in Work
    BY <1>1, <1>3
  <2> QED BY <1>5, <2>1 DEF Work
<1>7. /\ job.todo = todo /\ job.step = step /\ job.id = work[s].id /\ job.call = work[s].call
      /\ job.visited = work[s].visited /\ job.writes = work[s].writes
      /\ job.target = work[s].target
  BY <1>1 DEF Work
<1> HIDE DEF job
<1>8. work[s].call = "cascade"
  BY <1>1 DEF JobOK
<1>9. ASSUME ~overlapped PROVE JobFits(job, rows)
  <2>1. CascadeFits(work[s], rows)
    BY <1>8, <1>9 DEF Orderly, JobFits
  <2>2. CascadeFits(job, rows)
    BY <1>1, <1>3, <1>5, <1>7, <2>1 DEF CascadeFits
  <2> QED BY <1>7, <1>8, <2>2 DEF JobFits
<1>10. Step(s) # "idle"
  BY <1>1 DEF Step
<1> QED BY <1>4, <1>6, <1>9, <1>10, ContinueOrderly

(* A visited mandate leaves the queue and is written unless it has the      *)
(* status.                                                                  *)
LEMMA CascadeVisitOrderly ==
  ASSUME TreeInv, Orderly, NEW s \in Sessions, CascadeVisit(s)
  PROVE  Orderly'
<1>1. PICK i \in work[s].todo : work' = [work EXCEPT ![s] = Visit(work[s], i)]
  BY DEF CascadeVisit
<1>2. /\ work[s] \in Work /\ work[s].call = "cascade" /\ work[s].step = "visit" /\ i \in Ids
      /\ work[s].todo \subseteq Ids /\ work[s].visited \subseteq Ids
  BY <1>1, JobAt DEF CascadeVisit, JobOK, Step
<1> DEFINE job == work[s]
           next == Visit(job, i)
<1>3. next \in Work
  BY <1>2, VisitOK
<1>4. /\ next.call = "cascade" /\ next.target = job.target /\ next.step = "list" /\ next.id = i
      /\ next.visited = job.visited \cup {i} /\ next.todo = job.todo \ {i}
      /\ next.writes = IF rows[i].status # job.target THEN job.writes \cup {i} ELSE job.writes
  BY <1>2 DEF Visit, Work
<1> HIDE DEF next
<1>5. ASSUME ~overlapped PROVE JobFits(next, rows)
  <2>1. CascadeFits(job, rows)
    BY <1>2, <1>5 DEF Orderly, JobFits
  <2>2. next.writes = {k \in next.visited : rows[k].status # next.target}
    BY <1>4, <2>1 DEF CascadeFits
  <2>3. \A j \in 1..Len(rows) :
          rows[j].parent \in next.visited /\ rows[j].parent # i => j \in next.visited \cup next.todo
    BY <1>2, <1>4, <2>1 DEF CascadeFits
  <2>4. CascadeFits(next, rows)
    BY <1>4, <2>1, <2>2, <2>3 DEF CascadeFits
  <2> QED BY <1>4, <2>4 DEF JobFits
<1>6. Step(s) # "idle" /\ rows' = rows /\ UNCHANGED overlapped
  BY DEF CascadeVisit
<1> QED BY <1>1, <1>3, <1>5, <1>6, ContinueOrderly DEF next

(* An activation of a root mandate needs no look at a parent.               *)
LEMMA ActivateOpenOrderly ==
  ASSUME TreeInv, Orderly, NEW s \in Sessions, NEW i \in Ids, ActivateOpen(s, i)
  PROVE  Orderly'
<1> DEFINE writes == IF rows[i].status # "ACTIVE" THEN {i} ELSE {}
           step == IF rows[i].parent = 0 THEN "commit" ELSE "parent"
           job == [NoWork EXCEPT !.call = "activate", !.id = i, !.visited = {i},
                                 !.writes = writes, !.step = step]
<1>1. i \in Nat
  BY RowsOK
<1>2. /\ writes \subseteq {i} /\ step \in {"commit", "parent"}
      /\ step = "commit" => rows[i].parent = 0
  OBVIOUS
<1>3. Begin(s, job) /\ rows' = rows
  BY DEF ActivateOpen
<1> HIDE DEF writes, step
<1>4. job \in Work
  <2>1. writes \subseteq Nat
    BY <1>1, <1>2
  <2> QED BY <1>1, <1>2, <2>1, NoWorkOK DEF Work, AllCalls
<1>5. /\ job.id = i /\ job.call = "activate" /\ job.step = step /\ job.target = "ACTIVE"
      /\ job.writes = writes
  BY DEF NoWork
<1> HIDE DEF job
<1>6. JobFits(job, rows)
  BY <1>2, <1>5 DEF JobFits, ActivateFits
<1> QED BY <1>3, <1>4, <1>6, BeginOrderly

(* An activation goes on only below an active parent.                       *)
LEMMA ActivateCheckOrderly ==
  ASSUME TreeInv, Orderly, NEW s \in Sessions, ActivateCheck(s)
  PROVE  Orderly'
<1>1. Step(s) = "parent" /\ Step(s) # "idle" /\ rows' = rows
  BY DEF ActivateCheck
<1>2. CASE /\ rows[rows[Id(s)].parent].status = "ACTIVE"
           /\ Goto(s, "commit") /\ UNCHANGED <<now, overlapped>>
  <2> DEFINE job == [work[s] EXCEPT !.step = "commit"]
  <2>1. work[s] \in Work /\ work[s].call = "activate"
    BY <1>1, JobAt DEF JobOK, Step
  <2>2. work' = [work EXCEPT ![s] = job]
    BY <1>2 DEF Goto
  <2>3. job \in Work
    BY <2>1 DEF Work
  <2>4. /\ job.id = work[s].id /\ job.call = "activate" /\ job.target = work[s].target
        /\ job.writes = work[s].writes
    BY <2>1 DEF Work
  <2> HIDE DEF job
  <2>5. ASSUME ~overlapped PROVE JobFits(job, rows)
    <3>1. ActivateFits(work[s], rows)
      BY <2>1, <2>5 DEF Orderly, JobFits
    <3>2. ActivateFits(job, rows)
      BY <1>2, <2>4, <3>1 DEF ActivateFits, Id
    <3> QED BY <2>4, <3>2 DEF JobFits
  <2> QED BY <1>1, <1>2, <2>2, <2>3, <2>5, ContinueOrderly
<1>3. CASE End(s)
  BY <1>1, <1>3, EndOrderly DEF Orderly
<1> QED BY <1>2, <1>3 DEF ActivateCheck

(* The empty table is in order.                                             *)
LEMMA OrderlyInit == Init => Orderly
BY DEF Init, Orderly, ActiveAbove, NoWork, Step, JobFits

(* Every step keeps the order, as long as no two handlers overlap.          *)
LEMMA OrderlyNext == TreeInv /\ Orderly /\ [Next]_vars => Orderly'
<1> SUFFICES ASSUME TreeInv, Orderly, [Next]_vars PROVE Orderly'
  OBVIOUS
<1>1. ASSUME NEW terms \in RootTerms, CreateMandate(terms) PROVE Orderly'
  BY <1>1, CreateQuiet, QuietOrderly DEF CreateMandate
<1>2. ASSUME NEW s \in Sessions, NEW i \in Ids, NEW terms \in ChildTerms,
             DelegateOpen(s, i, terms)
      PROVE  Orderly'
  <2> DEFINE job == [NoWork EXCEPT !.call = "delegate", !.step = "commit", !.id = i,
                                   !.view = rows[i], !.want = terms]
  <2>1. rows[i] \in Row /\ i \in Nat /\ "delegate" \in AllCalls /\ "commit" \in {"commit", "charge"}
    BY RowsOK DEF AllCalls
  <2>2. job \in Work
    BY <1>2, <2>1, OpenedWork, Zenon
  <2>3. job.call = "delegate" /\ job.id = i
    BY DEF NoWork
  <2>4. Begin(s, job) /\ rows' = rows /\ rows[i].status = "ACTIVE"
    BY <1>2 DEF DelegateOpen
  <2> HIDE DEF job
  <2>5. JobFits(job, rows)
    BY <2>3, <2>4 DEF JobFits
  <2> QED BY <2>2, <2>4, <2>5, BeginOrderly
<1>3. ASSUME NEW s \in Sessions, NEW i \in Ids, NEW target \in {"SUSPENDED", "REVOKED"},
             CascadeOpen(s, i, target)
      PROVE  Orderly'
  BY <1>3, CascadeOpenOrderly
<1>4. ASSUME NEW s \in Sessions, NEW i \in Ids, ActivateOpen(s, i) PROVE Orderly'
  BY <1>4, ActivateOpenOrderly
<1>5. ASSUME NEW s \in Sessions, NEW i \in Ids, NEW op \in Requests, McpOpen(s, i, op)
      PROVE  Orderly'
  <2> DEFINE job == [NoWork EXCEPT !.call = "mcp", !.step = "charge", !.id = i,
                                   !.view = rows[i], !.want = op]
  <2>1. rows[i] \in Row /\ i \in Nat /\ "mcp" \in AllCalls /\ "charge" \in {"commit", "charge"}
    BY RowsOK DEF AllCalls
  <2>2. job \in Work
    BY <1>5, <2>1, OpenedWork, Zenon
  <2>3. job.call = "mcp"
    BY DEF NoWork
  <2>4. Begin(s, job) /\ rows' = rows
    BY <1>5 DEF McpOpen
  <2> HIDE DEF job
  <2>5. JobFits(job, rows)
    BY <2>3 DEF JobFits
  <2> QED BY <2>2, <2>4, <2>5, BeginOrderly
<1>6. ASSUME NEW s \in Sessions, DelegateCommit(s) PROVE Orderly'
  BY <1>6, DelegateOrderly
<1>7. ASSUME NEW s \in Sessions, CascadeList(s) PROVE Orderly'
  BY <1>7, CascadeListOrderly
<1>8. ASSUME NEW s \in Sessions, CascadeVisit(s) PROVE Orderly'
  BY <1>8, CascadeVisitOrderly
<1>9. ASSUME NEW s \in Sessions, ActivateCheck(s) PROVE Orderly'
  BY <1>9, ActivateCheckOrderly
<1>10. ASSUME NEW s \in Sessions, StatusCommit(s) PROVE Orderly'
  BY <1>10, StatusOrderly
<1>11. ASSUME NEW s \in Sessions, McpCharge(s) PROVE Orderly'
  BY <1>11, McpCharges, ChargedQuiet, UnchangedQuiet, QuietEndOrderly
<1>12. ASSUME NEW s \in Sessions, NEW i \in Ids, NEW op \in Requests, ReviewOpen(s, i, op)
       PROVE  Orderly'
  BY <1>12, ReadStageOrderly DEF ReviewOpen
<1>13. ASSUME NEW s \in Sessions, NEW i \in Ids, NEW op \in Requests, WebhookOpen(s, i, op)
       PROVE  Orderly'
  BY <1>13, ReadStageOrderly DEF WebhookOpen
<1>14. ASSUME NEW s \in Sessions, ApproveCommit(s) \/ RejectCommit(s) \/ WebhookCommit(s)
       PROVE  Orderly'
  BY <1>14, ActCharges, ChargedQuiet, QuietEndOrderly
<1>15. ASSUME NEW i \in Ids, NEW op \in Requests, Charge(i, op) \/ Settle(i, op) PROVE Orderly'
  BY <1>15, DirectCharges, ChargedQuiet, QuietOrderly
<1>16. CASE Tick
  BY <1>16, UnchangedQuiet, QuietOrderly DEF Tick
<1>17. CASE UNCHANGED vars
  BY <1>17, UnchangedQuiet, QuietOrderly DEF vars
<1> QED
  BY <1>1, <1>2, <1>3, <1>4, <1>5, <1>6, <1>7, <1>8, <1>9, <1>10, <1>11, <1>12, <1>13,
     <1>14, <1>15, <1>16, <1>17 DEF Next

(* As long as the handlers that change the tree run one at a time, the dry  *)
(* run, which looks at the ancestors, and the request pipeline, which does  *)
(* not, decide alike (policies.py, operations.py, engine.py).              *)
THEOREM TreeDryRunAgrees == Spec => []DryRunAgrees
<1>1. TreeInv /\ Orderly => DryRunAgrees
  <2> SUFFICES ASSUME TreeInv, Orderly, ~overlapped, NEW i \in Ids, NEW op \in Requests,
                      NEW agentStatus \in AgentStatus, NEW hasQuota \in BOOLEAN
               PROVE  Evaluate(agentStatus, rows[i], op, now,
                               {rows[j].status : j \in Ancestors(i)}, TRUE, hasQuota)
                        = Evaluate(agentStatus, rows[i], op, now, {}, FALSE, hasQuota)
    BY DEF DryRunAgrees
  <2> DEFINE above == {rows[j].status : j \in Ancestors(i)}
  <2>1. Sound(rows) /\ ActiveAbove(rows) /\ i \in 1..Len(rows)
    BY RowsOK DEF TreeInv, Orderly
  <2>2. CASE rows[i].status = "ACTIVE"
    <3>1. \A j \in Ancestors(i) : rows[j].status = "ACTIVE"
      BY <2>1, <2>2, LinesActive DEF Ancestors, LineOf
    <3>2. HierarchicalDelegationRule(above, TRUE) = HierarchicalDelegationRule({}, FALSE)
      BY <3>1 DEF HierarchicalDelegationRule, DenyIf
    <3> HIDE DEF above
    <3>3. Evaluate(agentStatus, rows[i], op, now, above, TRUE, hasQuota)
            = Evaluate(agentStatus, rows[i], op, now, {}, FALSE, hasQuota)
      BY <3>2 DEF Evaluate
    <3> QED BY <3>3 DEF above
  <2>3. CASE rows[i].status # "ACTIVE"
    <3>1. MandateLifecycleRule(rows[i], now) = "DENY"
      BY <2>3 DEF MandateLifecycleRule, DenyIf
    <3> HIDE DEF above
    <3>2. /\ Evaluate(agentStatus, rows[i], op, now, above, TRUE, hasQuota) = "DENY"
          /\ Evaluate(agentStatus, rows[i], op, now, {}, FALSE, hasQuota) = "DENY"
      BY <3>1 DEF Evaluate
    <3> QED BY <3>2 DEF above
  <2> QED BY <2>2, <2>3
<1>2. Spec => []Orderly
  BY OrderlyInit, TreeInvariant, OrderlyNext, PTL DEF Spec
<1> QED BY <1>1, <1>2, TreeInvariant, PTL
------------------------------------------------------------------------------
(* What the children of a mandate were given.                              *)

(* The units given to the children of i in a table. *)
ChildrenIn(table, i) == {j \in 1..Len(table) : table[j].parent = i}
UnitsOf(table, j) == {j} \X (1..table[j].limit)
Shares(table, i) == UNION {UnitsOf(table, j) : j \in ChildrenIn(table, i)}

(* The allocation of i is what its children were given, within its limit. *)
Accounted(table, i) ==
  table[i].allocated = Cardinality(Shares(table, i)) /\ table[i].allocated <= table[i].limit

(* The property, row by row. *)
LEMMA AccountedRows ==
  AllocationIsSumOfChildren <=> \A i \in Ids : Accounted(rows, i)
BY DEF AllocationIsSumOfChildren, Accounted, Delegated, Children, Ids, Shares, ChildrenIn, UnitsOf

(* The units of a row are as many as its limit.                            *)
LEMMA UnitsCount ==
  ASSUME NEW table \in Seq(Row), NEW j \in 1..Len(table)
  PROVE  /\ IsFiniteSet(UnitsOf(table, j))
         /\ Cardinality(UnitsOf(table, j)) = table[j].limit
<1> DEFINE n == table[j].limit
<1>1. table[j] \in Row
  OBVIOUS
<1>2. n \in Nat
  BY <1>1 DEF Row
<1> HIDE DEF n
<1>3. IsFiniteSet({j}) /\ Cardinality({j}) = 1
  BY FS_Singleton
<1>4. IsFiniteSet(1..n) /\ Cardinality(1..n) = n
  BY <1>2, FS_Interval
<1>5. IsFiniteSet({j} \X (1..n)) /\ Cardinality({j} \X (1..n)) = 1 * n
  BY <1>3, <1>4, FS_Product
<1> QED BY <1>2, <1>5 DEF UnitsOf, n

(* A mandate gives away finitely many units.                               *)
LEMMA SharesFinite ==
  ASSUME NEW table \in Seq(Row), NEW i
  PROVE  IsFiniteSet(Shares(table, i)) /\ Cardinality(Shares(table, i)) \in Nat
<1> DEFINE S == ChildrenIn(table, i)
           T == {UnitsOf(table, j) : j \in S}
           f == [j \in S |-> UnitsOf(table, j)]
<1>1. IsFiniteSet(1..Len(table))
  BY FS_Interval
<1>2. S \subseteq 1..Len(table)
  BY DEF ChildrenIn
<1>3. IsFiniteSet(S)
  BY <1>1, <1>2, FS_Subset
<1>4. f \in Surjection(S, T)
  BY DEF Surjection
<1>5. IsFiniteSet(T)
  BY <1>3, <1>4, FS_Surjection
<1>6. \A U \in T : IsFiniteSet(U)
  BY <1>2, UnitsCount
<1>7. IsFiniteSet(UNION T)
  BY <1>5, <1>6, FS_UNION
<1> QED BY <1>7, FS_CardinalityType DEF Shares

(* Rows that keep their parents and their limits keep their shares.         *)
LEMMA SharesKept ==
  ASSUME NEW table, NEW other, Len(other) = Len(table), NEW i,
         \A j \in 1..Len(table) :
           other[j].parent = table[j].parent /\ other[j].limit = table[j].limit
  PROVE  Shares(other, i) = Shares(table, i)
BY DEF Shares, ChildrenIn, UnitsOf

(* A new row adds its limit to the shares of its parent, and nothing to the *)
(* shares of the others.                                                   *)
LEMMA SharesGrow ==
  ASSUME NEW table \in Seq(Row), NEW child \in Row, NEW i
  PROVE  Cardinality(Shares(Append(table, child), i))
           = Cardinality(Shares(table, i)) + (IF child.parent = i THEN child.limit ELSE 0)
<1> DEFINE other == Append(table, child)
           n == Len(table) + 1
<1>1. /\ other \in Seq(Row) /\ Len(other) = n /\ other[n] = child /\ Len(table) \in Nat
      /\ \A j \in 1..Len(table) : other[j] = table[j]
  OBVIOUS
<1> HIDE DEF other
<1>2. /\ IsFiniteSet(Shares(table, i)) /\ Cardinality(Shares(table, i)) \in Nat
      /\ IsFiniteSet(UnitsOf(other, n)) /\ Cardinality(UnitsOf(other, n)) = child.limit
      /\ child.limit \in Nat
  <2>1. child.limit \in Nat /\ n \in 1..Len(other)
    BY <1>1 DEF Row
  <2>2. IsFiniteSet(UnitsOf(other, n)) /\ Cardinality(UnitsOf(other, n)) = other[n].limit
    BY <1>1, <2>1, UnitsCount
  <2> QED BY <1>1, <2>1, <2>2, SharesFinite
<1>3. \A j \in 1..Len(table) : UnitsOf(other, j) = UnitsOf(table, j)
  BY <1>1 DEF UnitsOf
<1>4. CASE child.parent = i
  <2>1. ChildrenIn(other, i) = ChildrenIn(table, i) \cup {n}
    BY <1>1, <1>4 DEF ChildrenIn
  <2>2. Shares(other, i) = Shares(table, i) \cup UnitsOf(other, n)
    BY <1>3, <2>1 DEF Shares, ChildrenIn
  <2>3. Shares(table, i) \cap UnitsOf(other, n) = {}
    BY <1>1 DEF Shares, ChildrenIn, UnitsOf
  <2>4. Cardinality(Shares(table, i) \cap UnitsOf(other, n)) = 0
    BY <2>3, FS_EmptySet
  <2>5. Cardinality(Shares(table, i) \cup UnitsOf(other, n))
          = Cardinality(Shares(table, i)) + Cardinality(UnitsOf(other, n))
              - Cardinality(Shares(table, i) \cap UnitsOf(other, n))
    BY <1>2, FS_Union
  <2>6. Cardinality(Shares(other, i)) = Cardinality(Shares(table, i)) + child.limit
    BY <1>2, <2>2, <2>4, <2>5
  <2> QED BY <1>4, <2>6 DEF other
<1>5. CASE child.parent # i
  <2>1. ChildrenIn(other, i) = ChildrenIn(table, i)
    BY <1>1, <1>5 DEF ChildrenIn
  <2>2. Shares(other, i) = Shares(table, i)
    BY <1>3, <2>1 DEF Shares, ChildrenIn
  <2> QED BY <1>2, <1>5, <2>2 DEF other
<1> QED BY <1>4, <1>5

(* The inductive invariant of allocations: the row that a delegation has    *)
(* read is still as it was read, for no other delegation holds it.          *)
AllocationInv ==
  /\ \A i \in Ids : Accounted(rows, i)
  /\ \A s \in Sessions : work[s].call = "delegate" =>
       /\ work[s].view.allocated = rows[Id(s)].allocated
       /\ RowFree(Id(s), Sessions \ {s})

(* A step that gives no one anything, and one that opens no delegation.     *)
KeepsShares ==
  /\ Len(rows') = Len(rows)
  /\ \A i \in Ids : /\ rows'[i].parent = rows[i].parent /\ rows'[i].limit = rows[i].limit
                    /\ rows'[i].allocated = rows[i].allocated
KeepsDelegations ==
  \A s \in Sessions : work'[s].call = "delegate" => work'[s] = work[s]

(* The delegations that stay open hold rows that no one has touched.        *)
LEMMA HeldRows ==
  ASSUME TreeInv, AllocationInv, KeepsDelegations,
         \A t \in Sessions : work'[t].call = "delegate"
                               => rows'[Id(t)].allocated = rows[Id(t)].allocated,
         NEW s \in Sessions, work'[s].call = "delegate"
  PROVE  /\ work'[s].view.allocated = rows'[Id(s)'].allocated
         /\ RowFree(Id(s), Sessions \ {s})'
<1>1. work'[s] = work[s] /\ work[s].call = "delegate" /\ Id(s)' = Id(s)
  BY DEF KeepsDelegations, Id
<1>2. work[s].view.allocated = rows[Id(s)].allocated /\ RowFree(Id(s), Sessions \ {s})
  BY <1>1 DEF AllocationInv
<1>3. ASSUME NEW t \in Sessions \ {s} PROVE work'[t].call # "delegate" \/ Id(t)' # Id(s)'
  <2>1. work[t].call # "delegate" \/ Id(t) # Id(s)
    BY <1>2 DEF RowFree
  <2>2. work'[t].call = "delegate" => work'[t] = work[t]
    BY DEF KeepsDelegations
  <2> QED BY <1>1, <2>1, <2>2 DEF Id
<1> QED BY <1>1, <1>2, <1>3 DEF RowFree

(* Such a step keeps the accounts. *)
LEMMA StillAccounted ==
  ASSUME TreeInv, AllocationInv, KeepsShares, KeepsDelegations
  PROVE  AllocationInv'
<1>1. Ids = 1..Len(rows) /\ Ids' = Ids
  BY DEF Ids, KeepsShares
<1>2. ASSUME NEW i \in Ids PROVE Accounted(rows', i)
  <2>1. Accounted(rows, i)
    BY DEF AllocationInv
  <2>2. Shares(rows', i) = Shares(rows, i)
    BY <1>1, SharesKept DEF KeepsShares
  <2> QED BY <2>1, <2>2 DEF Accounted, KeepsShares
<1>3. ASSUME NEW s \in Sessions, work'[s].call = "delegate"
      PROVE  rows'[Id(s)].allocated = rows[Id(s)].allocated
  <2>1. work[s].call = "delegate"
    BY <1>3 DEF KeepsDelegations
  <2>2. Id(s) \in Ids
    BY <2>1, JobAt DEF JobOK, Step
  <2> QED BY <2>2 DEF KeepsShares
<1>4. ASSUME NEW s \in Sessions, work'[s].call = "delegate"
      PROVE  /\ work'[s].view.allocated = rows'[Id(s)'].allocated
             /\ RowFree(Id(s), Sessions \ {s})'
  BY <1>3, <1>4, HeldRows
<1> QED BY <1>1, <1>2, <1>4 DEF AllocationInv, Id

(* One row is updated in what it has spent or on hold.                      *)
LEMMA UpdateKeepsShares ==
  ASSUME TreeInv, NEW i \in Ids, NEW r, rows' = [rows EXCEPT ![i] = r],
         r.parent = rows[i].parent, r.limit = rows[i].limit, r.allocated = rows[i].allocated
  PROVE  KeepsShares
<1>1. rows \in Seq(Row) /\ i \in 1..Len(rows) /\ Ids = 1..Len(rows)
  BY RowsOK
<1>2. Len(rows') = Len(rows) /\ \A j \in Ids : rows'[j] = IF j = i THEN r ELSE rows[j]
  BY <1>1
<1> QED BY <1>2 DEF KeepsShares

(* A step of a session that is not about a delegation.                      *)
LEMMA MoveKeepsDelegations ==
  ASSUME TreeInv, NEW s \in Sessions, NEW job, job.call # "delegate",
         work' = [work EXCEPT ![s] = job]
  PROVE  KeepsDelegations
BY DEF KeepsDelegations, TreeInv

(* A session ends.                                                          *)
LEMMA EndKeepsDelegations ==
  ASSUME TreeInv, NEW s \in Sessions, End(s)
  PROVE  KeepsDelegations
<1>1. work' = [work EXCEPT ![s] = NoWork] /\ NoWork.call # "delegate"
  BY DEF End, NoWork
<1> QED BY <1>1, MoveKeepsDelegations

(* Charging gives nothing to the children.                                  *)
LEMMA ChargedKeepsShares ==
  ASSUME TreeInv, NEW i \in Ids, Charged(i)
  PROVE  KeepsShares
<1>1. PICK r : rows' = [rows EXCEPT ![i] = r] /\ ChargedRow(rows[i], r)
  BY DEF Charged
<1>2. r.parent = rows[i].parent /\ r.limit = rows[i].limit /\ r.allocated = rows[i].allocated
  BY <1>1 DEF ChargedRow, SameTerms
<1> QED BY <1>1, <1>2, UpdateKeepsShares

(* A mandate that was not issued yet has no children. *)
LEMMA NoSharesYet ==
  ASSUME NEW table, Sound(table)
  PROVE  Cardinality(Shares(table, Len(table) + 1)) = 0
<1>1. Len(table) \in Nat /\ \A j \in 1..Len(table) : table[j].parent \in 0..(j - 1)
  BY SoundParents
<1>2. \A j \in 1..Len(table) : table[j].parent # Len(table) + 1
  BY <1>1
<1>3. Shares(table, Len(table) + 1) = {}
  BY <1>2 DEF Shares, ChildrenIn
<1> QED BY <1>3, FS_EmptySet

(* A root mandate is a child of none, and has given nothing away.           *)
LEMMA CreateAccounts ==
  ASSUME TreeInv, AllocationInv, NEW terms \in RootTerms, CreateMandate(terms)
  PROVE  AllocationInv'
<1> DEFINE r == NewRow(terms, 0, 0)
           n == Len(rows) + 1
<1>1. terms \in Terms
  BY TreeConstants
<1>2. r \in Row /\ r.parent = 0 /\ r.allocated = 0 /\ r.limit \in Nat
  BY <1>1 DEF NewRow, Row, Terms, MandateStatus, Stages
<1>3. rows' = Append(rows, r) /\ work' = work
  BY DEF CreateMandate
<1> HIDE DEF r
<1>4. rows \in Seq(Row) /\ Len(rows) \in Nat /\ Ids = 1..Len(rows) /\ Sound(rows)
  BY RowsOK DEF TreeInv
<1>5. /\ Len(rows') = n /\ rows'[n] = r /\ Ids' = 1..n
      /\ \A i \in 1..Len(rows) : rows'[i] = rows[i]
  BY <1>2, <1>3, <1>4 DEF Ids
<1>6. \A i \in 1..n : Cardinality(Shares(rows', i)) = Cardinality(Shares(rows, i))
  <2>1. ASSUME NEW i \in 1..n
        PROVE  Cardinality(Shares(rows', i)) = Cardinality(Shares(rows, i)) + 0
    BY <1>2, <1>3, <1>4, SharesGrow
  <2> QED BY <1>4, <2>1, SharesFinite
<1>7. ASSUME NEW i \in 1..n PROVE Accounted(rows', i)
  <2>1. CASE i = n
    BY <1>2, <1>4, <1>5, <1>6, <2>1, NoSharesYet DEF Accounted
  <2>2. CASE i # n
    <3>1. i \in Ids /\ Accounted(rows, i)
      BY <1>4, <2>2 DEF AllocationInv
    <3> QED BY <1>4, <1>5, <1>6, <3>1 DEF Accounted
  <2> QED BY <2>1, <2>2
<1>8. KeepsDelegations
  BY <1>3 DEF KeepsDelegations
<1>9. ASSUME NEW t \in Sessions, work'[t].call = "delegate"
      PROVE  rows'[Id(t)].allocated = rows[Id(t)].allocated
  <2>1. Id(t) \in Ids
    BY <1>3, <1>9, JobAt DEF JobOK, Step
  <2> QED BY <1>4, <1>5, <2>1
<1>10. ASSUME NEW t \in Sessions, work'[t].call = "delegate"
       PROVE  /\ work'[t].view.allocated = rows'[Id(t)'].allocated
              /\ RowFree(Id(t), Sessions \ {t})'
  BY <1>8, <1>9, <1>10, HeldRows
<1> QED BY <1>5, <1>7, <1>10 DEF AllocationInv, Id

(* A delegation opens at a row that no other one holds.                     *)
LEMMA DelegateOpenAccounts ==
  ASSUME TreeInv, AllocationInv, NEW s \in Sessions, NEW p \in Ids, NEW terms \in ChildTerms,
         DelegateOpen(s, p, terms)
  PROVE  AllocationInv'
<1> DEFINE job == [NoWork EXCEPT !.call = "delegate", !.step = "commit", !.id = p,
                                 !.view = rows[p], !.want = terms]
<1>1. RowFree(p, Sessions \ {s}) /\ Begin(s, job) /\ rows' = rows
  BY DEF DelegateOpen
<1>2. job.call = "delegate" /\ job.id = p /\ job.view = rows[p]
  BY DEF NoWork
<1> HIDE DEF job
<1>3. work \in [Sessions -> Work] /\ work' = [work EXCEPT ![s] = job]
  BY <1>1 DEF Begin, TreeInv
<1>4. work'[s] = job /\ \A t \in Sessions \ {s} : work'[t] = work[t]
  BY <1>3
<1>5. ASSUME NEW t \in Sessions, work'[t].call = "delegate"
      PROVE  /\ work'[t].view.allocated = rows'[work'[t].id].allocated
             /\ \A u \in Sessions \ {t} : work'[u].call # "delegate" \/ work'[u].id # work'[t].id
  <2>1. CASE t = s
    BY <1>1, <1>2, <1>4, <2>1 DEF RowFree, Id
  <2>2. CASE t # s
    <3>1. work'[t] = work[t]
      BY <1>4, <2>2
    <3>2. /\ work[t].view.allocated = rows[work[t].id].allocated
          /\ \A u \in Sessions \ {t} : work[u].call # "delegate" \/ work[u].id # work[t].id
      BY <1>5, <3>1 DEF AllocationInv, RowFree, Id
    <3>3. work[t].id # p
      BY <1>1, <1>5, <2>2, <3>1 DEF RowFree, Id
    <3> QED BY <1>1, <1>2, <1>4, <3>1, <3>2, <3>3
  <2> QED BY <2>1, <2>2
<1>6. \A i \in Ids' : Accounted(rows', i)
  BY <1>1 DEF AllocationInv, Ids
<1> QED BY <1>5, <1>6 DEF AllocationInv, RowFree, Id

(* What is available is not given away yet.                                 *)
LEMMA AvailableIsLeft ==
  ASSUME NEW m \in Row, NEW n \in Nat \ {0}, n <= Available(m)
  PROVE  m.allocated + n <= m.limit
<1> DEFINE left == m.limit - (m.used + m.allocated)
<1>1. m.limit \in Nat /\ m.used \in Nat /\ m.allocated \in Nat
  BY DEF Row
<1>2. \E x \in {0, left} : \A y \in {0, left} : x >= y
  BY <1>1
<1>3. Available(m) \in {0, left}
  BY <1>2 DEF Available, Max
<1>4. n <= left
  BY <1>1, <1>3
<1> QED BY <1>1, <1>4

(* A delegation takes what it gives the child from what its parent has      *)
(* left, however long ago it has read the parent.                           *)
LEMMA DelegateAccounts ==
  ASSUME TreeInv, AllocationInv, NEW s \in Sessions, DelegateCommit(s)
  PROVE  AllocationInv'
<1> DEFINE parent == work[s].view
           terms == GrantedTerms(parent, work[s].want)
           i == Id(s)
           n == Len(rows) + 1
           child == NewRow(terms, i, ChildDepth(parent))
           spent == [rows[i] EXCEPT !.allocated = parent.allocated + terms.limit]
           charged == [rows EXCEPT ![i] = spent]
<1>1. work[s].call = "delegate" /\ JobOK(work[s], rows)
  BY JobAt DEF DelegateCommit
<1>2. /\ parent \in Row /\ SameTerms(rows[i], parent) /\ i \in Ids
      /\ work[s].want \in ChildTerms /\ ValidDelegation(parent, work[s].want)
  BY <1>1, JobAt DEF JobOK, Id, Step
<1>3. /\ rows \in Seq(Row) /\ Len(rows) \in Nat /\ Ids = 1..Len(rows) /\ Sound(rows)
      /\ rows[i] \in Row
  BY <1>2, RowsOK DEF TreeInv
<1>4. work[s].want \in Terms /\ terms.limit = work[s].want.limit
  BY <1>2, TreeConstants DEF GrantedTerms, Terms
<1>5. terms.limit \in Nat \ {0} /\ terms.limit <= Available(parent)
  BY <1>2, <1>4 DEF ValidDelegation, Terms
<1>6. child \in Row /\ child.parent = i /\ child.limit = terms.limit /\ child.allocated = 0
  BY <1>2, <1>3, ChildIsNarrower DEF NewRow
<1>7. rows' = Append(charged, child) /\ work' = [work EXCEPT ![s] = NoWork]
  BY DEF DelegateCommit, End
<1>8. parent.allocated = rows[i].allocated /\ RowFree(i, Sessions \ {s})
  BY <1>1 DEF AllocationInv
<1>9. parent.allocated + terms.limit <= parent.limit /\ parent.limit = rows[i].limit
  BY <1>2, <1>5, AvailableIsLeft DEF SameTerms
<1> HIDE DEF child, terms
<1>10. parent.allocated + terms.limit \in Nat
  <2>1. parent.allocated \in Nat
    BY <1>2 DEF Row
  <2> QED BY <1>5, <2>1
<1> HIDE DEF parent
<1>11. /\ spent \in Row /\ spent.parent = rows[i].parent /\ spent.limit = rows[i].limit
       /\ spent.allocated = rows[i].allocated + terms.limit
       /\ spent.allocated <= spent.limit
  BY <1>3, <1>8, <1>9, <1>10 DEF Row
<1> HIDE DEF spent
<1>12. /\ charged \in Seq(Row) /\ Len(charged) = Len(rows)
       /\ \A j \in 1..Len(rows) : charged[j] = IF j = i THEN spent ELSE rows[j]
  BY <1>2, <1>3, <1>11
<1> HIDE DEF charged
<1>13. /\ Len(rows') = n /\ rows'[n] = child /\ Ids' = 1..n
       /\ \A j \in 1..Len(rows) : rows'[j] = IF j = i THEN spent ELSE rows[j]
  BY <1>3, <1>6, <1>7, <1>12 DEF Ids
<1>14. ASSUME NEW k \in 1..n
       PROVE  Cardinality(Shares(rows', k))
                = Cardinality(Shares(rows, k)) + (IF i = k THEN terms.limit ELSE 0)
  <2>1. Shares(charged, k) = Shares(rows, k)
    BY <1>11, <1>12, SharesKept
  <2>2. Cardinality(Shares(Append(charged, child), k))
          = Cardinality(Shares(charged, k)) + (IF child.parent = k THEN child.limit ELSE 0)
    BY <1>6, <1>12, SharesGrow
  <2> QED BY <1>6, <1>7, <2>1, <2>2
<1>15. ASSUME NEW k \in 1..n PROVE Accounted(rows', k)
  <2>1. CASE k = n
    <3>1. Cardinality(Shares(rows, n)) = 0 /\ i # n
      BY <1>2, <1>3, NoSharesYet
    <3>2. Cardinality(Shares(rows', n)) = 0
      BY <1>14, <2>1, <3>1
    <3>3. child.allocated <= child.limit
      BY <1>5, <1>6
    <3> QED BY <1>6, <1>13, <2>1, <3>2, <3>3 DEF Accounted
  <2>2. CASE k # n
    <3>1. k \in Ids /\ Accounted(rows, k)
      BY <1>3, <2>2 DEF AllocationInv
    <3>2. CASE k = i
      BY <1>3, <1>11, <1>13, <1>14, <3>1, <3>2 DEF Accounted
    <3>3. CASE k # i
      <4>1. Cardinality(Shares(rows, k)) \in Nat
        BY <1>3, SharesFinite
      <4>2. Cardinality(Shares(rows', k)) = Cardinality(Shares(rows, k))
        BY <1>14, <3>3, <4>1
      <4> QED BY <1>3, <1>13, <3>1, <3>3, <4>2 DEF Accounted
    <3> QED BY <3>2, <3>3
  <2> QED BY <2>1, <2>2
<1>16. KeepsDelegations
  BY <1>7, MoveKeepsDelegations DEF NoWork
<1>17. ASSUME NEW t \in Sessions, work'[t].call = "delegate"
       PROVE  rows'[Id(t)].allocated = rows[Id(t)].allocated
  <2>1. t # s /\ work[t].call = "delegate"
    BY <1>7, <1>16, <1>17 DEF KeepsDelegations, NoWork, TreeInv
  <2>2. Id(t) \in Ids /\ Id(t) # i
    BY <1>8, <2>1, JobAt DEF JobOK, Step, RowFree
  <2> QED BY <1>3, <1>13, <2>2
<1>18. ASSUME NEW t \in Sessions, work'[t].call = "delegate"
       PROVE  /\ work'[t].view.allocated = rows'[Id(t)'].allocated
              /\ RowFree(Id(t), Sessions \ {t})'
  BY <1>16, <1>17, <1>18, HeldRows
<1> QED BY <1>13, <1>15, <1>18 DEF AllocationInv, Id

(* Writing statuses gives nothing to the children. *)
LEMMA StatusKeepsShares ==
  ASSUME TreeInv, NEW s \in Sessions, StatusCommit(s)
  PROVE  KeepsShares
<1>1. rows \in Seq(Row) /\ Len(rows) \in Nat /\ Ids = 1..Len(rows)
      /\ \A i \in Ids : rows[i] \in Row
  BY RowsOK
<1>2. rows' = [i \in 1..Len(rows) |-> IF i \in work[s].writes
                                     THEN [rows[i] EXCEPT !.status = work[s].target]
                                     ELSE rows[i]]
  BY <1>1 DEF StatusCommit
<1>3. Len(rows') = Len(rows)
  BY <1>1, StatusKeeps, <1>2, RowsOK
<1>4. ASSUME NEW i \in Ids
      PROVE  /\ rows'[i].parent = rows[i].parent /\ rows'[i].limit = rows[i].limit
             /\ rows'[i].allocated = rows[i].allocated
  <2>1. rows'[i] = IF i \in work[s].writes
                   THEN [rows[i] EXCEPT !.status = work[s].target] ELSE rows[i]
    BY <1>1, <1>2
  <2> QED BY <1>1, <2>1 DEF Row
<1> QED BY <1>3, <1>4 DEF KeepsShares

(* Opening a handler that delegates nothing. *)
LEMMA BeginAccounts ==
  ASSUME TreeInv, AllocationInv, NEW s \in Sessions, NEW job, job.call # "delegate",
         work' = [work EXCEPT ![s] = job], UNCHANGED rows
  PROVE  AllocationInv'
<1>1. KeepsShares
  BY DEF KeepsShares
<1>2. KeepsDelegations
  BY MoveKeepsDelegations
<1> QED BY <1>1, <1>2, StillAccounted

(* An empty table gives nothing away.                                       *)
LEMMA AllocationInit == Init => AllocationInv
<1> SUFFICES ASSUME Init PROVE AllocationInv
  OBVIOUS
<1>1. Ids = {} /\ \A s \in Sessions : work[s] = NoWork
  BY DEF Init, Ids
<1> QED BY <1>1 DEF AllocationInv, NoWork

(* A charge leaves the open handlers alone.                                 *)
LEMMA SpendingAccounts ==
  ASSUME TreeInv, AllocationInv, KeepsShares, work' = work
  PROVE  AllocationInv'
<1>1. KeepsDelegations
  BY DEF KeepsDelegations
<1> QED BY <1>1, StillAccounted

(* One step per handler step. *)
LEMMA AllocationNext == TreeInv /\ AllocationInv /\ [Next]_vars => AllocationInv'
<1> SUFFICES ASSUME TreeInv, AllocationInv, [Next]_vars PROVE AllocationInv'
  OBVIOUS
<1>1. ASSUME NEW terms \in RootTerms, CreateMandate(terms) PROVE AllocationInv'
  BY <1>1, CreateAccounts
<1>2. ASSUME NEW s \in Sessions, NEW i \in Ids, NEW terms \in ChildTerms,
             DelegateOpen(s, i, terms)
      PROVE  AllocationInv'
  BY <1>2, DelegateOpenAccounts
<1>3. ASSUME NEW s \in Sessions, NEW i \in Ids, NEW target \in {"SUSPENDED", "REVOKED"},
             CascadeOpen(s, i, target)
      PROVE  AllocationInv'
  <2> DEFINE job == Visit([NoWork EXCEPT !.call = "cascade", !.target = target], i)
  <2>1. work' = [work EXCEPT ![s] = job] /\ UNCHANGED rows
    BY <1>3 DEF CascadeOpen, Begin
  <2>2. job.call # "delegate"
    BY DEF Visit, NoWork
  <2> QED BY <2>1, <2>2, BeginAccounts
<1>4. ASSUME NEW s \in Sessions, NEW i \in Ids, ActivateOpen(s, i) PROVE AllocationInv'
  <2> DEFINE job == [NoWork EXCEPT !.call = "activate", !.id = i, !.visited = {i},
                       !.writes = IF rows[i].status # "ACTIVE" THEN {i} ELSE {},
                       !.step = IF rows[i].parent = 0 THEN "commit" ELSE "parent"]
  <2>1. work' = [work EXCEPT ![s] = job] /\ UNCHANGED rows
    BY <1>4 DEF ActivateOpen, Begin
  <2>2. job.call # "delegate"
    BY DEF NoWork
  <2> HIDE DEF job
  <2> QED BY <2>1, <2>2, BeginAccounts
<1>5. ASSUME NEW s \in Sessions, NEW i \in Ids, NEW op \in Requests, McpOpen(s, i, op)
      PROVE  AllocationInv'
  <2>1. PICK job : job.call = "mcp" /\ work' = [work EXCEPT ![s] = job] /\ UNCHANGED rows
    BY <1>5 DEF McpOpen, Begin, NoWork
  <2> QED BY <2>1, BeginAccounts
<1>6. ASSUME NEW s \in Sessions, DelegateCommit(s) PROVE AllocationInv'
  BY <1>6, DelegateAccounts
<1>7. ASSUME NEW s \in Sessions, CascadeList(s) PROVE AllocationInv'
  <2>1. work[s] \in Work /\ work[s].call = "cascade"
    BY <1>7, JobAt DEF CascadeList, JobOK, Step
  <2>2. PICK job : job.call = "cascade" /\ work' = [work EXCEPT ![s] = job]
    BY <1>7, <2>1 DEF CascadeList, Work, TreeInv
  <2> QED BY <1>7, <2>2, BeginAccounts DEF CascadeList
<1>8. ASSUME NEW s \in Sessions, CascadeVisit(s) PROVE AllocationInv'
  <2>1. work[s] \in Work /\ work[s].call = "cascade"
    BY <1>8, JobAt DEF CascadeVisit, JobOK, Step
  <2>2. PICK job : job.call = "cascade" /\ work' = [work EXCEPT ![s] = job]
    BY <1>8, <2>1 DEF CascadeVisit, Visit, Work, TreeInv
  <2> QED BY <1>8, <2>2, BeginAccounts DEF CascadeVisit
<1>9. ASSUME NEW s \in Sessions, ActivateCheck(s) PROVE AllocationInv'
  <2>1. work[s] \in Work /\ work[s].call = "activate"
    BY <1>9, JobAt DEF ActivateCheck, JobOK, Step
  <2>2. CASE Goto(s, "commit")
    <3>1. PICK job : job.call = "activate" /\ work' = [work EXCEPT ![s] = job]
      BY <2>1, <2>2 DEF Goto, Work, TreeInv
    <3> QED BY <1>9, <3>1, BeginAccounts DEF ActivateCheck
  <2>3. CASE End(s)
    BY <1>9, <2>3, EndKeepsDelegations, StillAccounted DEF ActivateCheck, KeepsShares
  <2> QED BY <1>9, <2>2, <2>3 DEF ActivateCheck
<1>10. ASSUME NEW s \in Sessions, StatusCommit(s) PROVE AllocationInv'
  BY <1>10, StatusKeepsShares, EndKeepsDelegations, StillAccounted DEF StatusCommit
<1>11. ASSUME NEW s \in Sessions, McpCharge(s) PROVE AllocationInv'
  <2>1. KeepsShares
    BY <1>11, McpCharges, ChargedKeepsShares DEF KeepsShares
  <2> QED BY <1>11, <2>1, McpCharges, EndKeepsDelegations, StillAccounted
<1>12. ASSUME NEW s \in Sessions, NEW call \in {"approve", "reject", "webhook"}, NEW i \in Ids,
              NEW op \in Requests, NEW stage, ReadStage(s, call, i, op, stage)
       PROVE  AllocationInv'
  <2>1. PICK job : job.call = call /\ work' = [work EXCEPT ![s] = job] /\ UNCHANGED rows
    BY <1>12 DEF ReadStage, Begin, NoWork
  <2> QED BY <2>1, BeginAccounts
<1>13. ASSUME NEW s \in Sessions, NEW i \in Ids, NEW op \in Requests,
              ReviewOpen(s, i, op) \/ WebhookOpen(s, i, op)
       PROVE  AllocationInv'
  BY <1>12, <1>13 DEF ReviewOpen, WebhookOpen
<1>14. ASSUME NEW s \in Sessions, ApproveCommit(s) \/ RejectCommit(s) \/ WebhookCommit(s)
       PROVE  AllocationInv'
  BY <1>14, ActCharges, ChargedKeepsShares, EndKeepsDelegations, StillAccounted
<1>15. ASSUME NEW i \in Ids, NEW op \in Requests, Charge(i, op) \/ Settle(i, op)
       PROVE  AllocationInv'
  BY <1>15, DirectCharges, ChargedKeepsShares, SpendingAccounts
<1>16. CASE Tick \/ UNCHANGED vars
  <2>1. work' = work /\ rows' = rows
    BY <1>16 DEF Tick, vars
  <2> QED BY <2>1, SpendingAccounts DEF KeepsShares
<1> QED
  BY <1>1, <1>2, <1>3, <1>4, <1>5, <1>6, <1>7, <1>8, <1>9, <1>10, <1>11, <1>13, <1>14, <1>15,
     <1>16 DEF Next

(* What a mandate records as delegated is what its children were given,     *)
(* within its limit, for delegations from a mandate wait for each other     *)
(* (mandates.py: the parent is selected FOR UPDATE).                        *)
THEOREM TreeAllocations == Spec => []AllocationIsSumOfChildren
<1>1. AllocationInv => AllocationIsSumOfChildren
  BY AccountedRows DEF AllocationInv
<1> QED BY <1>1, AllocationInit, AllocationNext, TreeInvariant, PTL DEF Spec
==============================================================================
