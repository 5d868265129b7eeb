--------------------------- MODULE GuardrailProofs ---------------------------
(***************************************************************************)
(* Proofs about Guardrail, GuardrailSurfaces and GuardrailStream, for      *)
(* every profile, content length and number of ranges.                     *)
(*                                                                         *)
(* The merge and the cut of a redaction are loops, and their properties    *)
(* are shown by induction over the rounds: Merging and Cutting are the loop*)
(* invariants.  The sort in front of them is a ranking of what was         *)
(* reported; Redact is shown to meet RedactionOf, which determines it.     *)
(***************************************************************************)
EXTENDS GuardrailSurfaces, GuardrailStream, FiniteSetTheorems, SequenceTheorems,
        WellFoundedInduction, TLAPS

-----------------------------------------------------------------------------
(* Induction, from the minimal elements of the well-founded < on Nat.      *)

LEMMA LeastNatural ==
  ASSUME NEW T \in SUBSET Nat, T # {}
  PROVE  \E x \in T : \A y \in T : x <= y
<1> DEFINE R == {ss \in Nat \X Nat : ss[1] < ss[2]}
<1>1. IsWellFoundedOn(R, Nat)
  BY NatLessThanWellFounded DEF OpToRel
<1>2. \E x \in T : \A y \in T : ~ (<<y, x>> \in R)
  <2> HIDE DEF R
  <2> QED BY <1>1, WFMin
<1>3. \A x, y \in Nat : ~ (<<y, x>> \in R) => x <= y
  BY DEF R
<1> HIDE DEF R
<1> QED BY <1>2, <1>3

(* What holds of 0, and of n when it holds of n - 1, holds up to N.        *)
LEMMA UpTo ==
  ASSUME NEW N \in Nat, NEW S,
         0 \in S, \A n \in 1..N : n - 1 \in S => n \in S
  PROVE  \A n \in 0..N : n \in S
<1> SUFFICES ASSUME NEW n \in 0..N, n \notin S
             PROVE  FALSE
  OBVIOUS
<1>1. PICK x \in (0..N) \ S : \A y \in (0..N) \ S : x <= y
  <2> DEFINE T == (0..N) \ S
  <2>1. T \in SUBSET Nat /\ T # {}
    OBVIOUS
  <2> HIDE DEF T
  <2>2. \E x \in T : \A y \in T : x <= y
    BY <2>1, LeastNatural
  <2> QED BY <2>2 DEF T
<1>2. x # 0 /\ x \in 1..N /\ x - 1 \in 0..N
  BY <1>1
<1>3. x - 1 \in S
  BY <1>1, <1>2
<1> QED BY <1>1, <1>2, <1>3

(* A loop runs: from a base in S and a step that stays in S, the states it *)
(* goes through are a function on 0..N.                                    *)
Loop(N, S, base, step) == N \in Nat /\ base \in S /\ step \in [(1..N) \X S -> S]

Trace(N, S, base, step, f) ==
  /\ f \in [0..N -> S]
  /\ f[0] = base
  /\ \A n \in 1..N : f[n] = step[<<n, f[n - 1]>>]

LEMMA LoopRuns ==
  ASSUME NEW N, NEW S, NEW base, NEW step, Loop(N, S, base, step)
  PROVE  \E f : Trace(N, S, base, step, f)
<1> USE DEF Loop
<1> DEFINE Runs(n, f) ==
      f[0] = base /\ \A k \in 1..n : f[k] = step[<<k, f[k - 1]>>]
<1> DEFINE Good == {n \in 0..N : \E f \in [0..N -> S] : Runs(n, f)}
<1>1. 0 \in Good
  <2> DEFINE g == [k \in 0..N |-> base]
  <2>1. g \in [0..N -> S] /\ Runs(0, g)
    OBVIOUS
  <2> HIDE DEF g, Runs
  <2> QED BY <2>1
<1>2. ASSUME NEW n \in 1..N, n - 1 \in Good
      PROVE  n \in Good
  <2>1. PICK f \in [0..N -> S] : Runs(n - 1, f)
    BY <1>2
  <2> DEFINE g == [f EXCEPT ![n] = step[<<n, f[n - 1]>>]]
  <2>2. step[<<n, f[n - 1]>>] \in S
    OBVIOUS
  <2>3. g \in [0..N -> S]
    BY <2>2
  <2>4. g[0] = base
    BY <2>1
  <2>5. ASSUME NEW k \in 1..n
        PROVE  g[k] = step[<<k, g[k - 1]>>]
    <3>1. g[k - 1] = f[k - 1]
      OBVIOUS
    <3>2. k < n => g[k] = f[k] /\ k \in 1..(n - 1)
      OBVIOUS
    <3> QED BY <2>1, <3>1, <3>2
  <2>6. Runs(n, g)
    BY <2>4, <2>5
  <2> HIDE DEF g, Runs
  <2> QED BY <2>3, <2>6
<1> HIDE DEF Good
<1>3. \A n \in 0..N : n \in Good
  BY <1>1, <1>2, UpTo
<1>4. N \in Good
  BY <1>3
<1> QED BY <1>4 DEF Good, Trace

-----------------------------------------------------------------------------
(* Ranks.  In a finite set with a strict total order, the number of        *)
(* elements up to each is a numbering of the set that follows the order.   *)

Ranking(R, less, down, rank) ==
  /\ IsFiniteSet(R)
  /\ \A r, s, t \in R : <<r, s>> \in less /\ <<s, t>> \in less => <<r, t>> \in less
  /\ \A r, s \in R : <<r, s>> \in less => <<s, r>> \notin less
  /\ \A r, s \in R : r = s \/ <<r, s>> \in less \/ <<s, r>> \in less
  /\ down \in [R -> SUBSET R]
  /\ \A r, s \in R : s \in down[r] <=> s = r \/ <<s, r>> \in less
  /\ rank = [r \in R |-> Cardinality(down[r])]

Numbering(R, less, rank) ==
  /\ rank \in [R -> 1..Cardinality(R)]
  /\ \A r, s \in R : <<r, s>> \in less <=> rank[r] < rank[s]
  /\ \A r, s \in R : rank[r] = rank[s] => r = s
  /\ \A k \in 1..Cardinality(R) : \E r \in R : rank[r] = k

LEMMA RankNumbers ==
  ASSUME NEW R, NEW less, NEW down, NEW rank, Ranking(R, less, down, rank)
  PROVE  Numbering(R, less, rank)
<1> USE DEF Ranking
<1>0. Cardinality(R) \in Nat
  BY FS_CardinalityType
<1>1. ASSUME NEW r \in R
      PROVE  /\ IsFiniteSet(down[r]) /\ Cardinality(down[r]) \in Nat
             /\ Cardinality(down[r]) <= Cardinality(R) /\ Cardinality(down[r]) # 0
             /\ rank[r] = Cardinality(down[r])
  <2>1. down[r] \in SUBSET R /\ r \in down[r] /\ rank[r] = Cardinality(down[r])
    OBVIOUS
  <2>2. IsFiniteSet(down[r]) /\ Cardinality(down[r]) <= Cardinality(R)
    BY <2>1, FS_Subset
  <2> QED BY <2>1, <2>2, FS_CardinalityType, FS_EmptySet
<1>2. ASSUME NEW r \in R, NEW s \in R, <<r, s>> \in less
      PROVE  rank[r] < rank[s]
  <2>1. down[r] \in SUBSET down[s]
    BY <1>2
  <2>2. s \in down[s] /\ s \notin down[r]
    BY <1>2
  <2>3. Cardinality(down[r]) <= Cardinality(down[s]) /\ Cardinality(down[r]) # Cardinality(down[s])
    BY <1>1, <2>1, <2>2, FS_Subset
  <2> QED BY <1>1, <2>3
<1>3. rank \in [R -> 1..Cardinality(R)]
  <2>1. \A r \in R : rank[r] \in 1..Cardinality(R)
    BY <1>0, <1>1
  <2>2. rank \in [R -> {rank[r] : r \in R}]
    OBVIOUS
  <2> QED BY <2>1, <2>2
<1>4. \A r, s \in R : <<r, s>> \in less <=> rank[r] < rank[s]
  <2> SUFFICES ASSUME NEW r \in R, NEW s \in R
               PROVE  <<r, s>> \in less <=> rank[r] < rank[s]
    OBVIOUS
  <2>1. rank[r] \in Nat /\ rank[s] \in Nat
    BY <1>0, <1>3
  <2>2. CASE r = s
    BY <2>1, <2>2
  <2>3. CASE <<r, s>> \in less
    BY <1>2, <2>3
  <2>4. CASE <<s, r>> \in less
    <3>1. rank[s] < rank[r]
      BY <1>2, <2>4
    <3>2. <<r, s>> \notin less
      BY <2>4
    <3> QED BY <2>1, <3>1, <3>2
  <2> QED BY <2>2, <2>3, <2>4
<1>5. \A r, s \in R : rank[r] = rank[s] => r = s
  BY <1>0, <1>3, <1>4
<1>6. \A k \in 1..Cardinality(R) : \E r \in R : rank[r] = k
  <2>1. rank \in Injection(R, 1..Cardinality(R))
    BY <1>3, <1>5 DEF Injection, IsInjective
  <2>2. IsFiniteSet(1..Cardinality(R)) /\ Cardinality(1..Cardinality(R)) = Cardinality(R)
    BY <1>0, FS_Interval
  <2>3. rank \in Surjection(R, 1..Cardinality(R))
    BY <2>1, <2>2, FS_Injection
  <2> QED BY <2>3 DEF Surjection
<1> QED BY <1>3, <1>4, <1>5, <1>6 DEF Numbering

-----------------------------------------------------------------------------
(* The candidates of a redaction.                                          *)

ValidRanges == {r \in [start : 0..Length, end : 1..Length] : r.start < r.end}

LEMMA AcceptedFindings ==
  ASSUME NEW f \in Accepted
  PROVE  /\ f.action \in {"ALLOW", "DENY", "QUARANTINE", "REDACT"}
         /\ f.detector \in ToSet(DetectorIds)
         /\ f.ranges \in Seq(ValidRanges) /\ Len(f.ranges) <= MaxRanges
         /\ f.action = "REDACT" => f.ranges # <<>>
<1>1. PICK d \in ToSet(DetectorIds) : f \in Findings(d)
  BY DEF Accepted
<1>2. \A i \in DOMAIN f.ranges : f.ranges[i].end <= Length
  BY DEF Accepted
<1>3. CASE f \in {Finding(d, action, <<>>) : action \in {"ALLOW", "DENY", "QUARANTINE"}}
  <2>1. PICK action \in {"ALLOW", "DENY", "QUARANTINE"} : f = Finding(d, action, <<>>)
    BY <1>3
  <2>2. <<>> \in Seq(ValidRanges) /\ Len(<<>>) <= MaxRanges
    BY MaxRangesAssumption
  <2> QED BY <2>1, <2>2 DEF Finding
<1>4. CASE f \in {Finding(d, "REDACT", rs) : rs \in OrderedRanges}
  <2>1. PICK rs \in OrderedRanges : f = Finding(d, "REDACT", rs)
    BY <1>4
  <2>2. PICK m \in 0..MaxRanges : rs \in [1..m -> Ranges]
    BY <2>1 DEF OrderedRanges, BoundedSeq, SeqOf
  <2>3. rs \in Seq(Ranges) /\ Len(rs) = m /\ rs # <<>>
    BY <2>1, <2>2, MaxRangesAssumption DEF OrderedRanges
  <2>4. \A i \in 1..Len(rs) : rs[i] \in Ranges /\ rs[i].end <= Length
    BY <1>2, <2>1, <2>3 DEF Finding
  <2>5. \A i \in 1..Len(rs) : rs[i] \in ValidRanges
    BY <2>4, LengthAssumption DEF Ranges, ValidRanges
  <2>6. rs \in Seq(ValidRanges)
    BY <2>3, <2>5
  <2> QED BY <2>1, <2>2, <2>3, <2>6, MaxRangesAssumption DEF Finding
<1> QED BY <1>1, <1>3, <1>4 DEF Findings

LEMMA ReportedRanges ==
  ASSUME NEW fs \in Seq(Accepted)
  PROVE  /\ \A r \in Reported(fs) :
              /\ r \in [start : 0..Length, end : 1..Length, at : Nat \X Nat]
              /\ r.start < r.end
         /\ \A r, s \in Reported(fs) : r.at = s.at => r = s
         /\ IsFiniteSet(Reported(fs))
<1> DEFINE R == Reported(fs)
           Places == (1..Len(fs)) \X (1..MaxRanges)
           At(i, j) == [start |-> fs[i].ranges[j].start, end |-> fs[i].ranges[j].end, at |-> <<i, j>>]
<1>1. ASSUME NEW i \in Having(fs, "REDACT")
      PROVE  /\ i \in 1..Len(fs) /\ DOMAIN fs[i].ranges = 1..Len(fs[i].ranges)
             /\ Len(fs[i].ranges) \in Nat /\ Len(fs[i].ranges) <= MaxRanges
             /\ \A j \in DOMAIN fs[i].ranges : fs[i].ranges[j] \in ValidRanges
  <2>1. i \in 1..Len(fs) /\ fs[i] \in Accepted
    BY DEF Having
  <2> QED BY <2>1, AcceptedFindings
<1>2. ASSUME NEW r \in R
      PROVE  \E i \in Having(fs, "REDACT") : \E j \in DOMAIN fs[i].ranges : r = At(i, j)
  BY DEF Reported
<1>3. ASSUME NEW i \in Having(fs, "REDACT"), NEW j \in DOMAIN fs[i].ranges
      PROVE  /\ At(i, j) \in [start : 0..Length, end : 1..Length, at : Nat \X Nat]
             /\ At(i, j).start < At(i, j).end
             /\ At(i, j).at = <<i, j>> /\ <<i, j>> \in Places
  <2>1. fs[i].ranges[j] \in ValidRanges /\ i \in 1..Len(fs) /\ j \in 1..MaxRanges
    BY <1>1, MaxRangesAssumption
  <2> QED BY <2>1, MaxRangesAssumption DEF ValidRanges
<1>4. \A r, s \in R : r.at = s.at => r = s
  <2> SUFFICES ASSUME NEW r \in R, NEW s \in R, r.at = s.at
               PROVE  r = s
    OBVIOUS
  <2>1. PICK i \in Having(fs, "REDACT") : \E j \in DOMAIN fs[i].ranges : r = At(i, j)
    BY <1>2
  <2>2. PICK j \in DOMAIN fs[i].ranges : r = At(i, j)
    BY <2>1
  <2>3. PICK k \in Having(fs, "REDACT") : \E l \in DOMAIN fs[k].ranges : s = At(k, l)
    BY <1>2
  <2>4. PICK l \in DOMAIN fs[k].ranges : s = At(k, l)
    BY <2>3
  <2>5. <<i, j>> = <<k, l>>
    BY <2>2, <2>4
  <2> QED BY <2>2, <2>4, <2>5
<1>5. IsFiniteSet(R)
  <2> DEFINE at == [r \in R |-> r.at]
  <2>1. \A r \in R : r.at \in Places
    BY <1>2, <1>3
  <2>2. at \in [R -> Places]
    BY <2>1
  <2>3. at \in Injection(R, Places)
    BY <1>4, <2>2 DEF Injection, IsInjective
  <2>4. IsFiniteSet(1..Len(fs)) /\ IsFiniteSet(1..MaxRanges)
    BY MaxRangesAssumption, FS_Interval
  <2>5. IsFiniteSet(Places)
    BY <2>4, FS_Product
  <2> HIDE DEF R, Places, at
  <2> QED BY <2>3, <2>5, FS_Injection
<1> QED BY <1>2, <1>3, <1>4, <1>5

(* The candidates are what was reported, in order.                         *)
LEMMA CandidatesSorted ==
  ASSUME NEW fs \in Seq(Accepted)
  PROVE  /\ Candidates(fs) \in Seq(Reported(fs))
         /\ \A k \in 1..(Len(Candidates(fs)) - 1) :
              Candidates(fs)[k].start <= Candidates(fs)[k + 1].start
         /\ \A r \in Reported(fs) : \E k \in 1..Len(Candidates(fs)) : Candidates(fs)[k] = r
<1> DEFINE R == Reported(fs)
           n == Cardinality(R)
           less == {rs \in R \X R : Before(rs[1], rs[2])}
           down == [r \in R |-> {s \in R : s = r \/ Before(s, r)}]
           rank == [r \in R |-> Cardinality(down[r])]
<1>0. n \in Nat /\ IsFiniteSet(R)
  BY ReportedRanges, FS_CardinalityType
<1>1. \A r, s \in R : <<r, s>> \in less <=> Before(r, s)
  OBVIOUS
<1>2. \A r \in R : r.start \in Nat /\ r.end \in Nat /\ r.at[1] \in Nat /\ r.at[2] \in Nat
                   /\ r.at = <<r.at[1], r.at[2]>>
  BY ReportedRanges, LengthAssumption
<1>3. \A r \in R : rank[r] = Rank(r, R)
  BY DEF Rank
<1> HIDE DEF R, less
<1>4. /\ \A r, s, t \in R : <<r, s>> \in less /\ <<s, t>> \in less => <<r, t>> \in less
      /\ \A r, s \in R : <<r, s>> \in less => <<s, r>> \notin less
      /\ \A r, s \in R : r = s \/ <<r, s>> \in less \/ <<s, r>> \in less
  <2>1. \A r, s \in R : r.at = s.at => r = s
    BY ReportedRanges DEF R
  <2>2. \A r, s, t \in R : Before(r, s) /\ Before(s, t) => Before(r, t)
    BY <1>2 DEF Before
  <2>3. \A r, s \in R : Before(r, s) => ~ Before(s, r)
    BY <1>2 DEF Before
  <2>4. \A r, s \in R : r = s \/ Before(r, s) \/ Before(s, r)
    BY <1>2, <2>1 DEF Before
  <2> QED BY <1>1, <2>2, <2>3, <2>4
<1>5. /\ rank \in [R -> 1..n]
      /\ \A r, s \in R : <<r, s>> \in less <=> rank[r] < rank[s]
      /\ \A r, s \in R : rank[r] = rank[s] => r = s
      /\ \A k \in 1..n : \E r \in R : rank[r] = k
  <2>1. down \in [R -> SUBSET R] /\ \A r, s \in R : s \in down[r] <=> s = r \/ <<s, r>> \in less
    BY <1>1
  <2>2. Ranking(R, less, down, rank)
    BY <1>0, <1>4, <2>1 DEF Ranking
  <2> HIDE DEF rank, down, n
  <2>3. Numbering(R, less, rank)
    BY <2>2, RankNumbers
  <2> QED BY <2>3 DEF n, Numbering
<1> HIDE DEF rank, down
<1>6. Candidates(fs) = [k \in 1..n |-> CHOOSE r \in R : Rank(r, R) = k]
  BY DEF Candidates, R
<1> HIDE DEF n
<1>7. ASSUME NEW k \in 1..n
      PROVE  Candidates(fs)[k] \in R /\ rank[Candidates(fs)[k]] = k
  <2>1. \E r \in R : Rank(r, R) = k
    BY <1>3, <1>5
  <2>2. Candidates(fs)[k] = CHOOSE r \in R : Rank(r, R) = k
    BY <1>6
  <2> QED BY <1>3, <2>1, <2>2
<1>8. Candidates(fs) \in Seq(R) /\ Len(Candidates(fs)) = n
  <2>1. Candidates(fs) \in [1..n -> R]
    BY <1>6, <1>7
  <2> QED BY <1>0, <2>1
<1>9. ASSUME NEW k \in 1..(n - 1)
      PROVE  Candidates(fs)[k].start <= Candidates(fs)[k + 1].start
  <2> DEFINE r == Candidates(fs)[k]
             s == Candidates(fs)[k + 1]
  <2>1. r \in R /\ s \in R /\ rank[r] = k /\ rank[s] = k + 1
    BY <1>0, <1>7
  <2> HIDE DEF r, s
  <2>2. rank[r] < rank[s]
    BY <1>0, <2>1
  <2>3. Before(r, s)
    BY <1>1, <1>5, <2>1, <2>2
  <2>4. r.start <= s.start
    BY <1>2, <2>1, <2>3 DEF Before
  <2> QED BY <2>4 DEF r, s
<1>10. ASSUME NEW r \in R
       PROVE  \E k \in 1..n : Candidates(fs)[k] = r
  BY <1>5, <1>7
<1> QED BY <1>8, <1>9, <1>10 DEF R

-----------------------------------------------------------------------------
(* Merging.                                                                *)

IsRange(r) == r.start \in 0..Length /\ r.end \in 1..Length /\ r.start < r.end

(* What _merge_ranges returns: ranges in order, none touching the next.    *)
Apart(merged) ==
  /\ merged \in Seq(ValidRanges)
  /\ \A k \in 1..(Len(merged) - 1) : merged[k].end < merged[k + 1].start

Holds(r, p) == r.start < p /\ p <= r.end

CoveredBy(ranges, n, p) == \E k \in 1..n : Holds(ranges[k], p)

LEMMA MergeType ==
  ASSUME NEW merged \in Seq(ValidRanges), NEW item, IsRange(item)
  PROVE  Merge(merged, item) \in Seq(ValidRanges)
<1> USE LengthAssumption
<1> DEFINE last == merged[Len(merged)]
<1>1. CASE merged = <<>> \/ item.start > Last(merged).end
  BY <1>1 DEF Merge, IsRange, ValidRanges
<1>2. CASE ~ (merged = <<>> \/ item.start > Last(merged).end)
  <2>1. Len(merged) \in 1..Len(merged) /\ last \in ValidRanges
    BY <1>2
  <2>2. [last EXCEPT !.end = IF item.end > @ THEN item.end ELSE @] \in ValidRanges
    <3> HIDE DEF last
    <3>1. last \in [start : 0..Length, end : 1..Length] /\ last.start < last.end
      BY <2>1 DEF ValidRanges
    <3>2. CASE item.end > last.end
      BY <3>1, <3>2 DEF IsRange, ValidRanges
    <3>3. CASE ~ (item.end > last.end)
      BY <3>1, <3>3 DEF ValidRanges
    <3> QED BY <3>2, <3>3
  <2>3. Merge(merged, item) =
          [merged EXCEPT ![Len(merged)] = [last EXCEPT !.end = IF item.end > @ THEN item.end ELSE @]]
    BY <1>2 DEF Merge
  <2> HIDE DEF last
  <2> QED BY <2>1, <2>2, <2>3
<1> QED BY <1>1, <1>2

(* One round of the loop, for candidates that come in order.               *)
LEMMA MergeRound ==
  ASSUME NEW merged, Apart(merged), NEW item, IsRange(item),
         merged # <<>> => merged[Len(merged)].start <= item.start,
         NEW e, e = Merge(merged, item)
  PROVE  /\ Apart(e)
         /\ e # <<>> /\ e[Len(e)].start <= item.start
         /\ \A p \in 1..Length :
              CoveredBy(e, Len(e), p) <=> CoveredBy(merged, Len(merged), p) \/ Holds(item, p)
<1> USE LengthAssumption
<1>0. merged \in Seq(ValidRanges) /\ e \in Seq(ValidRanges) /\ Len(merged) \in Nat
  BY MergeType DEF Apart
<1>1. CASE merged = <<>> \/ item.start > merged[Len(merged)].end
  <2> DEFINE new == [start |-> item.start, end |-> item.end]
  <2>1. e = Append(merged, new)
    BY <1>1 DEF Merge, Last
  <2>2. /\ Len(e) = Len(merged) + 1 /\ e[Len(e)] = new
        /\ \A k \in 1..Len(merged) : e[k] = merged[k]
    BY <1>0, <2>1
  <2>3. Apart(e)
    BY <1>0, <1>1, <2>2 DEF Apart
  <2>4. ASSUME NEW p \in 1..Length
        PROVE  CoveredBy(e, Len(e), p) <=> CoveredBy(merged, Len(merged), p) \/ Holds(item, p)
    BY <1>0, <2>2 DEF CoveredBy, Holds
  <2>5. e # <<>> /\ e[Len(e)].start <= item.start
    BY <1>0, <2>2 DEF IsRange
  <2> QED BY <2>3, <2>4, <2>5
<1>2. CASE ~ (merged = <<>> \/ item.start > merged[Len(merged)].end)
  <2> DEFINE last == merged[Len(merged)]
             n == Len(merged)
             far == IF item.end > last.end THEN item.end ELSE last.end
  <2>1. n \in 1..n /\ last \in ValidRanges /\ n \in Nat
    BY <1>0, <1>2
  <2>2. e = [merged EXCEPT ![n].end = far]
    BY <1>2 DEF Merge, Last
  <2>3. /\ Len(e) = n /\ e[n].start = last.start /\ e[n].end = far
        /\ \A k \in 1..n : k # n => e[k] = merged[k]
    BY <1>0, <2>1, <2>2 DEF ValidRanges
  <2>4. \A k \in 1..n : e[k].start = merged[k].start
    BY <2>3
  <2>5. Apart(e)
    BY <1>0, <2>1, <2>3, <2>4 DEF Apart
  <2>6. ASSUME NEW p \in 1..Length
        PROVE  Holds(e[n], p) <=> Holds(last, p) \/ Holds(item, p)
    <3>1. last.start <= item.start /\ item.start <= last.end
      BY <1>2, <2>1 DEF IsRange, ValidRanges
    <3> QED BY <2>1, <2>3, <3>1 DEF Holds, IsRange, ValidRanges
  <2>7. ASSUME NEW p \in 1..Length
        PROVE  CoveredBy(e, Len(e), p) <=> CoveredBy(merged, n, p) \/ Holds(item, p)
    BY <2>1, <2>3, <2>6 DEF CoveredBy
  <2>8. e # <<>> /\ e[Len(e)].start <= item.start
    BY <1>2, <2>1, <2>3
  <2> QED BY <2>5, <2>7, <2>8
<1> QED BY <1>1, <1>2

(* What the loop goes through.                                             *)
MergeLoop(fs, loop) ==
  LET candidates == Candidates(fs)
  IN  loop = [n \in 0..Len(candidates) |->
                IF n = 0 THEN <<>> ELSE Merge(loop[n - 1], candidates[n])]

LEMMA CandidateRanges ==
  ASSUME NEW fs \in Seq(Accepted), NEW n \in 1..Len(Candidates(fs))
  PROVE  Candidates(fs)[n] \in Reported(fs) /\ IsRange(Candidates(fs)[n])
<1>1. Candidates(fs)[n] \in Reported(fs)
  BY CandidatesSorted
<1> QED BY <1>1, ReportedRanges DEF IsRange

LEMMA MergeLoopRuns ==
  ASSUME NEW fs \in Seq(Accepted)
  PROVE  \E loop : MergeLoop(fs, loop)
<1> DEFINE c == Candidates(fs)
           N == Len(c)
           S == Seq(ValidRanges)
           step == [x \in (1..N) \X S |-> Merge(x[2], c[x[1]])]
<1>0. N \in Nat
  BY CandidatesSorted
<1>1. \A n \in 1..N, m \in S : Merge(m, c[n]) \in S
  BY CandidateRanges, MergeType
<1>2. step \in [(1..N) \X S -> S] /\ <<>> \in S
  BY <1>1
<1>3. \A n \in 1..N, m \in S : step[<<n, m>>] = Merge(m, c[n])
  OBVIOUS
<1> HIDE DEF step, S, N
<1>4. PICK loop : Trace(N, S, <<>>, step, loop)
  BY <1>0, <1>2, LoopRuns DEF Loop
<1> USE DEF Trace
<1>5. \A n \in 1..N : loop[n] = Merge(loop[n - 1], c[n])
  <2> SUFFICES ASSUME NEW n \in 1..N
               PROVE  loop[n] = Merge(loop[n - 1], c[n])
    OBVIOUS
  <2>1. loop[n - 1] \in S
    BY <1>0, <1>4
  <2> QED BY <1>3, <1>4, <2>1
<1>6. loop = [n \in 0..N |-> IF n = 0 THEN <<>> ELSE Merge(loop[n - 1], c[n])]
  <2> DEFINE again == [n \in 0..N |-> IF n = 0 THEN <<>> ELSE Merge(loop[n - 1], c[n])]
  <2>1. \A n \in 0..N : loop[n] = again[n]
    BY <1>0, <1>4, <1>5
  <2> HIDE DEF c
  <2> QED BY <1>4, <2>1
<1>7. MergeLoop(fs, loop)
  BY <1>6 DEF MergeLoop, N
<1> QED BY <1>7

LEMMA MergeLoopEnds ==
  ASSUME NEW fs \in Seq(Accepted)
  PROVE  \E loop : MergeLoop(fs, loop) /\ MergeRanges(fs) = loop[Len(Candidates(fs))]
<1> DEFINE loop == CHOOSE loop : MergeLoop(fs, loop)
<1>1. MergeLoop(fs, loop)
  BY MergeLoopRuns
<1>2. MergeRanges(fs) = loop[Len(Candidates(fs))]
  BY DEF MergeRanges, MergeLoop
<1> QED BY <1>1, <1>2

(* The loop's invariant: after n candidates, merged covers what they cover,*)
(* and its last range starts no later than the last of them.               *)
Merging(fs, merged, n) ==
  /\ Apart(merged)
  /\ n = 0 => merged = <<>>
  /\ n > 0 => merged # <<>> /\ merged[Len(merged)].start <= Candidates(fs)[n].start
  /\ \A p \in 1..Length : CoveredBy(merged, Len(merged), p) <=> CoveredBy(Candidates(fs), n, p)

LEMMA MergingRound ==
  ASSUME NEW fs \in Seq(Accepted), NEW n \in 1..Len(Candidates(fs)), NEW merged,
         Merging(fs, merged, n - 1)
  PROVE  Merging(fs, Merge(merged, Candidates(fs)[n]), n)
<1> DEFINE c == Candidates(fs)
           e == Merge(merged, c[n])
<1>0. Len(c) \in Nat /\ n \in Nat /\ n - 1 \in Nat
  BY CandidatesSorted
<1>1. IsRange(c[n]) /\ (n > 1 => IsRange(c[n - 1]))
  BY <1>0, CandidateRanges
<1>2. merged # <<>> => merged[Len(merged)].start <= c[n].start
  <2> SUFFICES ASSUME merged # <<>>
               PROVE  merged[Len(merged)].start <= c[n].start
    OBVIOUS
  <2>1. n > 1 /\ merged[Len(merged)].start <= c[n - 1].start
    BY <1>0 DEF Merging
  <2>2. n - 1 \in 1..(Len(c) - 1)
    BY <1>0, <2>1
  <2>3. c[n - 1].start <= c[(n - 1) + 1].start
    BY <2>2, CandidatesSorted
  <2>4. (n - 1) + 1 = n
    BY <1>0
  <2>5. merged \in Seq(ValidRanges) /\ Len(merged) \in 1..Len(merged)
    BY DEF Merging, Apart
  <2>6. merged[Len(merged)].start \in Int
    BY <2>5, LengthAssumption DEF ValidRanges
  <2> QED BY <1>1, <2>1, <2>3, <2>4, <2>6, LengthAssumption DEF IsRange
<1> HIDE DEF c, e
<1>3. /\ Apart(e)
      /\ e # <<>> /\ e[Len(e)].start <= c[n].start
      /\ \A p \in 1..Length :
           CoveredBy(e, Len(e), p) <=> CoveredBy(merged, Len(merged), p) \/ Holds(c[n], p)
  BY <1>1, <1>2, MergeRound DEF Merging, e
<1>4. \A p \in 1..Length : CoveredBy(c, n, p) <=> CoveredBy(c, n - 1, p) \/ Holds(c[n], p)
  BY <1>0 DEF CoveredBy
<1>5. \A p \in 1..Length : CoveredBy(e, Len(e), p) <=> CoveredBy(c, n, p)
  BY <1>3, <1>4 DEF Merging, c
<1> QED BY <1>0, <1>3, <1>5 DEF Merging, c, e

LEMMA MergedCovers ==
  ASSUME NEW fs \in Seq(Accepted), NEW merged, merged = MergeRanges(fs)
  PROVE  /\ Apart(merged)
         /\ \A p \in 1..Length : CoveredBy(merged, Len(merged), p) <=> p \in Covered(fs)
<1> DEFINE c == Candidates(fs)
           N == Len(c)
<1>0. N \in Nat
  BY CandidatesSorted
<1>1. PICK loop : MergeLoop(fs, loop) /\ merged = loop[N]
  BY MergeLoopEnds
<1>2. loop[0] = <<>> /\ \A n \in 1..N : loop[n] = Merge(loop[n - 1], c[n])
  BY <1>0, <1>1 DEF MergeLoop
<1> DEFINE Good == {n \in 0..N : Merging(fs, loop[n], n)}
<1>3. 0 \in Good
  <2>1. Apart(<<>>)
    BY DEF Apart
  <2>2. \A p : ~ CoveredBy(<<>>, 0, p) /\ ~ CoveredBy(c, 0, p)
    BY DEF CoveredBy
  <2>3. Merging(fs, <<>>, 0)
    BY <2>1, <2>2 DEF Merging
  <2> QED BY <1>0, <1>2, <2>3
<1>4. ASSUME NEW n \in 1..N, n - 1 \in Good
      PROVE  n \in Good
  BY <1>2, <1>4, MergingRound
<1> HIDE DEF Good
<1>5. N \in Good
  <2>1. \A n \in 0..N : n \in Good
    BY <1>0, <1>3, <1>4, UpTo
  <2> QED BY <1>0, <2>1
<1>6. Merging(fs, merged, N)
  BY <1>1, <1>5 DEF Good
<1>7. ASSUME NEW p \in 1..Length
      PROVE  CoveredBy(c, N, p) <=> p \in Covered(fs)
  <2>1. CoveredBy(c, N, p) <=> \E r \in Reported(fs) : Holds(r, p)
    BY CandidatesSorted, CandidateRanges DEF CoveredBy
  <2>2. (\E r \in Reported(fs) : Holds(r, p)) <=> p \in Covered(fs)
    <3> DEFINE At(i, j) ==
          [start |-> fs[i].ranges[j].start, end |-> fs[i].ranges[j].end, at |-> <<i, j>>]
    <3>1. \A r : r \in Reported(fs)
                   <=> \E i \in Having(fs, "REDACT") : \E j \in DOMAIN fs[i].ranges : r = At(i, j)
      BY DEF Reported
    <3>2. \A i, j : Holds(At(i, j), p) <=> fs[i].ranges[j].start < p /\ p <= fs[i].ranges[j].end
      BY DEF Holds
    <3> HIDE DEF At
    <3>3. (\E r \in Reported(fs) : Holds(r, p))
            <=> \E i \in Having(fs, "REDACT") : \E j \in DOMAIN fs[i].ranges : Holds(At(i, j), p)
      BY <3>1
    <3> QED BY <3>2, <3>3 DEF Covered
  <2> QED BY <2>1, <2>2
<1> QED BY <1>6, <1>7 DEF Merging

-----------------------------------------------------------------------------
(* Places.  Place(p, C) counts the scalars seen up to p.                   *)

LEMMA PlaceType ==
  ASSUME NEW C, NEW a \in 0..Length
  PROVE  /\ IsFiniteSet({q \in Seen(C) : q <= a}) /\ Place(a, C) \in Nat
         /\ Place(0, C) = 0
<1>1. {q \in Seen(C) : q <= a} \in SUBSET (1..Length) /\ {q \in Seen(C) : q <= 0} = {}
  BY DEF Seen
<1>2. IsFiniteSet(1..Length)
  BY LengthAssumption, FS_Interval
<1>3. IsFiniteSet({q \in Seen(C) : q <= a})
  BY <1>1, <1>2, FS_Subset
<1> QED BY <1>1, <1>3, FS_CardinalityType, FS_EmptySet DEF Place

(* Up to b, one sees what one sees up to a and what lies between.          *)
LEMMA PlaceAdvances ==
  ASSUME NEW C, NEW a \in 0..Length, NEW b \in a..Length
  PROVE  /\ Place(a, C) <= Place(b, C)
         /\ (\A q \in (a + 1)..b : q \in Seen(C)) => Place(b, C) = Place(a, C) + (b - a)
         /\ (\A q \in (a + 1)..b : q \notin Seen(C)) => Place(b, C) = Place(a, C)
<1> DEFINE upto(x) == {q \in Seen(C) : q <= x}
<1>0. a \in Int /\ b \in Int /\ b \in 0..Length /\ a <= b
  BY LengthAssumption
<1>1. upto(a) \in SUBSET upto(b) /\ IsFiniteSet(upto(a)) /\ IsFiniteSet(upto(b))
  <2>1. \A q \in Seen(C) : q \in Int
    BY LengthAssumption DEF Seen
  <2>2. upto(a) \in SUBSET upto(b)
    BY <1>0, <2>1
  <2> QED BY <1>0, <2>2, PlaceType
<1>2. Place(a, C) = Cardinality(upto(a)) /\ Place(b, C) = Cardinality(upto(b))
  BY DEF Place
<1>3. Place(a, C) \in Nat /\ Place(b, C) \in Nat
  BY <1>0, PlaceType
<1>4. ASSUME \A q \in (a + 1)..b : q \in Seen(C)
      PROVE  Place(b, C) = Place(a, C) + (b - a)
  <2>1. upto(b) = upto(a) \cup ((a + 1)..b) /\ upto(a) \cap ((a + 1)..b) = {}
    BY <1>4, LengthAssumption DEF Seen
  <2>2. IsFiniteSet((a + 1)..b) /\ Cardinality((a + 1)..b) = b - a
    <3>1. a + 1 \in Int
      BY <1>0
    <3>2. Cardinality((a + 1)..b) = IF a + 1 > b THEN 0 ELSE b - (a + 1) + 1
      BY <1>0, <3>1, FS_Interval
    <3>3. IsFiniteSet((a + 1)..b)
      BY <1>0, <3>1, FS_Interval
    <3> QED BY <1>0, <3>2, <3>3
  <2> HIDE DEF upto
  <2>3. Cardinality(upto(b)) = Cardinality(upto(a)) + Cardinality((a + 1)..b) - Cardinality({})
    BY <1>1, <2>1, <2>2, FS_Union
  <2> QED BY <1>2, <1>3, <2>2, <2>3, FS_EmptySet, LengthAssumption
<1>5. ASSUME \A q \in (a + 1)..b : q \notin Seen(C)
      PROVE  Place(b, C) = Place(a, C)
  <2>1. upto(b) = upto(a)
    BY <1>5, LengthAssumption DEF Seen
  <2> QED BY <1>2, <2>1
<1> HIDE DEF upto
<1>6. Place(a, C) <= Place(b, C)
  BY <1>1, <1>2, FS_Subset
<1> QED BY <1>4, <1>5, <1>6

(* Places number what is seen.                                             *)
LEMMA PlaceNumbers ==
  ASSUME NEW C
  PROVE  /\ Cardinality(Seen(C)) = Place(Length, C)
         /\ \A p \in Seen(C) : Place(p, C) \in 1..Cardinality(Seen(C))
         /\ \A k \in 1..Cardinality(Seen(C)) : \E p \in Seen(C) : Place(p, C) = k
<1> DEFINE R == Seen(C)
           less == {rs \in R \X R : rs[1] < rs[2]}
           down == [r \in R |-> {s \in R : s <= r}]
           rank == [r \in R |-> Cardinality(down[r])]
<1>1. \A r \in R : r \in 1..Length /\ r \in Nat
  BY LengthAssumption DEF Seen
<1>2. Cardinality(R) = Place(Length, C)
  <2>1. R = {q \in R : q <= Length}
    BY <1>1
  <2> QED BY <2>1 DEF Place
<1>3. IsFiniteSet(R)
  <2>1. R \in SUBSET (1..Length) /\ IsFiniteSet(1..Length)
    BY <1>1, LengthAssumption, FS_Interval
  <2> QED BY <2>1, FS_Subset
<1>4. \A r \in R : rank[r] = Place(r, C)
  BY DEF Place
<1>5. \A r, s \in R : <<r, s>> \in less <=> r < s
  OBVIOUS
<1>6. down \in [R -> SUBSET R] /\ \A r, s \in R : s \in down[r] <=> s <= r
  OBVIOUS
<1> HIDE DEF R, less
<1>7. Ranking(R, less, down, rank)
  <2> HIDE DEF down
  <2>1. \A r, s, t \in R : <<r, s>> \in less /\ <<s, t>> \in less => <<r, t>> \in less
    BY <1>1, <1>5
  <2>2. \A r, s \in R : <<r, s>> \in less => <<s, r>> \notin less
    BY <1>1, <1>5
  <2>3. \A r, s \in R : r = s \/ <<r, s>> \in less \/ <<s, r>> \in less
    <3>1. \A r, s \in R : r = s \/ r < s \/ s < r
      BY <1>1
    <3> QED BY <1>5, <3>1
  <2>4. \A r, s \in R : s \in down[r] <=> s = r \/ <<s, r>> \in less
    BY <1>1, <1>5, <1>6
  <2> QED BY <1>3, <1>6, <2>1, <2>2, <2>3, <2>4 DEF Ranking
<1> HIDE DEF down, rank
<1>8. Numbering(R, less, rank)
  BY <1>7, RankNumbers
<1> QED BY <1>2, <1>4, <1>8 DEF Numbering, R

(* So there is only one redaction of a content.                            *)
LEMMA RedactionUnique ==
  ASSUME NEW C, NEW s, NEW t, RedactionOf(s, C), RedactionOf(t, C)
  PROVE  s = t
<1>1. /\ s \in Seq({Token} \cup 1..Length) /\ t \in Seq({Token} \cup 1..Length)
      /\ Len(s) = Len(t) /\ Len(s) = Cardinality(Seen(C))
  BY DEF RedactionOf
<1>2. ASSUME NEW i \in 1..Len(s)
      PROVE  s[i] = t[i]
  <2>1. PICK p \in Seen(C) : Place(p, C) = i
    BY <1>1, PlaceNumbers
  <2> QED BY <2>1 DEF RedactionOf
<1> QED BY <1>1, <1>2, SeqEqual

-----------------------------------------------------------------------------
(* Cutting.                                                                *)

States == [output : Seq({Token} \cup 1..Length), cursor : 0..Length]

LEMMA ContentPart ==
  ASSUME NEW a \in 0..Length, NEW b \in 0..Length
  PROVE  /\ SubSeq(Content, a + 1, b) \in Seq({Token} \cup 1..Length)
         /\ Len(SubSeq(Content, a + 1, b)) = IF a <= b THEN b - a ELSE 0
         /\ \A i \in 1..(b - a) : SubSeq(Content, a + 1, b)[i] = a + i
<1> USE LengthAssumption
<1>1. a + 1 \in Int /\ b \in Int
  OBVIOUS
<1>2. \A i \in (a + 1)..b : Content[i] = i /\ Content[i] \in {Token} \cup 1..Length
  BY DEF Content
<1>3. /\ SubSeq(Content, a + 1, b) \in Seq({Token} \cup 1..Length)
      /\ Len(SubSeq(Content, a + 1, b)) = IF a + 1 <= b THEN b - (a + 1) + 1 ELSE 0
      /\ \A i \in 1..(b - (a + 1) + 1) : SubSeq(Content, a + 1, b)[i] = Content[(a + 1) + i - 1]
  BY <1>1, <1>2, SubSeqProperties
<1>4. \A i \in 1..(b - a) : (a + 1) + i - 1 \in (a + 1)..b /\ (a + 1) + i - 1 = a + i
  OBVIOUS
<1> QED BY <1>2, <1>3, <1>4

LEMMA CutType ==
  ASSUME NEW state \in States, NEW r \in ValidRanges
  PROVE  Cut(state, r) \in States
<1>1. r.start \in 0..Length /\ r.end \in 0..Length /\ state.cursor \in 0..Length
  BY LengthAssumption DEF ValidRanges, States
<1>2. SubSeq(Content, state.cursor + 1, r.start) \in Seq({Token} \cup 1..Length)
  BY <1>1, ContentPart
<1>3. state.output \o SubSeq(Content, state.cursor + 1, r.start) \in Seq({Token} \cup 1..Length)
  BY <1>2 DEF States
<1>4. Append(state.output \o SubSeq(Content, state.cursor + 1, r.start), Token)
        \in Seq({Token} \cup 1..Length)
  BY <1>3
<1> QED BY <1>1, <1>4 DEF Cut, States

(* out is the redaction of the scalars up to s.                            *)
Redacted(out, s, C) ==
  /\ out \in Seq({Token} \cup 1..Length)
  /\ Len(out) = Place(s, C)
  /\ \A p \in Seen(C) : p <= s => out[Place(p, C)] = IF p \in C THEN Token ELSE p

(* The loop's invariant: output is the redaction up to the cursor.         *)
Cutting(state, C) == state \in States /\ Redacted(state.output, state.cursor, C)

(* One more stretch that stays.                                            *)
LEMMA CutKeeps ==
  ASSUME NEW C, NEW state, Cutting(state, C), NEW s \in state.cursor..Length,
         \A p \in (state.cursor + 1)..s : p \in Seen(C) /\ p \notin C
  PROVE  Redacted(state.output \o SubSeq(Content, state.cursor + 1, s), s, C)
<1> USE LengthAssumption
<1> DEFINE a == state.cursor
           mid == SubSeq(Content, a + 1, s)
           S == {Token} \cup 1..Length
           out == state.output \o mid
<1>1. a \in 0..Length /\ s \in 0..Length /\ a <= s /\ state.output \in Seq(S)
  BY DEF Cutting, States
<1>2. mid \in Seq(S) /\ Len(mid) = s - a /\ \A i \in 1..(s - a) : mid[i] = a + i
  BY <1>1, ContentPart
<1>3. Place(a, C) \in Nat /\ Place(s, C) = Place(a, C) + (s - a)
  BY <1>1, PlaceType, PlaceAdvances
<1>4. Len(state.output) = Place(a, C)
  BY DEF Cutting, Redacted
<1> HIDE DEF S, mid, out
<1>5. /\ out \in Seq(S) /\ Len(out) = Place(s, C)
      /\ \A i \in 1..Place(s, C) :
           out[i] = IF i <= Place(a, C) THEN state.output[i] ELSE mid[i - Place(a, C)]
  <2>1. out = state.output \o mid
    BY DEF out
  <2>2. /\ out \in Seq(S) /\ Len(out) = Len(state.output) + Len(mid)
        /\ \A i \in 1..(Len(state.output) + Len(mid)) :
             out[i] = IF i <= Len(state.output) THEN state.output[i] ELSE mid[i - Len(state.output)]
    <3>1. state.output \in Seq(S) /\ mid \in Seq(S)
      BY <1>1, <1>2
    <3> DEFINE old == state.output
    <3> HIDE DEF old
    <3>2. old \in Seq(S) /\ out = old \o mid
      BY <2>1, <3>1 DEF old
    <3>3. out \in Seq(S)
      BY <3>1, <3>2, ConcatProperties
    <3>4. Len(out) = Len(old) + Len(mid)
      BY <3>1, <3>2, ConcatProperties
    <3>5. \A i \in 1..(Len(old) + Len(mid)) : 
             out[i] = IF i <= Len(old) THEN old[i] ELSE mid[i - Len(old)]
      BY <3>1, <3>2, ConcatProperties
    <3> QED BY <3>3, <3>4, <3>5 DEF old
  <2> QED BY <1>2, <1>3, <1>4, <2>2
<1> DEFINE at == Place(a, C)
           to == Place(s, C)
<1>6. at \in Nat /\ to \in Nat /\ to = at + (s - a) /\ a \in Int /\ s \in Int
  BY <1>1, <1>3
<1>7. \A p \in Seen(C) : p <= a => state.output[Place(p, C)] = IF p \in C THEN Token ELSE p
  BY DEF Cutting, Redacted
<1>8. \A p \in (a + 1)..s : p \in Seen(C) /\ p \notin C
  OBVIOUS
<1> HIDE DEF a
<1>9. ASSUME NEW p \in Seen(C), p <= s
      PROVE  out[Place(p, C)] = IF p \in C THEN Token ELSE p
  <2> DEFINE k == Place(p, C)
  <2>0. p \in 1..Length /\ k \in Nat
    <3>1. p \in 1..Length /\ p \in 0..Length
      BY DEF Seen
    <3> QED BY <3>1, PlaceType
  <2>1. k >= 1
    BY <2>0, PlaceNumbers
  <2>2. CASE p <= a
    <3>1. a \in p..Length /\ p \in 0..Length
      BY <1>1, <2>0, <2>2
    <3>2. k <= at
      BY <3>1, PlaceAdvances
    <3>3. out[k] = state.output[k]
      <4> HIDE DEF k, at, to
      <4>1. k \in 1..to
        BY <1>1, <1>6, <2>0, <2>1, <3>2
      <4> QED BY <1>5, <3>2, <4>1 DEF at, to
    <3> QED BY <1>7, <2>2, <3>3
  <2>3. CASE p > a
    <3>1. p \in (a + 1)..s /\ p \in a..Length /\ p - a \in 1..(s - a)
      BY <1>1, <1>9, <2>0, <2>3
    <3>2. k = at + (p - a)
      <4>1. \A q \in (a + 1)..p : q \in Seen(C)
        BY <1>1, <1>8, <2>0, <3>1
      <4> QED BY <1>1, <3>1, <4>1, PlaceAdvances
    <3>3. out[k] = mid[p - a]
      <4> HIDE DEF k, at, to
      <4>1. k \in 1..to /\ ~ (k <= at) /\ k - at = p - a
        BY <1>1, <1>6, <2>0, <3>1, <3>2
      <4> QED BY <1>5, <4>1 DEF at, to
    <3>4. mid[p - a] = a + (p - a) /\ a + (p - a) = p
      BY <1>1, <1>2, <2>0, <3>1
    <3>5. p \notin C
      BY <1>8, <3>1
    <3> HIDE DEF k
    <3>6. out[k] = p
      BY <3>3, <3>4
    <3> QED BY <3>5, <3>6 DEF k
  <2>4. p <= a \/ p > a
    BY <1>1, <2>0
  <2> QED BY <2>2, <2>3, <2>4
<1>10. Redacted(out, s, C)
  BY <1>5, <1>9 DEF S, Redacted
<1> QED BY <1>10 DEF out, mid, a

(* One round: a stretch that stays, and the token for a run that goes.     *)
LEMMA CutRound ==
  ASSUME NEW C, C \in SUBSET (1..Length), NEW state, Cutting(state, C), NEW r \in ValidRanges,
         state.cursor <= r.start, state.cursor = 0 \/ state.cursor < r.start,
         \A p \in (state.cursor + 1)..r.start : p \notin C,
         \A p \in (r.start + 1)..r.end : p \in C
  PROVE  Cutting(Cut(state, r), C)
<1> USE LengthAssumption
<1> DEFINE a == state.cursor
           s == r.start
           b == r.end
           old == state.output \o SubSeq(Content, a + 1, s)
           new == Append(old, Token)
           S == {Token} \cup 1..Length
<1>1. a \in 0..Length /\ s \in 0..Length /\ b \in 1..Length /\ a <= s /\ s < b /\ s \in a..Length
  BY DEF Cutting, States, ValidRanges
<1>2. \A p \in (a + 1)..s : p \in Seen(C) /\ p \notin C
  BY <1>1 DEF Seen
<1>3. /\ old \in Seq(S)
      /\ Len(old) = Place(s, C)
      /\ \A p \in Seen(C) : p <= s => old[Place(p, C)] = IF p \in C THEN Token ELSE p
  <2>1. Redacted(old, s, C)
    BY <1>1, <1>2, CutKeeps
  <2> HIDE DEF old
  <2> QED BY <2>1 DEF Redacted
<1>4. Cut(state, r) = [output |-> new, cursor |-> b]
  BY DEF Cut
<1>5. Cut(state, r) \in States
  BY CutType DEF Cutting
<1> HIDE DEF old
<1>6. /\ Len(new) = Place(s, C) + 1 /\ new[Place(s, C) + 1] = Token
      /\ \A k \in 1..Place(s, C) : new[k] = old[k]
  BY <1>3
<1>7. /\ s + 1 \in Seen(C) /\ s + 1 \in C
      /\ \A q \in (s + 2)..b : q \notin Seen(C)
  <2>1. s \notin C
    <3>1. CASE s = 0
      BY <3>1
    <3>2. CASE s # 0
      <4>1. s \in (a + 1)..s
        BY <1>1, <3>2
      <4> QED BY <1>2, <4>1
    <3> QED BY <3>1, <3>2
  <2>2. s + 1 \in C /\ s + 1 \in 1..Length /\ (s + 1) - 1 = s
    BY <1>1
  <2>3. \A q \in (s + 2)..b : q \in C /\ q - 1 \in C
    BY <1>1
  <2> QED BY <2>1, <2>2, <2>3 DEF Seen
<1>8. Place(s, C) \in Nat /\ Place(s + 1, C) = Place(s, C) + 1 /\ Place(b, C) = Place(s, C) + 1
  <2>1. s + 1 \in s..Length /\ s + 1 \in 0..Length /\ b \in (s + 1)..Length /\ (s + 1) - s = 1
    BY <1>1
  <2>2. Place(s + 1, C) = Place(s, C) + 1
    <3>1. \A q \in (s + 1)..(s + 1) : q \in Seen(C)
      BY <1>1, <1>7
    <3>2. Place(s + 1, C) = Place(s, C) + ((s + 1) - s)
      BY <1>1, <2>1, <3>1, PlaceAdvances
    <3> QED BY <2>1, <3>2
  <2>3. Place(b, C) = Place(s + 1, C)
    <3>1. \A q \in ((s + 1) + 1)..b : q \notin Seen(C)
      BY <1>1, <1>7
    <3> QED BY <2>1, <3>1, PlaceAdvances
  <2> QED BY <1>1, <2>2, <2>3, PlaceType
<1>9. ASSUME NEW p \in Seen(C), p <= b
      PROVE  new[Place(p, C)] = IF p \in C THEN Token ELSE p
  <2>1. p \in 1..Length
    BY DEF Seen
  <2>2. CASE p <= s
    <3>1. s \in p..Length /\ p \in 0..Length
      BY <1>1, <2>1, <2>2
    <3>2. Place(p, C) \in Nat /\ Place(p, C) <= Place(s, C) /\ Place(p, C) >= 1
      BY <3>1, PlaceAdvances, PlaceType, PlaceNumbers
    <3>3. Place(p, C) \in 1..Place(s, C)
      BY <1>8, <3>2
    <3>4. new[Place(p, C)] = old[Place(p, C)]
      BY <1>6, <3>3
    <3> HIDE DEF new
    <3> QED BY <1>3, <2>2, <3>4
  <2>3. CASE p = s + 1
    <3> HIDE DEF new
    <3> QED BY <1>6, <1>7, <1>8, <2>3
  <2>4. CASE p > s + 1
    BY <1>1, <1>7, <1>9, <2>1, <2>4
  <2>5. p <= s \/ p = s + 1 \/ p > s + 1
    BY <1>1, <2>1
  <2> QED BY <2>2, <2>3, <2>4, <2>5
<1> HIDE DEF new
<1> QED BY <1>4, <1>5, <1>6, <1>8, <1>9 DEF Cutting, Redacted, States

(* In ranges that are apart, each ends before any later one starts.        *)
LEMMA ApartOrdered ==
  ASSUME NEW merged, Apart(merged),
         NEW k \in 1..Len(merged), NEW l \in 1..Len(merged), k < l
  PROVE  merged[k].end < merged[l].start
<1> DEFINE N == Len(merged)
           Good == {n \in 0..N : \A j \in 1..N : j < n => merged[j].end < merged[n].start}
<1>0. N \in Nat /\ merged \in Seq(ValidRanges)
  BY DEF Apart
<1>1. \A n \in 1..N : /\ merged[n].start \in Nat /\ merged[n].end \in Nat
                      /\ merged[n].start < merged[n].end
  BY <1>0, LengthAssumption DEF ValidRanges
<1>2. 0 \in Good
  BY <1>0
<1>3. ASSUME NEW n \in 1..N, n - 1 \in Good
      PROVE  n \in Good
  <2> SUFFICES ASSUME NEW j \in 1..N, j < n
               PROVE  merged[j].end < merged[n].start
    BY <1>0
  <2>1. n - 1 \in 1..(N - 1) /\ n - 1 \in 1..N /\ (n - 1) + 1 = n
    BY <1>0
  <2>2. merged[n - 1].end < merged[n].start
    BY <2>1 DEF Apart
  <2>3. CASE j = n - 1
    BY <2>2, <2>3
  <2>4. CASE j < n - 1
    <3>1. merged[j].end < merged[n - 1].start
      BY <1>3, <2>4
    <3>2. /\ merged[j].end \in Nat /\ merged[n].start \in Nat
          /\ merged[n - 1].start \in Nat /\ merged[n - 1].end \in Nat
          /\ merged[n - 1].start < merged[n - 1].end
      BY <1>1, <2>1
    <3> QED BY <2>2, <3>1, <3>2
  <2> QED BY <1>0, <2>3, <2>4
<1> HIDE DEF Good
<1>4. \A n \in 0..N : n \in Good
  BY <1>0, <1>2, <1>3, UpTo
<1>5. l \in Good
  BY <1>0, <1>4
<1> QED BY <1>5 DEF Good

CutLoop(merged, loop) ==
  loop = [n \in 0..Len(merged) |->
            IF n = 0 THEN [output |-> <<>>, cursor |-> 0] ELSE Cut(loop[n - 1], merged[n])]

LEMMA CutLoopRuns ==
  ASSUME NEW merged \in Seq(ValidRanges)
  PROVE  \E loop : CutLoop(merged, loop)
<1> DEFINE N == Len(merged)
           S == States
           start == [output |-> <<>>, cursor |-> 0]
           step == [x \in (1..N) \X S |-> Cut(x[2], merged[x[1]])]
<1>0. N \in Nat
  OBVIOUS
<1>1. \A n \in 1..N, s \in S : Cut(s, merged[n]) \in S
  BY CutType
<1>2. step \in [(1..N) \X S -> S]
  BY <1>1
<1>3. \A n \in 1..N, s \in S : step[<<n, s>>] = Cut(s, merged[n])
  OBVIOUS
<1>4. start \in S
  BY LengthAssumption DEF States
<1> HIDE DEF step, S, N, start
<1>5. PICK loop : Trace(N, S, start, step, loop)
  BY <1>0, <1>2, <1>4, LoopRuns DEF Loop
<1> USE DEF Trace
<1>6. \A n \in 1..N : loop[n] = Cut(loop[n - 1], merged[n])
  <2> SUFFICES ASSUME NEW n \in 1..N
               PROVE  loop[n] = Cut(loop[n - 1], merged[n])
    OBVIOUS
  <2>1. loop[n - 1] \in S
    BY <1>0, <1>5
  <2> QED BY <1>3, <1>5, <2>1
<1>7. loop = [n \in 0..N |-> IF n = 0 THEN start ELSE Cut(loop[n - 1], merged[n])]
  <2> DEFINE again == [n \in 0..N |-> IF n = 0 THEN start ELSE Cut(loop[n - 1], merged[n])]
  <2>1. \A n \in 0..N : loop[n] = again[n]
    BY <1>0, <1>5, <1>6
  <2> QED BY <1>5, <2>1
<1>8. CutLoop(merged, loop)
  BY <1>7 DEF CutLoop, N, start
<1> QED BY <1>8

LEMMA CutOutRedacts ==
  ASSUME NEW merged, Apart(merged), NEW C, C \in SUBSET (1..Length),
         \A p \in 1..Length : CoveredBy(merged, Len(merged), p) <=> p \in C
  PROVE  RedactionOf(CutOut(merged), C)
<1> USE LengthAssumption
<1> DEFINE N == Len(merged)
           loop == CHOOSE loop : CutLoop(merged, loop)
           cursor(n) == IF n = 0 THEN 0 ELSE merged[n].end
<1>0. N \in Nat /\ merged \in Seq(ValidRanges)
  BY DEF Apart
<1>1. CutLoop(merged, loop)
  BY <1>0, CutLoopRuns
<1>2. CutOut(merged) = loop[N].output \o SubSeq(Content, loop[N].cursor + 1, Length)
  BY DEF CutOut, CutLoop
<1> HIDE DEF loop
<1>3. /\ loop[0] = [output |-> <<>>, cursor |-> 0]
      /\ \A n \in 1..N : loop[n] = Cut(loop[n - 1], merged[n])
  BY <1>0, <1>1 DEF CutLoop
<1>4. \A n \in 1..N : /\ merged[n] \in ValidRanges
                      /\ merged[n].start \in 0..Length /\ merged[n].end \in 1..Length
                      /\ merged[n].start < merged[n].end
  BY <1>0 DEF ValidRanges
<1>5. \A p \in 1..Length : p \in C <=> \E k \in 1..N : Holds(merged[k], p)
  BY DEF CoveredBy
<1> DEFINE Good == {n \in 0..N : Cutting(loop[n], C) /\ loop[n].cursor = cursor(n)}
<1>6. 0 \in Good
  <2>1. loop[0] \in States
    BY <1>3 DEF States
  <2>2. Redacted(<<>>, 0, C)
    <3>1. Place(0, C) = 0
      <4>1. 0 \in 0..Length
        OBVIOUS
      <4> QED BY <4>1, PlaceType
    <3>2. \A p \in Seen(C) : ~ (p <= 0)
      BY DEF Seen
    <3> QED BY <3>1, <3>2 DEF Redacted
  <2> QED BY <1>0, <1>3, <2>1, <2>2 DEF Cutting
<1>7. ASSUME NEW n \in 1..N, n - 1 \in Good
      PROVE  n \in Good
  <2> DEFINE a == cursor(n - 1)
             r == merged[n]
  <2>1. Cutting(loop[n - 1], C) /\ loop[n - 1].cursor = a
    BY <1>7
  <2>2. r \in ValidRanges /\ a \in 0..Length /\ (a = 0 \/ a < r.start)
    <3>1. CASE n = 1
      BY <1>4, <3>1
    <3>2. CASE n # 1
      <4>1. n - 1 \in 1..N /\ n - 1 < n
        BY <1>0, <3>2
      <4> QED BY <1>4, <4>1, ApartOrdered
    <3> QED BY <3>1, <3>2
  <2>3. ASSUME NEW p \in (a + 1)..r.start, NEW k \in 1..N
        PROVE  ~ Holds(merged[k], p)
    <3>1. CASE k < n
      <4>1. n - 1 \in 1..N /\ a = merged[n - 1].end
        BY <1>0, <3>1
      <4>2. merged[k].end <= a
        <5>1. CASE k = n - 1
          BY <1>4, <4>1, <5>1
        <5>2. CASE k < n - 1
          <6>1. merged[k].end < merged[n - 1].start
            BY <4>1, <5>2, ApartOrdered
          <6> QED BY <1>4, <4>1, <6>1
        <5> QED BY <1>0, <3>1, <5>1, <5>2
      <4> QED BY <1>4, <2>2, <4>2 DEF Holds
    <3>2. CASE k = n
      BY <1>4, <2>2, <3>2 DEF Holds
    <3>3. CASE k > n
      <4>1. r.end < merged[k].start
        BY <3>3, ApartOrdered
      <4> QED BY <1>4, <2>2, <4>1 DEF Holds
    <3> QED BY <1>0, <3>1, <3>2, <3>3
  <2>4. r.start \in 0..Length /\ r.end \in 1..Length /\ r.start < r.end
    BY <1>4
  <2> HIDE DEF a, r
  <2>5. \A p \in (a + 1)..r.start : p \notin C
    BY <1>5, <2>2, <2>3, <2>4
  <2>6. \A p \in (r.start + 1)..r.end : p \in C
    <3>1. \A p \in (r.start + 1)..r.end : p \in 1..Length /\ Holds(r, p)
      BY <2>4 DEF Holds
    <3> QED BY <1>5, <3>1 DEF r
  <2>7. a <= r.start
    BY <2>2, <2>4
  <2>8. Cutting(Cut(loop[n - 1], r), C)
    BY <2>1, <2>2, <2>5, <2>6, <2>7, CutRound
  <2>9. Cut(loop[n - 1], r).cursor = r.end
    BY DEF Cut
  <2> QED BY <1>0, <1>3, <2>8, <2>9 DEF r
<1> HIDE DEF Good, cursor
<1>8. N \in Good
  <2>1. \A n \in 0..N : n \in Good
    BY <1>0, <1>6, <1>7, UpTo
  <2> QED BY <1>0, <2>1
<1>9. Cutting(loop[N], C) /\ loop[N].cursor = cursor(N)
  BY <1>8 DEF Good
<1>10. cursor(N) \in 0..Length
  BY <1>0, <1>4 DEF cursor
<1>11. ASSUME NEW p \in (cursor(N) + 1)..Length
       PROVE  p \in Seen(C) /\ p \notin C
  <2>1. ASSUME NEW k \in 1..N
        PROVE  ~ Holds(merged[k], p)
    <3>1. CASE k = N
      BY <1>4, <1>10, <3>1 DEF Holds, cursor
    <3>2. CASE k < N
      <4>1. N \in 1..N /\ cursor(N) = merged[N].end
        BY <1>0, <3>2 DEF cursor
      <4>2. merged[k].end < merged[N].start
        BY <3>2, <4>1, ApartOrdered
      <4> QED BY <1>4, <1>10, <4>1, <4>2 DEF Holds
    <3> QED BY <1>0, <3>1, <3>2
  <2>2. p \in 1..Length
    BY <1>10
  <2> QED BY <1>5, <2>1, <2>2 DEF Seen
<1>12. Redacted(CutOut(merged), Length, C)
  <2>1. Length \in loop[N].cursor..Length
    BY <1>9, <1>10
  <2> QED BY <1>2, <1>9, <1>11, <2>1, CutKeeps
<1>13. \A p \in Seen(C) : p <= Length
  BY DEF Seen
<1> QED BY <1>12, <1>13, PlaceNumbers DEF Redacted, RedactionOf

(* _redact, given what the detectors found, is redaction by definition.    *)
LEMMA RedactIsRedaction ==
  ASSUME NEW fs \in Seq(Accepted)
  PROVE  RedactionOf(Redact(fs), Covered(fs))
<1>1. Covered(fs) \in SUBSET (1..Length)
  BY DEF Covered
<1> QED BY <1>1, MergedCovers, CutOutRedacts DEF Redact

-----------------------------------------------------------------------------
(* The JavaScript surface merges and decides as the Python one does.       *)

LEMMA MinIs ==
  ASSUME NEW S, NEW x \in S, S \in SUBSET Nat, \A y \in S : x <= y
  PROVE  Min(S) = x
<1>1. Min(S) \in S /\ \A y \in S : Min(S) <= y
  BY DEF Min
<1>2. Min(S) \in Nat /\ x \in Nat /\ Min(S) <= x /\ x <= Min(S)
  BY <1>1
<1> QED BY <1>2

LEMMA MinIn ==
  ASSUME NEW S, S \in SUBSET Nat, S # {}
  PROVE  Min(S) \in S
<1>1. PICK x \in S : \A y \in S : x <= y
  BY LeastNatural
<1> QED BY <1>1, MinIs

LEMMA MaxOfTwo ==
  ASSUME NEW a \in Nat, NEW b \in Nat
  PROVE  Max({a, b}) = IF b > a THEN b ELSE a
<1> DEFINE m == IF b > a THEN b ELSE a
<1>1. m \in {a, b} /\ \A y \in {a, b} : m >= y
  OBVIOUS
<1>2. Max({a, b}) \in {a, b} /\ \A y \in {a, b} : Max({a, b}) >= y
  BY <1>1 DEF Max
<1> QED BY <1>2

LEMMA SameMerge ==
  ASSUME NEW merged \in Seq(ValidRanges), NEW item, IsRange(item)
  PROVE  TSMerge(merged, item) = Merge(merged, item)
<1> USE LengthAssumption
<1>1. CASE merged = <<>>
  BY <1>1 DEF TSMerge, Merge
<1>2. CASE merged # <<>>
  <2> DEFINE last == merged[Len(merged)]
  <2>1. last \in ValidRanges /\ last.end \in Nat /\ item.end \in Nat /\ item.start \in Nat
    <3>1. Len(merged) \in 1..Len(merged)
      BY <1>2
    <3>2. last \in ValidRanges
      BY <3>1
    <3> QED BY <3>2 DEF ValidRanges, IsRange
  <2>2. Max({last.end, item.end}) = IF item.end > last.end THEN item.end ELSE last.end
    BY <2>1, MaxOfTwo
  <2>3. (item.start <= last.end) <=> ~ (item.start > last.end)
    BY <2>1
  <2> QED BY <1>2, <2>2, <2>3 DEF TSMerge, Merge, Last
<1> QED BY <1>1, <1>2

LEMMA SameMergeRanges ==
  ASSUME NEW fs \in Seq(Accepted)
  PROVE  TSMergeRanges(fs) = MergeRanges(fs)
<1> DEFINE c == Candidates(fs)
           N == Len(c)
           TSLoop(loop) == loop = [n \in 0..N |-> IF n = 0 THEN <<>> ELSE TSMerge(loop[n - 1], c[n])]
           ts == CHOOSE loop : TSLoop(loop)
<1>0. N \in Nat
  BY CandidatesSorted
<1>1. PICK loop : MergeLoop(fs, loop) /\ MergeRanges(fs) = loop[N]
  BY MergeLoopEnds
<1>2. loop[0] = <<>> /\ \A n \in 1..N : loop[n] = Merge(loop[n - 1], c[n])
  BY <1>0, <1>1 DEF MergeLoop
<1>3. TSMergeRanges(fs) = ts[N]
  BY DEF TSMergeRanges
<1> DEFINE Typed == {n \in 0..N : loop[n] \in Seq(ValidRanges)}
<1>4. \A n \in 0..N : n \in Typed
  <2>1. 0 \in Typed
    <3> HIDE DEF c
    <3>1. 0 \in 0..N
      BY <1>0
    <3>2. loop[0] \in Seq(ValidRanges)
      BY <1>2
    <3> QED BY <3>1, <3>2
  <2>2. ASSUME NEW n \in 1..N, n - 1 \in Typed
        PROVE  n \in Typed
    <3>1. loop[n - 1] \in Seq(ValidRanges) /\ IsRange(c[n])
      BY <2>2, CandidateRanges
    <3> QED BY <1>0, <1>2, <3>1, MergeType
  <2> HIDE DEF Typed
  <2> QED BY <1>0, <2>1, <2>2, UpTo
<1>5. \A n \in 1..N : TSMerge(loop[n - 1], c[n]) = Merge(loop[n - 1], c[n])
  <2> SUFFICES ASSUME NEW n \in 1..N
               PROVE  TSMerge(loop[n - 1], c[n]) = Merge(loop[n - 1], c[n])
    OBVIOUS
  <2>1. n - 1 \in 0..N
    BY <1>0
  <2>2. loop[n - 1] \in Seq(ValidRanges) /\ IsRange(c[n])
    BY <1>4, <2>1, CandidateRanges
  <2> QED BY <2>2, SameMerge
<1>6. TSLoop(loop)
  <2>1. loop = [n \in 0..N |-> IF n = 0 THEN <<>> ELSE Merge(loop[n - 1], c[n])]
    BY <1>1 DEF MergeLoop
  <2> DEFINE again == [n \in 0..N |-> IF n = 0 THEN <<>> ELSE TSMerge(loop[n - 1], c[n])]
  <2> HIDE DEF c
  <2>2. DOMAIN loop = 0..N /\ DOMAIN again = 0..N
    BY <2>1
  <2>3. \A n \in 0..N : loop[n] = again[n]
    <3> SUFFICES ASSUME NEW n \in 0..N
                 PROVE  loop[n] = again[n]
      OBVIOUS
    <3>1. CASE n = 0
      BY <1>2, <3>1
    <3>2. CASE n # 0
      <4>1. n \in 1..N
        BY <1>0, <3>2
      <4> QED BY <1>2, <1>5, <3>2, <4>1
    <3> QED BY <3>1, <3>2
  <2> HIDE DEF again
  <2>4. loop = again
    <3>1. loop = [n \in 0..N |-> loop[n]] /\ again = [n \in 0..N |-> again[n]]
      BY <2>1 DEF again
    <3> HIDE DEF N
    <3> QED BY <2>3, <3>1
  <2> QED BY <2>4 DEF again
<1>7. TSLoop(ts)
  <2> HIDE DEF TSLoop
  <2> QED BY <1>6
<1>8. ts[0] = <<>> /\ \A n \in 1..N : ts[n] = TSMerge(ts[n - 1], c[n])
  <2> HIDE DEF ts, c
  <2> QED BY <1>0, <1>7
<1> HIDE DEF ts, TSLoop
<1> DEFINE Same == {n \in 0..N : ts[n] = loop[n]}
<1>9. \A n \in 0..N : n \in Same
  <2>1. 0 \in Same
    BY <1>0, <1>2, <1>8
  <2>2. ASSUME NEW n \in 1..N, n - 1 \in Same
        PROVE  n \in Same
    BY <1>2, <1>5, <1>8, <2>2
  <2> HIDE DEF Same
  <2> QED BY <1>0, <2>1, <2>2, UpTo
<1> QED BY <1>0, <1>1, <1>3, <1>9

LEMMA SameDecision ==
  ASSUME NEW fs \in Seq(Accepted), NEW lost
  PROVE  TSDecide(fs, lost) = Decide(fs, lost)
<1> DEFINE found == {k \in DOMAIN Precedence : Having(fs, Precedence[k]) # {}}
<1>1. /\ DOMAIN Precedence = 1..3
      /\ Precedence[1] = "DENY" /\ Precedence[2] = "QUARANTINE" /\ Precedence[3] = "REDACT"
  BY DEF Precedence
<1>2. /\ found \in SUBSET (1..3) /\ found \in SUBSET Nat
      /\ 1 \in found <=> Having(fs, "DENY") # {}
      /\ 2 \in found <=> Having(fs, "QUARANTINE") # {}
      /\ 3 \in found <=> Having(fs, "REDACT") # {}
  BY <1>1
<1>3. TSDecide(fs, lost) =
        IF found = {} THEN DecideUnopposed(fs, lost)
        ELSE Verdict(Precedence[Min(found)], fs,
                     IF Precedence[Min(found)] = "REDACT" THEN CutOut(TSMergeRanges(fs)) ELSE <<>>)
  BY DEF TSDecide
<1>4. CutOut(TSMergeRanges(fs)) = Redact(fs)
  BY SameMergeRanges DEF Redact
<1> HIDE DEF found
<1>5. CASE 1 \in found
  <2>1. \A y \in found : 1 <= y
    BY <1>2
  <2>2. Min(found) = 1
    BY <1>2, <1>5, <2>1, MinIs
  <2> QED BY <1>1, <1>2, <1>3, <1>5, <2>2 DEF Decide
<1>6. CASE 1 \notin found /\ 2 \in found
  <2>1. \A y \in found : 2 <= y
    BY <1>2, <1>6
  <2>2. Min(found) = 2
    BY <1>2, <1>6, <2>1, MinIs
  <2> QED BY <1>1, <1>2, <1>3, <1>6, <2>2 DEF Decide
<1>7. CASE 1 \notin found /\ 2 \notin found /\ 3 \in found
  <2>1. \A y \in found : 3 <= y
    BY <1>2, <1>7
  <2>2. Min(found) = 3
    BY <1>2, <1>7, <2>1, MinIs
  <2> QED BY <1>1, <1>2, <1>3, <1>4, <1>7, <2>2 DEF Decide
<1>8. CASE 1 \notin found /\ 2 \notin found /\ 3 \notin found
  <2>1. found = {}
    BY <1>2, <1>8
  <2> QED BY <1>2, <1>3, <1>8, <2>1 DEF Decide
<1> QED BY <1>5, <1>6, <1>7, <1>8

-----------------------------------------------------------------------------
(* The inductive invariant.                                                *)

(* A result is the fail-closed one, exactly after a failure under that     *)
(* mode, or the decision on all findings; an oversized request has none.   *)
GuardPhase ==
  /\ oversize =>
       /\ findings = <<>> /\ failed = <<>>
       /\ result \in {Undecided, Result("DENY", "PAYLOAD_TOO_LARGE", <<>>)}
  /\ ~oversize /\ failMode = "FAIL_CLOSED" /\ failed # <<>> =>
       result = Result("ERROR_FAIL_CLOSED", "DETECTOR_FAILURE", <<>>)
  /\ ~oversize /\ result # Undecided /\ ~ (failMode = "FAIL_CLOSED" /\ failed # <<>>) =>
       Consulted = Len(DetectorIds) /\ result = Decide(findings, failed)

(* A detector is asked once, and so fails once.                            *)
FailedOnce ==
  /\ IsInjective(failed)
  /\ \A i \in DOMAIN failed : \E k \in 1..Consulted : failed[i] = DetectorIds[k]

SurfacesInv == GuardTypeOK /\ GuardPhase /\ FailedOnce /\ SameGuardrailVerdict

LEMMA DetectorsNumbered ==
  /\ DOMAIN DetectorIds = 1..Len(DetectorIds) /\ Len(DetectorIds) \in Nat
  /\ Len(DetectorIds) # 0
  /\ \A i \in 1..Len(DetectorIds) : DetectorIds[i] \in ToSet(DetectorIds)
BY DetectorsAssumption DEF ToSet

LEMMA ResultType ==
  ASSUME NEW outcome \in {"ALLOW", "REDACT", "DENY", "QUARANTINE",
                          "ERROR_FAIL_CLOSED", "ERROR_FAIL_OPEN"},
         NEW reason \in ToSet(DetectorIds), NEW content \in Seq({Token} \cup 1..Length)
  PROVE  Result(outcome, reason, content) \in Results
BY DEF Result, Results

(* What is decided: by the winning action, or by the failures.             *)
LEMMA DecisionType ==
  ASSUME NEW fs \in Seq(Accepted), NEW lost, lost # <<>> \/ fs # <<>>
  PROVE  Decide(fs, lost) \in Results
<1>1. \A i \in 1..Len(fs) : fs[i].detector \in ToSet(DetectorIds)
  BY AcceptedFindings
<1>2. ASSUME NEW action \in {"DENY", "QUARANTINE", "REDACT"}, Having(fs, action) # {},
             NEW content \in Seq({Token} \cup 1..Length)
      PROVE  Verdict(action, fs, content) \in Results
  <2>1. Having(fs, action) \in SUBSET Nat /\ Having(fs, action) \in SUBSET (1..Len(fs))
    BY DEF Having
  <2>2. Min(Having(fs, action)) \in 1..Len(fs)
    BY <1>2, <2>1, MinIn
  <2> QED BY <1>1, <2>2, ResultType DEF Verdict
<1>3. Redact(fs) \in Seq({Token} \cup 1..Length)
  BY RedactIsRedaction DEF RedactionOf
<1>4. <<>> \in Seq({Token} \cup 1..Length)
  OBVIOUS
<1>5. DecideUnopposed(fs, lost) \in Results
  <2>1. CASE lost # <<>>
    <3>1. Result("ERROR_FAIL_OPEN", "DETECTOR_FAILURE_FAIL_OPEN", <<>>) \in Results
      BY <1>4 DEF Result, Results
    <3> QED BY <2>1, <3>1 DEF DecideUnopposed
  <2>2. CASE lost = <<>>
    <3>1. Head(fs) = fs[1] /\ 1 \in 1..Len(fs)
      BY <2>2
    <3>2. Result("ALLOW", fs[1].detector, <<>>) \in Results
      BY <1>1, <1>4, <3>1, ResultType
    <3> QED BY <2>2, <3>1, <3>2 DEF DecideUnopposed
  <2> QED BY <2>1, <2>2
<1> QED BY <1>2, <1>3, <1>4, <1>5 DEF Decide

(* The two surfaces agree on what is a finding, although one looks where it*)
(* is made and the other where it arrives.                                 *)
LEMMA SameFindings ==
  ASSUME GuardTypeOK, SameGuardrailVerdict, Consulting, NEW said \in Sayings(NextDetector)
  PROVE  /\ TSNextDetector = NextDetector /\ NextDetector \in ToSet(DetectorIds)
         /\ TSNormal(said) <=> said \in Findings(said.detector) /\ ValidateFinding(said)
         /\ said \in Findings(said.detector) /\ ValidateFinding(said) => said \in Accepted
<1>0. TSNextDetector = NextDetector
  BY DEF SameGuardrailVerdict, TSNextDetector, NextDetector, Consulted
<1>1. NextDetector \in ToSet(DetectorIds)
  <2>1. Consulted + 1 \in 1..Len(DetectorIds)
    BY DetectorsNumbered DEF Consulting, Consulted, GuardTypeOK
  <2> QED BY <2>1, DetectorsNumbered DEF NextDetector
<1> DEFINE d == said.detector
<1>2. said \in Findings(d) /\ ValidateFinding(said) => said \in Accepted
  BY <1>1 DEF ValidateFinding, Accepted
<1>3. ASSUME NEW rs \in BoundedSeq(Ranges, MaxRanges)
      PROVE  /\ DOMAIN rs = 1..Len(rs) /\ Len(rs) \in Nat
             /\ \A i \in 1..Len(rs) : rs[i].start \in Nat /\ rs[i].end \in Nat
  <2>1. PICK m \in 0..MaxRanges : rs \in [1..m -> Ranges]
    BY DEF BoundedSeq, SeqOf
  <2>2. rs \in Seq(Ranges) /\ Len(rs) = m /\ m \in Nat
    BY <2>1, MaxRangesAssumption
  <2> QED BY <2>1, <2>2, LengthAssumption DEF Ranges
<1>4. CASE said \in {Finding(NextDetector, "REDACT", ranges) :
                       ranges \in BoundedSeq(Ranges, MaxRanges)}
  <2>1. PICK rs \in BoundedSeq(Ranges, MaxRanges) : said = Finding(NextDetector, "REDACT", rs)
    BY <1>4
  <2>2. said.detector = NextDetector /\ said.action = "REDACT" /\ said.ranges = rs
    BY <2>1 DEF Finding
  <2>3. said \in Findings(d) <=> rs \in OrderedRanges
    <3>1. \A t : said = Finding(d, "REDACT", t) <=> t = rs
      BY <2>1, <2>2 DEF Finding
    <3>2. \A action : said = Finding(d, action, <<>>) => action = "REDACT"
      BY <2>2 DEF Finding
    <3> QED BY <3>1, <3>2 DEF Findings
  <2>4. (\A i \in 1..(Len(rs) - 1) : rs[i].end <= rs[i + 1].start)
          <=> (\A i \in 1..Len(rs) : i > 1 => rs[i].start >= rs[i - 1].end)
    <3>1. ASSUME \A i \in 1..(Len(rs) - 1) : rs[i].end <= rs[i + 1].start,
                 NEW i \in 1..Len(rs), i > 1
          PROVE  rs[i].start >= rs[i - 1].end
      <4>1. i - 1 \in 1..(Len(rs) - 1) /\ (i - 1) + 1 = i /\ i - 1 \in 1..Len(rs)
        BY <1>3, <3>1
      <4>2. rs[i - 1].end <= rs[(i - 1) + 1].start
        BY <3>1, <4>1
      <4> QED BY <1>3, <4>1, <4>2
    <3>2. ASSUME \A i \in 1..Len(rs) : i > 1 => rs[i].start >= rs[i - 1].end,
                 NEW i \in 1..(Len(rs) - 1)
          PROVE  rs[i].end <= rs[i + 1].start
      <4>1. i + 1 \in 1..Len(rs) /\ i + 1 > 1 /\ (i + 1) - 1 = i /\ i \in 1..Len(rs)
        BY <1>3
      <4>2. rs[i + 1].start >= rs[(i + 1) - 1].end
        BY <3>2, <4>1
      <4> QED BY <1>3, <4>1, <4>2
    <3> QED BY <3>1, <3>2
  <2>5. ValidateFinding(said) <=> \A i \in 1..Len(rs) : rs[i].end <= Length
    BY <1>3, <2>2 DEF ValidateFinding
  <2>6. TSNormal(said) <=>
          /\ \A i \in 1..Len(rs) : rs[i].end <= Length
          /\ \A i \in 1..Len(rs) : i > 1 => rs[i].start >= rs[i - 1].end
          /\ rs # <<>>
    BY <1>0, <1>3, <2>2 DEF TSNormal
  <2>7. rs \in OrderedRanges <=>
          rs # <<>> /\ \A i \in 1..(Len(rs) - 1) : rs[i].end <= rs[i + 1].start
    BY DEF OrderedRanges
  <2> QED BY <1>0, <1>1, <1>2, <2>3, <2>4, <2>5, <2>6, <2>7
<1>5. ASSUME NEW other, NEW action \in {"ALLOW", "DENY", "QUARANTINE"},
             NEW rs \in {<<>>, <<[start |-> 0, end |-> 1]>>}, said = Finding(other, action, rs)
      PROVE  TSNormal(said) <=> said \in Findings(said.detector) /\ ValidateFinding(said)
  <2>1. said.detector = other /\ said.action = action /\ said.ranges = rs /\ action # "REDACT"
    BY <1>5 DEF Finding
  <2>2. said \in Findings(d) <=> rs = <<>>
    <3>1. \A a, t : said = Finding(d, a, t) <=> a = action /\ t = rs
      BY <1>5, <2>1 DEF Finding
    <3> QED BY <2>1, <3>1 DEF Findings
  <2>3. CASE rs = <<>>
    <3>1. DOMAIN said.ranges = {}
      BY <2>1, <2>3
    <3> QED BY <1>0, <2>1, <2>2, <2>3, <3>1 DEF TSNormal, ValidateFinding
  <2>4. CASE rs # <<>>
    BY <2>1, <2>2, <2>4 DEF TSNormal
  <2> QED BY <2>3, <2>4
<1>6. CASE ~ (said \in {Finding(NextDetector, "REDACT", ranges) :
                          ranges \in BoundedSeq(Ranges, MaxRanges)})
  BY <1>0, <1>1, <1>2, <1>5, <1>6 DEF Sayings
<1> QED BY <1>4, <1>6

LEMMA SurfacesInitOK == SurfacesInit => SurfacesInv
<1> SUFFICES ASSUME SurfacesInit PROVE SurfacesInv
  OBVIOUS
<1> USE DEF SurfacesInit, GuardInit
<1>1. GuardTypeOK
  BY DetectorsNumbered DEF GuardTypeOK
<1>2. GuardPhase
  BY DEF GuardPhase
<1>3. SameGuardrailVerdict
  BY DEF SameGuardrailVerdict
<1>4. FailedOnce
  BY DEF FailedOnce, IsInjective
<1> QED BY <1>1, <1>2, <1>3, <1>4 DEF SurfacesInv

(* A detector that fails on both sides.                                    *)
LEMMA BothFail ==
  ASSUME SurfacesInv, Consulting, DetectorFails, TSDetectorFails
  PROVE  SurfacesInv'
<1> USE DEF SurfacesInv
<1>1. NextDetector \in ToSet(DetectorIds) /\ TSNextDetector = NextDetector
  <2>1. Consulted + 1 \in 1..Len(DetectorIds)
    BY DetectorsNumbered DEF Consulting, Consulted, GuardTypeOK
  <2> QED BY <2>1, DetectorsNumbered
          DEF NextDetector, TSNextDetector, Consulted, SameGuardrailVerdict
<1>2. failed' \in Seq(ToSet(DetectorIds)) /\ failed' # <<>> /\ Len(failed') = Len(failed) + 1
  BY <1>1 DEF DetectorFails, GuardTypeOK
<1>3. result' \in Results \cup {Undecided}
  <2>1. Result("ERROR_FAIL_CLOSED", "DETECTOR_FAILURE", <<>>) \in Results
    BY DEF Result, Results
  <2> QED BY <2>1 DEF DetectorFails, GuardTypeOK
<1>4. GuardTypeOK'
  BY <1>2, <1>3, DetectorsNumbered DEF DetectorFails, GuardTypeOK, Consulting, Consulted
<1>5. GuardPhase'
  BY <1>2 DEF DetectorFails, GuardPhase, Consulting
<1>6. SameGuardrailVerdict'
  BY <1>1 DEF DetectorFails, TSDetectorFails, SameGuardrailVerdict
<1>7. FailedOnce'
  <2> DEFINE n == Len(failed)
  <2>1. /\ failed \in Seq(ToSet(DetectorIds)) /\ n \in Nat /\ Len(findings) \in Nat
        /\ Consulted = Len(findings) + n /\ Consulted' = Consulted + 1
        /\ Consulted + 1 \in 1..Len(DetectorIds)
    BY <1>2, DetectorsNumbered DEF GuardTypeOK, Consulted, DetectorFails, Consulting
  <2>2. /\ DOMAIN failed = 1..n /\ DOMAIN failed' = 1..(n + 1)
        /\ failed'[n + 1] = DetectorIds[Consulted + 1]
        /\ \A i \in 1..n : failed'[i] = failed[i]
    BY <1>1, <2>1 DEF DetectorFails, NextDetector
  <2>3. \A i \in 1..n : failed[i] # DetectorIds[Consulted + 1]
    <3> SUFFICES ASSUME NEW i \in 1..n
                 PROVE  failed[i] # DetectorIds[Consulted + 1]
      OBVIOUS
    <3>1. PICK k \in 1..Consulted : failed[i] = DetectorIds[k]
      BY <2>2 DEF FailedOnce
    <3>2. k # Consulted + 1 /\ k \in DOMAIN DetectorIds /\ Consulted + 1 \in DOMAIN DetectorIds
      BY <2>1, DetectorsNumbered
    <3> QED BY <3>1, <3>2, DetectorsAssumption DEF IsInjective
  <2>4. IsInjective(failed')
    <3>1. \A i, j \in 1..n : failed[i] = failed[j] => i = j
      BY <2>2 DEF FailedOnce, IsInjective
    <3>2. \A i \in 1..(n + 1) : i \in 1..n \/ i = n + 1
      BY <2>1
    <3>3. \A i, j \in 1..(n + 1) : failed'[i] = failed'[j] => i = j
      BY <2>2, <2>3, <3>1, <3>2
    <3> QED BY <2>2, <3>3 DEF IsInjective
  <2>5. \A i \in DOMAIN failed' : \E k \in 1..Consulted' : failed'[i] = DetectorIds[k]
    <3>1. \A i \in 1..n : \E k \in 1..Consulted : failed[i] = DetectorIds[k]
      BY <2>2 DEF FailedOnce
    <3>2. \A k \in 1..Consulted : k \in 1..Consulted'
      BY <2>1
    <3>3. Consulted + 1 \in 1..Consulted'
      BY <2>1
    <3>4. \A i \in 1..(n + 1) : i \in 1..n \/ i = n + 1
      BY <2>1
    <3> QED BY <2>2, <3>1, <3>2, <3>3, <3>4
  <2> QED BY <2>4, <2>5 DEF FailedOnce
<1> QED BY <1>4, <1>5, <1>6, <1>7

LEMMA SurfacesStep ==
  ASSUME SurfacesInv, [SurfacesNext]_surfaceVars
  PROVE  SurfacesInv'
<1> USE DEF SurfacesInv
<1>1. CASE BothReject
  <2>1. Result("DENY", "PAYLOAD_TOO_LARGE", <<>>) \in Results
    BY DEF Result, Results
  <2>2. GuardTypeOK'
    BY <1>1, <2>1 DEF BothReject, RejectOversize, GuardTypeOK
  <2>3. GuardPhase'
    BY <1>1 DEF BothReject, RejectOversize, GuardPhase
  <2>4. SameGuardrailVerdict'
    BY <1>1 DEF BothReject, RejectOversize, SameGuardrailVerdict
  <2>5. FailedOnce'
    BY <1>1 DEF BothReject, RejectOversize, FailedOnce, Consulted
  <2> QED BY <2>2, <2>3, <2>4, <2>5
<1>2. CASE BothRaise
  BY <1>2, BothFail DEF BothRaise, DetectorRaises
<1>3. ASSUME Consulting, NEW said \in Sayings(NextDetector), BothAnswer(said)
      PROVE  SurfacesInv'
  <2>1. CASE said \in Findings(said.detector) /\ ValidateFinding(said)
    <3>1. said \in Accepted /\ TSNormal(said)
      BY <1>3, <2>1, SameFindings
    <3>2. /\ findings' = Append(findings, said)
          /\ tsFindings' = Append(tsFindings, said)
          /\ UNCHANGED <<failMode, oversize, failed, result, tsFailed, tsResult>>
      BY <1>3, <2>1, <3>1 DEF BothAnswer, DetectorAnswers, TSDetectorAnswers
    <3>3. GuardTypeOK'
      BY <1>3, <3>1, <3>2, DetectorsNumbered DEF GuardTypeOK, Consulting, Consulted
    <3>4. GuardPhase'
      BY <1>3, <3>2 DEF GuardPhase, Consulting, Result, Undecided
    <3>5. SameGuardrailVerdict'
      BY <3>2 DEF SameGuardrailVerdict
    <3>6. FailedOnce'
      <4>1. \A k \in 1..Consulted : k \in 1..Consulted'
        BY <3>1, <3>2 DEF Consulted, GuardTypeOK
      <4> QED BY <3>2, <4>1 DEF FailedOnce
    <3> QED BY <3>3, <3>4, <3>5, <3>6
  <2>2. CASE ~ (said \in Findings(said.detector) /\ ValidateFinding(said))
    <3>1. ~ TSNormal(said)
      BY <1>3, <2>2, SameFindings
    <3>2. DetectorFails /\ TSDetectorFails
      BY <1>3, <2>2, <3>1 DEF BothAnswer, DetectorAnswers, DetectorRaises, TSDetectorAnswers
    <3> QED BY <1>3, <3>2, BothFail
  <2> QED BY <2>1, <2>2
<1>4. CASE BothConclude
  <2>1. findings # <<>> \/ failed # <<>>
    BY <1>4, DetectorsNumbered DEF BothConclude, Conclude, Consulted
  <2>2. Decide(findings, failed) \in Results
    BY <2>1, DecisionType DEF GuardTypeOK
  <2>3. TSDecide(tsFindings, tsFailed) = Decide(findings, failed)
    BY SameDecision DEF SameGuardrailVerdict, GuardTypeOK
  <2>4. GuardTypeOK'
    BY <1>4, <2>2 DEF BothConclude, Conclude, GuardTypeOK
  <2>5. GuardPhase'
    BY <1>4 DEF BothConclude, Conclude, GuardPhase, Consulted, Result, Undecided
  <2>6. SameGuardrailVerdict'
    BY <1>4, <2>3 DEF BothConclude, Conclude, SameGuardrailVerdict
  <2>7. FailedOnce'
    BY <1>4 DEF BothConclude, Conclude, FailedOnce, Consulted
  <2> QED BY <2>4, <2>5, <2>6, <2>7
<1>5. CASE UNCHANGED surfaceVars
  BY <1>5 DEF surfaceVars, guardVars, tsVars, GuardTypeOK, GuardPhase, Consulted,
              FailedOnce, SameGuardrailVerdict
<1> QED BY <1>1, <1>2, <1>3, <1>4, <1>5 DEF SurfacesNext

LEMMA SurfacesInvariant == SurfacesSpec => []SurfacesInv
<1>1. SurfacesInv /\ [SurfacesNext]_surfaceVars => SurfacesInv'
  BY SurfacesStep
<1> QED BY SurfacesInitOK, <1>1, PTL DEF SurfacesSpec

(* Both clients keep to their types: one verdict per consulted detector,   *)
(* and never a finding that is not one.                                    *)
THEOREM GuardrailTyped == SurfacesSpec => []GuardTypeOK
<1>1. SurfacesInv => GuardTypeOK
  BY DEF SurfacesInv
<1> QED BY SurfacesInvariant, <1>1, PTL

THEOREM GuardrailSurfacesAgree == SurfacesSpec => []SameGuardrailVerdict
<1>1. SurfacesInv => SameGuardrailVerdict
  BY DEF SurfacesInv
<1> QED BY SurfacesInvariant, <1>1, PTL

(* A REDACT outcome carries the redaction of what was found.               *)
LEMMA RedactOutcome ==
  ASSUME NEW fs \in Seq(Accepted), NEW lost
  PROVE  /\ Decide(fs, lost).outcome =
              IF Having(fs, "DENY") # {} THEN "DENY"
              ELSE IF Having(fs, "QUARANTINE") # {} THEN "QUARANTINE"
              ELSE IF Having(fs, "REDACT") # {} THEN "REDACT"
              ELSE IF lost # <<>> THEN "ERROR_FAIL_OPEN" ELSE "ALLOW"
         /\ Decide(fs, lost).content =
              IF Decide(fs, lost).outcome = "REDACT" THEN Redact(fs) ELSE <<>>
BY DEF Decide, DecideUnopposed, Verdict, Result

LEMMA RedactionFollows ==
  ASSUME GuardTypeOK, GuardPhase
  PROVE  RedactionExact
<1> SUFFICES ASSUME result.outcome = "REDACT"
             PROVE  RedactionOf(result.content, Covered(findings))
  BY DEF RedactionExact
<1>1. result # Undecided /\ ~ oversize /\ ~ (failMode = "FAIL_CLOSED" /\ failed # <<>>)
  <2>1. Undecided.outcome # "REDACT" /\ Result("DENY", "PAYLOAD_TOO_LARGE", <<>>).outcome # "REDACT"
    BY DEF Undecided, Result
  <2>2. Result("ERROR_FAIL_CLOSED", "DETECTOR_FAILURE", <<>>).outcome # "REDACT"
    BY DEF Result
  <2>3. result # Undecided
    BY <2>1
  <2>4. ~ oversize
    BY <2>1 DEF GuardPhase
  <2> QED BY <2>2, <2>3, <2>4 DEF GuardPhase
<1>2. result = Decide(findings, failed)
  BY <1>1 DEF GuardPhase
<1>3. findings \in Seq(Accepted)
  BY DEF GuardTypeOK
<1>4. result.content = Redact(findings)
  BY <1>2, <1>3, RedactOutcome
<1> QED BY <1>3, <1>4, RedactIsRedaction

THEOREM GuardrailRedacts == SurfacesSpec => []RedactionExact
<1>1. SurfacesInv => RedactionExact
  BY RedactionFollows DEF SurfacesInv
<1> QED BY SurfacesInvariant, <1>1, PTL

LEMMA ObjectionsFollow ==
  ASSUME GuardTypeOK, GuardPhase
  PROVE  ObjectionsPrevail
<1> DEFINE actions == {f.action : f \in ToSet(findings)}
<1> SUFFICES ASSUME result # Undecided, ~ oversize
             PROVE  /\ result.outcome = "ERROR_FAIL_CLOSED" <=>
                         failMode = "FAIL_CLOSED" /\ failed # <<>>
                    /\ result.outcome # "ERROR_FAIL_CLOSED" =>
                         /\ result.outcome = "DENY" <=> "DENY" \in actions
                         /\ result.outcome = "QUARANTINE" <=>
                              "QUARANTINE" \in actions /\ "DENY" \notin actions
                         /\ result.outcome = "REDACT" <=>
                              "REDACT" \in actions /\ actions \cap {"DENY", "QUARANTINE"} = {}
                         /\ actions \subseteq {"ALLOW"} =>
                              result.outcome = IF failed = <<>> THEN "ALLOW" ELSE "ERROR_FAIL_OPEN"
  BY DEF ObjectionsPrevail
<1>1. findings \in Seq(Accepted)
  BY DEF GuardTypeOK
<1>2. \A action : action \in actions <=> Having(findings, action) # {}
  BY DEF Having, ToSet
<1>3. actions \subseteq {"ALLOW", "DENY", "QUARANTINE", "REDACT"}
  <2>1. \A i \in 1..Len(findings) : findings[i].action \in {"ALLOW", "DENY", "QUARANTINE", "REDACT"}
    BY <1>1, AcceptedFindings
  <2> QED BY <1>1, <2>1 DEF ToSet
<1> HIDE DEF actions
<1>4. CASE failMode = "FAIL_CLOSED" /\ failed # <<>>
  <2>1. result.outcome = "ERROR_FAIL_CLOSED"
    BY <1>4 DEF GuardPhase, Result
  <2> QED BY <1>4, <2>1
<1>5. CASE ~ (failMode = "FAIL_CLOSED" /\ failed # <<>>)
  <2>1. result = Decide(findings, failed)
    BY <1>5 DEF GuardPhase
  <2>2. result.outcome =
          IF "DENY" \in actions THEN "DENY"
          ELSE IF "QUARANTINE" \in actions THEN "QUARANTINE"
          ELSE IF "REDACT" \in actions THEN "REDACT"
          ELSE IF failed # <<>> THEN "ERROR_FAIL_OPEN" ELSE "ALLOW"
    BY <1>1, <1>2, <2>1, RedactOutcome
  <2>3. result.outcome # "ERROR_FAIL_CLOSED"
    BY <2>2
  <2>4. /\ result.outcome = "DENY" <=> "DENY" \in actions
        /\ result.outcome = "QUARANTINE" <=> "QUARANTINE" \in actions /\ "DENY" \notin actions
        /\ result.outcome = "REDACT" <=>
             "REDACT" \in actions /\ "DENY" \notin actions /\ "QUARANTINE" \notin actions
    BY <2>2
  <2>5. ASSUME actions \subseteq {"ALLOW"}
        PROVE  result.outcome = IF failed = <<>> THEN "ALLOW" ELSE "ERROR_FAIL_OPEN"
    <3>1. "DENY" \notin actions /\ "QUARANTINE" \notin actions /\ "REDACT" \notin actions
      BY <2>5
    <3> QED BY <2>2, <3>1
  <2> QED BY <1>5, <2>3, <2>4, <2>5
<1> QED BY <1>4, <1>5

(* No detector is overruled by one that asks for less, and no failure opens*)
(* what a surviving detector closed.                                       *)
THEOREM GuardrailObjectionsPrevail == SurfacesSpec => []ObjectionsPrevail
<1>1. SurfacesInv => ObjectionsPrevail
  BY ObjectionsFollow DEF SurfacesInv
<1> QED BY SurfacesInvariant, <1>1, PTL

(* Where something was found there is a first found scalar, and its token. *)
LEMMA RedactionShows ==
  ASSUME NEW fs \in Seq(Accepted), Having(fs, "REDACT") # {}
  PROVE  Token \in ToSet(Redact(fs))
<1> DEFINE C == Covered(fs)
<1>1. C \in SUBSET (1..Length) /\ C \in SUBSET Nat
  BY LengthAssumption DEF Covered
<1>2. C # {}
  <2>1. PICK i \in Having(fs, "REDACT") : TRUE
    OBVIOUS
  <2>2. i \in 1..Len(fs) /\ fs[i] \in Accepted /\ fs[i].action = "REDACT"
    BY DEF Having
  <2>3. fs[i].ranges \in Seq(ValidRanges) /\ fs[i].ranges # <<>>
    BY <2>2, AcceptedFindings
  <2>4. 1 \in DOMAIN fs[i].ranges /\ fs[i].ranges[1] \in ValidRanges
    BY <2>3
  <2> DEFINE p == fs[i].ranges[1].start + 1
  <2>5. p \in 1..Length /\ fs[i].ranges[1].start < p /\ p <= fs[i].ranges[1].end
    BY <2>4, LengthAssumption DEF ValidRanges
  <2>6. p \in C
    BY <2>4, <2>5 DEF Covered
  <2> QED BY <2>6
<1> HIDE DEF C
<1>3. PICK p \in C : \A q \in C : p <= q
  BY <1>1, <1>2, LeastNatural
<1>4. p \in Seen(C)
  BY <1>1, <1>3 DEF Seen
<1>5. RedactionOf(Redact(fs), C)
  BY RedactIsRedaction DEF C
<1>6. Redact(fs)[Place(p, C)] = Token /\ Place(p, C) \in 1..Len(Redact(fs))
  BY <1>3, <1>4, <1>5, PlaceNumbers DEF RedactionOf
<1>7. Redact(fs) \in Seq({Token} \cup 1..Length)
  BY <1>5 DEF RedactionOf
<1> QED BY <1>6, <1>7 DEF ToSet

LEMMA AnswersFollow ==
  ASSUME GuardTypeOK, GuardPhase, FailedOnce
  PROVE  EvaluateAnswers
<1> SUFFICES ASSUME result # Undecided
             PROVE  ValidResult(result, failed)
  BY DEF EvaluateAnswers
<1>1. IsInjective(failed)
  BY DEF FailedOnce
<1>2. CASE oversize
  BY <1>1, <1>2 DEF GuardPhase, ValidResult, Result
<1>3. CASE ~ oversize /\ failMode = "FAIL_CLOSED" /\ failed # <<>>
  BY <1>1, <1>3 DEF GuardPhase, ValidResult, Result
<1>4. CASE ~ oversize /\ ~ (failMode = "FAIL_CLOSED" /\ failed # <<>>)
  <2>1. result = Decide(findings, failed) /\ findings \in Seq(Accepted)
    BY <1>4 DEF GuardPhase, GuardTypeOK
  <2>2. result.outcome = "REDACT" => Having(findings, "REDACT") # {}
    BY <2>1, RedactOutcome
  <2> QED BY <1>1, <2>1, <2>2, RedactOutcome, RedactionShows DEF ValidResult
<1> QED BY <1>2, <1>3, <1>4

THEOREM GuardrailAnswers == SurfacesSpec => []EvaluateAnswers
<1>1. SurfacesInv => EvaluateAnswers
  BY AnswersFollow DEF SurfacesInv
<1> QED BY SurfacesInvariant, <1>1, PTL

(* The same findings in another order.                                     *)
Reordering(gs, fs) ==
  \E order \in Bijection(DOMAIN fs, DOMAIN fs) : gs = [i \in DOMAIN fs |-> fs[order[i]]]

LEMMA Reordered ==
  ASSUME NEW fs \in Seq(Accepted), NEW gs, Reordering(gs, fs)
  PROVE  /\ gs \in Seq(Accepted)
         /\ \A action : Having(gs, action) = {} <=> Having(fs, action) = {}
         /\ Covered(gs) = Covered(fs)
<1>0. PICK order \in Bijection(DOMAIN fs, DOMAIN fs) : gs = [i \in DOMAIN fs |-> fs[order[i]]]
  BY DEF Reordering
<1>1. DOMAIN fs = 1..Len(fs) /\ Len(fs) \in Nat /\ DOMAIN gs = DOMAIN fs
  BY <1>0
<1>2. /\ \A i \in DOMAIN fs : order[i] \in DOMAIN fs /\ gs[i] = fs[order[i]]
      /\ \A k \in DOMAIN fs : \E i \in DOMAIN fs : order[i] = k
  BY <1>0 DEF Bijection, Injection, Surjection
<1>3. gs \in Seq(Accepted)
  <2>1. \A i \in 1..Len(fs) : gs[i] \in Accepted
    BY <1>1, <1>2
  <2>2. gs \in [1..Len(fs) -> Accepted]
    <3>1. gs = [i \in 1..Len(fs) |-> gs[i]]
      BY <1>0, <1>1
    <3> QED BY <2>1, <3>1
  <2> QED BY <1>1, <2>2
<1>4. \A action : Having(gs, action) = {} <=> Having(fs, action) = {}
  <2>1. ASSUME NEW action, NEW i \in Having(gs, action)
        PROVE  order[i] \in Having(fs, action)
    BY <1>1, <1>2 DEF Having
  <2>2. ASSUME NEW action, NEW k \in Having(fs, action)
        PROVE  Having(gs, action) # {}
    <3>1. PICK i \in DOMAIN fs : order[i] = k
      BY <1>1, <1>2 DEF Having
    <3>2. i \in Having(gs, action)
      BY <1>1, <1>2, <3>1 DEF Having
    <3> QED BY <3>2
  <2> QED BY <2>1, <2>2
<1>5. ASSUME NEW p
      PROVE  p \in Covered(gs) <=> p \in Covered(fs)
  <2>1. ASSUME NEW i \in Having(gs, "REDACT"), NEW j \in DOMAIN gs[i].ranges,
               gs[i].ranges[j].start < p, p <= gs[i].ranges[j].end
        PROVE  \E k \in Having(fs, "REDACT") : \E l \in DOMAIN fs[k].ranges :
                 fs[k].ranges[l].start < p /\ p <= fs[k].ranges[l].end
    <3>1. order[i] \in Having(fs, "REDACT") /\ fs[order[i]] = gs[i]
      BY <1>1, <1>2 DEF Having
    <3> QED BY <2>1, <3>1
  <2>2. ASSUME NEW k \in Having(fs, "REDACT"), NEW l \in DOMAIN fs[k].ranges,
               fs[k].ranges[l].start < p, p <= fs[k].ranges[l].end
        PROVE  \E i \in Having(gs, "REDACT") : \E j \in DOMAIN gs[i].ranges :
                 gs[i].ranges[j].start < p /\ p <= gs[i].ranges[j].end
    <3>1. PICK i \in DOMAIN fs : order[i] = k
      BY <1>1, <1>2 DEF Having
    <3>2. i \in Having(gs, "REDACT") /\ gs[i] = fs[k]
      BY <1>1, <1>2, <3>1 DEF Having
    <3> QED BY <2>2, <3>2
  <2> QED BY <2>1, <2>2 DEF Covered
<1> QED BY <1>3, <1>4, <1>5 DEF Covered

LEMMA OrderFollows ==
  ASSUME GuardTypeOK, GuardPhase
  PROVE  OrderDecidesNothing
<1> SUFFICES ASSUME result # Undecided, Consulted = Len(DetectorIds),
                    result.outcome # "ERROR_FAIL_CLOSED",
                    NEW order \in Bijection(DOMAIN findings, DOMAIN findings),
                    NEW gs, gs = [i \in DOMAIN findings |-> findings[order[i]]]
             PROVE  /\ Decide(gs, failed).outcome = result.outcome
                    /\ Decide(gs, failed).content = result.content
  BY DEF OrderDecidesNothing
<1>1. findings \in Seq(Accepted)
  BY DEF GuardTypeOK
<1>2. /\ gs \in Seq(Accepted)
      /\ \A action : Having(gs, action) = {} <=> Having(findings, action) = {}
      /\ Covered(gs) = Covered(findings)
  BY <1>1, Reordered DEF Reordering
<1>3. ~ oversize
  BY DetectorsNumbered DEF GuardPhase, Consulted
<1>4. ~ (failMode = "FAIL_CLOSED" /\ failed # <<>>)
  <2>1. Result("ERROR_FAIL_CLOSED", "DETECTOR_FAILURE", <<>>).outcome = "ERROR_FAIL_CLOSED"
    BY DEF Result
  <2> QED BY <1>3, <2>1 DEF GuardPhase
<1>5. result = Decide(findings, failed)
  BY <1>3, <1>4 DEF GuardPhase
<1>6. Decide(gs, failed).outcome = result.outcome
  BY <1>1, <1>2, <1>5, RedactOutcome
<1>7. Redact(gs) = Redact(findings)
  BY <1>1, <1>2, RedactIsRedaction, RedactionUnique
<1> QED BY <1>1, <1>2, <1>5, <1>6, <1>7, RedactOutcome

THEOREM GuardrailOrderDecidesNothing == SurfacesSpec => []OrderDecidesNothing
<1>1. SurfacesInv => OrderDecidesNothing
  BY OrderFollows DEF SurfacesInv
<1> QED BY SurfacesInvariant, <1>1, PTL

-----------------------------------------------------------------------------
(* The stream, of any length and under any content limit, used by one      *)
(* caller at a time.                                                       *)

OneCaller == \A c, d \in Callers : c = d

(* While the stream is open, it holds what it accepted, and its last result*)
(* is a verdict on that.                                                   *)
OpenStream ==
  /\ ~terminal /\ ~finished => buffer = accepted
  /\ terminal \/ finished => buffer = <<>>
  /\ Len(accepted) <= MaxContent
  /\ verdict # None => finished
  /\ lastResult = None => accepted = <<>> /\ ~terminal
  /\ lastResult # None /\ ~terminal =>
       lastResult.content = accepted /\ lastResult.outcome \notin TerminalOutcomes

(* A push in flight judges the buffer as it still is with one chunk more,  *)
(* and a finish in flight the empty content.                               *)
InFlightFresh ==
  \A c \in Callers :
    /\ pushing[c] # None =>
         /\ RequireOpen /\ ~finishing[c]
         /\ \E chunk \in Chunks : pushing[c] = Append(buffer, chunk)
    /\ finishing[c] => RequireOpen /\ lastResult = None

StreamInv == StreamTypeOK /\ OpenStream /\ InFlightFresh /\ FinishJudgesWhole

LEMMA StreamInitOK == StreamInit => StreamInv
<1> SUFFICES ASSUME StreamInit PROVE StreamInv
  OBVIOUS
<1>1. StreamTypeOK
  <2>1. <<>> \in Seq(Chunks)
    OBVIOUS
  <2>2. pushing \in [Callers -> Seq(Chunks) \cup {None}] /\ finishing \in [Callers -> BOOLEAN]
    BY DEF StreamInit
  <2>3. pushes \in 0..MaxPushes
    BY MaxPushesAssumption DEF StreamInit
  <2> QED BY <2>1, <2>2, <2>3 DEF StreamInit, StreamTypeOK
<1>2. OpenStream /\ FinishJudgesWhole
  BY MaxContentAssumption DEF StreamInit, OpenStream, FinishJudgesWhole
<1>3. InFlightFresh
  BY DEF StreamInit, InFlightFresh
<1> QED
  BY <1>1, <1>2, <1>3 DEF StreamInv

LEMMA StreamStep ==
  ASSUME OneCaller, StreamInv, [StreamNext]_streamVars
  PROVE  StreamInv'
<1> USE MaxContentAssumption, MaxPushesAssumption, NoneChunk
<1> USE DEF StreamInv
<1>1. ASSUME NEW c \in Callers, NEW chunk \in Chunks, BeginPush(c, chunk)
      PROVE  StreamInv'
  <2>1. Candidate(chunk) \in Seq(Chunks)
    BY DEF Candidate, StreamTypeOK
  <2>2. StreamTypeOK'
    BY <1>1, <2>1 DEF BeginPush, StreamTypeOK
  <2>3. OpenStream' /\ FinishJudgesWhole'
    BY <1>1 DEF BeginPush, OpenStream, FinishJudgesWhole
  <2>4. InFlightFresh'
    BY <1>1 DEF BeginPush, InFlightFresh, StreamTypeOK, Idle, RequireOpen, Candidate
  <2> QED BY <2>2, <2>3, <2>4
<1>2. ASSUME NEW c \in Callers, NEW outcome \in Outcomes, EndPush(c, outcome)
      PROVE  StreamInv'
  <2> DEFINE content == pushing[c]
             answer == [outcome |-> outcome, content |-> content]
  <2>1. PICK chunk \in Chunks : content = Append(buffer, chunk)
    BY <1>2 DEF EndPush, InFlightFresh
  <2>2. /\ ~finished /\ ~terminal
        /\ buffer = accepted /\ buffer \in Seq(Chunks)
        /\ ~finishing[c]
    BY <1>2 DEF EndPush, InFlightFresh, RequireOpen, OpenStream, StreamTypeOK
  <2>3. /\ content \in Seq(Chunks)
        /\ Len(content) = Len(buffer) + 1
        /\ content[Len(content)] = chunk
    BY <2>1, <2>2
  <2>4. lastResult' = answer /\ answer \in StreamResult /\ answer # None
    <3>1. answer \in StreamResult
      BY <2>3 DEF StreamResult
    <3> QED BY <1>2, <3>1, NoneResult DEF EndPush
  <2>5. \A d \in Callers : pushing'[d] = None /\ ~finishing'[d]
    BY <1>2, <2>2 DEF EndPush, OneCaller, StreamTypeOK
  <2>6. InFlightFresh'
    BY <2>5 DEF InFlightFresh
  <2>7. CASE outcome \in TerminalOutcomes
    <3>1. /\ buffer' = <<>> /\ terminal' /\ accepted' = accepted
      BY <1>2, <2>7 DEF EndPush, Retained
    <3>2. StreamTypeOK'
      BY <1>2, <2>4, <3>1 DEF EndPush, StreamTypeOK
    <3>3. OpenStream'
      BY <1>2, <2>4, <3>1 DEF EndPush, OpenStream
    <3>4. FinishJudgesWhole'
      BY <1>2, <3>1 DEF EndPush, FinishJudgesWhole
    <3> QED BY <2>6, <3>2, <3>3, <3>4
  <2>8. CASE outcome \notin TerminalOutcomes
    <3>1. /\ buffer' = content
          /\ accepted' = Append(accepted, chunk)
          /\ terminal' = terminal
      BY <1>2, <2>2, <2>3, <2>8 DEF EndPush, Retained, StreamTypeOK
    <3>2. Len(content) <= MaxContent
      <4>1. Len(answer.content) \in Nat
        BY <2>3
      <4>2. ~(Len(content) > MaxContent)
        BY <1>2, <2>8 DEF EndPush, Evaluates, TerminalOutcomes
      <4> QED BY <2>3, <4>1, <4>2
    <3>3. accepted' = content
      BY <2>1, <2>2, <3>1
    <3>4. StreamTypeOK'
      BY <1>2, <2>3, <2>4, <3>1, <3>3 DEF EndPush, StreamTypeOK
    <3>5. OpenStream'
      BY <1>2, <2>2, <2>4, <2>8, <3>1, <3>2, <3>3 DEF EndPush, OpenStream
    <3>6. FinishJudgesWhole'
      <4>1. verdict = None
        BY <2>2 DEF OpenStream
      <4> QED BY <1>2, <4>1 DEF EndPush, FinishJudgesWhole
    <3> QED BY <2>6, <3>4, <3>5, <3>6
  <2> QED BY <2>7, <2>8
<1>3. ASSUME NEW c \in Callers, Finish(c) PROVE StreamInv'
  <2>1. RequireOpen /\ lastResult # None /\ lastResult \in StreamResult
    BY <1>3 DEF Finish, StreamTypeOK
  <2>2. verdict' = lastResult /\ buffer' = <<>> /\ finished'
    BY <1>3 DEF Finish, Finished
  <2>3. StreamTypeOK'
    BY <1>3, <2>1, <2>2 DEF Finish, StreamTypeOK
  <2>4. OpenStream'
    BY <1>3, <2>2 DEF Finish, OpenStream
  <2>5. InFlightFresh'
    BY <1>3 DEF Finish, Idle, InFlightFresh, OneCaller
  <2>6. FinishJudgesWhole'
    BY <1>3, <2>1, <2>2 DEF Finish, OpenStream, RequireOpen, FinishJudgesWhole
  <2> QED BY <2>3, <2>4, <2>5, <2>6
<1>4. ASSUME NEW c \in Callers, BeginFinish(c) PROVE StreamInv'
  <2>1. StreamTypeOK'
    BY <1>4 DEF BeginFinish, StreamTypeOK
  <2>2. OpenStream' /\ FinishJudgesWhole'
    BY <1>4 DEF BeginFinish, OpenStream, FinishJudgesWhole
  <2>3. InFlightFresh'
    BY <1>4 DEF BeginFinish, Idle, InFlightFresh, OneCaller, RequireOpen, StreamTypeOK
  <2> QED BY <2>1, <2>2, <2>3
<1>5. ASSUME NEW c \in Callers, EvaluateRaises(c) PROVE StreamInv'
  <2>1. StreamTypeOK'
    BY <1>5 DEF EvaluateRaises, StreamTypeOK
  <2>2. OpenStream' /\ FinishJudgesWhole'
    BY <1>5 DEF EvaluateRaises, OpenStream, FinishJudgesWhole
  <2>3. InFlightFresh'
    BY <1>5 DEF EvaluateRaises, InFlightFresh, OneCaller, StreamTypeOK
  <2> QED BY <2>1, <2>2, <2>3
<1>6. ASSUME NEW c \in Callers, NEW outcome \in Outcomes, EndFinish(c, outcome)
      PROVE  StreamInv'
  <2> DEFINE answer == [outcome |-> outcome, content |-> <<>>]
  <2>1. RequireOpen /\ lastResult = None /\ accepted = <<>> /\ buffer = <<>>
    BY <1>6 DEF EndFinish, InFlightFresh, OpenStream, RequireOpen
  <2>2. answer \in StreamResult
    BY DEF StreamResult
  <2>3. verdict' = answer /\ buffer' = <<>> /\ finished'
    BY <1>6 DEF EndFinish, Finished
  <2>4. StreamTypeOK'
    BY <1>6, <2>2, <2>3 DEF EndFinish, StreamTypeOK
  <2>5. OpenStream'
    BY <1>6, <2>1, <2>3 DEF EndFinish, OpenStream
  <2>6. InFlightFresh'
    <3>1. \A d \in Callers : pushing'[d] = None /\ ~finishing'[d]
      BY <1>6 DEF EndFinish, OneCaller, InFlightFresh, StreamTypeOK
    <3> QED BY <3>1 DEF InFlightFresh
  <2>7. FinishJudgesWhole'
    BY <1>6, <2>1, <2>3 DEF EndFinish, OpenStream, FinishJudgesWhole
  <2> QED BY <2>4, <2>5, <2>6, <2>7
<1>7. CASE UNCHANGED streamVars
  BY <1>7 DEF streamVars, StreamTypeOK, OpenStream, InFlightFresh, FinishJudgesWhole,
              RequireOpen
<1> QED
  BY <1>1, <1>2, <1>3, <1>4, <1>5, <1>6, <1>7 DEF StreamNext

LEMMA StreamInvAlways == ASSUME OneCaller PROVE StreamSpec => []StreamInv
<1>1. StreamInv /\ [StreamNext]_streamVars => StreamInv'
  BY StreamStep
<1> QED
  BY <1>1, StreamInitOK, PTL DEF StreamSpec

(* finish returns a verdict on exactly what was accepted, whatever is      *)
(* pushed, judged or raised, for one caller.                               *)
THEOREM StreamJudgesWhole == ASSUME OneCaller PROVE StreamSpec => []FinishJudgesWhole
<1>1. StreamInv => FinishJudgesWhole
  BY DEF StreamInv
<1> QED
  BY <1>1, StreamInvAlways, PTL

(* A stream that ended holds no content, and none ever exceeds the limit.  *)
THEOREM StreamReleases == ASSUME OneCaller PROVE StreamSpec => []ContentReleased
<1>1. StreamInv => ContentReleased
  <2> SUFFICES ASSUME StreamInv PROVE ContentReleased
    OBVIOUS
  <2>1. terminal \/ finished => buffer = <<>>
    BY DEF StreamInv, OpenStream
  <2>2. Len(buffer) <= MaxContent
    <3>1. buffer = <<>> \/ buffer = accepted
      BY DEF StreamInv, OpenStream
    <3> QED BY <3>1, MaxContentAssumption DEF StreamInv, OpenStream
  <2> QED BY <2>1, <2>2 DEF ContentReleased
<1> QED
  BY <1>1, StreamInvAlways, PTL
=============================================================================
