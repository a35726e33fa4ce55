---------------------------- MODULE FindSlotProofs ----------------------------
(***************************************************************************)
(* The search of find_slot is exact for every number of cells, whatever    *)
(* the head, the request and the usable cells, when the head lies within   *)
(* the cells searched: it finds the first usable cells in its order, or a  *)
(* run of them, and gives up only when there is none (SearchExact).        *)
(***************************************************************************)
EXTENDS FindSlot, NaturalsInduction, WellFoundedInduction, FiniteSetTheorems, SequenceTheorems, TLAPS

HeadInReach == start <= csize

Types ==
    /\ usable \in SUBSET Cells /\ cont \in BOOLEAN
    /\ csize \in 0 .. NCells /\ start \in 0 .. NCells /\ n_tokens \in 1 .. NCells
    /\ head_cur \in 0 .. NCells /\ n_tested \in Nat /\ idxs \in Seq(Cells)
    /\ pc \in {"begin", "loop", "none", "found", "refused"}

-----------------------------------------------------------------------------
(* Where the search is: on its way from the head to the end, behind cell 0 *)
(* on its way to the head, or, for a contiguous slot, back at 0 once more  *)
(* because none fits before the head.                                      *)

Onward == head_cur >= start /\ head_cur <= csize /\ n_tested = head_cur - start /\ n_tested < csize
Around == head_cur < start /\ n_tested = csize - start + head_cur
Done   == cont /\ Runs = {} /\ head_cur = 0 /\ n_tested \in csize .. 2 * csize

\* The cells passed before the search comes to h.
Seen(h, i) == IF h >= start THEN start <= i /\ i < h ELSE start <= i \/ i < h

\* A loose slot: the usable cells passed so far, in order.
Gathered(h, f) ==
    /\ \A k \in DOMAIN f : f[k] \in InReach /\ Seen(h, f[k])
    /\ \A j, k \in DOMAIN f : j < k => Rank(start, f[j]) < Rank(start, f[k])
    /\ \A i \in InReach : Seen(h, i) => \E k \in DOMAIN f : f[k] = i

LoopInv ==
    /\ n_tokens <= csize
    /\ Onward \/ Around \/ Done
    /\ cont => idxs = <<>> /\ \A r \in Runs : ~Seen(head_cur, r)
    /\ ~cont => Len(idxs) < n_tokens /\ Gathered(head_cur, idxs)

IInv ==
    /\ Types
    /\ HeadInReach =>
         /\ pc = "begin" => head_cur = start /\ n_tested = 0 /\ idxs = <<>>
         /\ pc = "loop" => LoopInv
         /\ SearchExact

-----------------------------------------------------------------------------
(* One look at the cells. *)

LEMMA Basics == NCells \in Nat /\ NCells > 0 /\ U32 \in Nat /\ U32 > 4 * NCells
BY CellsAssumption, FindSlotAssumption

LEMMA MinOf ==
    ASSUME NEW S \in SUBSET Nat, S # {}
    PROVE  Min(S) \in S /\ \A j \in S : Min(S) <= j
<1> DEFINE R == {ss \in Nat \X Nat : ss[1] < ss[2]}
<1>1. IsWellFoundedOn(R, Nat)
  BY NatLessThanWellFounded, Zenon DEF OpToRel
<1>2. PICK m \in S : \A j \in S : ~(<<j, m>> \in R)
  <2> HIDE DEF R
  <2> QED BY <1>1, WFMin
<1>3. ASSUME NEW j \in S PROVE m <= j
  <2>1. j \in Nat /\ m \in Nat /\ ~(<<j, m>> \in R)
    BY <1>2
  <2> QED BY <2>1
<1>4. \E n \in S : \A j \in S : n <= j
  BY <1>3
<1> QED BY <1>4 DEF Min

\* A look ends behind n_test cells, or for a contiguous slot behind the first that is not usable.
LEMMA LookedIs ==
    ASSUME Types
    PROVE  /\ n_test \in 1 .. NCells /\ Looked \in 1 .. n_test /\ Looked \in Nat
           /\ cont => \A k \in 1 .. (Looked - 1) : head_cur + k - 1 \in usable
           /\ Looked < n_test => head_cur + Looked - 1 \notin usable
<1>1. n_test \in 1 .. NCells /\ NCells \in Nat
  BY Basics DEF Types, n_test
<1> DEFINE T == {k \in 1 .. n_test : cont /\ head_cur + k - 1 \notin usable}
           S == T \cup {n_test}
<1>2. S \in SUBSET Nat /\ S # {} /\ S \subseteq 1 .. n_test
  BY <1>1
<1>3. Looked = Min(S)
  BY DEF Looked
<1>4. Looked \in S /\ \A j \in S : Looked <= j
  <2> HIDE DEF S
  <2> QED BY <1>2, <1>3, MinOf
<1>5. Looked \in 1 .. n_test /\ Looked \in Nat
  BY <1>1, <1>2, <1>4
<1>6. ASSUME cont, NEW k \in 1 .. (Looked - 1) PROVE head_cur + k - 1 \in usable
  <2>1. k \in 1 .. n_test /\ k < Looked
    BY <1>1, <1>5
  <2>2. k \notin T
    BY <1>1, <1>4, <1>5, <2>1
  <2> QED BY <1>6, <2>1, <2>2
<1>7. Looked < n_test => head_cur + Looked - 1 \notin usable
  BY <1>4, <1>5
<1> QED BY <1>1, <1>5, <1>6, <1>7

\* How many of the cells looked at are usable.
Hits == IF head_cur + Looked - 1 \in usable THEN Looked ELSE Looked - 1

LEMMA FoundIs ==
    ASSUME Types, head_cur + n_test <= csize
    PROVE  /\ Hits \in 0 .. Looked /\ Hits \in 0 .. n_test
           /\ Found \in Seq(Cells) /\ Len(Found) = Len(idxs) + Hits
           /\ \A k \in 1 .. Len(idxs) : Found[k] = idxs[k]
           /\ \A k \in 1 .. Hits : Found[Len(idxs) + k] = head_cur + k - 1
<1>1. Hits \in 0 .. Looked /\ Hits \in 0 .. n_test /\ n_test \in 1 .. NCells
  BY LookedIs DEF Hits
<1> DEFINE g == [k \in 1 .. Hits |-> head_cur + k - 1]
<1>2. Found = idxs \o g
  BY DEF Found, Hits
<1>3. \A k \in 1 .. Hits : head_cur + k - 1 \in Cells
  BY <1>1, Basics DEF Types, Cells
<1>4. g \in Seq(Cells) /\ Len(g) = Hits /\ \A k \in 1 .. Hits : g[k] = head_cur + k - 1
  BY <1>1, <1>3
<1> HIDE DEF g
<1>5. idxs \in Seq(Cells)
  BY DEF Types
<1>6. /\ Found \in Seq(Cells) /\ Len(Found) = Len(idxs) + Hits
      /\ \A k \in 1 .. Len(idxs) : Found[k] = idxs[k]
  <2>1. /\ Found \in Seq(Cells) /\ Len(Found) = Len(idxs) + Len(g)
        /\ \A i \in 1 .. Len(idxs) + Len(g) :
              Found[i] = IF i <= Len(idxs) THEN idxs[i] ELSE g[i - Len(idxs)]
    BY <1>2, <1>4, <1>5, ConcatProperties
  <2>2. Len(idxs) \in Nat /\ Len(g) \in Nat
    BY <1>1, <1>4, <1>5
  <2> QED BY <1>4, <2>1, <2>2
<1>7. ASSUME NEW k \in 1 .. Hits PROVE Found[Len(idxs) + k] = head_cur + k - 1
  <2>1. Len(idxs) \in Nat /\ k \in Nat /\ Hits \in Nat
    BY <1>1, <1>5
  <2>2. Len(idxs) + k \in 1 .. (Len(idxs) + Len(g)) /\ Len(idxs) + k > Len(idxs)
    BY <1>4, <2>1
  <2>3. Found[Len(idxs) + k] = g[Len(idxs) + k - Len(idxs)]
    BY <1>2, <1>4, <1>5, <2>2
  <2>4. Len(idxs) + k - Len(idxs) = k
    BY <2>1
  <2> QED BY <1>4, <2>3, <2>4
<1> QED BY <1>1, <1>6, <1>7

\* What a round of Test leaves.
LEMMA TestTypes ==
    ASSUME Types, Test
    PROVE  /\ Types' /\ head_cur' = head_cur + Looked /\ head_cur' <= csize
           /\ (n_tested <= 3 * NCells => n_tested' = n_tested + Looked)
           /\ UNCHANGED input
<1>1. /\ head_cur + n_test <= csize /\ head_cur' = head_cur + Looked
      /\ n_tested' = (n_tested + Looked) % U32 /\ UNCHANGED input
      /\ idxs' = (IF cont /\ Len(Found) # n_tokens THEN <<>> ELSE Found)
      /\ pc' \in {"none", "loop", "found", "refused"}
  BY DEF Test, Verdict
<1>2. Looked \in 1 .. n_test /\ n_test \in 1 .. NCells /\ Looked \in Nat
  BY LookedIs
<1>3. head_cur' \in 0 .. NCells /\ head_cur' <= csize
  BY <1>1, <1>2, Basics DEF Types
<1>4. n_tested' \in Nat /\ (n_tested <= 3 * NCells => n_tested' = n_tested + Looked)
  <2>1. n_tested + Looked \in Nat /\ U32 \in Nat /\ U32 > 0
    BY <1>2, Basics DEF Types
  <2>2. n_tested <= 3 * NCells => n_tested + Looked < U32
    BY <1>2, Basics DEF Types
  <2> QED BY <1>1, <2>1, <2>2
<1>5. idxs' \in Seq(Cells)
  BY <1>1, FoundIs
<1> QED BY <1>1, <1>3, <1>4, <1>5 DEF Types, input

-----------------------------------------------------------------------------
(* The order of the search. *)

LEMMA InputFixed ==
    ASSUME UNCHANGED input
    PROVE  /\ InReach' = InReach /\ Runs' = Runs /\ n_test' = n_test /\ HeadInReach' = HeadInReach
           /\ usable' = usable /\ csize' = csize /\ start' = start /\ n_tokens' = n_tokens /\ cont' = cont
BY DEF input, InReach, Runs, n_test, HeadInReach

LEMMA ReachIs ==
    ASSUME Types
    PROVE  /\ \A i \in InReach : i \in Nat /\ i < csize /\ i < NCells /\ i \in usable
           /\ \A r \in Runs : r \in Nat /\ r + n_tokens <= csize
                              /\ \A k \in 1 .. n_tokens : r + k - 1 \in usable
<1>1. csize \in 0 .. NCells /\ n_tokens \in 1 .. NCells /\ NCells \in Nat
  BY Basics DEF Types
<1>2. \A i \in InReach : i \in Nat /\ i < csize /\ i < NCells /\ i \in usable
  BY <1>1 DEF InReach, Types, Cells
<1>3. ASSUME NEW r \in Runs
      PROVE  r \in Nat /\ r + n_tokens <= csize /\ \A k \in 1 .. n_tokens : r + k - 1 \in usable
  <2>1. r \in 0 .. (csize - n_tokens) /\ r .. (r + n_tokens - 1) \subseteq usable
    BY DEF Runs
  <2>2. r \in Nat /\ r + n_tokens <= csize
    BY <1>1, <2>1
  <2>3. \A k \in 1 .. n_tokens : r + k - 1 \in r .. (r + n_tokens - 1)
    BY <1>1, <2>2
  <2> QED BY <2>1, <2>2, <2>3
<1> QED BY <1>2, <1>3

LEMMA Bounded ==
    ASSUME Types, HeadInReach, LoopInv
    PROVE  n_tested <= 2 * csize /\ n_tested <= 2 * NCells /\ head_cur <= csize
BY Basics DEF Types, HeadInReach, LoopInv, Onward, Around, Done

\* The cells passed when the search has looked at the cell h.
Past(h, i) == Seen(h, i) \/ i = h

\* Cells passed come before the ones that are not.
LEMMA PastBefore ==
    ASSUME Types, HeadInReach, NEW h \in Nat, h < csize,
           NEW i \in InReach, NEW j \in InReach, Past(h, i), ~Past(h, j)
    PROVE  Rank(start, i) < Rank(start, j)
<1>1. /\ i \in Nat /\ i < csize /\ i < NCells /\ j \in Nat /\ j < csize /\ j < NCells
      /\ start \in Nat /\ csize \in Nat /\ NCells \in Nat /\ start <= csize /\ csize <= NCells
  BY ReachIs, Basics DEF Types, HeadInReach
<1>2. CASE h >= start
  <2>1. start <= i /\ i <= h /\ (j < start \/ h < j)
    BY <1>1, <1>2 DEF Past, Seen
  <2> QED BY <1>1, <1>2, <2>1 DEF Rank
<1>3. CASE ~(h >= start)
  <2>1. (start <= i \/ i <= h) /\ j < start /\ h < j
    BY <1>1, <1>3 DEF Past, Seen
  <2> QED BY <1>1, <1>3, <2>1 DEF Rank
<1> QED BY <1>2, <1>3

LEMMA SeenBefore ==
    ASSUME Types, HeadInReach, NEW h \in Nat, h < csize, NEW i \in InReach, Seen(h, i)
    PROVE  Rank(start, i) < Rank(start, h)
BY ReachIs, Basics DEF Types, HeadInReach, Seen, Rank

\* A sequence has no fewer places than values.
LEMMA FewerThanPlaces ==
    ASSUME NEW S, NEW f \in Seq(Nat), \A i \in S : \E k \in DOMAIN f : f[k] = i,
           \A k \in DOMAIN f : f[k] \in S
    PROVE  Cardinality(S) \in Nat /\ Cardinality(S) <= Len(f)
<1>1. DOMAIN f = 1 .. Len(f) /\ Len(f) \in Nat
  OBVIOUS
<1>2. IsFiniteSet(1 .. Len(f)) /\ Cardinality(1 .. Len(f)) = Len(f)
  <2>1. \A a, b \in Int : IsFiniteSet(a .. b) /\ Cardinality(a .. b) = IF a > b THEN 0 ELSE b - a + 1
    BY FS_Interval
  <2>2. /\ 1 \in Int /\ Len(f) \in Int
        /\ (IF 1 > Len(f) THEN 0 ELSE Len(f) - 1 + 1) = Len(f)
    BY <1>1
  <2> QED BY <2>1, <2>2
<1>3. f \in Surjection(1 .. Len(f), S)
  <2>1. f \in [1 .. Len(f) -> S]
    BY <1>1
  <2> QED BY <1>1, <2>1 DEF Surjection
<1>4. IsFiniteSet(S) /\ Cardinality(S) <= Cardinality(1 .. Len(f))
  BY <1>2, <1>3, FS_Surjection
<1> QED BY <1>2, <1>4, FS_CardinalityType

-----------------------------------------------------------------------------
(* The steps. *)

LEMMA BeginKeeps ==
    ASSUME IInv, Begin
    PROVE  IInv'
<1>1. Types /\ UNCHANGED <<input, head_cur, n_tested, idxs>> /\ pc = "begin"
      /\ pc' = IF n_tokens > csize THEN "none" ELSE "loop"
  BY DEF IInv, Begin
<1>2. Types'
  BY <1>1 DEF Types, input
<1>3. /\ InReach' = InReach /\ Runs' = Runs /\ HeadInReach' = HeadInReach
      /\ csize' = csize /\ start' = start /\ n_tokens' = n_tokens /\ cont' = cont
  BY <1>1, InputFixed
<1>4. csize \in 0 .. NCells /\ n_tokens \in 1 .. NCells /\ start \in 0 .. NCells /\ NCells \in Nat
  BY <1>1, Basics DEF Types
<1>5. ASSUME HeadInReach, n_tokens > csize PROVE SearchExact'
  <2>1. Runs = {}
    <3>1. ASSUME NEW r \in Runs PROVE FALSE
      BY <1>1, <1>4, <1>5, ReachIs
    <3> QED BY <3>1
  <2>2. Cardinality(InReach) < n_tokens
    <3>1. InReach \subseteq 0 .. (csize - 1)
      BY <1>1, <1>4, ReachIs
    <3>2. IsFiniteSet(0 .. (csize - 1)) /\ Cardinality(0 .. (csize - 1)) = csize
      BY <1>4, FS_Interval
    <3>3. Cardinality(InReach) \in Nat /\ Cardinality(InReach) <= csize
      BY <3>1, <3>2, FS_Subset, FS_CardinalityType
    <3> QED BY <1>4, <1>5, <3>3
  <2> QED BY <1>1, <1>3, <1>5, <2>1, <2>2 DEF SearchExact, SlotFound, NoSlotMissed
<1>6. ASSUME HeadInReach, ~(n_tokens > csize) PROVE LoopInv' /\ SearchExact'
  <2>1. head_cur = start /\ n_tested = 0 /\ idxs = <<>>
    BY <1>1, <1>6 DEF IInv
  <2>2. n_tokens <= csize /\ (Onward)'
    BY <1>1, <1>3, <1>4, <1>6, <2>1 DEF Onward, HeadInReach
  <2>3. \A i \in Nat : ~Seen(start, i)
    BY <1>4 DEF Seen
  <2>4. \A i : Seen(start, i)' <=> Seen(start, i)
    BY <1>3 DEF Seen
  <2>5. cont => \A r \in Runs : ~Seen(head_cur, r)'
    BY <1>1, <2>1, <2>3, <1>3, ReachIs DEF Seen
  <2>6. Gathered(head_cur, idxs)'
    <3>1. DOMAIN idxs = {} /\ head_cur' = start /\ idxs' = idxs
      BY <1>1, <2>1
    <3>2. \A i \in InReach : i \in Nat
      BY <1>1, ReachIs
    <3> QED BY <1>3, <2>3, <3>1, <3>2 DEF Gathered, Seen
  <2>7. Len(idxs') < n_tokens
    BY <1>1, <1>4, <2>1
  <2>8. LoopInv'
    BY <1>1, <1>3, <2>1, <2>2, <2>5, <2>6, <2>7 DEF LoopInv
  <2> QED BY <1>1, <1>6, <2>8 DEF SearchExact, SlotFound, NoSlotMissed
<1> QED BY <1>1, <1>2, <1>3, <1>5, <1>6 DEF IInv

LEMMA WrapKeeps ==
    ASSUME IInv, Wrap
    PROVE  IInv'
<1>1. /\ Types /\ pc = "loop" /\ head_cur + n_test > csize /\ head_cur' = 0
      /\ n_tested' = (n_tested + csize - head_cur) % U32 /\ UNCHANGED <<input, idxs, pc>>
  BY DEF IInv, Wrap
<1>2. /\ InReach' = InReach /\ Runs' = Runs /\ HeadInReach' = HeadInReach
      /\ csize' = csize /\ start' = start /\ n_tokens' = n_tokens /\ cont' = cont /\ idxs' = idxs
  BY <1>1, InputFixed
<1>3. /\ csize \in Nat /\ csize <= NCells /\ n_tokens \in Nat /\ n_tokens >= 1 /\ start \in Nat
      /\ NCells \in Nat /\ head_cur \in Nat /\ n_tested \in Nat /\ U32 \in Nat /\ U32 > 4 * NCells
  BY <1>1, Basics DEF Types
<1>4. Types'
  <2>1. n_tested' \in Nat
    BY <1>1, <1>3
  <2> QED BY <1>1, <1>3, <2>1 DEF Types, input
<1>5. ASSUME HeadInReach PROVE LoopInv'
  <2>1. LoopInv /\ start <= csize
    BY <1>1, <1>5 DEF IInv, HeadInReach
  <2>2. n_tested <= 2 * csize /\ head_cur <= csize
    BY <1>1, <1>5, <2>1, Bounded
  <2>3. n_tested' = n_tested + csize - head_cur
    <3>1. n_tested + csize - head_cur \in Nat /\ n_tested + csize - head_cur < U32
      BY <1>3, <2>2
    <3> QED BY <1>1, <1>3, <3>1
  <2>4. CASE ~cont
    <3>1. n_test = 1
      BY <2>4 DEF n_test
    <3>2. Onward /\ head_cur = csize /\ start > 0 /\ n_tested = csize - start
      BY <1>1, <1>3, <2>1, <2>2, <2>4, <3>1 DEF LoopInv, Onward, Around, Done
    <3>3. Around'
      BY <1>1, <1>2, <1>3, <2>3, <3>2 DEF Around
    <3>4. ASSUME NEW i \in InReach PROVE Seen(0, i) <=> Seen(head_cur, i)
      <4>1. i \in Nat /\ i < csize
        BY <1>1, ReachIs
      <4> QED BY <1>3, <3>2, <4>1 DEF Seen
    <3>5. Gathered(0, idxs)
      BY <2>1, <2>4, <3>4 DEF LoopInv, Gathered
    <3>6. Gathered(head_cur, idxs)'
      BY <1>1, <1>2, <3>5 DEF Gathered, Seen
    <3> QED BY <1>2, <2>1, <2>4, <3>3, <3>6 DEF LoopInv
  <2>5. CASE cont
    <3>1. n_test = n_tokens /\ ~Done
      BY <1>1, <1>3, <2>1, <2>5 DEF n_test, LoopInv, Done
    <3>2. \A r \in Runs : r \in Nat /\ r < head_cur /\ ~Seen(head_cur, r)
      <4> SUFFICES ASSUME NEW r \in Runs PROVE r \in Nat /\ r < head_cur /\ ~Seen(head_cur, r)
        OBVIOUS
      <4>1. r \in Nat /\ r + n_tokens <= csize
        BY <1>1, ReachIs
      <4> QED BY <1>1, <1>3, <2>1, <2>5, <3>1, <4>1 DEF LoopInv
    <3>3. CASE Onward /\ start > 0
      <4>1. Around'
        BY <1>1, <1>2, <1>3, <2>3, <3>3 DEF Around, Onward
      <4>2. \A r \in Runs : ~Seen(0, r)
        BY <1>3, <3>2, <3>3 DEF Seen, Onward
      <4>3. \A r \in Runs' : ~Seen(head_cur, r)'
        BY <1>1, <1>2, <4>2 DEF Seen
      <4> QED BY <1>2, <2>1, <2>5, <4>1, <4>3 DEF LoopInv
    <3>4. CASE (Onward /\ start = 0) \/ Around
      <4>1. Runs = {}
        BY <1>3, <3>2, <3>4 DEF Seen, Onward, Around
      <4>2. n_tested' \in csize .. 2 * csize
        BY <1>3, <2>1, <2>3, <3>4 DEF Onward, Around
      <4>3. Done'
        BY <1>1, <1>2, <2>5, <4>1, <4>2 DEF Done
      <4> QED BY <1>2, <2>1, <2>5, <4>1, <4>3 DEF LoopInv
    <3> QED BY <1>3, <2>1, <3>1, <3>3, <3>4 DEF LoopInv
  <2> QED BY <2>4, <2>5
<1>6. SearchExact'
  BY <1>1 DEF SearchExact, SlotFound, NoSlotMissed
<1> QED BY <1>1, <1>2, <1>4, <1>5, <1>6 DEF IInv

\* A round that looks at one cell of a loose slot.
LEMMA LooseTest ==
    ASSUME IInv, Test, HeadInReach, ~cont
    PROVE  (pc' = "loop" => LoopInv') /\ SearchExact'
<1>1. /\ Types /\ pc = "loop" /\ head_cur + n_test <= csize
      /\ idxs' = Found
      /\ pc' = IF Len(Found) = n_tokens THEN Verdict(Found)
               ELSE IF n_tested' >= csize THEN "none" ELSE "loop"
  BY DEF IInv, Test
<1>2. UNCHANGED input /\ head_cur' = head_cur + Looked /\ (n_tested <= 3 * NCells => n_tested' = n_tested + Looked)
  BY <1>1, TestTypes
<1>3. /\ InReach' = InReach /\ Runs' = Runs
      /\ csize' = csize /\ start' = start /\ n_tokens' = n_tokens /\ cont' = cont
  BY <1>2, InputFixed
<1>4. /\ csize \in Nat /\ csize <= NCells /\ n_tokens \in Nat /\ start \in Nat /\ start <= csize
      /\ NCells \in Nat /\ head_cur \in Nat /\ n_tested \in Nat /\ idxs \in Seq(Cells)
  BY <1>1, Basics DEF Types, HeadInReach
<1>5. LoopInv /\ Len(idxs) < n_tokens /\ Gathered(head_cur, idxs) /\ (Onward \/ Around)
  BY <1>1 DEF IInv, LoopInv, Done
<1>6. n_test = 1 /\ Looked = 1 /\ head_cur < csize
  <2>1. n_test = 1
    BY DEF n_test
  <2>2. Looked \in 1 .. n_test
    BY <1>1, LookedIs
  <2> QED BY <1>1, <1>4, <2>1, <2>2
<1>7. head_cur' = head_cur + 1 /\ n_tested' = n_tested + 1
  <2>1. n_tested <= 2 * NCells
    BY <1>1, <1>5, Bounded
  <2> QED BY <1>2, <1>4, <1>6, <2>1
<1>8. Hits = IF head_cur \in usable THEN 1 ELSE 0
  BY <1>4, <1>6 DEF Hits
<1> DEFINE f == Found
           m == Len(idxs)
<1>9. /\ f \in Seq(Cells) /\ Len(f) = m + Hits /\ m \in Nat
      /\ \A k \in 1 .. m : f[k] = idxs[k]
      /\ Hits = 1 => f[m + 1] = head_cur
  <2>1. /\ f \in Seq(Cells) /\ Len(f) = m + Hits
        /\ \A k \in 1 .. m : f[k] = idxs[k]
        /\ \A k \in 1 .. Hits : f[m + k] = head_cur + k - 1
    BY <1>1, FoundIs
  <2>2. Hits = 1 => f[m + 1] = head_cur
    <3>1. 1 \in 1 .. 1 /\ head_cur + 1 - 1 = head_cur
      BY <1>4
    <3> QED BY <2>1, <3>1
  <2> QED BY <1>4, <2>1, <2>2
<1> HIDE DEF f
<1>10. DOMAIN f = 1 .. Len(f) /\ DOMAIN idxs = 1 .. m /\ Len(f) \in Nat
  BY <1>4, <1>9
<1>11. Hits = 1 => head_cur \in InReach
  BY <1>6, <1>8 DEF InReach
<1>12. \A k \in DOMAIN f : (k \in DOMAIN idxs /\ f[k] = idxs[k]) \/ (Hits = 1 /\ k = m + 1 /\ f[k] = head_cur)
  BY <1>8, <1>9, <1>10
<1>13. \A k \in DOMAIN f : f[k] \in InReach /\ Past(head_cur, f[k])
  BY <1>5, <1>11, <1>12 DEF Gathered, Past
<1>14. ASSUME NEW j \in DOMAIN f, NEW k \in DOMAIN f, j < k
       PROVE  Rank(start, f[j]) < Rank(start, f[k])
  <2>1. j \in Nat /\ k \in Nat /\ j <= Len(f) /\ k <= Len(f)
    BY <1>10
  <2>2. CASE k \in DOMAIN idxs
    <3>1. j \in DOMAIN idxs /\ f[j] = idxs[j] /\ f[k] = idxs[k]
      BY <1>9, <1>10, <1>14, <2>1, <2>2
    <3> QED BY <1>5, <1>14, <2>2, <3>1 DEF Gathered
  <2>3. CASE k \notin DOMAIN idxs
    <3>1. k = m + 1 /\ f[k] = head_cur
      BY <1>12, <2>3
    <3>2. j \in DOMAIN idxs /\ f[j] = idxs[j]
      BY <1>9, <1>10, <1>12, <1>14, <2>1, <3>1
    <3>3. idxs[j] \in InReach /\ Seen(head_cur, idxs[j])
      BY <1>5, <3>2 DEF Gathered
    <3> QED BY <1>1, <1>4, <1>6, <3>1, <3>2, <3>3, SeenBefore
  <2> QED BY <2>2, <2>3
<1>15. ASSUME NEW i \in InReach, Past(head_cur, i) PROVE \E k \in DOMAIN f : f[k] = i
  <2>1. CASE i = head_cur
    <3>1. Hits = 1
      BY <1>1, <1>8, <2>1, ReachIs
    <3>2. m + 1 \in DOMAIN f
      BY <1>9, <1>10, <3>1
    <3> QED BY <1>9, <2>1, <3>1, <3>2
  <2>2. CASE i # head_cur
    <3>1. PICK k \in DOMAIN idxs : idxs[k] = i
      BY <1>5, <1>15, <2>2 DEF Past, Gathered
    <3>2. k \in DOMAIN f /\ f[k] = i
      BY <1>8, <1>9, <1>10, <3>1
    <3> QED BY <3>2
  <2> QED BY <2>1, <2>2
<1>16. CASE Len(f) = n_tokens
  <2>1. pc' \in {"found", "refused"}
    BY <1>1, <1>16 DEF Verdict, f
  <2>2. IsSlot(InReach, start, f)
    <3>1. ASSUME NEW i \in InReach, ~\E k \in DOMAIN f : f[k] = i, NEW k \in DOMAIN f
          PROVE  Rank(start, f[k]) < Rank(start, i)
      BY <1>1, <1>4, <1>6, <1>13, <1>15, <3>1, PastBefore
    <3> QED BY <1>13, <1>14, <3>1 DEF IsSlot
  <2>3. idxs' = f
    BY <1>1 DEF f
  <2>4. SlotFound'
    BY <1>3, <1>16, <2>2, <2>3 DEF SlotFound, IsSlot, Rank
  <2> QED BY <2>1, <2>4 DEF SearchExact, NoSlotMissed
<1>17. CASE Len(f) # n_tokens /\ n_tested' >= csize
  <2>1. pc' = "none"
    BY <1>1, <1>17 DEF f
  <2>2. ASSUME NEW i \in InReach PROVE Past(head_cur, i)
    <3>1. i \in Nat /\ i < csize
      BY <1>1, ReachIs
    <3> QED BY <1>4, <1>5, <1>6, <1>7, <1>17, <3>1 DEF Past, Seen, Onward, Around
  <2>3. f \in Seq(Nat)
    BY <1>9, Basics DEF Cells
  <2>4. Cardinality(InReach) \in Nat /\ Cardinality(InReach) <= Len(f)
    <3>1. /\ \A i \in InReach : \E k \in DOMAIN f : f[k] = i
          /\ \A k \in DOMAIN f : f[k] \in InReach
      BY <1>13, <1>15, <2>2
    <3> QED BY <2>3, <3>1, FewerThanPlaces
  <2>5. Cardinality(InReach) < n_tokens
    BY <1>4, <1>5, <1>8, <1>9, <1>17, <2>4
  <2> QED BY <1>3, <2>1, <2>5 DEF SearchExact, SlotFound, NoSlotMissed
<1>18. CASE Len(f) # n_tokens /\ ~(n_tested' >= csize)
  <2>1. pc' = "loop" /\ idxs' = f
    BY <1>1, <1>18 DEF f
  <2>2. Len(f) < n_tokens
    BY <1>4, <1>5, <1>8, <1>9, <1>18
  <2>3. (Onward \/ Around)'
    BY <1>3, <1>4, <1>5, <1>6, <1>7, <1>18 DEF Onward, Around
  <2>4. ASSUME NEW i \in InReach PROVE Seen(head_cur + 1, i) <=> Past(head_cur, i)
    <3>1. i \in Nat /\ i < csize
      BY <1>1, ReachIs
    <3> QED BY <1>4, <1>5, <1>6, <1>7, <1>18, <3>1 DEF Past, Seen, Onward, Around
  <2>5. Gathered(head_cur + 1, f)
    BY <1>13, <1>14, <1>15, <2>4 DEF Gathered
  <2>6. Gathered(head_cur, idxs)'
    BY <1>3, <1>7, <2>1, <2>5 DEF Gathered, Seen, Rank
  <2>7. LoopInv'
    BY <1>3, <1>5, <2>1, <2>2, <2>3, <2>6 DEF LoopInv
  <2> QED BY <2>1, <2>7 DEF SearchExact, SlotFound, NoSlotMissed
<1> QED BY <1>16, <1>17, <1>18

\* A round that looks for a contiguous slot at the head.
LEMMA ContTest ==
    ASSUME IInv, Test, HeadInReach, cont
    PROVE  (pc' = "loop" => LoopInv') /\ SearchExact'
<1>1. /\ Types /\ pc = "loop" /\ head_cur + n_test <= csize
      /\ idxs' = (IF Len(Found) # n_tokens THEN <<>> ELSE Found)
      /\ pc' = IF Len(Found) = n_tokens THEN Verdict(Found)
               ELSE IF n_tested' >= csize THEN "none" ELSE "loop"
  BY DEF IInv, Test
<1>2. UNCHANGED input /\ head_cur' = head_cur + Looked /\ head_cur' <= csize
      /\ (n_tested <= 3 * NCells => n_tested' = n_tested + Looked)
  BY <1>1, TestTypes
<1>3. /\ InReach' = InReach /\ Runs' = Runs
      /\ csize' = csize /\ start' = start /\ n_tokens' = n_tokens /\ cont' = cont
  BY <1>2, InputFixed
<1>4. /\ csize \in Nat /\ csize <= NCells /\ n_tokens \in Nat /\ n_tokens >= 1 /\ start \in Nat /\ start <= csize
      /\ NCells \in Nat /\ head_cur \in Nat /\ n_tested \in Nat
  BY <1>1, Basics DEF Types, HeadInReach
<1>5. LoopInv /\ idxs = <<>> /\ \A r \in Runs : ~Seen(head_cur, r)
  BY <1>1 DEF IInv, LoopInv
<1>6. n_test = n_tokens /\ Looked \in Nat /\ Looked >= 1 /\ Looked <= n_tokens
  <2>1. n_test = n_tokens /\ Looked \in 1 .. n_test
    BY <1>1, LookedIs DEF n_test
  <2> QED BY <1>4, <2>1
<1>7. n_tested' = n_tested + Looked
  <2>1. n_tested <= 2 * NCells
    BY <1>1, <1>5, Bounded
  <2> QED BY <1>2, <1>4, <2>1
<1>8. Len(Found) = Hits /\ Found \in Seq(Cells) /\ \A k \in 1 .. Hits : Found[k] = head_cur + k - 1
  <2>1. /\ Found \in Seq(Cells) /\ Len(Found) = Len(idxs) + Hits /\ Hits \in 0 .. Looked
        /\ \A k \in 1 .. Hits : Found[Len(idxs) + k] = head_cur + k - 1
    BY <1>1, FoundIs
  <2>2. Len(idxs) = 0 /\ \A k \in 1 .. Hits : Len(idxs) + k = k
    BY <1>5, <1>6, <2>1
  <2> QED BY <1>6, <2>1, <2>2
<1>9. CASE Hits = n_tokens
  <2>1. pc' \in {"found", "refused"} /\ idxs' = Found
    BY <1>1, <1>8, <1>9 DEF Verdict
  <2>2. Looked = n_tokens /\ head_cur + Looked - 1 \in usable
    BY <1>4, <1>6, <1>9 DEF Hits
  <2>3. \A k \in 1 .. (Looked - 1) : head_cur + k - 1 \in usable
    BY <1>1, LookedIs
  <2>4. ASSUME NEW i \in head_cur .. (head_cur + n_tokens - 1) PROVE i \in usable
    <3> DEFINE k == i - head_cur + 1
    <3>1. k \in 1 .. Looked /\ head_cur + k - 1 = i
      BY <1>4, <1>6, <2>2
    <3> HIDE DEF k
    <3>2. k = Looked \/ k \in 1 .. (Looked - 1)
      BY <1>6, <3>1
    <3> QED BY <2>2, <2>3, <3>1, <3>2
  <2>5. head_cur \in Runs
    BY <1>1, <1>4, <1>6, <2>4 DEF Runs
  <2>6. Found = [k \in 1 .. n_tokens |-> head_cur + k - 1]
    BY <1>8, <1>9
  <2>7. SlotFound'
    BY <1>3, <1>8, <1>9, <2>1, <2>5, <2>6 DEF SlotFound
  <2> QED BY <2>1, <2>7 DEF SearchExact, NoSlotMissed
<1>10. CASE Hits # n_tokens
  <2>1. idxs' = <<>> /\ pc' = IF n_tested' >= csize THEN "none" ELSE "loop"
    BY <1>1, <1>8, <1>10
  <2>2. head_cur + Looked - 1 \notin usable
    BY <1>1, <1>6, <1>10, LookedIs DEF Hits
  <2>3. ASSUME NEW r \in Runs PROVE r \in Nat /\ r < csize /\ ~(head_cur <= r /\ r < head_cur + Looked)
    <3>1. r \in Nat /\ r + n_tokens <= csize /\ \A k \in 1 .. n_tokens : r + k - 1 \in usable
      BY <1>1, ReachIs
    <3>2. ASSUME head_cur <= r, r < head_cur + Looked PROVE FALSE
      <4> DEFINE k == head_cur + Looked - r
      <4>1. k \in 1 .. n_tokens /\ r + k - 1 = head_cur + Looked - 1
        BY <1>4, <1>6, <3>1, <3>2
      <4> QED BY <2>2, <3>1, <4>1
    <3> QED BY <1>4, <3>1, <3>2
  <2>4. CASE n_tested' >= csize
    <3>1. ASSUME NEW r \in Runs PROVE FALSE
      <4>1. ~Done /\ ~Seen(head_cur, r)
        BY <1>5, <3>1 DEF Done
      <4>2. CASE Onward
        BY <1>2, <1>4, <1>6, <1>7, <2>3, <2>4, <4>1, <4>2 DEF Onward, Seen
      <4>3. CASE Around
        BY <1>2, <1>4, <1>6, <1>7, <2>3, <2>4, <4>1, <4>3 DEF Around, Seen
      <4> QED BY <1>5, <4>1, <4>2, <4>3 DEF LoopInv
    <3>2. Runs = {}
      BY <3>1
    <3> QED BY <1>3, <2>1, <2>4, <3>2 DEF SearchExact, SlotFound, NoSlotMissed
  <2>5. CASE ~(n_tested' >= csize)
    <3>1. pc' = "loop" /\ ~Done
      BY <1>4, <1>6, <1>7, <2>1, <2>5 DEF Done
    <3>2. (Onward \/ Around)'
      BY <1>2, <1>3, <1>4, <1>5, <1>6, <1>7, <2>5, <3>1 DEF LoopInv, Onward, Around
    <3>3. ASSUME NEW r \in Runs PROVE ~Seen(head_cur + Looked, r)
      <4>1. ~Seen(head_cur, r)
        BY <1>5
      <4> QED BY <1>2, <1>4, <1>5, <1>6, <1>7, <2>3, <2>5, <3>1, <4>1 DEF LoopInv, Onward, Around, Seen
    <3>4. \A r \in Runs' : ~Seen(head_cur, r)'
      BY <1>2, <1>3, <3>3 DEF Seen
    <3>5. LoopInv'
      BY <1>3, <1>5, <2>1, <3>2, <3>4 DEF LoopInv
    <3> QED BY <3>1, <3>5 DEF SearchExact, SlotFound, NoSlotMissed
  <2> QED BY <2>4, <2>5
<1> QED BY <1>9, <1>10

LEMMA TestKeeps ==
    ASSUME IInv, Test
    PROVE  IInv'
<1>1. Types /\ Types' /\ UNCHANGED input /\ pc' # "begin"
  BY TestTypes DEF IInv, Test, Verdict
<1>2. HeadInReach' = HeadInReach /\ cont \in BOOLEAN
  BY <1>1, InputFixed DEF Types
<1>3. HeadInReach => (pc' = "loop" => LoopInv') /\ SearchExact'
  BY <1>2, LooseTest, ContTest
<1> QED BY <1>1, <1>2, <1>3 DEF IInv

-----------------------------------------------------------------------------
(* The specification. *)

\* The search of find_slot, wherever it stands, has passed every cell between the head and its
\* place, has gathered what it could use of them and has passed no contiguous slot.
THEOREM SearchInductive == Spec => []IInv
<1>1. Init => IInv
  <2> SUFFICES ASSUME Init PROVE IInv
    OBVIOUS
  <2>1. Types
    BY Basics DEF Init, Types
  <2>2. pc = "begin" /\ head_cur = start /\ n_tested = 0 /\ idxs = <<>>
    BY DEF Init
  <2> QED BY <2>1, <2>2 DEF IInv, SearchExact, SlotFound, NoSlotMissed
<1>2. IInv /\ [Next]_vars => IInv'
  <2> SUFFICES ASSUME IInv, [Next]_vars PROVE IInv'
    OBVIOUS
  <2>1. CASE UNCHANGED vars
    <3>1. UNCHANGED input /\ UNCHANGED <<head_cur, n_tested, idxs, pc>>
      BY <2>1 DEF vars, input
    <3>2. /\ InReach' = InReach /\ Runs' = Runs /\ HeadInReach' = HeadInReach
          /\ usable' = usable /\ csize' = csize /\ start' = start /\ n_tokens' = n_tokens /\ cont' = cont
      BY <3>1, InputFixed
    <3>3. Types' /\ (LoopInv <=> LoopInv') /\ (SearchExact <=> SearchExact')
      BY <3>1, <3>2 DEF IInv, Types, LoopInv, Onward, Around, Done, Gathered, Seen, Rank,
                        SearchExact, SlotFound, NoSlotMissed, IsSlot
    <3> QED BY <3>1, <3>2, <3>3 DEF IInv
  <2> QED BY <2>1, BeginKeeps, WrapKeeps, TestKeeps DEF Next
<1> QED BY <1>1, <1>2, PTL DEF Spec

\* When the head lies within the cells it searches, find_slot returns the first usable cells
\* in its order (or a contiguous run of them), and returns nothing only when there is no slot.
THEOREM SearchIsExact == Spec => [](HeadInReach => SearchExact)
<1>1. IInv => (HeadInReach => SearchExact)
  BY DEF IInv
<1> QED BY <1>1, SearchInductive, PTL

=============================================================================
