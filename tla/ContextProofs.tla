---------------------------- MODULE ContextProofs ----------------------------
(***************************************************************************)
(* The loop invariants of deduplicate and build_context, for pages of any  *)
(* number and length and any budget, and what the loops leave behind.      *)
(***************************************************************************)
EXTENDS Context, TLAPS

Kept(i) == \E n \in 1 .. Len(unique) : unique[n] = i
First(i) == \A j \in 1 .. i - 1 : pages[j].text # pages[i].text

\* How many pages the first loop is through with.
Passed == IF phase = "deduplicate" THEN at - 1 ELSE Len(pages)

\* The first loop: what has been seen, and what of it is kept.
Deduplicating ==
  /\ phase = "deduplicate" =>
       /\ \A j \in 1 .. at - 1 : pages[j].text \in seen
       /\ \A t \in seen : \E j \in 1 .. at - 1 : pages[j].text = t
       /\ chunks = <<>> /\ used = 0
  /\ \A i \in 1 .. Len(pages) : Kept(i) <=> (i <= Passed /\ First(i))
  /\ \A n \in 1 .. Len(unique) : unique[n] <= Passed
  /\ \A m, n \in 1 .. Len(unique) : m < n => unique[m] < unique[n]
  /\ Len(unique) <= Passed

\* The second loop: it copies, and stops at a page that does not fit.
Building ==
  phase # "deduplicate" =>
    /\ Len(chunks) = at - 1 /\ at - 1 <= Len(unique)
    /\ \A m \in 1 .. Len(chunks) : chunks[m] = unique[m]
    /\ phase = "call_llm" /\ at <= Len(unique) => ~Fits(pages[unique[at]])

\* What the chunks take of the budget.
Spent ==
  /\ used <= Budget
  /\ \A b \in Frames : (\A f \in Frames : f <= b) => used <= Len(chunks) * (b + PerPage)

Inv == TypeOK /\ Deduplicating /\ Building /\ Spent

\* A page is of its type, and so is its block.
LEMMA PageTyped ==
  ASSUME NEW p \in Page
  PROVE  /\ p.text \in Texts /\ p.length \in Nat \ {0} /\ p.frame \in Frames
         /\ p.frame \in Nat
         /\ Block(p) \in Nat /\ Block(p) <= p.frame + p.length
         /\ Block(p) <= p.frame + PerPage
<1>1. p.text \in Texts /\ p.length \in Nat \ {0} /\ p.frame \in Frames /\ p.frame \in Nat
  BY ContextAssumption DEF Page
<1>2. PerPage \in Nat
  BY ContextAssumption
<1> QED
  BY <1>1, <1>2 DEF Block

\* The first state satisfies the invariant.
LEMMA InitInv == Init => Inv
<1> SUFFICES ASSUME Init PROVE Inv
  OBVIOUS
<1>1. pages \in Seq(Page) /\ Len(pages) \in 1 .. MaxPages
  <2>1. PICK n \in 1 .. MaxPages : pages \in [1 .. n -> Page]
    BY DEF Init
  <2>2. n \in Nat /\ MaxPages \in Nat
    BY ContextAssumption
  <2> QED
    BY <2>1, <2>2
<1>2. TypeOK
  BY <1>1 DEF Init, TypeOK
<1>3. Deduplicating
  BY <1>1 DEF Init, Deduplicating, Kept, Passed
<1>4. Building
  BY DEF Init, Building
<1>5. Spent
  BY ContextAssumption DEF Init, Spent
<1> QED
  BY <1>2, <1>3, <1>4, <1>5 DEF Inv

\* One turn of the first loop.
LEMMA DeduplicateKeeps ==
  ASSUME Inv, Deduplicate
  PROVE  Inv'
<1> USE DEF Inv
<1>1. /\ phase = "deduplicate" /\ phase' = phase /\ pages' = pages
      /\ chunks' = chunks /\ used' = used /\ at' = at + 1
      /\ at \in 1 .. Len(pages) /\ Len(pages) \in Nat
      /\ pages \in Seq(Page) /\ pages[at] \in Page
      /\ chunks = <<>> /\ used = 0
  BY DEF Deduplicate, TypeOK, Deduplicating
<1>2. /\ unique \in Seq(1 .. Len(pages)) /\ Len(unique) \in Nat /\ Len(unique) <= at - 1
      /\ \A n \in 1 .. Len(unique) : unique[n] \in 1 .. at - 1
  BY <1>1 DEF TypeOK, Deduplicating, Passed
<1>3. pages[at].text \in seen <=> ~First(at)
  BY <1>1 DEF Deduplicating, First
<1>4. \A i \in 1 .. Len(pages) : Kept(i) <=> (i <= at - 1 /\ First(i))
  BY <1>1 DEF Deduplicating, Passed
<1>5. \A i : First(i)' <=> First(i)
  BY <1>1 DEF First
<1>6. Passed' = at
  BY <1>1 DEF Passed
<1>7. CASE pages[at].text \in seen
  <2>1. UNCHANGED <<seen, unique>>
    BY <1>7 DEF Deduplicate, Fingerprint
  <2>2. TypeOK'
    BY <1>1, <2>1 DEF TypeOK
  <2>3. \A i \in 1 .. Len(pages) : Kept(i)' <=> (i <= at /\ First(i))
    BY <1>1, <1>3, <1>4, <1>7, <2>1 DEF Kept
  <2>4. \A j \in 1 .. at' - 1 : pages[j].text \in seen
    BY <1>1, <1>7 DEF Deduplicating
  <2>5. \A t \in seen : \E j \in 1 .. at' - 1 : pages[j].text = t
    BY <1>1 DEF Deduplicating
  <2>6. Deduplicating'
    BY <1>1, <1>2, <1>5, <1>6, <2>1, <2>3, <2>4, <2>5 DEF Deduplicating
  <2> QED
    BY <1>1, <2>2, <2>6 DEF Building, Spent
<1>8. CASE pages[at].text \notin seen
  <2>1. seen' = seen \cup {pages[at].text} /\ unique' = Append(unique, at)
    BY <1>8 DEF Deduplicate, Fingerprint
  <2>2. /\ unique' \in Seq(1 .. Len(pages)) /\ Len(unique') = Len(unique) + 1
        /\ unique'[Len(unique) + 1] = at
        /\ \A n \in 1 .. Len(unique) : unique'[n] = unique[n]
    BY <1>1, <1>2, <2>1
  <2>3. TypeOK'
    BY <1>1, <2>1, <2>2, PageTyped DEF TypeOK
  <2>4. \A i \in 1 .. Len(pages) : Kept(i)' <=> (Kept(i) \/ i = at)
    <3> SUFFICES ASSUME NEW i \in 1 .. Len(pages)
                 PROVE  (\E n \in 1 .. Len(unique') : unique'[n] = i) <=> (Kept(i) \/ i = at)
      BY DEF Kept
    <3>1. ASSUME NEW n \in 1 .. Len(unique'), unique'[n] = i
          PROVE  Kept(i) \/ i = at
      <4>1. n = Len(unique) + 1 \/ n \in 1 .. Len(unique)
        BY <1>2, <2>2
      <4> QED
        BY <2>2, <3>1, <4>1 DEF Kept
    <3>2. ASSUME Kept(i)
          PROVE  \E n \in 1 .. Len(unique') : unique'[n] = i
      <4>1. PICK n \in 1 .. Len(unique) : unique[n] = i
        BY <3>2 DEF Kept
      <4>2. n \in 1 .. Len(unique') /\ unique'[n] = i
        BY <1>2, <2>2, <4>1
      <4> QED
        BY <4>2
    <3>3. ASSUME i = at
          PROVE  \E n \in 1 .. Len(unique') : unique'[n] = i
      <4>1. Len(unique) + 1 \in 1 .. Len(unique')
        BY <1>2, <2>2
      <4> QED
        BY <2>2, <3>3, <4>1
    <3> QED
      BY <3>1, <3>2, <3>3
  <2>5. \A i \in 1 .. Len(pages) : Kept(i)' <=> (i <= at /\ First(i))
    BY <1>1, <1>3, <1>4, <1>8, <2>4
  <2>6. \A j \in 1 .. at' - 1 : pages[j].text \in seen'
    BY <1>1, <2>1 DEF Deduplicating
  <2>7. \A t \in seen' : \E j \in 1 .. at' - 1 : pages[j].text = t
    <3>1. \A t \in seen : \E j \in 1 .. at - 1 : pages[j].text = t
      BY <1>1 DEF Deduplicating
    <3> QED
      BY <1>1, <2>1, <3>1
  <2>8. /\ \A n \in 1 .. Len(unique') : unique'[n] <= at
        /\ \A m, n \in 1 .. Len(unique') : m < n => unique'[m] < unique'[n]
        /\ Len(unique') <= at
    <3>1. \A n \in 1 .. Len(unique') : n \in 1 .. Len(unique) \/ n = Len(unique) + 1
      BY <1>2, <2>2
    <3>2. \A n \in 1 .. Len(unique') : unique'[n] <= at
      BY <1>1, <1>2, <2>2, <3>1
    <3>3. Len(unique') <= at
      BY <1>1, <1>2, <2>2
    <3>4. ASSUME NEW m \in 1 .. Len(unique'), NEW n \in 1 .. Len(unique'), m < n
          PROVE  unique'[m] < unique'[n]
      <4>1. CASE n \in 1 .. Len(unique)
        <5>1. m \in 1 .. Len(unique)
          BY <1>2, <2>2, <3>4, <4>1
        <5> QED
          BY <2>2, <3>4, <4>1, <5>1 DEF Deduplicating
      <4>2. CASE n = Len(unique) + 1
        <5>1. m \in 1 .. Len(unique) /\ unique[m] \in 1 .. at - 1
          BY <1>2, <2>2, <3>4, <4>2
        <5> QED
          BY <1>1, <2>2, <4>2, <5>1
      <4> QED
        BY <3>1, <4>1, <4>2
    <3> QED
      BY <3>2, <3>3, <3>4
  <2>9. Deduplicating'
    BY <1>1, <1>5, <1>6, <2>5, <2>6, <2>7, <2>8 DEF Deduplicating
  <2> QED
    BY <1>1, <2>3, <2>9 DEF Building, Spent
<1> QED
  BY <1>7, <1>8

\* Between the loops.
LEMMA DeduplicatedKeeps ==
  ASSUME Inv, Deduplicated
  PROVE  Inv'
<1>1. /\ phase = "deduplicate" /\ phase' = "build_context" /\ at' = 1
      /\ at = Len(pages) + 1 /\ Len(pages) \in Nat \ {0}
      /\ UNCHANGED <<pages, seen, unique, chunks, used>>
      /\ chunks = <<>> /\ Len(unique) \in Nat
  BY DEF Deduplicated, Inv, TypeOK, Deduplicating
<1>2. TypeOK'
  BY <1>1 DEF Inv, TypeOK
<1>3. Passed' = Passed
  BY <1>1 DEF Passed
<1>4. Deduplicating'
  BY <1>1, <1>3 DEF Inv, Deduplicating, Kept, First
<1>5. Building' /\ Spent'
  BY <1>1 DEF Inv, Building, Spent
<1> QED
  BY <1>2, <1>4, <1>5 DEF Inv

\* One turn of the second loop.
LEMMA IncludeKeeps ==
  ASSUME Inv, Include
  PROVE  Inv'
<1> DEFINE p == pages[unique[at]]
<1>1. /\ phase = "build_context" /\ phase' = phase /\ at' = at + 1
      /\ UNCHANGED <<pages, seen, unique>>
      /\ at \in 1 .. Len(unique) /\ Len(unique) \in Nat
      /\ unique[at] \in 1 .. Len(pages) /\ p \in Page
      /\ Fits(p) /\ chunks' = Append(chunks, unique[at]) /\ used' = used + Block(p)
      /\ Len(unique) <= Len(pages) /\ used \in Nat
  BY DEF Include, Inv, TypeOK, Deduplicating, Passed
<1>2. chunks \in Seq(1 .. Len(pages)) /\ Len(chunks) = at - 1
  BY <1>1 DEF Inv, TypeOK, Building
<1>3. /\ chunks' \in Seq(1 .. Len(pages)) /\ Len(chunks') = at /\ chunks'[at] = unique[at]
      /\ \A m \in 1 .. at - 1 : chunks'[m] = chunks[m]
  BY <1>1, <1>2
<1>4. Block(p) \in Nat /\ \A b \in Frames : (\A f \in Frames : f <= b) => Block(p) <= b + PerPage
  <2>1. p.frame \in Frames /\ p.frame \in Nat /\ Block(p) \in Nat /\ Block(p) <= p.frame + PerPage
    BY <1>1, PageTyped
  <2> HIDE DEF p
  <2> QED
    BY <2>1, ContextAssumption
<1> HIDE DEF p
<1>5. TypeOK'
  BY <1>1, <1>3, <1>4 DEF Inv, TypeOK
<1>6. Deduplicating'
  <2>1. Passed' = Passed
    BY <1>1 DEF Passed
  <2> QED
    BY <1>1, <2>1 DEF Inv, Deduplicating, Kept, First
<1>7. Building'
  BY <1>1, <1>2, <1>3 DEF Inv, Building
<1>8. Spent'
  <2>1. used' <= Budget
    BY <1>1 DEF Fits
  <2>2. ASSUME NEW b \in Frames, \A f \in Frames : f <= b
        PROVE  used' <= Len(chunks') * (b + PerPage)
    <3> DEFINE c == b + PerPage
    <3>1. c \in Nat
      BY ContextAssumption
    <3>2. used <= (at - 1) * c /\ Block(p) <= c
      BY <1>1, <1>2, <1>4, <2>2 DEF Inv, Spent
    <3>3. at \in Nat
      BY <1>1
    <3> HIDE DEF c
    <3>4. (at - 1) * c + c = at * c
      BY <3>1, <3>3
    <3>5. (at - 1) * c \in Int /\ at * c \in Int
      BY <3>1, <3>3
    <3>6. used' <= at * c
      BY <1>1, <1>4, <3>1, <3>2, <3>4, <3>5
    <3> QED
      BY <1>3, <3>6 DEF c
  <2> QED
    BY <2>1, <2>2 DEF Spent
<1> QED
  BY <1>5, <1>6, <1>7, <1>8 DEF Inv

\* The end of the second loop.
LEMMA CallLLMKeeps ==
  ASSUME Inv, CallLLM
  PROVE  Inv'
<1>1. /\ phase = "build_context" /\ phase' = "call_llm"
      /\ UNCHANGED <<pages, at, seen, unique, chunks, used>>
      /\ at <= Len(unique) => ~Fits(pages[unique[at]])
  BY DEF CallLLM
<1>2. Passed' = Passed
  BY <1>1 DEF Passed
<1>3. TypeOK' /\ Spent'
  BY <1>1 DEF Inv, TypeOK, Spent
<1>4. Deduplicating'
  BY <1>1, <1>2 DEF Inv, Deduplicating, Kept, First
<1>5. Building'
  BY <1>1 DEF Inv, Building, Fits, Block
<1> QED
  BY <1>3, <1>4, <1>5 DEF Inv

\* Every step keeps the invariant.
LEMMA NextInv == Inv /\ [Next]_vars => Inv'
<1> SUFFICES ASSUME Inv, [Next]_vars PROVE Inv'
  OBVIOUS
<1>1. CASE Deduplicate
  BY <1>1, DeduplicateKeeps
<1>2. CASE Deduplicated
  BY <1>2, DeduplicatedKeeps
<1>3. CASE Include
  BY <1>3, IncludeKeeps
<1>4. CASE CallLLM
  BY <1>4, CallLLMKeeps
<1>5. CASE UNCHANGED vars
  BY <1>5 DEF vars, Inv, TypeOK, Deduplicating, Kept, First, Passed, Building, Spent, Fits, Block
<1> QED
  BY <1>1, <1>2, <1>3, <1>4, <1>5 DEF Next

\* Both loops keep their invariants.
THEOREM Invariance == Spec => []Inv
BY InitInv, NextInv, PTL DEF Spec

\* Types of the loops' variables.
THEOREM TypeCorrect == Spec => []TypeOK
<1>1. Inv => TypeOK
  BY DEF Inv
<1> QED
  BY Invariance, <1>1, PTL

\* The first page of each group of mirrors is kept, in order (deduplicate).
THEOREM FirstsAreKept == Spec => []FirstOfEach
<1>1. Inv => FirstOfEach
  <2> SUFFICES ASSUME Inv, phase # "deduplicate"
               PROVE  /\ \A i \in 1 .. Len(pages) : Kept(i) = First(i)
                      /\ \A m, n \in 1 .. Len(unique) : m < n => unique[m] < unique[n]
    BY DEF FirstOfEach, Kept, First
  <2>1. Len(pages) \in Nat
    BY DEF Inv, TypeOK
  <2>2. \A i \in 1 .. Len(pages) : Kept(i) <=> First(i)
    BY <2>1 DEF Inv, Deduplicating, Passed
  <2>3. \A i : Kept(i) \in BOOLEAN /\ First(i) \in BOOLEAN
    BY DEF Kept, First
  <2> QED
    BY <2>2, <2>3 DEF Inv, Deduplicating
<1> QED
  BY Invariance, <1>1, PTL

\* The prompt holds the longest prefix of the kept pages that fits (build_context).
THEOREM PrefixIsLongest == Spec => []LongestPrefix
<1>1. Inv => LongestPrefix
  <2> SUFFICES ASSUME Inv, phase = "call_llm"
               PROVE  LongestPrefix
    BY DEF LongestPrefix
  <2>1. /\ Len(chunks) = at - 1 /\ at - 1 <= Len(unique) /\ at \in Nat /\ Len(unique) \in Nat
        /\ \A m \in 1 .. Len(chunks) : chunks[m] = unique[m]
        /\ used \in Nat
    BY DEF Inv, Building, TypeOK
  <2>2. ASSUME Len(chunks) < Len(unique)
        PROVE  LET next == pages[unique[Len(chunks) + 1]]
               IN  /\ used + next.frame + next.length > Budget
                   /\ used + next.frame + PerPage > Budget
    <3> DEFINE next == pages[unique[at]]
    <3>1. at \in 1 .. Len(unique) /\ Len(chunks) + 1 = at
      BY <2>1, <2>2 DEF Inv, TypeOK
    <3>2. next \in Page
      BY <3>1 DEF Inv, TypeOK
    <3>3. ~(used + Block(next) <= Budget)
      BY <3>1 DEF Inv, Building, Fits
    <3>4. /\ next.length \in Nat /\ next.frame \in Nat /\ Block(next) \in Nat
          /\ Block(next) <= next.frame + next.length /\ Block(next) <= next.frame + PerPage
      BY <3>2, PageTyped
    <3> HIDE DEF next
    <3>5. used + next.frame + next.length > Budget /\ used + next.frame + PerPage > Budget
      BY <2>1, <3>3, <3>4, ContextAssumption
    <3> QED
      BY <3>1, <3>5 DEF next
  <2> QED
    BY <2>1, <2>2 DEF LongestPrefix
<1> QED
  BY Invariance, <1>1, PTL

\* By how much the prompt may exceed its budget, and what a page may take of it.
THEOREM LengthIsBounded == Spec => []LengthBounded
<1>1. Inv => LengthBounded
  <2> SUFFICES ASSUME Inv PROVE LengthBounded
    OBVIOUS
  <2>1. Len(chunks) \in Nat /\ used \in Nat /\ used <= Budget /\ Budget \in Nat
    BY ContextAssumption DEF Inv, TypeOK, Spent
  <2>2. ContextLength <= Budget + Separator * Len(chunks)
    BY <2>1 DEF ContextLength, Separator
  <2> QED
    BY <2>2 DEF LengthBounded, Inv, Spent
<1> QED
  BY Invariance, <1>1, PTL
=============================================================================
