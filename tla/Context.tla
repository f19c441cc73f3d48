------------------------------ MODULE Context ------------------------------
(***************************************************************************)
(* services/pipeline.py, from the pages that were scraped to the prompt of *)
(* the LLM call: deduplicate and build_context, one action for each turn   *)
(* of their loops, so that what they compute can be stated as invariants.  *)
(*                                                                         *)
(* A page is its text up to case and white space, which is what its        *)
(* fingerprint keeps, and two lengths in characters: that of its content,  *)
(* and that of the tags, the URL and the title around it.  The pages are   *)
(* those that have text; a page is named by its position.                  *)
(***************************************************************************)
EXTENDS Integers, Sequences

CONSTANTS
  Texts,      \* contents up to case and white space
  Lengths,    \* lengths of contents
  Frames,     \* lengths of <source url="" title=""> with its end tag
  MaxPages,   \* bound on the pages that were scraped
  PerPage,    \* config.max_chars_per_page
  Budget      \* config.max_context_chars

ASSUME ContextAssumption ==
  /\ Lengths \subseteq Nat \ {0}
  /\ Frames \subseteq Nat
  /\ MaxPages \in Nat \ {0}
  /\ PerPage \in Nat
  /\ Budget \in Nat

Page == [text : Texts, length : Lengths, frame : Frames]

VARIABLES
  pages,    \* the pages with text, in the order of the URLs
  at,       \* position of the loop that is going
  seen,     \* fingerprints met by deduplicate
  unique,   \* what deduplicate keeps
  chunks,   \* what build_context includes
  used,     \* characters it has counted
  phase     \* which loop is going

vars == <<pages, at, seen, unique, chunks, used, phase>>

Separator == 2    \* "\n\n"

TypeOK ==
  /\ pages  \in Seq(Page) /\ Len(pages) \in 1 .. MaxPages
  /\ at     \in 1 .. Len(pages) + 1
  /\ seen   \subseteq Texts
  /\ unique \in Seq(1 .. Len(pages))
  /\ chunks \in Seq(1 .. Len(pages))
  /\ used   \in Nat
  /\ phase  \in {"deduplicate", "build_context", "call_llm"}

Init ==
  /\ pages \in UNION {[1 .. n -> Page] : n \in 1 .. MaxPages}
  /\ at     = 1
  /\ seen   = {}
  /\ unique = <<>>
  /\ chunks = <<>>
  /\ used   = 0
  /\ phase  = "deduplicate"

\* Mutated form of Fingerprint: the body is cut before it is compared.
FingerprintRaw(p) == <<p.text, p.length>>

\* _fingerprint: case and white space do not count.
Fingerprint(p) == p.text

\* One page in deduplicate.
Deduplicate ==
  /\ phase = "deduplicate"
  /\ at <= Len(pages)
  /\ LET key == Fingerprint(pages[at])
     IN  IF key \in seen
         THEN UNCHANGED <<seen, unique>>
         ELSE seen' = seen \cup {key} /\ unique' = Append(unique, at)
  /\ at' = at + 1
  /\ UNCHANGED <<pages, chunks, used, phase>>

\* synthesise goes on to build_context.
Deduplicated ==
  /\ phase = "deduplicate"
  /\ at > Len(pages)
  /\ phase' = "build_context"
  /\ at' = 1
  /\ UNCHANGED <<pages, seen, unique, chunks, used>>

\* The length of the block of a page, its body cut to the limit for a page.
Block(p) == p.frame + (IF p.length < PerPage THEN p.length ELSE PerPage)

\* Mutated form of Fits: the block itself is not counted.
FitsBefore(p) == used < Budget

Fits(p) == used + Block(p) <= Budget

\* Mutated form of Include: one page that does not fit is passed over.
IncludeSkipping ==
  /\ phase = "build_context"
  /\ at <= Len(unique)
  /\ LET p == pages[unique[at]]
     IN  IF Fits(p)
         THEN chunks' = Append(chunks, unique[at]) /\ used' = used + Block(p)
         ELSE UNCHANGED <<chunks, used>>
  /\ at' = at + 1
  /\ UNCHANGED <<pages, seen, unique, phase>>

\* One page in build_context that is within the budget.
Include ==
  /\ phase = "build_context"
  /\ at <= Len(unique)
  /\ Fits(pages[unique[at]])
  /\ chunks' = Append(chunks, unique[at])
  /\ used' = used + Block(pages[unique[at]])
  /\ at' = at + 1
  /\ UNCHANGED <<pages, seen, unique, phase>>

\* The loop is over or breaks off; the prompt is sent.
CallLLM ==
  /\ phase = "build_context"
  /\ at <= Len(unique) => ~Fits(pages[unique[at]])
  /\ phase' = "call_llm"
  /\ UNCHANGED <<pages, at, seen, unique, chunks, used>>

Next == Deduplicate \/ Deduplicated \/ Include \/ CallLLM

Spec == Init /\ [][Next]_vars

-----------------------------------------------------------------------------
(***************************************************************************)
(* Properties.                                                             *)
(***************************************************************************)

\* The length of the string build_context returns.
ContextLength == used + Separator * (IF chunks = <<>> THEN 0 ELSE Len(chunks) - 1)

\* A page is kept just when no earlier page says the same, and the kept pages
\* keep the order of the URLs: the first of each group of mirrors is cited.
FirstOfEach ==
  phase # "deduplicate" =>
    /\ \A i \in 1 .. Len(pages) :
         (\E n \in 1 .. Len(unique) : unique[n] = i) =
         (\A j \in 1 .. i - 1 : pages[j].text # pages[i].text)
    /\ \A m, n \in 1 .. Len(unique) : m < n => unique[m] < unique[n]

\* The prompt holds the longest run of kept pages, from the first one on, that
\* the budget allows, without the separators between them.
LongestPrefix ==
  phase = "call_llm" =>
    LET n == Len(chunks)
    IN  /\ n <= Len(unique)
        /\ \A m \in 1 .. n : chunks[m] = unique[m]
        /\ n < Len(unique) =>
             LET next == pages[unique[n + 1]]
             IN  /\ used + next.frame + next.length > Budget
                 /\ used + next.frame + PerPage > Budget

\* The prompt exceeds the budget by its separators at most, and no page takes
\* more of it than its frame and the limit for a page.
LengthBounded ==
  /\ ContextLength <= Budget + Separator * Len(chunks)
  /\ \A b \in Frames : (\A f \in Frames : f <= b) =>
       used <= Len(chunks) * (b + PerPage)
=============================================================================
