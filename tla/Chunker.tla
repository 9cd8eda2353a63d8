------------------------------- MODULE Chunker -------------------------------
(***************************************************************************)
(* How rag/chunker.py cuts a resume or a job description into the chunks   *)
(* that are embedded: by the headings it recognizes, or, without any, into *)
(* windows of a fixed size with an overlap.  A text is a sequence of       *)
(* lines; of a line it only matters whether it is blank and which heading  *)
(* patterns match it.  A heading stands on one line: that the \s* of a     *)
(* pattern may run on over the ends of lines is left out.                  *)
(***************************************************************************)
EXTENDS Integers, FiniteSets, Sequences

CONSTANTS
    MaxLines,   \* bound: lines of a text
    MaxTokens,  \* words of a window (500)
    Overlap     \* words shared by consecutive windows (50)

VARIABLES question, answer, answered

vars == <<question, answer, answered>>

\* The sections whose pattern matches a line, numbered in the order of the
\* dictionary; "About the team" matches two patterns of job descriptions.
Sections == 1..2
Matched == [word |-> {}, blank |-> {}, first |-> {1}, second |-> {2}, both |-> {1, 2}]

Texts == UNION {[1..n -> DOMAIN Matched] : n \in 0..MaxLines}

\* chunk_type: a section, what stands before the first one, or the whole text
Preamble == 0
FullText == 3

-----------------------------------------------------------------------------
\* The words among the lines from a to b, with surrounding blanks stripped.
Words(text, a, b) == {i \in a..b : text[i] = "word"}

\* finditer of each pattern: a heading is a line and a section.
Matches(text) == {m \in (DOMAIN text) \X Sections : m[2] \in Matched[text[m[1]]]}

\* A mutant: the matches stay in the order of the patterns.
BeforeByPattern(m, n) == m[2] < n[2] \/ (m[2] = n[2] /\ m[1] < n[1])

\* They are sorted by position; the sort is stable.
Before(m, n) == m[1] < n[1] \/ (m[1] = n[1] /\ m[2] < n[2])

Top == <<0, Preamble>>

After(text, m) == {n \in Matches(text) : Before(m, n)}

\* What stands between a heading and the next; nothing if both are one line.
Content(text, m) ==
    Words(text, m[1] + 1,
          IF After(text, m) = {} THEN Len(text)
          ELSE (CHOOSE n \in After(text, m) : \A k \in After(text, m) : ~Before(k, n))[1] - 1)

\* The sections of a text by their headings; one without text is left out, and
\* so is the text before the first heading where there is no heading.
SplitBySections(text) ==
    {m \in Matches(text) \cup {Top} : Matches(text) # {} /\ Content(text, m) # {}}

\* A line of a text cut into windows is one word; its place among the words.
NotBlank(text) == {i \in DOMAIN text : text[i] # "blank"}
Place(text, i) == Cardinality({k \in NotBlank(text) : k <= i})

Step == MaxTokens - Overlap

Windows(words) == IF words <= MaxTokens THEN 1 ELSE (words + Step - 1) \div Step

\* The windows over the words of a text.
FixedSize(text) ==
    [w \in 1..Windows(Cardinality(NotBlank(text))) |->
       [type |-> FullText,
        lines |-> {i \in NotBlank(text) :
                     Place(text, i) - (w - 1) * Step \in 1..MaxTokens}]]

\* A text of headings only has no sections and is cut like one without any.
Chunked(text) ==
    IF NotBlank(text) = {} THEN <<>>
    ELSE IF SplitBySections(text) = {} THEN FixedSize(text)
    ELSE [m \in SplitBySections(text) |-> [type |-> m[2], lines |-> Content(text, m)]]

-----------------------------------------------------------------------------
Init == question = <<>> /\ answer = <<>> /\ answered = FALSE

Cut ==
    /\ ~answered
    /\ answered' = TRUE
    /\ \E text \in Texts : question' = text /\ answer' = Chunked(text)

Next == Cut

Spec == Init /\ [][Next]_vars

-----------------------------------------------------------------------------
\* The heading a line stands under: the nearest above it, of the last pattern
\* that matches.
Above(text, i) == {m \in Matches(text) : m[1] < i}
Heading(text, i) ==
    IF Above(text, i) = {} THEN Preamble
    ELSE (CHOOSE m \in Above(text, i) :
            \A n \in Above(text, i) : n[1] < m[1] \/ (n[1] = m[1] /\ n[2] <= m[2]))[2]

\* Nothing of a text is lost or embedded under another heading.  With
\* sections, each line of text is in one chunk, whose type is the heading
\* above it, and headings are in none; without, every word is in a window, no
\* window is too long, and consecutive windows share the overlap, or all that
\* is left (chunk_resume, chunk_job_description and chunk_fixed_size).
ChunksCoverText ==
    answered =>
      LET words == Words(question, 1, Len(question))
          With(i) == {c \in DOMAIN answer : i \in answer[c].lines}
          whole == \E c \in DOMAIN answer : answer[c].type = FullText
      IN  /\ \A c \in DOMAIN answer : answer[c].lines # {}
          /\ ~whole => /\ \A i \in words : \E c \in With(i) :
                            With(i) = {c} /\ answer[c].type = Heading(question, i)
                       /\ \A i \in (DOMAIN question) \ words : With(i) = {}
          /\ whole => /\ (words = {} \/ Matches(question) = {})
                      /\ \A i \in DOMAIN question : question[i] # "blank" => With(i) # {}
                      /\ \A c \in DOMAIN answer : Cardinality(answer[c].lines) <= MaxTokens
                      /\ \A b, c \in DOMAIN answer :
                           LET shared == answer[b].lines \cap answer[c].lines
                           IN  c = b + 1 => Cardinality(shared) = Overlap \/ shared = answer[c].lines
=============================================================================
