----------------------------- MODULE EvalText -----------------------------
(***************************************************************************)
(* What an evaluation asks and how it marks (eval_templates.rs): the       *)
(* prompt of a needle template, put together insertion by insertion, and   *)
(* the mark of an answer.  A text is a sequence of pieces of one origin,   *)
(* with their lengths in characters; inserting may cut a piece in two.     *)
(***************************************************************************)
EXTENDS Integers, Sequences, SequencesExt, FiniteSets

CONSTANTS PromptSize,    \* context sizes of needle templates, in tokens
          NeedleLength,  \* lengths of needles, in characters
          NeedleDepth,   \* depths of needles, in per cent; other numbers are refused
          QuestionLength,
          Overshoot,     \* by how much the last paragraph exceeds the filler wanted
          Weight,        \* weights of keywords
          MaxNeedles,    \* bound: needles of a template
          MaxKeywords    \* bound: keywords of a template

\* A weight is an u32; no paragraph, with the blank line before it, has more than 80
\* characters, and the last one is begun before the filler has what was wanted.
ASSUME TextAssumption ==
    /\ PromptSize \subseteq Nat /\ NeedleLength \subseteq Nat /\ NeedleDepth \subseteq Nat
    /\ QuestionLength \subseteq Nat /\ Weight \subseteq Nat /\ Overshoot \subseteq 0..79
    /\ MaxNeedles \in Nat /\ MaxKeywords \in Nat

VARIABLES asked,     \* the template: size, needles, length of the question
          pieces,    \* its prompt so far
          left,      \* the needles still to insert, the deepest first
          marked     \* an answer: the weights, which keywords it has, its mark

textVars == <<asked, pieces, left, marked>>

NoTemplate == [at |-> "rest", size |-> 0, needles |-> <<>>, question |-> 0, room |-> 0]
NoMark == [weights |-> <<>>, found |-> {}, mark |-> 0]

\* Where a piece comes from; a needle's number stands for itself.
OfFiller == 0
OfGap == -1
OfQuestion == -2

Total(seq) == FoldLeft(LAMBDA a, b : a + b, 0, seq)
Lengths(text) == Total([i \in DOMAIN text |-> text[i].length])
\* estimate_tokens: 2.5 characters to a token, rounded up.
Tokens(length) == (2 * length + 4) \div 5

TextInit == asked = NoTemplate /\ pieces = <<>> /\ left = <<>> /\ marked = NoMark

\* validate_template: a needle template has needles, none beyond the end.
Valid(needles) == needles # <<>> /\ \A i \in DOMAIN needles : needles[i].depth <= 100

\* The filler: 80 % of the size less the question and the needles, 64 tokens at
\* least, in whole paragraphs.
FillerTokens(size, needles, question) ==
    LET wanted == (size * 4) \div 5
        taken  == Tokens(question) + Total([i \in DOMAIN needles |-> Tokens(needles[i].length)])
    IN  IF wanted - taken < 64 THEN 64 ELSE wanted - taken

\* The needles sorted by depth, those of the same depth in the order of the template.
Deeper(a, b) == a.depth > b.depth \/ (a.depth = b.depth /\ a.what < b.what)
DeepestFirst(S) ==
    [k \in 1..Cardinality(S) |-> CHOOSE x \in S : Cardinality({y \in S : Deeper(y, x)}) = k - 1]

\* build_needle_prompt: the filler, and what is to be inserted into it.
StartsPrompt(size, needles, question, over) ==
    /\ asked.at = "rest" /\ marked = NoMark
    /\ IF ~Valid(needles)
         THEN /\ asked' = [asked EXCEPT !.at = "refused"]
              /\ UNCHANGED <<pieces, left>>
         ELSE LET filler == (5 * FillerTokens(size, needles, question) + 1) \div 2 + over
              IN  /\ asked' = [at |-> "inserting", size |-> size, needles |-> needles,
                               question |-> question, room |-> filler]
                  /\ pieces' = << [what |-> OfFiller, length |-> filler] >>
                  /\ left' = DeepestFirst({[what |-> i, length |-> needles[i].length,
                                             depth |-> needles[i].depth] : i \in DOMAIN needles})
    /\ UNCHANGED marked

\* A plausible fault: the depth is divided before it is multiplied.
PositionCoarse(length, depth) == (length * (depth \div 10)) \div 10

\* The position in the text as it is now, rounded to the nearest.
Position(length, depth) == (2 * length * depth + 100) \div 200

\* The first n characters of a text, and the rest.
Before(text, n) ==
    FoldLeft(LAMBDA done, piece :
                 LET room == n - Lengths(done)
                 IN  IF room <= 0 THEN done
                     ELSE Append(done, [piece EXCEPT !.length = IF @ < room THEN @ ELSE room]),
             <<>>, text)
After(text, n) ==
    Reverse(Before(Reverse(text), Lengths(text) - n))

Gap2 == << [what |-> OfGap, length |-> 2] >>

InsertsNeedle ==
    /\ asked.at = "inserting" /\ left # <<>>
    /\ LET needle == Head(left)
           at     == Position(Lengths(pieces), needle.depth)
       IN  pieces' = Before(pieces, at) \o Gap2
                       \o << [what |-> needle.what, length |-> needle.length] >> \o Gap2 \o After(pieces, at)
    /\ left' = Tail(left)
    /\ UNCHANGED <<asked, marked>>

AppendsQuestion ==
    /\ asked.at = "inserting" /\ left = <<>>
    /\ pieces' = pieces \o Gap2 \o << [what |-> OfQuestion, length |-> asked.question] >>
    /\ asked' = [asked EXCEPT !.at = "built"]
    /\ UNCHANGED <<left, marked>>

\* score_keywords: the share of the weights, in per cent, rounded.
KeywordMark(weights, found) ==
    LET total == Total(weights) IN
    IF total = 0 THEN 0
    ELSE (200 * Total([i \in DOMAIN weights |-> IF i \in found THEN weights[i] ELSE 0]) + total) \div (2 * total)

\* validate_scoring: as many weights as keywords, and not all of them 0.
Scorable(weights) == weights # <<>> /\ \E i \in DOMAIN weights : weights[i] > 0

MarksAnswer(weights, found) ==
    /\ asked.at = "rest" /\ marked = NoMark
    /\ Scorable(weights)
    /\ marked' = [weights |-> weights, found |-> found, mark |-> KeywordMark(weights, found)]
    /\ UNCHANGED <<asked, pieces, left>>

NeedleOf == [length : NeedleLength, depth : NeedleDepth]
TextNext ==
    \/ InsertsNeedle \/ AppendsQuestion
    \/ \E size \in PromptSize, question \in QuestionLength, over \in Overshoot, needles \in SeqOf(NeedleOf, MaxNeedles) :
          StartsPrompt(size, needles, question, over)
    \/ \E weights \in SeqOf(Weight, MaxKeywords) : \E found \in SUBSET DOMAIN weights : MarksAnswer(weights, found)

TextSpec == TextInit /\ [][TextNext]_textVars
-----------------------------------------------------------------------------
(* Properties. *)

TextTypeOK ==
    /\ asked.at \in {"rest", "refused", "inserting", "built"}
    /\ \A i \in DOMAIN pieces : pieces[i].length \in Nat
    /\ marked.mark \in 0..100

\* The filler between the places of two needles is longer than either.
Apart(a, b) ==
    LET between == asked.room * (IF a.depth > b.depth THEN a.depth - b.depth ELSE b.depth - a.depth)
    IN  between >= 100 * (a.length + 5) /\ between >= 100 * (b.length + 5)
Separate == \A i, j \in DOMAIN asked.needles : i # j => Apart(asked.needles[i], asked.needles[j])
Whole(i) == \E p \in DOMAIN pieces : pieces[p] = [what |-> i, length |-> asked.needles[i].length]

\* Whatever is inserted after it, a needle is in the prompt in one piece, unless
\* another one is asked for so close to it that it is put into it: at the same depth,
\* or, in a small context, at the next.
NeedlesAreWhole == asked.at = "built" /\ Separate => \A i \in DOMAIN asked.needles : Whole(i)

\* Nothing of the filler, of a needle or of the question is lost or doubled.
PromptIsAll ==
    asked.at = "built" =>
        Lengths(pieces) = asked.room + Total([i \in DOMAIN asked.needles |-> asked.needles[i].length + 4])
                            + 2 + asked.question

\* A needle is found where it was asked for, to within one per cent of the text
\* and what the other needles and the question have added.
Start(i) == Lengths(SubSeq(pieces, 1, (CHOOSE p \in DOMAIN pieces : pieces[p].what = i) - 1))
NeedlesAreDeep ==
    asked.at = "built" /\ Separate => \A i \in DOMAIN asked.needles :
        LET off == 100 * Start(i) - asked.needles[i].depth * Lengths(pieces)
            slack == Lengths(pieces) + 100 * (Lengths(pieces) - asked.room)
        IN  off <= slack /\ -off <= slack

\* The prompt fits into the context that is measured, if its question and its needles
\* leave more than the least filler, and a fifth of it is enough for the blank lines
\* around them and the rest of the last paragraph.
PromptIsInContext ==
    asked.at = "built" /\ FillerTokens(asked.size, asked.needles, asked.question) > 64
                       /\ asked.size >= 163 + 8 * Len(asked.needles)
        => Tokens(Lengths(pieces)) <= asked.size

\* Full marks are for an answer with every keyword that counts and no mark is for
\* one with none, as long as the weights sum up to less than 200.
MarksAreEarned ==
    marked # NoMark /\ Total(marked.weights) < 200 =>
        /\ marked.mark = 100 <=> \A i \in DOMAIN marked.weights : marked.weights[i] > 0 => i \in marked.found
        /\ marked.mark = 0 <=> \A i \in marked.found : marked.weights[i] = 0

\* The needles of a prompt are whole and where they were asked for, the prompt fits
\* into the context it tests, and the marks are for what was found.
PromptIsRight ==
    /\ TextTypeOK
    /\ NeedlesAreWhole
    /\ PromptIsAll
    /\ NeedlesAreDeep
    /\ PromptIsInContext
    /\ MarksAreEarned
=============================================================================
