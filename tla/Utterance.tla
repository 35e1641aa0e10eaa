------------------------------- MODULE Utterance --------------------------------
(***************************************************************************)
(* What is made of a line the model wrote (_clean_output of                *)
(* persona/llm.py), and of a distilled note (_parse_distill).              *)
(*                                                                         *)
(* A line is a sequence of marks: "@" a command verb the model leaked,     *)
(* "Cricket says," a name prefix, "w" words, "." the end of a sentence,    *)
(* "open" and "close" the two double quotes (one character: which it is    *)
(* shows in the space beside it; "apart" is one with space on both sides), *)
(* "*" a single asterisk (two together the client removes, as it does      *)
(* tokens of the chat template), "<|im_end|>" such a token,                *)
(* "user" a role marker that begins a line.                                *)
(***************************************************************************)
EXTENDS Order, SequencesExt, FiniteSetsExt

CONSTANT Numbered  \* tokens with a digit in them

Quote == {"open", "close", "apart"}
Mark == {"@", "Cricket says,", "w", ".", "*", "<|im_end|>", "user"} \cup Quote
Quotes(line) == Cardinality({i \in DOMAIN line : line[i] \in Quote})
Ends(line, marks) == line # <<>> /\ Last(line) \in marks

DropLeading(line, mark) == IF line # <<>> /\ Head(line) = mark THEN Tail(line) ELSE line

\* Asterisks come off in pairs; what stood between two of them, at the start or
\* after a sentence or a quote, is a sentence of its own.  A pair leaves space in
\* its place, and a quote that closed there stands apart.
Unstarred(line) ==
  LET stars == {i \in DOMAIN line : line[i] = "*"}
      before(i) == {j \in stars : j < i}
      closes == {i \in stars : Cardinality(before(i)) % 2 = 1}
      opens == {Max(before(i)) : i \in closes}
      alone(i) == Max(before(i)) = 1 \/ line[Max(before(i)) - 1] \in Quote \cup {"."}
      ended == {i \in closes : alone(i) /\ line[i - 1] \notin {".", "*"}}
      spaced == [i \in DOMAIN line |->
                  IF line[i] = "*" THEN "."
                  ELSE IF line[i] = "close" /\ i - 1 \in opens \cup closes THEN "apart"
                  ELSE line[i]]
  IN  At(spaced, {i \in DOMAIN line : line[i] # "*"} \cup ended)

\* Where a sentence ends, the quote that closes it included.
SentenceEnds(line) ==
  {i \in DOMAIN line : \/ line[i] = "." /\ (i = Len(line) \/ line[i + 1] \notin {"close", "."})
                       \/ line[i] = "close" /\ i > 1 /\ line[i - 1] = "."}

\* mutant: the last sentence is all that counts
TrimmedBare(line) ==
  IF Ends(line, Quote \cup {"."}) \/ SentenceEnds(line) = {} THEN line
  ELSE SubSeq(line, 1, Max(SentenceEnds(line)))

\* A line that breaks off goes back to its last whole sentence, unless what is
\* said in it would go.
Trimmed(line) ==
  IF Ends(line, Quote \cup {"."}) \/ SentenceEnds(line) = {} THEN line
  ELSE LET whole == SubSeq(line, 1, Max(SentenceEnds(line)))
       IN  IF Quotes(whole) > 0 \/ Quotes(line) = 0 THEN whole ELSE line

Unwrapped(line) ==
  IF Len(line) >= 2 /\ Head(line) \in Quote /\ Last(line) \in Quote
  THEN SubSeq(line, 2, Len(line) - 1) ELSE line

Balanced(line) ==
  IF Quotes(line) % 2 = 0 THEN line
  ELSE IF Ends(line, Quote) THEN Front(line) ELSE Append(line, "close")

\* strip_special_tokens: what follows a role marker is not the character's.
Stripped(raw) ==
  LET text == At(raw, {i \in DOMAIN raw : raw[i] # "<|im_end|>"})
      breaks == {i \in DOMAIN text : text[i] = "user"}
  IN  IF breaks = {} THEN text ELSE SubSeq(text, 1, Min(breaks) - 1)

\* _clean_output, of what the client hands over
Clean(raw, mode) ==
  LET bare == DropLeading(DropLeading(Stripped(raw), "@"), "Cricket says,")
      trimmed == Trimmed(Unstarred(bare))
  IN  Balanced(IF mode = "rp" THEN trimmed ELSE Unwrapped(trimmed))

-------------------------------------------------------------------------------
\* _looks_like_name: one to three capitalized words of letters, and none of these.
LooksLikeName(name) ==
  /\ Len(name) \in 1..3
  /\ \A i \in DOMAIN name : name[i].up /\ name[i].t \notin Numbered
  /\ ~(Len(name) = 1 /\ name[1].t \in {"none", "nobody", "narration", "scene"})

Lower(name) == [i \in DOMAIN name |-> name[i].t]

\* The characters of an ACTORS line, the bot aside, six at most.
Actors(names, bot) ==
  LET plausible == At(names, {i \in DOMAIN names :
                        Lower(names[i]) # bot /\ LooksLikeName(names[i])})
  IN  ToSet(Upto(6, plausible))

\* _parse_distill: the lines are "frame" (a preamble, stripped to nothing),
\* "note" (with its label or not) and "actors"; after the first of these nothing
\* is a note.
ParseDistill(lines, bot) ==
  LET actors == {i \in DOMAIN lines : lines[i].kind = "actors"}
      noted == {i \in DOMAIN lines : lines[i].kind = "note" /\ \A j \in actors : i < j}
      names == [i \in DOMAIN lines |-> IF i \in actors THEN lines[i].names ELSE <<>>]
  IN  [ledger |-> noted # {}, actors |-> Actors(Joined(names), bot)]
===============================================================================
