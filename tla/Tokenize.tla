-------------------------------- MODULE Tokenize --------------------------------
(***************************************************************************)
(* tokenize (token.c): a command line is split at its blanks into at most  *)
(* mtokens - 1 words. A backslash keeps the character after it, a blank    *)
(* too, in the word.                                                       *)
(***************************************************************************)
EXTENDS Integers, Sequences, SequencesExt

CONSTANTS
  MaxTokens,    \* MAX_TOKENS, the room for tokens
  LineBound     \* bound on the lines that are compared

ASSUME TokenizeAssumption == MaxTokens \in Nat \ {0} /\ LineBound \in Nat

\* The characters the code tells apart: any other, a blank, a backslash, NUL.
Char == {"x", " ", "\\"}
Nul == "0"

\* The words up to the character at e, where a word may end. A word is the pair
\* of its start and its length.
Cut(st, e) == IF st.s # e THEN Append(st.tokens, <<st.s, e - st.s>>) ELSE st.tokens

\* Mutant: the start moves only past a blank that ends a word.
StepStuck(st, ch, e) ==
  IF st.done \/ Len(st.tokens) >= MaxTokens - 1 THEN [st EXCEPT !.done = TRUE]
  ELSE IF st.esc THEN [st EXCEPT !.esc = FALSE]
  ELSE IF ch = " " THEN [st EXCEPT !.tokens = Cut(st, e), !.s = IF st.s # e THEN e + 1 ELSE @]
  ELSE IF ch = Nul THEN [st EXCEPT !.tokens = Cut(st, e), !.done = TRUE]
  ELSE [st EXCEPT !.esc = (ch = "\\")]

\* The body of the loop for the character ch at e.
Step(st, ch, e) ==
  IF st.done \/ Len(st.tokens) >= MaxTokens - 1 THEN [st EXCEPT !.done = TRUE]
  ELSE IF st.esc THEN [st EXCEPT !.esc = FALSE]
  ELSE IF ch = " " THEN [st EXCEPT !.tokens = Cut(st, e), !.s = e + 1]
  ELSE IF ch = Nul THEN [st EXCEPT !.tokens = Cut(st, e), !.done = TRUE]
  ELSE [st EXCEPT !.esc = (ch = "\\")]

\* The words; the token that ends the list is left out.
Tokens(line) ==
  LET text == Append(line, Nul)
      run[e \in 0 .. Len(text)] ==
        IF e = 0 THEN [s |-> 1, esc |-> FALSE, tokens |-> <<>>, done |-> FALSE]
                 ELSE Step(run[e - 1], text[e], e)
  IN  run[Len(text)].tokens

-------------------------------------------------------------------------------
\* A character is escaped when an odd number of backslashes stands before it.
Escaped(line, p) ==
  \E n \in 1 .. p - 1 :
    /\ n % 2 = 1
    /\ \A q \in p - n .. p - 1 : line[q] = "\\"
    /\ p - n > 1 => line[p - n - 1] # "\\"

Blank(line, p) == line[p] = " " /\ ~Escaped(line, p)

\* What a word is: a stretch between blanks that are not escaped.
WordsOf(line) ==
  LET IsWord(p, n) ==
        /\ p + n - 1 <= Len(line)
        /\ \A q \in p .. p + n - 1 : ~Blank(line, q)
        /\ p = 1 \/ Blank(line, p - 1)
        /\ p + n > Len(line) \/ Blank(line, p + n)
  IN  {w \in (1 .. Len(line)) \X (1 .. Len(line)) : IsWord(w[1], w[2])}

\* t are the words of a line in order, the first of them if there is no more room.
FirstWords(line, t) ==
  /\ t \in Seq(WordsOf(line))
  /\ Len(t) < MaxTokens
  /\ \A i, j \in DOMAIN t : i < j => t[i][1] < t[j][1]
  /\ \A w \in WordsOf(line) :
       \/ \E i \in DOMAIN t : t[i] = w
       \/ Len(t) = MaxTokens - 1 /\ \A i \in DOMAIN t : t[i][1] < w[1]

\* The lines to compare on: none ends in the middle of an escape, where tokenize
\* would not see the NUL.
Lines == {l \in BoundedSeq(Char, LineBound) : ~Escaped(Append(l, Nul), Len(l) + 1)}

================================================================================
