--------------------------------- MODULE Values ---------------------------------
(***************************************************************************)
(* What a stored value is to its readers. A body is a sequence of parts in *)
(* the order of the bytes: one part for each text a caller stored, appended*)
(* or prepended, or for a counter. A part is a tag and the number read     *)
(* when the value starts with it; a text is taken to hold something that   *)
(* is not a digit after its digits, so that no number spans two parts.     *)
(***************************************************************************)
EXTENDS Integers, Sequences

\* UINT64_SIZE, the length of the value of a counter.
CounterLen == 21

\* What incr and decr leave in val: sprintf writes digits and a NUL, and no
\* reader of the number goes past the NUL.
Counter(n) == <<[tag |-> "number", num |-> n]>>

\* safe_strtoull: the number a body starts with.
SafeStrtoull(body) == IF body = <<>> THEN 0 ELSE Head(body).num

\* Addition wraps, subtraction stops at zero. In word = 2^64 in the code.
NewNumber(word, old, val, incr) ==
  IF incr THEN (old + val) % word ELSE IF old < val THEN 0 ELSE old - val

\* The value prepend (front) or append (not front) of v leaves over old.
Joined(old, v, front) ==
  [nval |-> v.nval + old.nval,
   body |-> IF front THEN v.body \o old.body ELSE old.body \o v.body]

================================================================================
