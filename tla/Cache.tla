--------------------------------- MODULE Cache ----------------------------------
(***************************************************************************)
(* What shmc promises its callers: a map from keys to values with flags,   *)
(* and the answer to every call. No slabs, lists or chunks: storing may    *)
(* fail for want of memory or, when eviction is on, push out another key,  *)
(* and this module does not say when. ShmcStore implements it.             *)
(*                                                                         *)
(* Four weak points of the promise are the code's, and they have names:    *)
(* Lose (a failed set or replace has already dropped the old value),       *)
(* Leftover (append and prepend may leave flags nobody passed), Vanish     *)
(* (incr and decr may answer with a number they did not store) and Brim    *)
(* (replace, append and prepend may store a value that set finds too       *)
(* large, by the last byte).                                               *)
(***************************************************************************)
EXTENDS SlabClass, Values, Functions

CONSTANTS
  Key, KeyLen, Text, Capacity, FlagSet, Delta, MaxParts, Word,
  ItemSizeMax, EvictToFree, DefaultCounter

VARIABLES
  content,  \* key -> [nval, body, flags]
  call      \* the last call and its answer

NoFlags == -1

Held == DOMAIN content
TooLarge(k, nval) == ~SizeAccepted(ItemSizeMax, KeyLen[k], nval)
Entry(v, f) == [nval |-> v.nval, body |-> v.body, flags |-> f]

\* Flags a chunk may hold from an earlier owner.
Leftover == FlagSet \cup {0}

Answered(op, k, rc, out, flags) ==
  call' = [op |-> op, key |-> k, rc |-> rc, out |-> out, flags |-> flags]

\* The call changes nothing.
Refuse(op, k, rc, f) == Answered(op, k, rc, <<>>, f) /\ UNCHANGED content

\* The content once room has been made: with eviction on a key may be gone.
Room ==
  {content} \cup
  (IF EvictToFree THEN {Restrict(content, Held \ {x}) : x \in Held} ELSE {})

\* The map c with e for the value of k.
Bind(c, k, e) == [x \in DOMAIN c \cup {k} |-> IF x = k THEN e ELSE c[x]]

Keep(k, e) == \E c \in Room : content' = Bind(c, k, e)
Drop(k) == content' = Restrict(content, Held \ {k})

Lose(op, k, rc, f) == Answered(op, k, rc, <<>>, f) /\ Drop(k)

Vanish(k) == EvictToFree /\ k \in Held /\ Drop(k)

\* Store a value under k, the old one being dropped first.
Put(op, k, v, f) ==
  \/ Answered(op, k, "OK", <<>>, f) /\ Keep(k, Entry(v, f))
  \/ Lose(op, k, "NOMEMORY", f) /\ ~EvictToFree

\* A value of just item_size_max bytes is written over that of k.
Brim(op, k, v, f) ==
  /\ k \in Held /\ ItemSize(KeyLen[k], v.nval) = ItemSizeMax
  /\ Answered(op, k, "OK", <<>>, f)
  /\ content' = [content EXCEPT ![k] = Entry(v, f)]

-------------------------------------------------------------------------------
(***************************************************************************)
(* The calls. Each disjunct starts with the answer the caller gets, and    *)
(* then says when it may get it and what it means for the content.         *)
(***************************************************************************)
\* The value k has is handed out.
Hand(op, k) ==
  /\ \E e \in {content[x] : x \in Held \cap {k}} :
       Answered(op, k, "OK", e.body, e.flags)
  /\ UNCHANGED content

Get(k) ==
  \/ Refuse("get", k, "NOTFOUND", NoFlags) /\ k \notin Held
  \/ Refuse("get", k, "SYSTEM", NoFlags) /\ k \in Held
  \/ Hand("get", k)

Getf(k) ==
  \/ Refuse("getf", k, "NOTFOUND", NoFlags) /\ k \notin Held
  \/ /\ Refuse("getf", k, "ESPACE", NoFlags)
     /\ k \in Held /\ \E n \in Capacity : n < content[k].nval
  \/ Hand("getf", k) /\ \E n \in Capacity : n >= content[k].nval

Del(k) ==
  \/ Refuse("del", k, "NOTFOUND", NoFlags) /\ k \notin Held
  \/ Lose("del", k, "OK", NoFlags) /\ k \in Held

Set(k) ==
  \E v \in Text, f \in FlagSet :
    \/ Refuse("set", k, "ESIZE", f) /\ TooLarge(k, v.nval)
    \/ Put("set", k, v, f) /\ ~TooLarge(k, v.nval)

Add(k) ==
  \E v \in Text, f \in FlagSet :
    \/ Refuse("add", k, "EXIST", f) /\ k \in Held
    \/ Refuse("add", k, "ESIZE", f) /\ k \notin Held /\ TooLarge(k, v.nval)
    \/ Put("add", k, v, f) /\ k \notin Held /\ ~TooLarge(k, v.nval)

Replace(k) ==
  \E v \in Text, f \in FlagSet :
    \/ Refuse("replace", k, "NOTFOUND", f) /\ k \notin Held
    \/ Lose("replace", k, "ESIZE", f) /\ k \in Held /\ TooLarge(k, v.nval)
    \/ Put("replace", k, v, f) /\ k \in Held /\ ~TooLarge(k, v.nval)
    \/ Brim("replace", k, v, f)

\* The value grows and keeps its old bytes, or the call changes nothing.
Grown(k, front) ==
  {w \in {Joined(content[x], v, front) : v \in Text, x \in Held \cap {k}} :
     Len(w.body) <= MaxParts}

Extend(op, k, front) ==
  \E f \in FlagSet :
    \/ Refuse(op, k, "NOTFOUND", f) /\ k \notin Held
    \/ Refuse(op, k, "ESIZE", f) /\ \E w \in Grown(k, front) : TooLarge(k, w.nval)
    \/ Refuse(op, k, "NOMEMORY", f) /\ k \in Held /\ ~EvictToFree
    \/ /\ Answered(op, k, "OK", <<>>, f)
       /\ \E w \in Grown(k, front), g \in {f} \cup Leftover :
            ~TooLarge(k, w.nval) /\ Keep(k, Entry(w, g))
    \/ \E w \in Grown(k, front) : Brim(op, k, w, f)

IsCounter(k) == k \in Held /\ content[k].nval = CounterLen

Old(k) == IF k \in Held THEN content[k] ELSE [nval |-> 0, body |-> <<>>, flags |-> 0]

\* A counter that is there is rewritten and keeps its flags; otherwise one is
\* made, with the flags passed, if any, or those of the value it replaces.
Calculate(op, k, incr) ==
  \/ Refuse(op, k, "NOTFOUND", NoFlags) /\ k \notin Held /\ ~DefaultCounter
  \/ Refuse(op, k, "NOMEMORY", NoFlags) /\ ~EvictToFree /\ ~IsCounter(k)
  \/ \E val \in Delta, f \in FlagSet \cup {NoFlags} :
       LET n   == NewNumber(Word, SafeStrtoull(Old(k).body), val, incr)
           fl  == IF f = NoFlags \/ IsCounter(k) THEN Old(k).flags ELSE f
           cnt == [nval |-> CounterLen, body |-> Counter(n), flags |-> fl]
       IN  \/ /\ Answered(op, k, "OK", Counter(n), IF f = NoFlags THEN f ELSE fl)
              /\ k \in Held \/ DefaultCounter
              /\ IF IsCounter(k) THEN content' = [content EXCEPT ![k] = cnt]
                                 ELSE Keep(k, cnt)
           \/ /\ \E g \in {NoFlags, Old(k).flags} : Answered(op, k, "OK", Counter(n), g)
              /\ ~IsCounter(k) /\ Vanish(k)

-------------------------------------------------------------------------------
Init ==
  /\ content = <<>>
  /\ call = [op |-> "init", rc |-> "OK"]

Operation(k) ==
  \/ Get(k) \/ Getf(k) \/ Del(k)
  \/ Set(k) \/ Add(k) \/ Replace(k)
  \/ Extend("append", k, FALSE) \/ Extend("prepend", k, TRUE)
  \/ Calculate("incr", k, TRUE) \/ Calculate("decr", k, FALSE)

Next == \E k \in Key : Operation(k)

Spec == Init /\ [][Next]_<<content, call>>

================================================================================
