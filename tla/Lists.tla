-------------------------------- MODULE Lists --------------------------------
(* Python's list comprehension with a condition, as a loop. *)
EXTENDS Integers, Sequences

\* [x for x in s if x in S]
Among(s, S) ==
  LET upTo[n \in 0..Len(s)] ==
        IF n = 0 THEN <<>> ELSE IF s[n] \in S THEN Append(upTo[n - 1], s[n]) ELSE upTo[n - 1]
  IN upTo[Len(s)]
=============================================================================
