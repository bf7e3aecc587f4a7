-------------------------------- MODULE Lists --------------------------------
(***************************************************************************)
(* The two ways in which the contracts change a list they keep beside      *)
(* their entries: push_back unless the list contains the element, and a    *)
(* loop that pushes every other element onto a new list. The servers       *)
(* filter their arrays in the same way. And the sum of a series of         *)
(* numbers, which no code computes and the properties need.                *)
(***************************************************************************)
EXTENDS Naturals, Sequences, Functions

With(s, e) == IF e \in Range(s) THEN s ELSE Append(s, e)

(* The loop: what is kept of the first i elements, when those of D are     *)
(* dropped. (SelectSeq says the same, but nothing could be proved of it.)  *)
Kept(s, D) ==
  LET kept[i \in 0..Len(s)] ==
        IF i = 0 THEN << >> ELSE IF s[i] \in D THEN kept[i - 1] ELSE Append(kept[i - 1], s[i])
  IN  kept

Dropping(s, D) == Kept(s, D)[Len(s)]

Without(s, e) == Dropping(s, {e})

(* The sums of f over 1..i, for each i of 0..n.                            *)
Sums(f, n) ==
  LET sums[i \in 0..n] == IF i = 0 THEN 0 ELSE sums[i - 1] + f[i]
  IN  sums

SumOf(f, n) == Sums(f, n)[n]

=============================================================================
