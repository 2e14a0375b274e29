----------------------------- MODULE Combinations -----------------------------
(* Parts of sequences, and products: of numbers, and of sequences in the      *)
(* order of itertools.product and of numpy's C order, where the last index    *)
(* runs fastest.                                                              *)
EXTENDS Integers, Sequences, FiniteSets, SequencesExt, FiniteSetsExt, Functions

\* f, and g where f is not defined.
Extended(f, g) == [x \in DOMAIN f \cup DOMAIN g |-> IF x \in DOMAIN f THEN f[x] ELSE g[x]]

\* The members of s that are in kept, in order.
Only(s, kept) == FoldLeft(LAMBDA chosen, x : IF x \in kept THEN Append(chosen, x) ELSE chosen, << >>, s)

Product(numbers) == FoldLeft(LAMBDA a, b : a * b, 1, numbers)

\* A combination gives each name one of its choices.
Combinations(names, choices) ==
  FoldLeft(LAMBDA combos, name :
      FlattenSeq([i \in DOMAIN combos |->
        [j \in DOMAIN choices[name] |-> Extended(combos[i], [n \in {name} |-> choices[name][j]])]]),
    << << >> >>, names)
=============================================================================
