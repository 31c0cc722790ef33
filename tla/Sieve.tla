------------------------------- MODULE Sieve -------------------------------
(***************************************************************************)
(* Filtering a sequence, as a loop over it does: SelectSeq, with a set for *)
(* the test and the state after each step to speak of.                     *)
(***************************************************************************)
EXTENDS Naturals, Sequences

(* What is kept of the first n elements of s: those in A. *)
Sieve(s, A) ==
    LET sieve[n \in 0 .. Len(s)] ==
            IF n = 0 THEN <<>>
            ELSE IF s[n] \in A THEN Append(sieve[n - 1], s[n])
            ELSE sieve[n - 1]
    IN  sieve

Sieved(s, A) == Sieve(s, A)[Len(s)]
=============================================================================
