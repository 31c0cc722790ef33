---------------------------- MODULE PanelsProofs ----------------------------
(***************************************************************************)
(* Proofs about the panels, for any requests and any contents of the       *)
(* systems behind them.  A behaviour is one of the panel it began with, so *)
(* each proof is about that panel's own actions.                           *)
(*                                                                         *)
(* What several of them need comes first: induction over the naturals and  *)
(* the functions it defines, and the filtering of sequences.               *)
(***************************************************************************)
EXTENDS Panels, Sieve, Naturals, Sequences, TLAPS, WellFoundedInduction, SequenceTheorems

LEMMA Constants ==
    /\ E!Assumptions /\ C!Assumptions /\ L!Assumptions /\ V!Assumptions /\ P!Assumptions
    /\ S!Assumptions /\ G!Assumptions /\ I!Assumptions /\ D!Assumptions
BY ConstantsAssumption

-----------------------------------------------------------------------------
(* Recursion on the naturals: there is a function for each.                *)

(* A set of naturals that is not empty has a least element. *)
LEMMA NatLeast ==
    ASSUME NEW T \in SUBSET Nat, T # {}
    PROVE  \E x \in T : \A y \in T : x <= y
<1> DEFINE R == {p \in Nat \X Nat : p[1] < p[2]}
<1>1. IsWellFoundedOn(R, Nat)
    <2>1. R = OpToRel(<, Nat)
        BY DEF OpToRel
    <2> QED
        BY <2>1, NatLessThanWellFounded
<1>2. \E x \in T : \A y \in T : ~(<<y, x>> \in R)
    <2> HIDE DEF R
    <2> QED
        BY <1>1, WFMin
<1>3. PICK x \in T : \A y \in T : ~(<<y, x>> \in R)
    BY <1>2
<1>4. \A y \in T : <<y, x>> \in R \/ x <= y
    BY Z3
<1> QED
    BY <1>3, <1>4

(* A set with 0 that is closed under successor has every natural. *)
LEMMA SetInduction ==
    ASSUME NEW Q, 0 \in Q, \A n \in Nat : n \in Q => n + 1 \in Q
    PROVE  Nat \subseteq Q
<1> SUFFICES ASSUME Nat \ Q # {} PROVE FALSE
    OBVIOUS
<1>1. PICK x \in Nat \ Q : \A y \in Nat \ Q : x <= y
    BY NatLeast
<1>2. x - 1 \in Nat /\ x - 1 \notin Nat \ Q
    BY <1>1
<1> QED
    BY <1>1, <1>2

(* A set that is closed under successor has every natural from one of its *)
(* members on.                                                             *)
LEMMA Onwards ==
    ASSUME NEW Q, NEW k \in Nat, k \in Q, \A n \in Nat : n \in Q => n + 1 \in Q
    PROVE  \A n \in Nat : n >= k => n \in Q
<1> DEFINE T == {n \in Nat : n >= k => n \in Q}
<1>1. 0 \in T
    OBVIOUS
<1>2. ASSUME NEW n \in Nat, n \in T PROVE n + 1 \in T
    <2>1. n + 1 >= k => n >= k \/ n + 1 = k
        OBVIOUS
    <2> QED
        BY <1>2, <2>1
<1> HIDE DEF T
<1>3. Nat \subseteq T
    BY <1>1, <1>2, SetInduction
<1> QED
    BY <1>3 DEF T

(* f starts with b and follows Step as far as n. *)
Follows(f, b, Step, n) == f[0] = b /\ \A m \in Nat : m < n => f[m + 1] = Step[f[m]]

LEMMA FollowersAgree ==
    ASSUME NEW b, NEW Step, NEW f, NEW g, NEW n \in Nat, Follows(f, b, Step, n), Follows(g, b, Step, n)
    PROVE  f[n] = g[n]
<1> DEFINE Q == {m \in Nat : m <= n => f[m] = g[m]}
<1>1. 0 \in Q
    BY DEF Follows
<1>2. ASSUME NEW m \in Nat, m \in Q PROVE m + 1 \in Q
    <2>1. m + 1 <= n => m < n /\ m <= n
        OBVIOUS
    <2> QED
        BY <1>2, <2>1 DEF Follows
<1> HIDE DEF Q
<1>3. n \in Q
    BY <1>1, <1>2, SetInduction
<1> QED
    BY <1>3 DEF Q

(* There is a function on the naturals that starts with b and follows Step. *)
LEMMA RecursionExists ==
    ASSUME NEW Value, NEW b \in Value, NEW Step \in [Value -> Value]
    PROVE  \E f \in [Nat -> Value] : f[0] = b /\ \A n \in Nat : f[n + 1] = Step[f[n]]
<1> DEFINE Approx(n) == {f \in [Nat -> Value] : Follows(f, b, Step, n)}
<1> DEFINE Q == {n \in Nat : Approx(n) # {}}
<1>1. 0 \in Q
    <2>1. [m \in Nat |-> b] \in Approx(0)
        BY DEF Follows
    <2> QED
        BY <2>1
<1>2. ASSUME NEW n \in Nat, n \in Q PROVE n + 1 \in Q
    <2>1. PICK f \in [Nat -> Value] : Follows(f, b, Step, n)
        BY <1>2
    <2> DEFINE g == [f EXCEPT ![n + 1] = Step[f[n]]]
    <2>2. g \in [Nat -> Value] /\ n + 1 \in Nat /\ g[n + 1] = Step[f[n]]
        BY <2>1
    <2>3. \A m \in Nat : m <= n => g[m] = f[m]
        BY <2>1
    <2>4. g[0] = b
        BY <2>1, <2>3 DEF Follows
    <2>5. ASSUME NEW m \in Nat, m < n + 1 PROVE g[m + 1] = Step[g[m]]
        <3> HIDE DEF g
        <3>1. CASE m = n
            BY <2>2, <2>3, <3>1
        <3>2. CASE m < n
            <4>1. m + 1 <= n /\ m <= n /\ m + 1 \in Nat
                BY <3>2
            <4> QED
                BY <2>1, <2>3, <3>2, <4>1 DEF Follows
        <3> QED
            BY <2>5, <3>1, <3>2
    <2>6. g \in Approx(n + 1)
        <3> HIDE DEF g
        <3> QED
            BY <2>2, <2>4, <2>5 DEF Follows
    <2> QED
        BY <2>2, <2>6
<1> HIDE DEF Q
<1>3. Nat \subseteq Q
    BY <1>1, <1>2, SetInduction
<1> DEFINE approx(n) == CHOOSE f : f \in Approx(n)
<1>4. \A n \in Nat : approx(n) \in [Nat -> Value] /\ Follows(approx(n), b, Step, n)
    BY <1>3 DEF Q
<1> DEFINE f == [n \in Nat |-> approx(n)[n]]
<1> HIDE DEF approx, Approx
<1>5. f \in [Nat -> Value] /\ f[0] = b
    BY <1>4 DEF Follows
<1>6. ASSUME NEW n \in Nat PROVE f[n + 1] = Step[f[n]]
    <2>1. Follows(approx(n + 1), b, Step, n + 1) /\ Follows(approx(n), b, Step, n)
        BY <1>4
    <2>2. Follows(approx(n + 1), b, Step, n)
        BY <2>1 DEF Follows
    <2>3. approx(n + 1)[n] = approx(n)[n]
        BY <2>1, <2>2, FollowersAgree
    <2>4. approx(n + 1)[n + 1] = Step[approx(n + 1)[n]]
        BY <2>1 DEF Follows
    <2> QED
        BY <2>3, <2>4
<1> QED
    BY <1>5, <1>6

(* f starts with b and goes on by Step, which is told how many steps there *)
(* were before; Step stays in Value.                                       *)
Iterates(f, b, Step) == f[0] = b /\ \A n \in Nat : f[n + 1] = Step[<<n, f[n]>>]
Stepping(Step, Value) == Step \in [Nat \X Value -> Value]

(* There is such a function. *)
LEMMA StepsExist ==
    ASSUME NEW Value, NEW b, b \in Value, NEW Step, Stepping(Step, Value)
    PROVE  \E f \in [Nat -> Value] : Iterates(f, b, Step)
<1>0. Step \in [Nat \X Value -> Value]
    BY DEF Stepping
<1> DEFINE Pair == Nat \X Value
           start == <<0, b>>
           F == [p \in Pair |-> <<p[1] + 1, Step[p]>>]
<1>1. F \in [Pair -> Pair]
    BY <1>0
<1>10. start \in Pair
    OBVIOUS
<1>2. \A n \in Nat, v \in Value : <<n, v>> \in Pair /\ F[<<n, v>>] = <<n + 1, Step[<<n, v>>]>>
    BY <1>0
<1>3. \A p \in Pair : p[1] \in Nat /\ p[2] \in Value /\ p = <<p[1], p[2]>>
    OBVIOUS
<1> HIDE DEF Pair, F, start
<1>4. PICK g \in [Nat -> Pair] : g[0] = start /\ \A m \in Nat : g[m + 1] = F[g[m]]
    BY ONLY <1>1, <1>10, RecursionExists
<1> DEFINE f == [n \in Nat |-> g[n][2]]
           Q == {n \in Nat : g[n] = <<n, f[n]>>}
<1>5. 0 \in Q
    BY <1>4 DEF start
<1>6. ASSUME NEW n \in Nat, n \in Q
      PROVE  n + 1 \in Q /\ f[n + 1] = Step[<<n, f[n]>>]
    <2>1. f[n] \in Value /\ g[n] = <<n, f[n]>>
        BY <1>3, <1>4, <1>6
    <2>2. g[n + 1] = <<n + 1, Step[<<n, f[n]>>]>>
        BY <1>2, <1>4, <2>1
    <2>3. f[n + 1] = g[n + 1][2]
        OBVIOUS
    <2> QED
        BY <2>2, <2>3
<1> HIDE DEF Q
<1>7. Nat \subseteq Q
    BY <1>5, <1>6, SetInduction
<1>8. f \in [Nat -> Value] /\ f[0] = b
    BY <1>3, <1>4 DEF start
<1> QED
    BY <1>6, <1>7, <1>8 DEF Iterates

-----------------------------------------------------------------------------
(* Sieves: what is kept of a sequence has the elements of the set, all of  *)
(* them, in their order.                                                   *)

(* What the recursion of Sieve says of each step. *)
SieveStep(s, A, Val) ==
    /\ Sieve(s, A)[0] = <<>>
    /\ \A n \in 0 .. Len(s) : Sieve(s, A)[n] \in Seq(Val)
    /\ \A n \in 1 .. Len(s) :
        Sieve(s, A)[n] = IF s[n] \in A THEN Append(Sieve(s, A)[n - 1], s[n]) ELSE Sieve(s, A)[n - 1]

LEMMA SieveSteps ==
    ASSUME NEW Val, NEW s, s \in Seq(Val), NEW A
    PROVE  SieveStep(s, A, Val)
<1> DEFINE Value == Seq(Val)
           start == <<>>
           N == Len(s)
           Step == [x \in Nat \X Value |-> IF x[1] + 1 <= N /\ s[x[1] + 1] \in A
                                           THEN Append(x[2], s[x[1] + 1]) ELSE x[2]]
<1>0. start \in Value
    BY EmptySeq
<1>3. N \in Nat /\ \A i \in 1 .. N : s[i] \in Val
    BY LenProperties
<1>1. Stepping(Step, Value)
    <2> HIDE DEF N
    <2>1. ASSUME NEW x \in Nat \X Value
          PROVE  (IF x[1] + 1 <= N /\ s[x[1] + 1] \in A THEN Append(x[2], s[x[1] + 1]) ELSE x[2]) \in Value
        <3>1. x[1] \in Nat /\ x[2] \in Value
            OBVIOUS
        <3>2. x[1] + 1 <= N => s[x[1] + 1] \in Val
            BY <3>1, <1>3
        <3> QED
            BY <3>1, <3>2, AppendProperties
    <2> HIDE DEF Value
    <2> QED
        BY <2>1 DEF Stepping
<1>2. \A n \in Nat, v \in Value : Step[<<n, v>>] = IF n + 1 <= N /\ s[n + 1] \in A
                                                   THEN Append(v, s[n + 1]) ELSE v
    <2> HIDE DEF Value, N
    <2> QED
        OBVIOUS
<1> HIDE DEF Value, Step, start
<1>4. PICK g \in [Nat -> Value] : Iterates(g, start, Step)
    BY <1>0, <1>1, StepsExist
<1>5. /\ g[0] = <<>>
      /\ \A n \in Nat : g[n + 1] = IF n + 1 <= N /\ s[n + 1] \in A THEN Append(g[n], s[n + 1]) ELSE g[n]
    <2>1. \A n \in Nat : g[n] \in Value
        BY <1>4
    <2> HIDE DEF N
    <2> QED
        BY <1>2, <1>4, <2>1 DEF start, Iterates
<1> DEFINE Is(f) == f = [n \in 0 .. N |-> IF n = 0 THEN <<>>
                                          ELSE IF s[n] \in A THEN Append(f[n - 1], s[n])
                                          ELSE f[n - 1]]
           h == [n \in 0 .. N |-> g[n]]
<1>6. Is(h)
    <2>1. ASSUME NEW n \in 0 .. N, n # 0
          PROVE  h[n] = IF s[n] \in A THEN Append(h[n - 1], s[n]) ELSE h[n - 1]
        <3>1. n - 1 \in Nat /\ (n - 1) + 1 = n /\ n - 1 \in 0 .. N /\ n <= N
            BY <1>3, <2>1
        <3> HIDE DEF N
        <3>2. g[n] = IF s[n] \in A THEN Append(g[n - 1], s[n]) ELSE g[n - 1]
            BY <1>5, <3>1
        <3> QED
            BY <3>1, <3>2
    <2>2. h[0] = <<>>
        BY <1>3, <1>5
    <2> HIDE DEF h, N
    <2>3. h = [n \in 0 .. N |-> h[n]]
        BY DEF h
    <2> QED
        BY <2>1, <2>2, <2>3
<1> DEFINE sieve[n \in 0 .. N] == IF n = 0 THEN <<>>
                                  ELSE IF s[n] \in A THEN Append(sieve[n - 1], s[n])
                                  ELSE sieve[n - 1]
<1>7. Is(sieve)
    BY <1>6
<1>8. Sieve(s, A) = sieve
    BY DEF Sieve
<1> HIDE DEF sieve
<1>9. /\ sieve[0] = <<>>
      /\ \A n \in 1 .. N : sieve[n] = IF s[n] \in A THEN Append(sieve[n - 1], s[n]) ELSE sieve[n - 1]
    <2>1. ASSUME NEW n \in 0 .. N
          PROVE  sieve[n] = IF n = 0 THEN <<>> ELSE IF s[n] \in A THEN Append(sieve[n - 1], s[n])
                            ELSE sieve[n - 1]
        BY <1>7
    <2>2. 0 \in 0 .. N /\ \A n \in 1 .. N : n \in 0 .. N /\ n # 0
        BY <1>3
    <2> HIDE DEF N
    <2> QED
        BY <2>1, <2>2
<1> DEFINE Q == {n \in Nat : n <= N => sieve[n] \in Value}
<1> HIDE DEF N
<1>10. 0 \in Q
    BY <1>0, <1>9 DEF start
<1>11. ASSUME NEW n \in Nat, n \in Q PROVE n + 1 \in Q
    <2> SUFFICES ASSUME n + 1 <= N PROVE sieve[n + 1] \in Value
        OBVIOUS
    <2>1. n + 1 \in 1 .. N /\ (n + 1) - 1 = n /\ n <= N
        BY <1>3
    <2>2. sieve[n] \in Value /\ s[n + 1] \in Val
        BY <1>3, <1>11, <2>1
    <2>3. Append(sieve[n], s[n + 1]) \in Value
        BY ONLY <2>2, AppendProperties DEF Value
    <2>4. sieve[n + 1] = IF s[n + 1] \in A THEN Append(sieve[n], s[n + 1]) ELSE sieve[n]
        BY <1>9, <2>1
    <2> QED
        BY <2>2, <2>3, <2>4
<1> HIDE DEF Q
<1>12. Nat \subseteq Q
    BY <1>10, <1>11, SetInduction
<1>13. \A n \in 0 .. N : sieve[n] \in Seq(Val)
    BY <1>12 DEF Q, Value
<1> QED
    BY <1>8, <1>9, <1>13 DEF SieveStep, N

(* keep has the elements of A among the first n of s, and no others. *)
Has(keep, s, A, n) ==
    /\ \A i \in 1 .. Len(keep) : \E j \in 1 .. n : keep[i] = s[j] /\ s[j] \in A
    /\ \A j \in 1 .. n : s[j] \in A => \E i \in 1 .. Len(keep) : keep[i] = s[j]

(* One more element of s keeps that up. *)
LEMMA HasAnother ==
    ASSUME NEW Val, NEW keep, keep \in Seq(Val), NEW s, NEW A, NEW n, n \in Nat, Has(keep, s, A, n), s[n + 1] \in Val
    PROVE  /\ s[n + 1] \in A => Has(Append(keep, s[n + 1]), s, A, n + 1)
           /\ s[n + 1] \notin A => Has(keep, s, A, n + 1)
<1> DEFINE x == s[n + 1]
           more == Append(keep, x)
<1>1. /\ Len(keep) \in Nat /\ Len(more) = Len(keep) + 1 /\ more[Len(keep) + 1] = x
      /\ \A i \in 1 .. Len(keep) : more[i] = keep[i]
    BY AppendProperties, LenProperties
<1>2. \A j \in 1 .. n + 1 : j \in 1 .. n \/ j = n + 1
    OBVIOUS
<1>3. 1 .. n \subseteq 1 .. n + 1 /\ n + 1 \in 1 .. n + 1
    OBVIOUS
<1>4. ASSUME x \notin A PROVE Has(keep, s, A, n + 1)
    BY <1>2, <1>3, <1>4 DEF Has
<1>5. ASSUME x \in A PROVE Has(more, s, A, n + 1)
    <2>1. \A i \in 1 .. Len(more) : i \in 1 .. Len(keep) \/ i = Len(keep) + 1
        BY <1>1
    <2>2. 1 .. Len(keep) \subseteq 1 .. Len(more) /\ Len(keep) + 1 \in 1 .. Len(more)
        BY <1>1
    <2> HIDE DEF more
    <2>3. \A i \in 1 .. Len(more) : \E j \in 1 .. n + 1 : more[i] = s[j] /\ s[j] \in A
        <3> TAKE i \in 1 .. Len(more)
        <3>1. CASE i \in 1 .. Len(keep)
            BY <1>1, <1>3, <3>1 DEF Has
        <3>2. CASE i = Len(keep) + 1
            BY <1>1, <1>3, <1>5, <3>2
        <3> QED
            BY <2>1, <3>1, <3>2
    <2>4. \A j \in 1 .. n + 1 : s[j] \in A => \E i \in 1 .. Len(more) : more[i] = s[j]
        BY <1>1, <1>2, <2>2 DEF Has
    <2> QED
        BY <2>3, <2>4 DEF Has
<1> QED
    BY <1>4, <1>5

(* So a sieve has the elements of A, and only those. *)
LEMMA SieveHas ==
    ASSUME NEW Val, NEW s, s \in Seq(Val), NEW A
    PROVE  Sieved(s, A) \in Seq(Val) /\ Has(Sieved(s, A), s, A, Len(s))
<1> DEFINE N == Len(s)
           k == Sieve(s, A)
           Q == {n \in Nat : n <= N => Has(k[n], s, A, n)}
<1>1. N \in Nat /\ \A i \in 1 .. N : s[i] \in Val
    BY LenProperties
<1>2. /\ k[0] = <<>>
      /\ \A n \in 0 .. N : k[n] \in Seq(Val)
      /\ \A n \in 1 .. N : k[n] = IF s[n] \in A THEN Append(k[n - 1], s[n]) ELSE k[n - 1]
    BY SieveSteps DEF SieveStep
<1>9. Sieved(s, A) = k[N]
    BY DEF Sieved
<1> HIDE DEF N, k
<1>3. 0 \in Q
    <2>1. Has(<<>>, s, A, 0)
        BY EmptySeq DEF Has
    <2> QED
        BY <1>2, <2>1
<1>4. ASSUME NEW n \in Nat, n \in Q PROVE n + 1 \in Q
    <2> SUFFICES ASSUME n + 1 <= N PROVE Has(k[n + 1], s, A, n + 1)
        OBVIOUS
    <2>1. n + 1 \in 1 .. N /\ (n + 1) - 1 = n /\ n <= N /\ n \in 0 .. N
        BY <1>1
    <2>2. Has(k[n], s, A, n) /\ k[n] \in Seq(Val) /\ s[n + 1] \in Val
        BY <1>1, <1>2, <1>4, <2>1
    <2>3. k[n + 1] = IF s[n + 1] \in A THEN Append(k[n], s[n + 1]) ELSE k[n]
        BY <1>2, <2>1
    <2> QED
        BY <2>2, <2>3, HasAnother
<1> HIDE DEF Q
<1>5. Nat \subseteq Q
    BY <1>3, <1>4, SetInduction
<1>6. N \in 0 .. N
    BY <1>1
<1>7. Has(k[N], s, A, N)
    BY <1>1, <1>5 DEF Q
<1> QED
    BY <1>2, <1>6, <1>7, <1>9 DEF N

-----------------------------------------------------------------------------
(* Vault: what each request is about to answer, while nobody else has put  *)
(* a list, and where every path of a list comes from.                      *)

Mutating(r) == op[r] \in {"allow", "disallow"}
Asked == InitAllowed \cup {path[r] : r \in {q \in Request : op[q] = "allow"}}

VaultTypes ==
    /\ V!TypeOK
    /\ got \in [Request -> SUBSET Accepted] /\ calm \in [Request -> BOOLEAN]
    /\ view = [r \in Request |-> [allowed |-> view[r].allowed, mark |-> view[r].mark]]

VaultKept(r) ==
    /\ pc[r] = "idle" => op[r] = "panel"
    /\ pc[r] \in {"get", "put"} => Mutating(r)
    /\ got[r] \subseteq Asked
    /\ Mutating(r) /\ calm[r] =>
        /\ pc[r] = "put" => allowed = got[r]
        /\ pc[r] = "list" => allowed = V!Mutated(r) \cap Accepted
        /\ pc[r] \in {"tree", "done"} => view[r].allowed = V!Mutated(r) \cap Accepted

VaultInv == VaultTypes /\ allowed \subseteq Asked /\ \A r \in Request : VaultKept(r)

LEMMA VaultInit == V!Init => VaultInv
BY Constants DEF V!Init, V!Assumptions, VaultInv, VaultTypes, VaultKept, V!TypeOK, V!Op, V!None,
   V!NoView, Mutating, Asked

(* The fields of a panel that is read in two steps. *)
LEMMA ViewList ==
    ASSUME NEW v, v = [r \in Request |-> [allowed |-> v[r].allowed, mark |-> v[r].mark]],
           NEW r \in Request, NEW x, NEW w, w = [v EXCEPT ![r].allowed = x]
    PROVE  /\ w = [q \in Request |-> [allowed |-> w[q].allowed, mark |-> w[q].mark]]
           /\ \A q \in Request \ {r} : w[q] = v[q]
           /\ w[r].allowed = x /\ w[r].mark = v[r].mark
<1>1. v[r] = [allowed |-> v[r].allowed, mark |-> v[r].mark] /\ DOMAIN v = Request
    OBVIOUS
<1>2. w[r] = [allowed |-> x, mark |-> v[r].mark]
    BY <1>1
<1>3. \A q \in Request \ {r} : w[q] = v[q]
    BY <1>1
<1>4. \A q \in Request : w[q] = [allowed |-> w[q].allowed, mark |-> w[q].mark]
    BY <1>2, <1>3
<1>5. w = [q \in Request |-> w[q]]
    BY <1>1
<1>6. [q \in Request |-> w[q]] = [q \in Request |-> [allowed |-> w[q].allowed, mark |-> w[q].mark]]
    BY <1>4
<1> QED
    BY <1>2, <1>3, <1>5, <1>6

LEMMA ViewTree ==
    ASSUME NEW v, v = [r \in Request |-> [allowed |-> v[r].allowed, mark |-> v[r].mark]],
           NEW r \in Request, NEW x, NEW w, w = [v EXCEPT ![r].mark = x]
    PROVE  /\ w = [q \in Request |-> [allowed |-> w[q].allowed, mark |-> w[q].mark]]
           /\ \A q \in Request \ {r} : w[q] = v[q]
           /\ w[r].allowed = v[r].allowed /\ w[r].mark = x
<1>1. v[r] = [allowed |-> v[r].allowed, mark |-> v[r].mark] /\ DOMAIN v = Request
    OBVIOUS
<1>2. w[r] = [allowed |-> v[r].allowed, mark |-> x]
    BY <1>1
<1>3. \A q \in Request \ {r} : w[q] = v[q]
    BY <1>1
<1>4. \A q \in Request : w[q] = [allowed |-> w[q].allowed, mark |-> w[q].mark]
    BY <1>2, <1>3
<1>5. w = [q \in Request |-> w[q]]
    BY <1>1
<1>6. [q \in Request |-> w[q]] = [q \in Request |-> [allowed |-> w[q].allowed, mark |-> w[q].mark]]
    BY <1>4
<1> QED
    BY <1>2, <1>3, <1>5, <1>6

LEMMA VaultNext == VaultInv /\ [V!Next]_(V!vars) => VaultInv'
<1> SUFFICES ASSUME VaultInv, [V!Next]_(V!vars) PROVE VaultInv'
    OBVIOUS
<1>1. ASSUME NEW r \in Request, NEW o \in V!Op, NEW p \in Dirs \cup {V!None}, V!Begin(r, o, p)
      PROVE  VaultInv'
    <2>1. allowed' = allowed /\ got' = got /\ view' = view /\ calm' = calm /\ pc[r] = "idle"
        BY <1>1 DEF V!Begin
    <2>2. VaultTypes'
        BY <1>1 DEF VaultInv, VaultTypes, V!TypeOK, V!Op, V!Begin, V!Goto
    <2>3. Asked \subseteq Asked'
        BY <1>1 DEF VaultInv, VaultTypes, V!TypeOK, VaultKept, V!Begin, Asked
    <2>4. ASSUME NEW q \in Request PROVE VaultKept(q)'
        BY <1>1, <2>1, <2>3 DEF VaultInv, VaultTypes, V!TypeOK, V!Op, VaultKept, V!Begin, V!Goto,
           V!Mutated, Mutating
    <2> QED
        BY <2>1, <2>2, <2>3, <2>4 DEF VaultInv
<1>2. ASSUME NEW r \in Request, V!Get(r) PROVE VaultInv'
    <2>1. UNCHANGED <<op, path>> /\ Asked' = Asked
        BY <1>2 DEF V!Get, Asked
    <2>2. VaultTypes'
        BY <1>2 DEF VaultInv, VaultTypes, V!TypeOK, V!Get, V!Goto, V!Mutated
    <2>3. allowed' \subseteq Asked
        BY <1>2 DEF VaultInv, VaultTypes, V!TypeOK, VaultKept, V!Get, V!Mutated, Mutating, Asked
    <2>4. ASSUME NEW q \in Request PROVE VaultKept(q)'
        BY <1>2, <2>1, <2>2 DEF VaultInv, VaultTypes, V!TypeOK, VaultKept, V!Get, V!Goto,
           V!Mutated, Mutating
    <2> QED
        BY <2>1, <2>2, <2>3, <2>4 DEF VaultInv
<1>3. ASSUME NEW r \in Request, V!Put(r) PROVE VaultInv'
    <2>1. UNCHANGED <<op, path>> /\ Asked' = Asked
        BY <1>3 DEF V!Put, Asked
    <2>2. VaultTypes'
        BY <1>3 DEF VaultInv, VaultTypes, V!TypeOK, V!Put, V!Goto, V!Mutated
    <2>3. allowed' \subseteq Asked
        BY <1>3 DEF VaultInv, VaultTypes, V!TypeOK, VaultKept, V!Put, V!Mutated, Mutating, Asked
    <2>4. ASSUME NEW q \in Request PROVE VaultKept(q)'
        BY <1>3, <2>1, <2>2 DEF VaultInv, VaultTypes, V!TypeOK, VaultKept, V!Put, V!Goto,
           V!Mutated, Mutating
    <2> QED
        BY <2>1, <2>2, <2>3, <2>4 DEF VaultInv
<1>4. ASSUME NEW r \in Request, V!List(r) PROVE VaultInv'
    <2>1. UNCHANGED <<op, path>> /\ Asked' = Asked
        BY <1>4 DEF V!List, Asked
    <2>2. /\ view' = [q \in Request |-> [allowed |-> view'[q].allowed, mark |-> view'[q].mark]]
          /\ \A q \in Request \ {r} : view'[q] = view[q]
          /\ pc'[r] = "tree" => view'[r].allowed = allowed
          /\ view'[r].allowed \subseteq Accepted
        <3>1. CASE view' = [view EXCEPT ![r].allowed = allowed]
            <4>1. view = [q \in Request |-> [allowed |-> view[q].allowed, mark |-> view[q].mark]]
                BY DEF VaultInv, VaultTypes
            <4>2. /\ view' = [q \in Request |-> [allowed |-> view'[q].allowed, mark |-> view'[q].mark]]
                  /\ \A q \in Request \ {r} : view'[q] = view[q]
                  /\ view'[r].allowed = allowed
                BY <3>1, <4>1, ViewList
            <4> QED
                BY <4>2 DEF VaultInv, VaultTypes, V!TypeOK
        <3>2. CASE view' = view /\ pc'[r] = "failed"
            BY <3>2 DEF VaultInv, VaultTypes, V!TypeOK
        <3>3. \/ view' = [view EXCEPT ![r].allowed = allowed]
              \/ view' = view /\ pc'[r] = "failed"
            BY <1>4 DEF VaultInv, VaultTypes, V!TypeOK, V!List, V!Goto
        <3> QED
            BY <3>1, <3>2, <3>3
    <2>3. /\ UNCHANGED <<allowed, got, calm>> /\ pc[r] = "list"
          /\ pc' \in [Request -> {"idle", "get", "put", "list", "tree", "done", "failed"}]
          /\ pc'[r] \in {"tree", "failed"} /\ \A q \in Request \ {r} : pc'[q] = pc[q]
        BY <1>4 DEF VaultInv, VaultTypes, V!TypeOK, V!List, V!Goto
    <2>4. VaultTypes'
        BY <2>1, <2>2, <2>3 DEF VaultInv, VaultTypes, V!TypeOK
    <2>5. ASSUME NEW q \in Request PROVE VaultKept(q)'
        BY <2>1, <2>2, <2>3 DEF VaultInv, VaultKept, V!Mutated, Mutating
    <2> QED
        BY <2>1, <2>3, <2>4, <2>5 DEF VaultInv
<1>5. ASSUME NEW r \in Request, V!Tree(r) PROVE VaultInv'
    <2>1. UNCHANGED <<op, path>> /\ Asked' = Asked
        BY <1>5 DEF V!Tree, Asked
    <2>2. /\ view' = [q \in Request |-> [allowed |-> view'[q].allowed, mark |-> view'[q].mark]]
          /\ \A q \in Request : view'[q].allowed = view[q].allowed
        <3>1. ASSUME NEW x, view' = [view EXCEPT ![r].mark = x]
              PROVE  /\ view' = [q \in Request |-> [allowed |-> view'[q].allowed, mark |-> view'[q].mark]]
                     /\ \A q \in Request : view'[q].allowed = view[q].allowed
            <4>1. view = [q \in Request |-> [allowed |-> view[q].allowed, mark |-> view[q].mark]]
                BY DEF VaultInv, VaultTypes
            <4>2. /\ view' = [q \in Request |-> [allowed |-> view'[q].allowed, mark |-> view'[q].mark]]
                  /\ \A q \in Request \ {r} : view'[q] = view[q]
                  /\ view'[r].allowed = view[r].allowed
                BY <3>1, <4>1, ViewTree
            <4>3. ASSUME NEW q \in Request PROVE view'[q].allowed = view[q].allowed
                <5>1. CASE q = r
                    BY <4>2, <5>1
                <5>2. CASE q # r
                    BY <4>2, <5>2
                <5> QED
                    BY <5>1, <5>2
            <4> QED
                BY <4>2, <4>3
        <3>2. CASE view' = view
            BY <3>2 DEF VaultInv, VaultTypes
        <3> QED
            BY <1>5, <3>1, <3>2 DEF V!Tree
    <2>3. /\ UNCHANGED <<allowed, got, calm>> /\ pc[r] = "tree"
          /\ pc' \in [Request -> {"idle", "get", "put", "list", "tree", "done", "failed"}]
          /\ pc'[r] \in {"done", "failed"} /\ \A q \in Request \ {r} : pc'[q] = pc[q]
        BY <1>5 DEF VaultInv, VaultTypes, V!TypeOK, V!Tree, V!Goto
    <2>4. VaultTypes'
        BY <2>1, <2>2, <2>3 DEF VaultInv, VaultTypes, V!TypeOK
    <2>5. ASSUME NEW q \in Request PROVE VaultKept(q)'
        BY <2>1, <2>2, <2>3 DEF VaultInv, VaultKept, V!Mutated, Mutating
    <2> QED
        BY <2>1, <2>3, <2>4, <2>5 DEF VaultInv
<1>6. CASE UNCHANGED V!vars
    BY <1>6 DEF VaultInv, VaultTypes, VaultKept, V!TypeOK, V!vars, V!reqVars, V!Mutated, Mutating,
       Asked
<1> QED
    BY <1>1, <1>2, <1>3, <1>4, <1>5, <1>6 DEF V!Next

(* What a panel answers to an allow or a disallow is its effect, and no    *)
(* interleaving makes the vault allow a path that nobody asked for.        *)
THEOREM VaultMutations == Spec => []MutationHolds
<1> DEFINE Inv == panel = "vault" => VaultInv
<1>1. Init => Inv
    BY VaultInit DEF Init
<1>2. Inv /\ [Next]_vars => Inv'
    <2>1. [Next]_vars => UNCHANGED panel /\ (panel = "vault" => [V!Next]_(V!vars))
        BY DEF Next, vars, V!vars, V!reqVars, vaultOwn
    <2> QED
        BY <2>1, VaultNext
<1>3. Inv => MutationHolds
    BY DEF MutationHolds, V!MutationHolds, VaultInv, VaultTypes, VaultKept, V!TypeOK, V!Mutated,
       Mutating, Asked
<1> QED
    BY <1>1, <1>2, <1>3, PTL DEF Spec

(* Vault: the ancestors of a directory, from itself up.                    *)
Above(p, n) == SubSeq(p, 1, n)

LEMMA AboveProperties ==
    ASSUME NEW p \in Seq(STRING), NEW n \in 0 .. Len(p)
    PROVE  Above(p, n) \in Seq(STRING) /\ Len(Above(p, n)) = n
BY SubSeqProperties, LenProperties DEF Above

(* A prefix is one of them. *)
LEMMA PrefixIsAbove ==
    ASSUME NEW p \in Seq(STRING), NEW a \in Seq(STRING)
    PROVE  V!IsPrefix(a, p) <=> Len(a) <= Len(p) /\ a = Above(p, Len(a))
BY SubSeqFull DEF V!IsPrefix, Above

(* What closestAllowedAncestor climbs to. *)
LEMMA Climbs ==
    ASSUME NEW p, p \in Seq(STRING) \ {<<>>}, NEW l
    PROVE  \/ /\ V!closestAllowedAncestor(p, l) = <<>>
              /\ \A k \in 1 .. Len(p) - 1 : Above(p, k) \notin l
           \/ \E n \in 1 .. Len(p) - 1 :
                /\ V!closestAllowedAncestor(p, l) = Above(p, n) /\ Above(p, n) \in l
                /\ \A k \in n + 1 .. Len(p) - 1 : Above(p, k) \notin l
<1> DEFINE Value == l \cup {<<>>}
           start == <<>>
           Step == [x \in Nat \X Value |-> IF Above(p, x[1] + 1) \in l THEN Above(p, x[1] + 1) ELSE x[2]]
           N == Len(p)
<1>0. start \in Value
    OBVIOUS
<1>1. Stepping(Step, Value)
    BY DEF Stepping
<1>2. \A n \in Nat, v \in Value : Step[<<n, v>>] = IF Above(p, n + 1) \in l THEN Above(p, n + 1) ELSE v
    OBVIOUS
<1>3. N \in Nat /\ N >= 1
    BY EmptySeq, LenProperties
<1> HIDE DEF Value, Step, start
<1>4. PICK g \in [Nat -> Value] : Iterates(g, start, Step)
    BY <1>0, <1>1, StepsExist
<1>5. /\ g[0] = <<>>
      /\ \A n \in Nat : g[n + 1] = IF Above(p, n + 1) \in l THEN Above(p, n + 1) ELSE g[n]
    <2>1. \A n \in Nat : g[n] \in Value
        BY <1>4
    <2> QED
        BY <1>2, <1>4, <2>1 DEF start, Iterates
<1> DEFINE Is(f) == f = [n \in 0 .. N |-> IF n = 0 THEN V!None ELSE IF SubSeq(p, 1, n) \in l THEN SubSeq(p, 1, n) ELSE f[n - 1]]
           h == [n \in 0 .. N |-> g[n]]
<1>6. Is(h)
    <2>1. ASSUME NEW n \in 0 .. N, n # 0
          PROVE  h[n] = IF SubSeq(p, 1, n) \in l THEN SubSeq(p, 1, n) ELSE h[n - 1]
        <3>1. n - 1 \in Nat /\ (n - 1) + 1 = n /\ n - 1 \in 0 .. N
            BY <1>3, <2>1
        <3> HIDE DEF N
        <3>2. g[n] = IF Above(p, n) \in l THEN Above(p, n) ELSE g[n - 1]
            BY <1>5, <3>1
        <3> QED
            BY <3>1, <3>2 DEF Above
    <2>2. h[0] = V!None
        BY <1>3, <1>5 DEF V!None
    <2> HIDE DEF h, N
    <2>3. h = [n \in 0 .. N |-> h[n]]
        BY DEF h
    <2> QED
        BY <2>1, <2>2, <2>3
<1> DEFINE up_[n \in 0 .. N] == IF n = 0 THEN V!None ELSE IF SubSeq(p, 1, n) \in l THEN SubSeq(p, 1, n) ELSE up_[n - 1]
<1>7. Is(up_)
    BY <1>6
<1>8. V!closestAllowedAncestor(p, l) = up_[N - 1]
    BY DEF V!closestAllowedAncestor
<1> HIDE DEF up_
<1>9. /\ up_[0] = <<>>
      /\ \A n \in 1 .. N : up_[n] = IF Above(p, n) \in l THEN Above(p, n) ELSE up_[n - 1]
    <2>1. ASSUME NEW n \in 0 .. N
          PROVE  up_[n] = IF n = 0 THEN V!None ELSE IF SubSeq(p, 1, n) \in l THEN SubSeq(p, 1, n) ELSE up_[n - 1]
        BY <1>7
    <2>2. \A n \in 1 .. N : n \in 0 .. N /\ n # 0
        OBVIOUS
    <2> HIDE DEF N
    <2> QED
        BY <1>3, <2>1, <2>2 DEF Above, V!None
<1> DEFINE Found(n) == \/ up_[n] = <<>> /\ \A k \in 1 .. n : Above(p, k) \notin l
                       \/ \E m \in 1 .. n : /\ up_[n] = Above(p, m) /\ Above(p, m) \in l
                                            /\ \A k \in m + 1 .. n : Above(p, k) \notin l
           Q == {n \in Nat : n <= N => Found(n)}
<1> HIDE DEF N
<1>10. 0 \in Q
    BY <1>3, <1>9
<1>11. ASSUME NEW n \in Nat, n \in Q PROVE n + 1 \in Q
    <2> SUFFICES ASSUME n + 1 <= N PROVE Found(n + 1)
        OBVIOUS
    <2>1. n + 1 \in 1 .. N /\ (n + 1) - 1 = n /\ n <= N
        BY <1>3
    <2>2. up_[n + 1] = IF Above(p, n + 1) \in l THEN Above(p, n + 1) ELSE up_[n]
        BY <1>9, <2>1
    <2>3. Found(n)
        BY <1>11, <2>1
    <2>4. \A k, m \in Nat : k \in m .. n + 1 => k \in m .. n \/ k = n + 1
        OBVIOUS
    <2>5. CASE Above(p, n + 1) \in l
        <3>1. \A k \in (n + 1) + 1 .. n + 1 : FALSE
            OBVIOUS
        <3> QED
            BY <2>1, <2>2, <2>5, <3>1
    <2>6. CASE Above(p, n + 1) \notin l
        <3>1. up_[n + 1] = up_[n]
            BY <2>2, <2>6
        <3>2. CASE up_[n] = <<>> /\ \A k \in 1 .. n : Above(p, k) \notin l
            BY <2>4, <2>6, <3>1, <3>2
        <3>3. CASE \E m \in 1 .. n : /\ up_[n] = Above(p, m) /\ Above(p, m) \in l
                                     /\ \A k \in m + 1 .. n : Above(p, k) \notin l
            <4>1. PICK m \in 1 .. n : /\ up_[n] = Above(p, m) /\ Above(p, m) \in l
                                      /\ \A k \in m + 1 .. n : Above(p, k) \notin l
                BY <3>3
            <4>2. \A k \in m + 1 .. n + 1 : Above(p, k) \notin l
                BY <2>4, <2>6, <4>1
            <4>3. m \in 1 .. n + 1
                OBVIOUS
            <4> QED
                BY <3>1, <4>1, <4>2, <4>3
        <3> QED
            BY <2>3, <3>2, <3>3
    <2> QED
        BY <2>5, <2>6
<1> HIDE DEF Q, Found
<1>12. N - 1 \in Q
    BY <1>3, <1>10, <1>11, SetInduction
<1>13. Found(N - 1)
    BY <1>3, <1>12 DEF Q
<1> QED
    BY <1>8, <1>13 DEF Found, N

(* The marks of one level, over the list they are made from. *)
Mirrors(v) ==
    \A p \in DOMAIN v.mark :
        LET m == v.mark[p]
            over == {a \in v.allowed : V!IsPrefix(a, p)} IN
        /\ (m.explicit \/ m.coveredBy # V!None) <=> over # {}
        /\ m.coveredBy # V!None =>
            m.coveredBy \in over /\ \A a \in over : Len(a) <= Len(m.coveredBy)

(* The marks of the tree are those of the list it is made from. *)
LEMMA TreeMirrors ==
    ASSUME NEW at_, NEW l, l \subseteq Accepted, NEW v, v.allowed = l, v.mark = V!buildVaultTree(at_, l)
    PROVE  Mirrors(v)
<1> SUFFICES ASSUME NEW p \in DOMAIN v.mark
             PROVE  LET m == v.mark[p]
                        over == {a \in v.allowed : V!IsPrefix(a, p)} IN
                    /\ (m.explicit \/ m.coveredBy # V!None) <=> over # {}
                    /\ m.coveredBy # V!None =>
                        m.coveredBy \in over /\ \A a \in over : Len(a) <= Len(m.coveredBy)
    BY DEF Mirrors
<1> DEFINE m == v.mark[p]
           over == {a \in l : V!IsPrefix(a, p)}
           c == V!closestAllowedAncestor(p, l)
<1>1. p \in Dirs /\ m = [explicit |-> p \in l, coveredBy |-> IF p \in l THEN V!None ELSE c]
    BY DEF V!buildVaultTree, V!ChildrenOf
<1>2. /\ p \in Seq(STRING) /\ p # <<>> /\ Len(p) \in Nat
      /\ \A a \in l : a \in Seq(STRING) /\ a # <<>> /\ Len(a) \in Nat /\ Len(a) >= 1
    <2>1. \A a \in Dirs : a \in Seq(STRING) /\ a # <<>>
        BY Constants DEF V!Assumptions
    <2>2. \A a \in Seq(STRING) : a # <<>> => Len(a) \in Nat \ {0}
        BY EmptySeq
    <2>3. l \subseteq Dirs
        BY Constants DEF V!Assumptions
    <2> QED
        BY <1>1, <2>1, <2>2, <2>3
<1>3. /\ m.explicit <=> p \in l
      /\ p \in l => m.coveredBy = V!None
      /\ p \notin l => m.coveredBy = c
    <2> HIDE DEF m, c
    <2>1. \A x, y : [explicit |-> x, coveredBy |-> y].explicit = x /\ [explicit |-> x, coveredBy |-> y].coveredBy = y
        OBVIOUS
    <2>2. m.explicit = (p \in l) /\ m.coveredBy = IF p \in l THEN V!None ELSE c
        BY <1>1, <2>1, Zenon
    <2> QED
        BY <2>2
<1>4. \A a \in l : a \in over <=> Len(a) <= Len(p) /\ a = Above(p, Len(a))
    BY <1>2, PrefixIsAbove
<1>5. Above(p, Len(p)) = p
    BY <1>2, SubSeqFull DEF Above
<1> HIDE DEF m, c
<1>6. CASE p \in l
    <2>1. p \in over
        BY <1>2, <1>4, <1>5, <1>6
    <2> QED
        BY <1>3, <1>6, <2>1 DEF m, V!None
<1>7. CASE p \notin l
    <2>1. \A a \in over : a \in l /\ Len(a) \in 1 .. Len(p) - 1 /\ a = Above(p, Len(a))
        <3>1. ASSUME NEW a \in over PROVE Len(a) # Len(p)
            BY <1>4, <1>5, <1>7, <3>1
        <3> QED
            BY <1>2, <1>4, <3>1
    <2>2. ASSUME NEW k \in 1 .. Len(p) - 1, Above(p, k) \in l
          PROVE  Above(p, k) \in over /\ Len(Above(p, k)) = k
        <3>1. k \in 0 .. Len(p) /\ k <= Len(p)
            BY <1>2
        <3>2. Len(Above(p, k)) = k
            BY <1>2, <3>1, AboveProperties
        <3> QED
            BY <1>4, <2>2, <3>1, <3>2
    <2>3. ~m.explicit /\ m.coveredBy = c
        BY <1>3, <1>7
    <2> HIDE DEF over
    <2>4. CASE c = <<>> /\ \A k \in 1 .. Len(p) - 1 : Above(p, k) \notin l
        <3>1. over = {}
            BY <2>1, <2>4
        <3> QED
            BY <2>3, <2>4, <3>1 DEF m, over, V!None
    <2>5. CASE \E n \in 1 .. Len(p) - 1 :
                    /\ c = Above(p, n) /\ Above(p, n) \in l
                    /\ \A k \in n + 1 .. Len(p) - 1 : Above(p, k) \notin l
        <3>1. PICK n \in 1 .. Len(p) - 1 :
                    /\ c = Above(p, n) /\ Above(p, n) \in l
                    /\ \A k \in n + 1 .. Len(p) - 1 : Above(p, k) \notin l
            BY <2>5
        <3>2. c \in over /\ Len(c) = n
            BY <2>2, <3>1
        <3>3. ASSUME NEW a \in over PROVE Len(a) <= n
            <4>1. Len(a) \in 1 .. Len(p) - 1 /\ Above(p, Len(a)) \in l
                BY <2>1
            <4>2. Len(a) \notin n + 1 .. Len(p) - 1
                BY <3>1, <4>1
            <4> QED
                BY <1>2, <4>1, <4>2
        <3>4. c # V!None
            BY <1>2, <3>2, EmptySeq DEF V!None
        <3> QED
            BY <2>3, <3>2, <3>3, <3>4 DEF m, over
    <2> QED
        BY <1>2, <2>4, <2>5, Climbs DEF c
<1> QED
    BY <1>6, <1>7 DEF m

(* Only its last step marks the tree of a request. *)
MarksKept(r) ==
    /\ pc[r] \in {"idle", "get", "put", "list", "tree"} => view[r].mark = <<>>
    /\ Mirrors(view[r])

MarksInv == VaultInv /\ \A r \in Request : MarksKept(r)

LEMMA Unmarked == ASSUME NEW v, v.mark = <<>> PROVE Mirrors(v)
BY DEF Mirrors

LEMMA MarksInit == V!Init => MarksInv
<1> SUFFICES ASSUME V!Init PROVE MarksInv
    OBVIOUS
<1>1. \A r \in Request : view[r].mark = <<>>
    BY DEF V!Init, V!NoView
<1> QED
    BY <1>1, VaultInit, Unmarked DEF MarksInv, MarksKept

LEMMA MarksNext == MarksInv /\ [V!Next]_(V!vars) => MarksInv'
<1> SUFFICES ASSUME MarksInv, [V!Next]_(V!vars) PROVE MarksInv'
    OBVIOUS
<1>0. VaultInv /\ VaultInv'
    BY VaultNext DEF MarksInv
<1>1. /\ pc \in [Request -> {"idle", "get", "put", "list", "tree", "done", "failed"}]
      /\ view = [r \in Request |-> [allowed |-> view[r].allowed, mark |-> view[r].mark]]
      /\ \A r \in Request : view[r].allowed \subseteq Accepted
    BY <1>0 DEF VaultInv, VaultTypes, V!TypeOK
<1>2. ASSUME view' = view,
             \A r \in Request : pc'[r] \in {"idle", "get", "put", "list", "tree"} =>
                                    pc[r] \in {"idle", "get", "put", "list", "tree"}
      PROVE  \A r \in Request : MarksKept(r)'
    BY <1>2 DEF MarksInv, MarksKept, Mirrors
<1>3. ASSUME NEW r \in Request, NEW o \in V!Op, NEW p \in Dirs \cup {V!None}, V!Begin(r, o, p)
      PROVE  \A q \in Request : MarksKept(q)'
    BY <1>1, <1>2, <1>3 DEF V!Begin, V!Goto
<1>4. ASSUME NEW r \in Request, V!Get(r) \/ V!Put(r)
      PROVE  \A q \in Request : MarksKept(q)'
    <2>1. view' = view /\ pc[r] \in {"get", "put"} /\ \A q \in Request \ {r} : pc'[q] = pc[q]
        BY <1>1, <1>4 DEF V!Get, V!Put, V!Goto
    <2> QED
        BY <1>2, <2>1
<1>5. ASSUME NEW r \in Request, V!List(r) PROVE \A q \in Request : MarksKept(q)'
    <2>1. pc[r] = "list" /\ \A q \in Request \ {r} : pc'[q] = pc[q]
        BY <1>1, <1>5 DEF V!List, V!Goto
    <2>2. view[r].mark = <<>>
        BY <2>1 DEF MarksInv, MarksKept
    <2>3. CASE view' = view
        BY <1>2, <2>1, <2>3
    <2>4. CASE view' = [view EXCEPT ![r].allowed = allowed]
        <3>1. (\A q \in Request \ {r} : view'[q] = view[q]) /\ view'[r].mark = view[r].mark
            BY <1>1, <2>4, ViewList
        <3>2. MarksKept(r)'
            BY <2>2, <3>1, Unmarked DEF MarksKept
        <3>3. \A q \in Request \ {r} : MarksKept(q)'
            BY <2>1, <3>1 DEF MarksInv, MarksKept, Mirrors
        <3> QED
            BY <3>2, <3>3
    <2> QED
        BY <1>5, <2>3, <2>4 DEF V!List
<1>6. ASSUME NEW r \in Request, V!Tree(r) PROVE \A q \in Request : MarksKept(q)'
    <2>1. pc[r] = "tree" /\ pc'[r] \in {"done", "failed"} /\ \A q \in Request \ {r} : pc'[q] = pc[q]
        BY <1>1, <1>6 DEF V!Tree, V!Goto
    <2>2. CASE view' = view
        BY <1>2, <2>1, <2>2
    <2>3. ASSUME NEW at_, view' = [view EXCEPT ![r].mark = V!buildVaultTree(at_, view[r].allowed)]
          PROVE  \A q \in Request : MarksKept(q)'
        <3>1. /\ \A q \in Request \ {r} : view'[q] = view[q]
              /\ view'[r].allowed = view[r].allowed
              /\ view'[r].mark = V!buildVaultTree(at_, view[r].allowed)
            BY <1>1, <2>3, ViewTree
        <3>2. Mirrors(view'[r])
            BY <1>1, <3>1, TreeMirrors
        <3>3. MarksKept(r)'
            BY <2>1, <3>2 DEF MarksKept, Mirrors
        <3>4. \A q \in Request \ {r} : MarksKept(q)'
            BY <2>1, <3>1 DEF MarksInv, MarksKept, Mirrors
        <3> QED
            BY <3>3, <3>4
    <2> QED
        BY <1>6, <2>2, <2>3 DEF V!Tree
<1>7. CASE UNCHANGED V!vars
    <2>1. view' = view /\ pc' = pc
        BY <1>7 DEF V!vars, V!reqVars
    <2>2. \A r \in Request : MarksKept(r)'
        BY <2>1 DEF MarksInv, MarksKept, Mirrors
    <2> QED
        BY <1>0, <2>2 DEF MarksInv
<1> QED
    BY <1>0, <1>3, <1>4, <1>5, <1>6, <1>7 DEF V!Next, MarksInv

(* The marks of the tree are what the vault would answer: a directory is   *)
(* shown as reachable just when a path of the list shown leads to it, and  *)
(* as covered by the nearest one above it.                                 *)
THEOREM MarksAreTheVaults == Spec => []MarksMirror
<1> DEFINE Inv == panel = "vault" => MarksInv
<1>1. Init => Inv
    BY MarksInit DEF Init
<1>2. Inv /\ [Next]_vars => Inv'
    <2>1. [Next]_vars => UNCHANGED panel /\ (panel = "vault" => [V!Next]_(V!vars))
        BY DEF Next, vars, V!vars, V!reqVars, vaultOwn
    <2> QED
        BY <2>1, MarksNext
<1>3. Inv => MarksMirror
    BY DEF MarksMirror, V!MarksMirror, MarksInv, MarksKept, Mirrors
<1> QED
    BY <1>1, <1>2, <1>3, PTL DEF Spec

-----------------------------------------------------------------------------
(* llama: where a request can be for what it is asked, how many rounds a   *)
(* drain has begun by then, and why it is done.                            *)

Drains(r) == pc[r] \in {"identify", "poll", "erase", "pause"}

DrainTypes ==
    /\ pc \in [Request -> L!PC] /\ op \in [Request -> L!Op]
    /\ model \in [Request -> Model \cup {NoModel}]
    /\ iter \in [Request -> 0 .. MaxIterations]
    /\ cap \in [Request -> BOOLEAN] /\ quiet \in [Request -> BOOLEAN]
    /\ hit \in [Request -> SUBSET Model]

DrainKept(r) ==
    /\ Drains(r) => op[r] = "drain"
    /\ pc[r] = "act" => op[r] \in {"load", "unload"}
    /\ pc[r] = "read" => op[r] = "card"
    /\ pc[r] \in {"idle", "identify"} => iter[r] = 0 /\ hit[r] = {}
    /\ pc[r] = "poll" => iter[r] < MaxIterations
    /\ op[r] = "drain" =>
        /\ pc[r] = "done" /\ ~cap[r] => quiet[r]
        /\ model[r] # NoModel => hit[r] \subseteq {model[r]}

DrainInv == DrainTypes /\ \A r \in Request : DrainKept(r)

LEMMA DrainInit == L!Init => DrainInv
BY Constants DEF L!Init, L!Assumptions, DrainInv, DrainTypes, DrainKept, Drains, L!PC, L!Op

LEMMA DrainNext == DrainInv /\ [L!Next]_(L!vars) => DrainInv'
<1> SUFFICES ASSUME DrainInv, [L!Next]_(L!vars) PROVE DrainInv'
    OBVIOUS
<1>1. ASSUME NEW r \in Request, NEW o \in L!Op, NEW m \in Model, L!Begin(r, o, m)
      PROVE  DrainInv'
    BY <1>1, Constants DEF L!Assumptions, DrainInv, DrainTypes, DrainKept, Drains, L!PC, L!Op,
       L!Begin, L!Goto, L!drainVars
<1>2. ASSUME NEW r \in Request, L!Identify(r) PROVE DrainInv'
    BY <1>2, Constants DEF L!Assumptions, DrainInv, DrainTypes, DrainKept, Drains, L!PC, L!Op,
       L!Identify, L!Goto, L!drainVars
<1>3. ASSUME NEW r \in Request, L!Poll(r) PROVE DrainInv'
    <2>1. /\ pc[r] = "poll" /\ UNCHANGED <<op, model, hit>>
          /\ iter' = [iter EXCEPT ![r] = @ + 1] /\ iter'[r] \in 1 .. MaxIterations
          /\ iter' \in [Request -> 0 .. MaxIterations]
        BY <1>3, Constants DEF L!Assumptions, DrainInv, DrainTypes, DrainKept, L!Poll
    <2>2. /\ pc' \in [Request -> L!PC] /\ cap' \in [Request -> BOOLEAN] /\ quiet' \in [Request -> BOOLEAN]
          /\ pc'[r] \in {"done", "erase", "failed"}
          /\ pc'[r] = "done" => cap'[r] \/ quiet'[r]
          /\ \A q \in Request \ {r} : pc'[q] = pc[q] /\ cap'[q] = cap[q] /\ quiet'[q] = quiet[q]
        BY <1>3, Constants DEF L!Assumptions, DrainInv, DrainTypes, L!PC, L!Poll, L!Goto, L!Finish
    <2> QED
        BY <2>1, <2>2, Constants DEF L!Assumptions, DrainInv, DrainTypes, DrainKept, Drains
<1>4. ASSUME NEW r \in Request, L!Erase(r) PROVE DrainInv'
    BY <1>4, Constants DEF L!Assumptions, DrainInv, DrainTypes, DrainKept, Drains, L!PC, L!Op,
       L!Erase, L!Goto, L!drainVars, L!Erased, L!Answers
<1>5. ASSUME NEW r \in Request, L!Pause(r) PROVE DrainInv'
    <2>1. pc[r] = "pause" /\ UNCHANGED <<op, model, iter, hit, quiet>>
        BY <1>5 DEF L!Pause
    <2>2. /\ pc' \in [Request -> L!PC] /\ cap' \in [Request -> BOOLEAN]
          /\ pc'[r] \in {"poll", "done", "failed"}
          /\ pc'[r] = "done" => cap'[r]
          /\ pc'[r] = "poll" => iter[r] < MaxIterations
          /\ \A q \in Request \ {r} : pc'[q] = pc[q] /\ cap'[q] = cap[q]
        BY <1>5 DEF DrainInv, DrainTypes, L!PC, L!Pause, L!Goto, L!Finish
    <2> QED
        BY <2>1, <2>2 DEF DrainInv, DrainTypes, DrainKept, Drains
<1>6. ASSUME NEW r \in Request, L!Lifecycle(r) PROVE DrainInv'
    BY <1>6, Constants DEF L!Assumptions, DrainInv, DrainTypes, DrainKept, Drains, L!PC, L!Op,
       L!Lifecycle, L!Goto, L!drainVars
<1>7. ASSUME NEW r \in Request, L!ReadModels(r) PROVE DrainInv'
    BY <1>7, Constants, ZenonT(30) DEF L!Assumptions, DrainInv, DrainTypes, DrainKept, Drains, L!PC,
       L!Op, L!ReadModels, L!Goto, L!drainVars
<1>8. ASSUME NEW r \in Request, L!ReadSlots(r) PROVE DrainInv'
    BY <1>8, Constants DEF L!Assumptions, DrainInv, DrainTypes, DrainKept, Drains, L!PC, L!Op,
       L!ReadSlots, L!Goto, L!drainVars
<1>9. ASSUME NEW m \in Model, L!Serve(m) PROVE DrainInv'
    BY <1>9 DEF DrainInv, DrainTypes, DrainKept, Drains, L!Serve, L!drainVars
<1>10. CASE UNCHANGED L!vars
    BY <1>10 DEF DrainInv, DrainTypes, DrainKept, Drains, L!vars, L!drainVars
<1> QED
    BY <1>1, <1>2, <1>3, <1>4, <1>5, <1>6, <1>7, <1>8, <1>9, <1>10 DEF L!Next

(* A drain keeps to its rounds, says that it is done only after a poll     *)
(* that found nothing busy, and cancels tasks of no model but the one it   *)
(* set out to drain.                                                       *)
THEOREM DrainsAreHonest == Spec => []DrainHonest
<1> DEFINE Inv == panel = "llama" => DrainInv
<1>1. Init => Inv
    BY DrainInit DEF Init
<1>2. Inv /\ [Next]_vars => Inv'
    <2>1. [Next]_vars => UNCHANGED panel /\ (panel = "llama" => [L!Next]_(L!vars))
        BY DEF Next, vars, L!vars, L!serverVars, L!drainVars, llamaOwn
    <2> QED
        BY <2>1, DrainNext
<1>3. Inv => DrainHonest
    BY Constants DEF L!Assumptions, DrainHonest, L!DrainHonest, DrainInv, DrainTypes, DrainKept
<1> QED
    BY <1>1, <1>2, <1>3, PTL DEF Spec

(* llama: what a card says of a model that it has slots for was asked of   *)
(* that model.                                                             *)
CardTypes ==
    /\ status \in [Model -> L!Status] /\ busy \in [Model -> SUBSET Slot]
    /\ todo \in [Request -> SUBSET Slot]
    /\ card = [r \in Request |-> card[r]]
CardKept(r) ==
    \A m \in DOMAIN card[r] : card[r][m] \in L!Shown /\ (m \in Model \/ card[r][m].read)
LlamaInv == DrainInv /\ CardTypes /\ \A r \in Request : CardKept(r)

LEMMA LlamaInit == L!Init => LlamaInv
<1> SUFFICES ASSUME L!Init PROVE LlamaInv
    OBVIOUS
<1>1. DrainInv
    BY DrainInit
<1>2. CardTypes
    BY DEF L!Init, CardTypes, L!Status
<1>3. \A r \in Request : card[r] = <<>>
    BY DEF L!Init
<1> QED
    BY <1>1, <1>2, <1>3 DEF LlamaInv, CardKept

(* The slots a server reports as busy are slots. *)
LEMMA BusySlots ==
    ASSUME CardTypes, NEW m \in Model \cup {NoModel} PROVE L!BusyOf(m) \subseteq Slot
BY DEF CardTypes, L!BusyOf

LEMMA LlamaNext == LlamaInv /\ [L!Next]_(L!vars) => LlamaInv'
<1> SUFFICES ASSUME LlamaInv, [L!Next]_(L!vars) PROVE CardTypes' /\ \A r \in Request : CardKept(r)'
    BY DrainNext DEF LlamaInv
<1>0. DrainTypes /\ CardTypes /\ \A r \in Request : CardKept(r)
    BY DEF LlamaInv, DrainInv
<1>1. ASSUME NEW r \in Request, L!Poll(r) PROVE CardTypes' /\ \A q \in Request : CardKept(q)'
    <2>1. UNCHANGED <<status, busy, card>> /\ (UNCHANGED todo \/ todo' = [todo EXCEPT ![r] = L!BusyOf(model[r])])
        BY <1>1 DEF L!Poll, L!serverVars
    <2>2. L!BusyOf(model[r]) \subseteq Slot
        BY <1>0, BusySlots DEF DrainTypes
    <2> QED
        BY <1>0, <2>1, <2>2 DEF CardTypes, CardKept
<1>2. ASSUME NEW r \in Request, L!Erase(r) PROVE CardTypes' /\ \A q \in Request : CardKept(q)'
    <2>1. PICK s \in todo[r] :
            /\ todo' = [todo EXCEPT ![r] = @ \ {s}] /\ UNCHANGED <<status, card>>
            /\ (\E m \in Model : L!Erased(r, m, s)) \/ UNCHANGED busy
        BY <1>2 DEF L!Erase
    <2>2. busy' \in [Model -> SUBSET Slot]
        BY <1>0, <2>1 DEF CardTypes, L!Erased
    <2>3. todo' \in [Request -> SUBSET Slot]
        BY <1>0, <2>1 DEF CardTypes
    <2> QED
        BY <1>0, <2>1, <2>2, <2>3 DEF CardTypes, CardKept
<1>3. ASSUME NEW r \in Request, L!Lifecycle(r) PROVE CardTypes' /\ \A q \in Request : CardKept(q)'
    <2>1. UNCHANGED <<todo, card>>
        BY <1>3 DEF L!Lifecycle, L!drainVars
    <2>2. status' \in [Model -> L!Status] /\ busy' \in [Model -> SUBSET Slot]
        BY <1>0, <1>3 DEF CardTypes, L!Lifecycle, L!Status
    <2> QED
        BY <1>0, <2>1, <2>2 DEF CardTypes, CardKept
<1>4. ASSUME NEW r \in Request, L!ReadModels(r) PROVE CardTypes' /\ \A q \in Request : CardKept(q)'
    <2>1. UNCHANGED <<status, busy, todo>>
        BY <1>4 DEF L!ReadModels, L!serverVars, L!drainVars
    <2> DEFINE router_ == [m \in Model |-> [status |-> L!Listed[m], read |-> FALSE, busy |-> {}]]
               flat == [m \in {NoModel} |-> [status |-> "loaded", read |-> TRUE, busy |-> L!BusyOf(NoModel)]]
    <2>2. CASE L!IsRouterMode(L!Listed) /\ card' = [card EXCEPT ![r] = router_]
        <3>1. router
            BY <2>2 DEF L!IsRouterMode, L!Listed, L!Omitted
        <3>2. \A m \in Model : router_[m] \in L!Shown
            BY <1>0, <3>1 DEF CardTypes, L!Shown, L!Listed
        <3>3. DOMAIN router_ = Model
            OBVIOUS
        <3> HIDE DEF router_
        <3>4. card' = [q \in Request |-> card'[q]] /\ card'[r] = router_ /\ \A q \in Request \ {r} : card'[q] = card[q]
            BY <1>0, <2>2 DEF CardTypes
        <3> QED
            BY <1>0, <2>1, <3>2, <3>3, <3>4 DEF CardTypes, CardKept
    <2>3. CASE card' = [card EXCEPT ![r] = flat]
        <3>1. flat[NoModel] \in L!Shown /\ flat[NoModel].read /\ DOMAIN flat = {NoModel}
            BY <1>0, BusySlots DEF L!Shown, L!Status
        <3> HIDE DEF flat
        <3>2. card' = [q \in Request |-> card'[q]] /\ card'[r] = flat /\ \A q \in Request \ {r} : card'[q] = card[q]
            BY <1>0, <2>3 DEF CardTypes
        <3> QED
            BY <1>0, <2>1, <3>1, <3>2 DEF CardTypes, CardKept
    <2>4. CASE UNCHANGED card
        BY <1>0, <2>1, <2>4 DEF CardTypes, CardKept
    <2> QED
        BY <1>4, <2>2, <2>3, <2>4 DEF L!ReadModels
<1>5. ASSUME NEW r \in Request, L!ReadSlots(r) PROVE CardTypes' /\ \A q \in Request : CardKept(q)'
    <2>1. UNCHANGED <<router, status, busy, todo>>
        BY <1>5 DEF L!ReadSlots, L!serverVars, L!drainVars
    <2>2. CASE UNCHANGED card
        BY <1>0, <2>1, <2>2 DEF CardTypes, CardKept
    <2>3. ASSUME NEW m \in L!Unread(r),
                 card' = [card EXCEPT ![r][m] =
                            [@ EXCEPT !.read = TRUE, !.busy = IF L!Answers(m) THEN busy[m] ELSE {}]]
          PROVE  CardTypes' /\ \A q \in Request : CardKept(q)'
        <3> DEFINE new == [card[r][m] EXCEPT !.read = TRUE, !.busy = IF L!Answers(m) THEN busy[m] ELSE {}]
        <3>1. m \in DOMAIN card[r] /\ card[r][m] \in L!Shown /\ m \in Model
            BY <1>0 DEF L!Unread, CardKept
        <3>2. new \in L!Shown
            BY <1>0, <3>1 DEF L!Shown, CardTypes
        <3>3. card' = [card EXCEPT ![r] = [card[r] EXCEPT ![m] = new]]
            BY <1>0, <2>3, <3>1 DEF CardTypes
        <3> HIDE DEF new
        <3>4. /\ card' = [q \in Request |-> card'[q]] /\ card'[r] = [card[r] EXCEPT ![m] = new]
              /\ \A q \in Request \ {r} : card'[q] = card[q]
            BY <1>0, <3>3 DEF CardTypes
        <3>5. \A n \in DOMAIN card'[r] : n \in DOMAIN card[r] /\ card'[r][n] = IF n = m THEN new ELSE card[r][n]
            BY <3>4
        <3>6. CardKept(r)'
            BY <1>0, <3>1, <3>2, <3>5 DEF CardKept
        <3> QED
            BY <1>0, <2>1, <3>4, <3>6 DEF CardTypes, CardKept
    <2> QED
        BY <1>5, <2>2, <2>3 DEF L!ReadSlots
<1>6. ASSUME NEW m \in Model, L!Serve(m) PROVE CardTypes' /\ \A q \in Request : CardKept(q)'
    <2>1. UNCHANGED <<todo, card>>
        BY <1>6 DEF L!Serve, L!drainVars
    <2>2. status' \in [Model -> L!Status]
        BY <1>0, <1>6 DEF CardTypes, L!Serve, L!Status
    <2>3. busy' \in [Model -> SUBSET Slot]
        BY <1>0, <1>6 DEF CardTypes, L!Serve
    <2> QED
        BY <1>0, <2>1, <2>2, <2>3 DEF CardTypes, CardKept
<1>7. CASE \/ UNCHANGED L!vars
           \/ \E r \in Request : \/ \E o \in L!Op, m \in Model : L!Begin(r, o, m)
                                 \/ L!Identify(r) \/ L!Pause(r)
    <2>1. UNCHANGED <<status, busy, todo, card>>
        BY <1>7 DEF L!vars, L!serverVars, L!drainVars, L!Begin, L!Identify, L!Pause
    <2> QED
        BY <1>0, <2>1 DEF CardTypes, CardKept
<1> QED
    BY <1>1, <1>2, <1>3, <1>4, <1>5, <1>6, <1>7 DEF L!Next

-----------------------------------------------------------------------------
(* Index: scans that overlap make up for each other's lost assignments, as *)
(* each comes to every file after its own reset.                           *)

IndexTypes ==
    /\ volume \in BOOLEAN /\ settled \in BOOLEAN
    /\ disk \subseteq File /\ listing \subseteq File
    /\ pc \in [Request -> I!PC] /\ todo \in [Request -> SUBSET File]
    /\ at \in [Request -> File \cup {I!NoFile}]
    /\ key = [r \in Request |-> key[r]]
    /\ fresh \in [Request -> BOOLEAN] /\ clean \in [Request -> BOOLEAN]
    /\ behind \subseteq {r \in Request : pc[r] = "assign"}

(* A file of the listing that some scan has still to enter in the index.   *)
Pending(f) ==
    \E r \in I!Scanning : f \in todo[r] \/ (pc[r] = "assign" /\ at[r] = f /\ r \notin behind)

(* The index holds files of the listing under their own keys, and when no  *)
(* file came or went since they were listed, all of them or nearly so.     *)
Entries ==
    /\ \A k \in DOMAIN index : index[k] \in listing /\ KeyOf[index[k]] = k
    /\ \A r \in Request : pc[r] = "assign" => at[r] \in listing
Complete ==
    /\ \A r \in Request : pc[r] = "reset" /\ fresh[r] => todo[r] = IF volume THEN disk ELSE File
    /\ settled =>
        /\ listing \subseteq disk
        /\ volume => \A r \in I!Scanning : todo[r] \subseteq disk
        /\ \A f \in listing : I!Indexed(f) => KeyOf[f] \in DOMAIN index \/ Pending(f)

(* What a read that no scan and no change meets has found so far.          *)
Matches(f, k) == f \in listing /\ KeyOf[f] = k
ReadKept(r) ==
    clean[r] =>
        /\ pc[r] \in {"lookup", "open", "found", "missing"} => settled /\ I!Scanning = {}
        /\ (pc[r] \in {"open", "found"} /\ \E f \in listing : Matches(f, key[r])) => Matches(at[r], key[r])
        /\ pc[r] = "missing" => \A f \in listing : ~Matches(f, key[r])

IndexInv == IndexTypes /\ Entries /\ Complete /\ \A r \in Request : ReadKept(r)

LEMMA IndexInit == I!Init => IndexInv
<1> SUFFICES ASSUME I!Init PROVE IndexInv
    OBVIOUS
<1>1. IndexTypes
    <2>1. key = [r \in Request |-> key[r]]
        BY DEF I!Init
    <2>2. /\ todo \in [Request -> SUBSET File] /\ at \in [Request -> File \cup {I!NoFile}]
          /\ pc \in [Request -> I!PC]
        BY DEF I!Init, I!PC
    <2>3. fresh \in [Request -> BOOLEAN] /\ clean \in [Request -> BOOLEAN]
        BY DEF I!Init
    <2> QED
        BY <2>1, <2>2, <2>3 DEF I!Init, IndexTypes
<1>2. DOMAIN index = {} /\ listing = {} /\ I!Scanning = {} /\ \A r \in Request : pc[r] = "idle"
    BY DEF I!Init, I!Scanning
<1>3. settled = FALSE /\ \A r \in Request : clean[r] = FALSE
    BY DEF I!Init
<1> QED
    BY <1>1, <1>2, <1>3 DEF IndexInv, Entries, Complete, ReadKept

LEMMA IndexNext == IndexInv /\ [I!Next]_(I!vars) => IndexInv'
<1> SUFFICES ASSUME IndexInv, [I!Next]_(I!vars) PROVE IndexInv'
    OBVIOUS
<1>1. ASSUME NEW r \in Request, I!Entities(r) PROVE IndexInv'
    <2>1. IndexTypes'
        <3>1. todo' \in [Request -> SUBSET File] /\ fresh' \in [Request -> BOOLEAN]
            BY <1>1 DEF IndexInv, IndexTypes, I!Entities
        <3>2. at' \in [Request -> File \cup {I!NoFile}] /\ pc' \in [Request -> I!PC]
            BY <1>1 DEF IndexInv, IndexTypes, I!PC, I!Entities, I!Goto
        <3>3. \A q \in behind : pc'[q] = "assign"
            BY <1>1 DEF IndexInv, IndexTypes, I!Entities, I!Goto, I!Resting
        <3> QED
            BY <1>1, <3>1, <3>2, <3>3 DEF IndexInv, IndexTypes, I!Entities
    <2>2. Entries'
        BY <1>1, Constants DEF I!Assumptions, IndexInv, IndexTypes, I!PC, I!Scanning, Entries,
           I!Resting, I!Entities, I!Goto, I!scanVars
    <2>3. Complete'
        BY <1>1, <2>1 DEF IndexInv, IndexTypes, I!PC, I!Scanning, Entries, Complete, Pending,
           I!Indexed, I!Resting, I!Entities, I!Goto, I!scanVars
    <2>4. ASSUME NEW q \in Request PROVE ReadKept(q)'
        BY <1>1, <2>1 DEF IndexInv, IndexTypes, I!PC, I!Scanning, Complete, ReadKept, Matches,
           I!Resting, I!Entities, I!Goto, I!scanVars
    <2> QED
        BY <2>1, <2>2, <2>3, <2>4 DEF IndexInv
<1>2. ASSUME NEW r \in Request, I!Reset(r) PROVE IndexInv'
    <2>1. IndexTypes'
        BY <1>2 DEF IndexInv, IndexTypes, I!PC, I!Scanning, I!Reset, I!Goto, I!scanVars
    <2>2. Entries'
        BY <1>2, Constants DEF I!Assumptions, IndexInv, IndexTypes, I!PC, I!Scanning, Entries,
           I!Reset, I!Goto, I!scanVars
    <2>3. Complete'
        BY <1>2, <2>1 DEF IndexInv, IndexTypes, I!PC, I!Scanning, Entries, Complete, Pending,
           I!Indexed, I!Reset, I!Goto, I!scanVars
    <2>4. ASSUME NEW q \in Request PROVE ReadKept(q)'
        BY <1>2, <2>1 DEF IndexInv, IndexTypes, I!PC, I!Scanning, Complete, ReadKept, Matches,
           I!Reset, I!Goto, I!scanVars
    <2> QED
        BY <2>1, <2>2, <2>3, <2>4 DEF IndexInv
<1>3. ASSUME NEW r \in Request, I!Visit(r) PROVE IndexInv'
    <2>1. IndexTypes'
        BY <1>3 DEF IndexInv, IndexTypes, I!PC, I!Scanning, I!Visit, I!Goto, I!scanVars
    <2>2. Entries'
        BY <1>3, Constants DEF I!Assumptions, IndexInv, IndexTypes, I!PC, I!Scanning, Entries,
           I!Visit, I!Goto, I!scanVars
    <2>3. Complete'
        BY <1>3, <2>1 DEF IndexInv, IndexTypes, I!PC, I!Scanning, Entries, Complete, Pending,
           I!Indexed, I!Visit, I!Goto, I!scanVars
    <2>4. ASSUME NEW q \in Request PROVE ReadKept(q)'
        BY <1>3, <2>1 DEF IndexInv, IndexTypes, I!PC, I!Scanning, Complete, ReadKept, Matches,
           I!Visit, I!Goto, I!scanVars
    <2> QED
        BY <2>1, <2>2, <2>3, <2>4 DEF IndexInv
<1>4. ASSUME NEW r \in Request, I!Assign(r) PROVE IndexInv'
    <2>1. IndexTypes'
        BY <1>4 DEF IndexInv, IndexTypes, I!PC, I!Scanning, I!Assign, I!Goto, I!scanVars
    <2>2. Entries'
        BY <1>4, Constants DEF I!Assumptions, IndexInv, IndexTypes, I!PC, I!Scanning, Entries,
           I!Assign, I!Goto, I!scanVars
    <2>3. Complete'
        BY <1>4, <2>1 DEF IndexInv, IndexTypes, I!PC, I!Scanning, Entries, Complete, Pending,
           I!Indexed, I!Assign, I!Goto, I!scanVars
    <2>4. ASSUME NEW q \in Request PROVE ReadKept(q)'
        BY <1>4, <2>1 DEF IndexInv, IndexTypes, I!PC, I!Scanning, Complete, ReadKept, Matches,
           I!Assign, I!Goto, I!scanVars
    <2> QED
        BY <2>1, <2>2, <2>3, <2>4 DEF IndexInv
<1>5. ASSUME NEW r \in Request, NEW k \in Key, I!Read(r, k) PROVE IndexInv'
    <2>1. IndexTypes'
        BY <1>5 DEF IndexInv, IndexTypes, I!PC, I!Scanning, I!Resting, I!Read, I!Goto, I!scanVars
    <2>2. Entries'
        BY <1>5, Constants DEF I!Assumptions, IndexInv, IndexTypes, I!PC, I!Scanning, Entries,
           I!Resting, I!Read, I!Goto, I!scanVars
    <2>3. Complete'
        BY <1>5, <2>1 DEF IndexInv, IndexTypes, I!PC, I!Scanning, Entries, Complete, Pending,
           I!Indexed, I!Resting, I!Read, I!Goto, I!scanVars
    <2>4. ASSUME NEW q \in Request PROVE ReadKept(q)'
        BY <1>5, <2>1 DEF IndexInv, IndexTypes, I!PC, I!Scanning, Complete, ReadKept, Matches,
           I!Resting, I!Read, I!Goto, I!scanVars
    <2> QED
        BY <2>1, <2>2, <2>3, <2>4 DEF IndexInv
<1>6. ASSUME NEW r \in Request, I!Lookup(r) PROVE IndexInv'
    <2>1. IndexTypes'
        <3>1. at' \in [Request -> File \cup {I!NoFile}]
            BY <1>6, Constants DEF I!Assumptions, IndexInv, IndexTypes, Entries, I!Lookup,
               I!Fallback
        <3> QED
            BY <1>6, <3>1 DEF IndexInv, IndexTypes, I!PC, I!Lookup, I!Goto, I!scanVars
    <2>2. Entries'
        BY <1>6, Constants DEF I!Assumptions, IndexInv, IndexTypes, I!PC, I!Scanning, Entries,
           I!Lookup, I!Goto, I!scanVars
    <2>3. Complete'
        BY <1>6, <2>1 DEF IndexInv, IndexTypes, I!PC, I!Scanning, Entries, Complete, Pending,
           I!Indexed, I!Lookup, I!Goto, I!scanVars
    <2>4. ASSUME NEW q \in Request PROVE ReadKept(q)'
        <3>1. /\ UNCHANGED <<listing, settled, clean, key, index, todo>> /\ I!Scanning' = I!Scanning
              /\ \A o \in Request \ {r} : pc'[o] = pc[o] /\ at'[o] = at[o]
              /\ pc[r] = "lookup" /\ pc'[r] \in {"open", "missing"}
            BY <1>6 DEF IndexInv, IndexTypes, I!Scanning, I!Lookup, I!Goto, I!scanVars
        <3>2. CASE q # r
            BY <3>1, <3>2 DEF IndexInv, ReadKept, Matches
        <3>3. CASE q = r /\ clean[r]
            <4>1. settled /\ I!Scanning = {}
                BY <3>1, <3>3 DEF IndexInv, ReadKept
            <4>2. ASSUME NEW f \in listing, KeyOf[f] = key[r], key[r] \notin DOMAIN index
                  PROVE  f \in Conventional /\ I!Fallback(key[r]) = {f}
                BY <4>1, <4>2, Constants
                   DEF I!Assumptions, I!Fallback, I!Indexed, IndexInv, IndexTypes, Complete, Pending
            <4>3. CASE key[r] \in DOMAIN index
                BY <1>6, <3>1, <3>3, <4>1, <4>3 DEF IndexInv, IndexTypes, Entries, ReadKept,
                   Matches, I!Lookup, I!Goto
            <4>4. CASE key[r] \notin DOMAIN index
                BY <1>6, <3>1, <3>3, <4>1, <4>2, <4>4 DEF IndexInv, IndexTypes, ReadKept, Matches,
                   I!Lookup, I!Goto
            <4> QED
                BY <4>3, <4>4
        <3>4. CASE q = r /\ ~clean[r]
            BY <3>1, <3>4 DEF ReadKept
        <3> QED
            BY <3>2, <3>3, <3>4
    <2> QED
        BY <2>1, <2>2, <2>3, <2>4 DEF IndexInv
<1>7. ASSUME NEW r \in Request, I!Open(r) PROVE IndexInv'
    <2>1. IndexTypes'
        BY <1>7 DEF IndexInv, IndexTypes, I!PC, I!Scanning, I!Open, I!Goto, I!scanVars
    <2>2. Entries'
        BY <1>7, Constants DEF I!Assumptions, IndexInv, IndexTypes, I!PC, I!Scanning, Entries,
           I!Open, I!Goto, I!scanVars
    <2>3. Complete'
        BY <1>7, <2>1 DEF IndexInv, IndexTypes, I!PC, I!Scanning, Entries, Complete, Pending,
           I!Indexed, I!Open, I!Goto, I!scanVars
    <2>4. ASSUME NEW q \in Request PROVE ReadKept(q)'
        BY <1>7, <2>1 DEF IndexInv, IndexTypes, I!PC, I!Scanning, Complete, ReadKept, Matches,
           I!Open, I!Goto, I!scanVars
    <2> QED
        BY <2>1, <2>2, <2>3, <2>4 DEF IndexInv
<1>8. ASSUME NEW r \in Request, I!Crash(r) PROVE IndexInv'
    <2>1. IndexTypes'
        BY <1>8 DEF IndexInv, IndexTypes, I!PC, I!Scanning, I!Crash, I!Goto, I!scanVars
    <2>2. Entries'
        BY <1>8, Constants DEF I!Assumptions, IndexInv, IndexTypes, I!PC, I!Scanning, Entries,
           I!Crash, I!Goto, I!scanVars
    <2>3. Complete'
        BY <1>8, <2>1 DEF IndexInv, IndexTypes, I!PC, I!Scanning, Entries, Complete, Pending,
           I!Indexed, I!Crash, I!Goto, I!scanVars
    <2>4. ASSUME NEW q \in Request PROVE ReadKept(q)'
        BY <1>8, <2>1 DEF IndexInv, IndexTypes, I!PC, I!Scanning, Complete, ReadKept, Matches,
           I!Crash, I!Goto, I!scanVars
    <2> QED
        BY <2>1, <2>2, <2>3, <2>4 DEF IndexInv
<1>9. ASSUME NEW f \in File, I!Change(f) PROVE IndexInv'
    <2>1. IndexTypes'
        BY <1>9 DEF IndexInv, IndexTypes, I!PC, I!Scanning, I!Change, I!Goto, I!scanVars
    <2>2. Entries'
        BY <1>9, Constants DEF I!Assumptions, IndexInv, IndexTypes, I!PC, I!Scanning, Entries,
           I!Change, I!Goto, I!scanVars
    <2>3. Complete'
        BY <1>9, <2>1 DEF IndexInv, IndexTypes, I!PC, I!Scanning, Entries, Complete, Pending,
           I!Indexed, I!Change, I!Goto, I!scanVars
    <2>4. ASSUME NEW q \in Request PROVE ReadKept(q)'
        BY <1>9, <2>1 DEF IndexInv, IndexTypes, I!PC, I!Scanning, Complete, ReadKept, Matches,
           I!Change, I!Goto, I!scanVars
    <2> QED
        BY <2>1, <2>2, <2>3, <2>4 DEF IndexInv
<1>10. CASE UNCHANGED I!vars
    BY <1>10 DEF IndexInv, IndexTypes, Entries, Complete, Pending, ReadKept, Matches, I!Scanning,
       I!Indexed, I!vars, I!scanVars
<1> QED
    BY <1>1, <1>2, <1>3, <1>4, <1>5, <1>6, <1>7, <1>8, <1>9, <1>10 DEF I!Next

(* Whatever scans overlap, the index holds the files of their listing      *)
(* under their own keys, and what was listed can be read when no file came *)
(* or went since.                                                          *)
THEOREM ListedIsReadable == Spec => []IndexSound
<1> DEFINE Inv == panel = "index" => IndexInv
<1>1. Init => Inv
    BY IndexInit DEF Init
<1>2. Inv /\ [Next]_vars => Inv'
    <2>1. [Next]_vars => UNCHANGED panel /\ (panel = "index" => [I!Next]_(I!vars))
        BY DEF Next, vars, I!vars, I!scanVars, indexOwn
    <2> QED
        BY <2>1, IndexNext
<1>3. Inv => IndexSound
    BY DEF IndexSound, I!IndexSound, IndexInv, IndexTypes, Entries, ReadKept, Matches
<1> QED
    BY <1>1, <1>2, <1>3, PTL DEF Spec

(* Index: whose keys are those of files.                                   *)
KeyInv == IndexInv /\ DOMAIN index \subseteq Key /\ key \in [Request -> Key]

LEMMA KeyInit == I!Init => KeyInv
<1> SUFFICES ASSUME I!Init PROVE DOMAIN index \subseteq Key /\ key \in [Request -> Key]
    BY IndexInit DEF KeyInv
<1>1. (CHOOSE k \in Key : TRUE) \in Key
    BY Constants DEF I!Assumptions
<1> QED
    BY <1>1 DEF I!Init

LEMMA KeyNext == KeyInv /\ [I!Next]_(I!vars) => KeyInv'
<1> SUFFICES ASSUME KeyInv, [I!Next]_(I!vars) PROVE (DOMAIN index \subseteq Key /\ key \in [Request -> Key])'
    BY IndexNext DEF KeyInv
<1>0. /\ DOMAIN index \subseteq Key /\ key \in [Request -> Key]
      /\ IndexTypes /\ Entries /\ KeyOf \in [File -> Key]
    BY Constants DEF KeyInv, IndexInv, I!Assumptions
<1>1. ASSUME NEW r \in Request, I!Assign(r) PROVE (DOMAIN index \subseteq Key /\ key \in [Request -> Key])'
    <2>1. KeyOf[at[r]] \in Key
        BY <1>0, <1>1 DEF I!Assign, Entries, IndexTypes
    <2>2. DOMAIN index' \subseteq DOMAIN index \cup {KeyOf[at[r]]} /\ UNCHANGED key
        BY <1>1 DEF I!Assign
    <2> QED
        BY <1>0, <2>1, <2>2
<1>2. ASSUME NEW r \in Request, I!Reset(r) PROVE (DOMAIN index \subseteq Key /\ key \in [Request -> Key])'
    BY <1>0, <1>2 DEF I!Reset
<1>3. ASSUME NEW r \in Request, NEW k \in Key, I!Read(r, k) PROVE (DOMAIN index \subseteq Key /\ key \in [Request -> Key])'
    BY <1>0, <1>3 DEF I!Read, I!scanVars
<1>4. CASE \/ UNCHANGED I!vars \/ \E f \in File : I!Change(f)
           \/ \E r \in Request : I!Entities(r) \/ I!Visit(r) \/ I!Lookup(r) \/ I!Open(r) \/ I!Crash(r)
    <2>1. UNCHANGED <<index, key>>
        BY <1>4 DEF I!vars, I!scanVars, I!Change, I!Entities, I!Visit, I!Lookup, I!Open, I!Crash
    <2> QED
        BY <1>0, <2>1
<1> QED
    BY <1>1, <1>2, <1>3, <1>4 DEF I!Next

-----------------------------------------------------------------------------
(* Supervisor: what an answer rests on is disturbed only by those who end  *)
(* the calm of the request.                                                *)

Up == {"Launching", "Running", "Restarting"}
UpTypes ==
    /\ pc \in [Request -> P!PC] /\ op \in [Request -> P!Op]
    /\ tok \in [Request -> Token \cup {NoToken}] /\ extras \in [Request -> BOOLEAN]
    /\ calm \in [Request -> BOOLEAN] /\ status \in [Proc -> P!Status]
    /\ spawned \subseteq Request
    /\ file \in Token \cup {NoToken} /\ exe \in BOOLEAN /\ fragment \in BOOLEAN

(* Every request is where its kind of action goes.                         *)
Routed(r) ==
    /\ pc[r] \in {"boot", "wait"} => op[r].act = "boot"
    /\ pc[r] = "act" => op[r].act \in {"start", "stop", "restart", "reload"}
    /\ pc[r] = "card" => op[r].act = "card"

(* The supervisor on the port, or about to ask for it, is a start's that   *)
(* went as far as to wait for it, and was given what that start passed on. *)
Launched(r) == op[r].act = "boot" /\ pc[r] \in {"wait", "done", "failed"}
Spawns ==
    /\ \A r \in spawned : Launched(r)
    /\ server # P!Nobody => \A r \in Request : server.from = r => Launched(r) /\ server.both = extras[r]

(* What a start read is still so; what a call found or did is, too.        *)
StartKept(r) ==
    (op[r].act = "boot" /\ pc[r] \in {"wait", "done"} /\ calm[r]) =>
        tok[r] = file /\ (~exe => (extras[r] <=> fragment))
CallKept(r) ==
    (pc[r] = "done" /\ calm[r]) =>
        /\ op[r].act = "boot" => P!Answers(tok[r])
        /\ op[r].act = "stop" => status[op[r].proc] \notin Up
        /\ op[r].act \in {"start", "restart"} => status[op[r].proc] \in Up
        /\ op[r].act \in {"card", "reload"} => P!Answers(clientTok)

UpKept(r) == Routed(r) /\ StartKept(r) /\ CallKept(r)
UpInv == UpTypes /\ Spawns /\ \A r \in Request : UpKept(r)

LEMMA UpInit == P!Init => UpInv
<1> SUFFICES ASSUME P!Init PROVE UpInv
    OBVIOUS
<1>1. pc \in [Request -> P!PC] /\ \A r \in Request : pc[r] = "idle"
    BY DEF P!Init, P!PC
<1>2. op \in [Request -> P!Op]
    BY DEF P!Init, P!Op
<1>3. /\ tok \in [Request -> Token \cup {NoToken}] /\ extras \in [Request -> BOOLEAN]
      /\ calm \in [Request -> BOOLEAN] /\ status \in [Proc -> P!Status] /\ spawned = {}
      /\ file \in Token \cup {NoToken} /\ exe \in BOOLEAN /\ fragment \in BOOLEAN
    BY DEF P!Init, P!Status
<1>4. server # P!Nobody => server.from = "shell"
    BY DEF P!Init
<1> QED
    BY <1>1, <1>2, <1>3, <1>4, Constants DEF P!Assumptions, UpInv, UpTypes, Spawns, UpKept,
       Routed, StartKept, CallKept

(* A step that leaves a request's own state alone, and the supervisor or   *)
(* the request's calm.                                                     *)
LEMMA UpFrame ==
    ASSUME NEW r \in Request, UpKept(r), calm[r] \in BOOLEAN, calm'[r] => calm[r],
           pc'[r] = pc[r], op'[r] = op[r], tok'[r] = tok[r], extras'[r] = extras[r],
           calm'[r] => UNCHANGED <<exe, file, fragment, clientTok, server, status>>
    PROVE  UpKept(r)'
BY DEF UpKept, Routed, StartKept, CallKept, P!Answers

(* A step of requests that no supervisor stems from changes nothing of it. *)
LEMMA SpawnsFrame ==
    ASSUME Spawns, spawned \subseteq Request, UNCHANGED <<spawned, server, op, extras>>,
           \A q \in Request : pc[q] \in {"wait", "done", "failed"} => pc'[q] \in {"wait", "done", "failed"}
    PROVE  Spawns'
BY DEF Spawns, Launched

LEMMA UpNext == UpInv /\ [P!Next]_(P!vars) => UpInv'
<1> SUFFICES ASSUME UpInv, [P!Next]_(P!vars) PROVE UpInv'
    OBVIOUS
<1>1. ASSUME NEW r \in Request, NEW o \in P!Op, P!Begin(r, o) PROVE UpInv'
    <2>1. UpTypes'
        BY <1>1 DEF UpInv, UpTypes, P!PC, P!Begin, P!Goto, P!envVars
    <2>2. /\ pc[r] = "idle" /\ pc'[r] \in {"boot", "card", "act"}
          /\ UNCHANGED <<exe, file, fragment, clientTok, server, status, spawned, tok, extras>>
          /\ \A q \in Request \ {r} : pc'[q] = pc[q] /\ op'[q] = op[q] /\ calm'[q] = calm[q]
        BY <1>1 DEF UpInv, UpTypes, P!Begin, P!Goto, P!envVars
    <2>3. Spawns'
        BY <2>2 DEF UpInv, UpTypes, Spawns, Launched
    <2>4. ASSUME NEW q \in Request PROVE UpKept(q)'
        <3>1. CASE q = r
            <4>1. Routed(r)'
                BY <1>1 DEF UpInv, UpTypes, Routed, P!Op, P!Begin, P!Goto
            <4> QED
                BY <2>2, <3>1, <4>1 DEF UpKept, StartKept, CallKept
        <3>2. CASE q # r
            BY <2>2, <3>2, UpFrame DEF UpInv, UpTypes
        <3> QED
            BY <3>1, <3>2
    <2> QED
        BY <2>1, <2>3, <2>4 DEF UpInv
<1>2. ASSUME NEW r \in Request, P!Spawn(r) PROVE UpInv'
    <2>1. UpTypes'
        <3>1. extras' \in [Request -> BOOLEAN]
            BY <1>2 DEF UpInv, UpTypes, P!Spawn, P!filterExisting
        <3>2. tok' \in [Request -> Token \cup {NoToken}] /\ spawned' \subseteq Request
            BY <1>2 DEF UpInv, UpTypes, P!Spawn
        <3>3. pc' \in [Request -> P!PC]
            BY <1>2 DEF UpInv, UpTypes, P!PC, P!Spawn, P!Goto
        <3> QED
            BY <1>2, <3>1, <3>2, <3>3 DEF UpInv, UpTypes, P!Spawn
    <2>2. /\ pc[r] = "boot" /\ pc'[r] \in {"wait", "failed"} /\ op[r].act = "boot"
          /\ UNCHANGED <<exe, file, fragment, clientTok, server, status, op, calm>>
          /\ \A q \in Request \ {r} : pc'[q] = pc[q] /\ tok'[q] = tok[q] /\ extras'[q] = extras[q]
        BY <1>2 DEF UpInv, UpTypes, UpKept, Routed, P!Spawn, P!Goto
    <2>3. /\ spawned' \subseteq spawned \cup {r}
          /\ pc'[r] = "wait" => tok'[r] = file /\ (~exe => (extras'[r] <=> fragment))
        <3>1. ASSUME NEW converted \in BOOLEAN, converted => exe,
                     extras' = [extras EXCEPT ![r] = P!filterExisting(converted)]
              PROVE  ~exe => (extras'[r] <=> fragment)
            BY <3>1 DEF UpInv, UpTypes, P!filterExisting
        <3>2. pc'[r] = "wait" => tok'[r] = file
            BY <1>2 DEF UpInv, UpTypes, P!Spawn, P!Goto
        <3>3. pc'[r] = "wait" => \E converted \in BOOLEAN :
                  (converted => exe) /\ extras' = [extras EXCEPT ![r] = P!filterExisting(converted)]
            BY <1>2 DEF UpInv, UpTypes, P!Spawn, P!Goto
        <3>4. spawned' \subseteq spawned \cup {r}
            BY <1>2 DEF P!Spawn
        <3> QED
            BY <3>1, <3>2, <3>3, <3>4
    <2>4. Spawns'
        BY <2>2, <2>3 DEF UpInv, UpTypes, Spawns, Launched
    <2>5. ASSUME NEW q \in Request PROVE UpKept(q)'
        <3>1. CASE q = r
            BY <2>2, <2>3, <3>1 DEF UpInv, UpKept, Routed, StartKept, CallKept
        <3>2. CASE q # r
            BY <2>2, <3>2, UpFrame DEF UpInv, UpTypes
        <3> QED
            BY <3>1, <3>2
    <2> QED
        BY <2>1, <2>4, <2>5 DEF UpInv
<1>3. ASSUME NEW r \in Request, P!Boot(r) PROVE UpInv'
    <2>1. UpTypes'
        BY <1>3 DEF UpInv, UpTypes, P!Boot, P!Disturb, P!Status
    <2>2. /\ r \in spawned /\ spawned' = spawned \ {r} /\ Launched(r)
          /\ UNCHANGED <<exe, file, fragment, clientTok, pc, op, tok, extras>>
          /\ \/ server = P!Nobody /\ server'.from = r /\ server'.both = extras[r]
                /\ \A q \in Request \ {r} : ~calm'[q]
             \/ UNCHANGED <<server, status, calm>>
          /\ calm'[r] = calm[r]
        <3>1. Launched(r)
            BY <1>3 DEF UpInv, Spawns, P!Boot
        <3>2. calm'[r] = calm[r] /\ (calm' = calm \/ \A q \in Request \ {r} : ~calm'[q])
            BY <1>3 DEF UpInv, UpTypes, P!Boot, P!Disturb
        <3>3. CASE server = P!Nobody /\ P!Disturb({r})
                   /\ server' = [token |-> file, both |-> extras[r], from |-> r]
            BY <1>3, <3>1, <3>2, <3>3 DEF P!Boot, P!Disturb
        <3>4. CASE UNCHANGED <<server, status, calm>>
            BY <1>3, <3>1, <3>4 DEF P!Boot
        <3> QED
            BY <1>3, <3>3, <3>4 DEF P!Boot
    <2>3. Spawns'
        BY <2>2 DEF UpInv, UpTypes, Spawns, Launched
    <2>4. ASSUME NEW q \in Request PROVE UpKept(q)'
        BY <2>2 DEF UpInv, UpTypes, UpKept, Launched, Routed, StartKept, CallKept, P!Answers
    <2> QED
        BY <2>1, <2>3, <2>4 DEF UpInv
<1>4. ASSUME NEW r \in Request, P!Wait(r) PROVE UpInv'
    <2>1. /\ pc[r] = "wait" /\ pc'[r] \in {"done", "failed"} /\ pc' \in [Request -> P!PC]
          /\ pc'[r] = "done" => P!Answers(tok[r])
          /\ UNCHANGED <<exe, file, fragment, clientTok, server, status, spawned, op, tok, extras, calm>>
          /\ \A q \in Request \ {r} : pc'[q] = pc[q]
        BY <1>4 DEF UpInv, UpTypes, P!PC, P!Wait, P!Goto, P!envVars
    <2>2. Spawns'
        BY <2>1, SpawnsFrame DEF UpInv, UpTypes
    <2>3. ASSUME NEW q \in Request PROVE UpKept(q)'
        BY <2>1 DEF UpInv, UpTypes, UpKept, Routed, StartKept, CallKept, P!Answers
    <2> QED
        BY <2>1, <2>2, <2>3 DEF UpInv, UpTypes
<1>5. ASSUME NEW r \in Request, P!Act(r) PROVE UpInv'
    <2>1. /\ pc[r] = "act" /\ pc'[r] \in {"done", "failed"} /\ pc' \in [Request -> P!PC]
          /\ UNCHANGED <<exe, file, fragment, clientTok, server, spawned, op, tok, extras>>
          /\ \A q \in Request \ {r} : pc'[q] = pc[q] /\ (calm'[q] => UNCHANGED status /\ calm[q])
        BY <1>5 DEF UpInv, UpTypes, P!PC, P!Act, P!Goto, P!Disturb
    <2>2. calm' \in [Request -> BOOLEAN] /\ status' \in [Proc -> P!Status]
        BY <1>5 DEF UpInv, UpTypes, P!Act, P!Disturb, P!Status
    <2>3. Spawns'
        BY <2>1, SpawnsFrame DEF UpInv, UpTypes
    <2>4. UpKept(r)'
        <3>1. op[r].act \in {"start", "stop", "restart", "reload"}
            BY <2>1 DEF UpInv, UpKept, Routed
        <3>2. op[r].act # "reload" => op[r].proc \in Proc
            BY <3>1 DEF UpInv, UpTypes, P!Op
        <3>3. CASE op[r].act = "reload"
            BY <1>5, <2>1, <3>3 DEF UpKept, Routed, StartKept, CallKept, UpInv, UpTypes, P!Act,
               P!Goto, P!Answers, P!swallowed
        <3>4. CASE op[r].act = "stop"
            BY <1>5, <2>1, <3>2, <3>4 DEF UpKept, Routed, StartKept, CallKept, UpInv, UpTypes, Up,
               P!Act, P!Goto, P!Moves, P!swallowed
        <3>5. CASE op[r].act \in {"start", "restart"}
            BY <1>5, <2>1, <3>2, <3>5 DEF UpKept, Routed, StartKept, CallKept, UpInv, UpTypes, Up,
               P!Act, P!Goto, P!Moves, P!swallowed
        <3> QED
            BY <3>1, <3>3, <3>4, <3>5
    <2>5. ASSUME NEW q \in Request PROVE UpKept(q)'
        <3>1. CASE q # r
            BY <2>1, <3>1, UpFrame DEF UpInv, UpTypes
        <3> QED
            BY <2>4, <3>1
    <2> QED
        BY <2>1, <2>2, <2>3, <2>5 DEF UpInv, UpTypes
<1>6. ASSUME NEW r \in Request, P!Card(r) PROVE UpInv'
    <2>1. /\ pc[r] = "card" /\ pc'[r] \in {"done", "offline"} /\ pc' \in [Request -> P!PC]
          /\ pc'[r] = "done" => P!Answers(clientTok)
          /\ UNCHANGED <<exe, file, fragment, clientTok, server, status, spawned, op, tok, extras, calm>>
          /\ \A q \in Request \ {r} : pc'[q] = pc[q]
        BY <1>6 DEF UpInv, UpTypes, P!PC, P!Card, P!Goto, P!envVars
    <2>2. Spawns'
        BY <2>1, SpawnsFrame DEF UpInv, UpTypes
    <2>3. ASSUME NEW q \in Request PROVE UpKept(q)'
        BY <2>1 DEF UpInv, UpTypes, UpKept, Routed, StartKept, CallKept, P!Answers
    <2> QED
        BY <2>1, <2>2, <2>3 DEF UpInv, UpTypes
<1>7. CASE P!Drift
    <2>1. UpTypes'
        BY <1>7 DEF UpInv, UpTypes, P!Drift, P!Disturb, P!Off, P!Status
    <2>2. /\ UNCHANGED <<exe, clientTok, spawned, pc, op, tok, extras>>
          /\ server' \in {server, P!Nobody} /\ \A q \in Request : ~calm'[q]
        BY <1>7 DEF P!Drift, P!Disturb
    <2> QED
        BY <2>1, <2>2 DEF UpInv, Spawns, Launched, UpKept, Routed, StartKept, CallKept
<1>8. CASE UNCHANGED P!vars
    BY <1>8 DEF UpInv, UpTypes, Spawns, Launched, UpKept, Routed, StartKept, CallKept, P!Answers,
       P!vars
<1> QED
    BY <1>1, <1>2, <1>3, <1>4, <1>5, <1>6, <1>7, <1>8 DEF P!Next

(* What an answer says of an instance is so, as long as nobody else        *)
(* changed it: a start has a supervisor that takes the file's token, and   *)
(* the fragment where it brought it up; a stopped process is down, a       *)
(* started one up.                                                         *)
THEOREM AnswersHold == Spec => []ActionsHold
<1> DEFINE Inv == panel = "supervisor" => UpInv
<1>1. Init => Inv
    BY UpInit DEF Init
<1>2. Inv /\ [Next]_vars => Inv'
    <2>1. [Next]_vars => UNCHANGED panel /\ (panel = "supervisor" => [P!Next]_(P!vars))
        BY DEF Next, vars, P!vars, supervisorOwn
    <2> QED
        BY <2>1, UpNext
<1>3. Inv => ActionsHold
    <2> SUFFICES ASSUME panel = "supervisor", UpInv, NEW r \in Request, pc[r] = "done", calm[r]
                 PROVE  CASE op[r].act = "boot" ->
                               /\ P!Answers(tok[r]) /\ P!Answers(file)
                               /\ clientTok = file => P!Answers(clientTok)
                               /\ (server.from = r /\ ~exe) => (server.both <=> fragment)
                          [] op[r].act = "stop" -> status[op[r].proc] \notin Up
                          [] op[r].act \in {"start", "restart"} -> status[op[r].proc] \in Up
                          [] OTHER -> P!Answers(clientTok)
        BY DEF ActionsHold, P!ActionsHold, Up
    <2>1. op[r].act \in {"boot", "card", "reload", "start", "stop", "restart"}
        BY DEF UpInv, UpTypes, P!Op
    <2>2. StartKept(r) /\ CallKept(r)
        BY DEF UpInv, UpKept
    <2>3. CASE op[r].act = "boot"
        <3>1. P!Answers(tok[r]) /\ tok[r] = file /\ server # P!Nobody
            BY <2>2, <2>3 DEF StartKept, CallKept, P!Answers
        <3>2. (server.from = r /\ ~exe) => (server.both <=> fragment)
            BY <2>2, <2>3, <3>1 DEF UpInv, Spawns, StartKept
        <3> QED
            BY <2>3, <3>1, <3>2
    <2> QED
        BY <2>1, <2>2, <2>3 DEF CallKept
<1> QED
    BY <1>1, <1>2, <1>3, PTL DEF Spec

(* Supervisor: who holds the port was started by a request, or the shell.  *)
SupervisorInv == UpInv /\ server \in P!Supervisors \cup {P!Nobody}

LEMMA SupervisorNext == SupervisorInv /\ [P!Next]_(P!vars) => SupervisorInv'
<1> SUFFICES ASSUME SupervisorInv, [P!Next]_(P!vars) PROVE (server \in P!Supervisors \cup {P!Nobody})'
    BY UpNext DEF SupervisorInv
<1>0. UpTypes /\ server \in P!Supervisors \cup {P!Nobody}
    BY DEF SupervisorInv, UpInv
<1>1. ASSUME NEW r \in Request, P!Boot(r) PROVE server' \in P!Supervisors \cup {P!Nobody}
    BY <1>0, <1>1 DEF P!Boot, UpTypes, P!Supervisors
<1>2. CASE P!Drift
    BY <1>0, <1>2 DEF P!Drift
<1>3. CASE \/ UNCHANGED P!vars
           \/ \E r \in Request : \/ \E o \in P!Op : P!Begin(r, o)
                                 \/ P!Spawn(r) \/ P!Wait(r) \/ P!Act(r) \/ P!Card(r)
    BY <1>0, <1>3 DEF P!vars, P!envVars, P!Begin, P!Spawn, P!Wait, P!Act, P!Card
<1> QED
    BY <1>0, <1>1, <1>2, <1>3 DEF P!Next, P!Nobody

LEMMA SupervisorInit == P!Init => SupervisorInv
<1> SUFFICES ASSUME P!Init PROVE server \in P!Supervisors \cup {P!Nobody}
    BY UpInit DEF SupervisorInv
<1>1. file \in Token \cup {NoToken} /\ server \in {P!Nobody, [token |-> file, both |-> FALSE, from |-> "shell"]}
    BY DEF P!Init
<1>2. [token |-> file, both |-> FALSE, from |-> "shell"] \in P!Supervisors
    BY <1>1 DEF P!Supervisors
<1> QED
    BY <1>1, <1>2, Zenon

-----------------------------------------------------------------------------
(* Containers: a request holds on to the entry it found, in whatever list, *)
(* and what it did to its containers stands while it is calm.              *)

ListTypes ==
    /\ arrays \in Seq(Files) /\ list \in 1 .. Len(arrays)
    /\ \A k \in 1 .. Len(arrays) : C!Valid(arrays[k])
    /\ state \in [Container -> C!State] /\ pc \in [Request -> C!PC]
    /\ want \in [Request -> [name : Container \cup {NoEntry}, act : C!Action]]
    /\ walk \in [Request -> [i : Nat \ {0}, len : Nat]]
    /\ found = [r \in Request |-> found[r]] /\ page = [r \in Request |-> page[r]]
    /\ done \in [Request -> [entry : C!Entry \cup {NoEntry}, soft : BOOLEAN, astray : BOOLEAN]]
    /\ calm \in [Request -> BOOLEAN]

(* What a request has found is an entry of its name, or it went astray.    *)
Listed(e) == \E f \in Files : \E i \in DOMAIN f : f[i] = e
Named(r, e) == e.name = want[r].name \/ done[r].astray
FoundNamed(r) ==
    \E k \in 1 .. Len(arrays) : \E i \in DOMAIN arrays[k] :
        found[r] = <<k, i>> /\ Named(r, arrays[k][i])
Chosen(r) ==
    LET e == done[r].entry IN
    /\ found[r] = NoEntry \/ FoundNamed(r)
    /\ pc[r] = "take" => FoundNamed(r)
    /\ pc[r] = "idle" => found[r] = NoEntry
    /\ pc[r] # "idle" => want[r].name \in Container
    /\ pc[r] \in {"idle", "find", "take", "branch"} => e = NoEntry
    /\ pc[r] \in {"compose", "verify", "direct", "render", "done"} => e # NoEntry
    /\ pc[r] \in {"idle", "find", "take", "branch", "compose"} => ~done[r].soft
    /\ pc[r] \in {"idle", "find", "take"} => ~done[r].astray
    /\ e # NoEntry =>
        /\ Named(r, e)
        /\ e.mode # "external" => Listed(e)
        /\ e.services # {} => e.mode = "compose"
    /\ pc[r] = "direct" => e.mode = "external"
    /\ pc[r] \in {"compose", "verify"} => e.mode = "compose"

(* The containers of a project after a compose pass that succeeded, and    *)
(* the one of an entry without services after the API had its turn.        *)
Composed(r) ==
    \A c \in C!Runs(done[r].entry) :
        state[c] \in IF want[r].act = "stop" THEN {"absent"}
                     ELSE {"running", "restarting", "paused", "removing"}
Settled(r) ==
    LET e == done[r].entry IN
    state[e.name] \in IF want[r].act = "stop"
                      THEN {"created", "exited"} \cup IF e.mode = "compose" THEN C!State \ {"running"} ELSE {}
                      ELSE {"running", "restarting"} \cup IF e.mode = "compose" THEN {"absent"} ELSE {}
Answered(r) ==
    LET e == done[r].entry
        left == {state[c] : c \in C!Runs(e)} IN
    ("Unknown" \notin page[r] /\ (e.services = {} \/ done[r].soft)) =>
        IF want[r].act = "stop"
        THEN "Running" \in page[r] => e.mode = "compose" /\ "restarting" \in left
        ELSE "Stopped" \in page[r] => e.mode = "compose" /\ "paused" \in left
ShownKept(r) ==
    calm[r] =>
        /\ pc[r] \in {"verify", "render"} /\ done[r].entry.services # {} /\ done[r].soft => Composed(r)
        /\ pc[r] = "render" /\ done[r].entry.services = {} => Settled(r)
        /\ pc[r] = "done" => Answered(r)

ListInv == ListTypes /\ \A r \in Request : Chosen(r) /\ ShownKept(r)

LEMMA ListInit == C!Init => ListInv
<1> SUFFICES ASSUME C!Init PROVE ListInv
    OBVIOUS
<1>1. PICK f \in Files : C!Valid(f) /\ arrays = <<f>>
    BY DEF C!Init
<1>2. arrays \in Seq(Files) /\ Len(arrays) = 1 /\ arrays[1] = f
    BY <1>1
<1>3. /\ state \in [Container -> C!State] /\ pc \in [Request -> C!PC] /\ list = 1
      /\ calm \in [Request -> BOOLEAN]
    BY DEF C!Init, C!State, C!PC
<1>4. /\ want \in [Request -> [name : Container \cup {NoEntry}, act : C!Action]]
      /\ walk \in [Request -> [i : Nat \ {0}, len : Nat]]
      /\ done \in [Request -> [entry : C!Entry \cup {NoEntry}, soft : BOOLEAN, astray : BOOLEAN]]
    BY DEF C!Init, C!Action
<1>5. found = [r \in Request |-> found[r]] /\ page = [r \in Request |-> page[r]]
    BY DEF C!Init
<1>6. ASSUME NEW r \in Request
      PROVE  /\ pc[r] = "idle" /\ found[r] = NoEntry
             /\ done[r] = [entry |-> NoEntry, soft |-> FALSE, astray |-> FALSE]
    BY DEF C!Init
<1> QED
    BY <1>1, <1>2, <1>3, <1>4, <1>5, <1>6 DEF ListInv, ListTypes, Chosen, ShownKept

(* A step that is none of a request's own leaves its choice as it is.      *)
LEMMA ChosenFrame ==
    ASSUME NEW r \in Request, Chosen(r), pc'[r] = pc[r], want'[r] = want[r],
           found'[r] = found[r], done'[r] = done[r], UNCHANGED arrays
    PROVE  Chosen(r)'
BY DEF Chosen, FoundNamed, Named

(* And if the request stays calm, its containers.                          *)
LEMMA Undisturbed ==
    ASSUME ListTypes, NEW q \in Request, NEW r, q # r, NEW cs, C!Changes(r, cs),
           \A c \in Container \ cs : state'[c] = state[c]
    PROVE  calm'[q] => calm[q] /\ (done[q].entry = NoEntry \/
                                   \A c \in C!Runs(done[q].entry) : state'[c] = state[c])
<1> SUFFICES ASSUME calm'[q], done[q].entry # NoEntry
             PROVE  calm[q] /\ \A c \in C!Runs(done[q].entry) : state'[c] = state[c]
    BY DEF C!Changes, ListTypes
<1>1. done[q].entry \in C!Entry
    BY DEF ListTypes
<1>2. C!Runs(done[q].entry) \subseteq Container
    BY <1>1 DEF C!Runs, C!Entry
<1>3. calm[q] /\ C!Runs(done[q].entry) \cap cs = {}
    BY DEF C!Changes, ListTypes
<1> QED
    BY <1>2, <1>3

LEMMA ShownFrame ==
    ASSUME NEW r \in Request, Chosen(r), ShownKept(r), ListTypes,
           pc'[r] = pc[r], want'[r] = want[r], done'[r] = done[r], page'[r] = page[r],
           calm'[r] => calm[r] /\ (done[r].entry = NoEntry \/
                                   \A c \in C!Runs(done[r].entry) : state'[c] = state[c])
    PROVE  ShownKept(r)'
<1> SUFFICES ASSUME calm'[r], pc[r] \in {"verify", "render", "done"} PROVE ShownKept(r)'
    BY DEF ShownKept
<1> DEFINE e == done[r].entry
<1>1. calm[r] /\ e # NoEntry /\ \A c \in C!Runs(e) : state'[c] = state[c]
    BY DEF Chosen
<1>2. e.services = {} => e.name \in C!Runs(e)
    BY DEF C!Runs
<1>3. Composed(r) => Composed(r)'
    BY <1>1 DEF Composed
<1>4. e.services = {} /\ Settled(r) => Settled(r)'
    BY <1>1, <1>2 DEF Settled
<1>5. {state[c] : c \in C!Runs(e)} = {state'[c] : c \in C!Runs(e)}
    BY <1>1
<1>6. Answered(r) => Answered(r)'
    BY <1>5 DEF Answered
<1> QED
    BY <1>1, <1>3, <1>4, <1>6 DEF ShownKept
(* What a request's own start or stop of a container leaves.               *)
LEMMA ActEffect ==
    ASSUME ListTypes, NEW r \in Request, NEW c \in Container, C!Act(r, c), want[r].act \in C!Action
    PROVE  /\ state' \in [Container -> C!State] /\ pc' = [pc EXCEPT ![r] = pc'[r]]
           /\ pc'[r] \in {"render", "failed"} /\ UNCHANGED <<ours, events>>
           /\ \A o \in Container \ {c} : state'[o] = state[o]
           /\ (calm' = calm /\ state' = state) \/ C!Changes(r, {c})
           /\ pc'[r] = "render" => state'[c] \in IF want[r].act = "stop" THEN {"created", "exited"}
                                                ELSE {"running", "restarting"}
           /\ want[r].act = "start" /\ state[c] \notin {"created", "exited"} => state' = state
<1>1. want[r].act \in {"start", "stop"} /\ pc \in [Request -> C!PC] /\ state \in [Container -> C!State]
    BY DEF C!Action, ListTypes
<1>2. CASE want[r].act = "start" /\ C!Start(r, c)
    <2>1. pc' = [pc EXCEPT ![r] = pc'[r]] /\ pc'[r] \in {"render", "failed"}
        BY <1>1, <1>2 DEF C!Start, C!Goto
    <2>2. CASE state' = [state EXCEPT ![c] = "running"] /\ state[c] \in {"created", "exited"} /\ C!Changes(r, {c})
        BY <1>1, <1>2, <2>1, <2>2 DEF C!Start, C!State
    <2>3. CASE UNCHANGED <<state, calm>> /\ (pc'[r] = "render" => state[c] \in {"running", "restarting"})
        BY <1>1, <1>2, <2>1, <2>3 DEF C!Start
    <2> QED
        BY <1>1, <1>2, <2>2, <2>3 DEF C!Start, C!Goto
<1>3. CASE want[r].act = "stop" /\ C!Stop(r, c)
    <2>1. pc' = [pc EXCEPT ![r] = pc'[r]] /\ pc'[r] \in {"render", "failed"}
        BY <1>1, <1>3 DEF C!Stop, C!Goto
    <2>2. CASE state' = [state EXCEPT ![c] = "exited"] /\ C!Changes(r, {c})
        BY <1>1, <1>3, <2>1, <2>2 DEF C!Stop, C!State
    <2>3. CASE UNCHANGED <<state, calm>> /\ (pc'[r] = "render" => state[c] \in {"created", "exited"})
        BY <1>1, <1>3, <2>1, <2>3 DEF C!Stop
    <2> QED
        BY <1>1, <1>3, <2>2, <2>3 DEF C!Stop, C!Goto
<1> QED
    BY <1>1, <1>2, <1>3 DEF C!Act

(* The second half of a request: it has its entry, and changes at most one *)
(* container.                                                              *)
LEMMA OwnStep ==
    ASSUME ListTypes, \A q \in Request : Chosen(q) /\ ShownKept(q), NEW r \in Request, NEW c \in Container,
           UNCHANGED <<arrays, list, want, walk, found, done>>,
           page' = [q \in Request |-> page'[q]], pc' = [pc EXCEPT ![r] = pc'[r]],
           pc[r] \in {"verify", "direct", "render"}, pc'[r] \in {"render", "failed", "done"},
           \A q \in Request \ {r} : page'[q] = page[q],
           state' \in [Container -> C!State], \A o \in Container \ {c} : state'[o] = state[o],
           (calm' = calm /\ state' = state) \/ C!Changes(r, {c}),
           ShownKept(r)'
    PROVE  ListInv'
<1>1. pc' \in [Request -> C!PC] /\ \A q \in Request \ {r} : pc'[q] = pc[q]
    BY DEF ListTypes, C!PC
<1>2. calm' \in [Request -> BOOLEAN]
    BY DEF ListTypes, C!Changes
<1>3. ListTypes'
    BY <1>1, <1>2 DEF ListTypes
<1>4. ASSUME NEW q \in Request PROVE Chosen(q)'
    <2>1. FoundNamed(q)' = FoundNamed(q) /\ \A e : Named(q, e)' = Named(q, e)
        BY DEF FoundNamed, Named
    <2> QED
        BY <1>1, <2>1 DEF Chosen, Listed
<1>5. ASSUME NEW q \in Request \ {r} PROVE ShownKept(q)'
    <2>1. calm'[q] => calm[q] /\ (done[q].entry = NoEntry \/
                                  \A o \in C!Runs(done[q].entry) : state'[o] = state[o])
        <3>1. CASE calm' = calm /\ state' = state
            BY <3>1
        <3>2. CASE C!Changes(r, {c})
            BY <3>2, Undisturbed
        <3> QED
            BY <3>1, <3>2
    <2> QED
        BY <1>1, <2>1, ShownFrame
<1> QED
    BY <1>3, <1>4, <1>5 DEF ListInv

LEMMA ListNext == ListInv /\ [C!Next]_(C!vars) => ListInv'
<1> SUFFICES ASSUME ListInv, [C!Next]_(C!vars) PROVE ListInv'
    OBVIOUS
<1>0. ListTypes /\ \A r \in Request : Chosen(r) /\ ShownKept(r)
    BY DEF ListInv
<1>1. ASSUME NEW r \in Request, NEW n \in Container, NEW a \in C!Action, C!Begin(r, n, a)
      PROVE  ListInv'
    <2>1. /\ UNCHANGED <<arrays, list, found, done, page, state, calm>> /\ pc[r] = "idle"
          /\ pc' \in [Request -> C!PC] /\ pc'[r] = "find"
          /\ want' \in [Request -> [name : Container \cup {NoEntry}, act : C!Action]]
          /\ want'[r].name \in Container
          /\ \A q \in Request \ {r} : pc'[q] = pc[q] /\ want'[q] = want[q]
        BY <1>0, <1>1 DEF ListTypes, C!PC, C!Begin, C!Goto, C!worldVars
    <2>2. walk' \in [Request -> [i : Nat \ {0}, len : Nat]]
        <3>1. Len(C!Now) \in Nat
            BY <1>0, Constants DEF C!Assumptions, ListTypes, C!Now
        <3> QED
            BY <1>0, <1>1, <3>1 DEF ListTypes, C!Begin
    <2>3. ListTypes'
        BY <1>0, <2>1, <2>2 DEF ListTypes
    <2>4. ASSUME NEW q \in Request PROVE Chosen(q)' /\ ShownKept(q)'
        <3>1. CASE q = r
            BY <1>0, <2>1, <2>2, <3>1 DEF Chosen, ShownKept
        <3>2. CASE q # r
            BY <1>0, <2>1, <2>2, <3>2, ChosenFrame, ShownFrame
        <3> QED
            BY <3>1, <3>2
    <2> QED
        BY <2>3, <2>4 DEF ListInv
<1>2. ASSUME NEW r \in Request, C!Find(r) PROVE ListInv'
    <2>1. /\ UNCHANGED <<arrays, list, want, done, page, state, calm>> /\ pc[r] = "find"
          /\ pc' \in [Request -> C!PC] /\ pc'[r] \in {"find", "take", "branch", "panicked"}
          /\ found' = [q \in Request |-> found'[q]]
          /\ \A q \in Request \ {r} : pc'[q] = pc[q] /\ found'[q] = found[q]
        BY <1>0, <1>2 DEF ListTypes, C!PC, C!Find, C!Goto, C!worldVars
    <2>2. walk' \in [Request -> [i : Nat \ {0}, len : Nat]]
        <3>1. walk[r].i + 1 \in Nat \ {0} /\ walk[r] \in [i : Nat \ {0}, len : Nat]
            BY <1>0 DEF ListTypes
        <3>2. walk' = walk \/ walk' = [walk EXCEPT ![r].i = walk[r].i + 1]
            BY <1>2 DEF C!Find
        <3>3. CASE walk' = [walk EXCEPT ![r].i = walk[r].i + 1]
            <4>1. [walk[r] EXCEPT !.i = walk[r].i + 1] \in [i : Nat \ {0}, len : Nat]
                BY <3>1
            <4> QED
                BY <1>0, <3>3, <4>1 DEF ListTypes
        <3> QED
            BY <1>0, <3>2, <3>3 DEF ListTypes
    <2>3. ListTypes'
        BY <1>0, <2>1, <2>2 DEF ListTypes
    <2>4. (found'[r] = found[r] /\ pc'[r] # "take") \/ FoundNamed(r)'
        <3>1. CASE pc'[r] = "take"
            <4>1. /\ found' = [found EXCEPT ![r] = <<list, walk[r].i>>] /\ walk[r].i <= Len(C!Now)
                  /\ C!Now[walk[r].i].name = want[r].name
                BY <1>0, <1>2, <3>1 DEF C!Find, C!Goto, ListTypes
            <4>2. arrays[list] \in Seq(C!Entry) /\ walk[r].i \in Nat \ {0} /\ list \in 1 .. Len(arrays)
                BY <1>0, Constants DEF C!Assumptions, ListTypes
            <4>3. walk[r].i \in DOMAIN arrays[list] /\ found'[r] = <<list, walk[r].i>>
                BY <1>0, <4>1, <4>2, LenProperties DEF C!Now, ListTypes
            <4> QED
                BY <2>1, <4>1, <4>2, <4>3 DEF FoundNamed, Named, C!Now
        <3>2. CASE pc'[r] # "take"
            BY <1>0, <1>2, <3>2 DEF C!Find, C!Goto, ListTypes
        <3> QED
            BY <3>1, <3>2
    <2>5. ASSUME NEW q \in Request PROVE Chosen(q)' /\ ShownKept(q)'
        <3>1. CASE q = r
            <4>1. FoundNamed(r) /\ found'[r] = found[r] => FoundNamed(r)'
                BY <2>1 DEF FoundNamed, Named
            <4> QED
                BY <1>0, <2>1, <2>4, <3>1, <4>1 DEF Chosen, ShownKept
        <3>2. CASE q # r
            BY <1>0, <2>1, <3>2, ChosenFrame, ShownFrame
        <3> QED
            BY <3>1, <3>2
    <2> QED
        BY <2>3, <2>5 DEF ListInv
<1>11. ASSUME NEW r \in Request, C!Take(r) PROVE ListInv'
    <2>1. /\ UNCHANGED <<arrays, list, want, walk, page, state, calm>> /\ pc[r] = "take"
          /\ pc' \in [Request -> C!PC] /\ pc'[r] \in {"branch", "panicked"}
          /\ found' = [q \in Request |-> found'[q]]
          /\ \A q \in Request \ {r} : pc'[q] = pc[q] /\ found'[q] = found[q]
        BY <1>0, <1>11 DEF ListTypes, C!PC, C!Take, C!Goto, C!worldVars
    <2>2. /\ done' \in [Request -> [entry : C!Entry \cup {NoEntry}, soft : BOOLEAN, astray : BOOLEAN]]
          /\ done'[r].entry = NoEntry /\ ~done'[r].soft /\ \A q \in Request \ {r} : done'[q] = done[q]
        <3>1. /\ done[r] \in [entry : C!Entry \cup {NoEntry}, soft : BOOLEAN, astray : BOOLEAN]
              /\ done[r].entry = NoEntry /\ ~done[r].soft
            BY <1>0, <2>1 DEF ListTypes, Chosen
        <3>2. CASE done' = done
            BY <1>0, <3>1, <3>2 DEF ListTypes
        <3>3. ASSUME NEW b \in BOOLEAN, done' = [done EXCEPT ![r].astray = b]
              PROVE  /\ done'[r] = [entry |-> NoEntry, soft |-> FALSE, astray |-> b]
                     /\ \A q \in Request \ {r} : done'[q] = done[q]
                     /\ done' = [q \in Request |-> done'[q]]
            BY <1>0, <3>1, <3>3 DEF ListTypes
        <3>4. done' = done \/ \E b \in BOOLEAN : done' = [done EXCEPT ![r].astray = b]
            BY <1>11 DEF C!Take
        <3>5. CASE \E b \in BOOLEAN : done' = [done EXCEPT ![r].astray = b]
            <4>1. PICK b \in BOOLEAN : done' = [done EXCEPT ![r].astray = b]
                BY <3>5
            <4>2. /\ done'[r] = [entry |-> NoEntry, soft |-> FALSE, astray |-> b]
                  /\ \A q \in Request \ {r} : done'[q] = done[q]
                  /\ done' = [q \in Request |-> done'[q]]
                BY <3>3, <4>1
            <4>3. done'[r] \in [entry : C!Entry \cup {NoEntry}, soft : BOOLEAN, astray : BOOLEAN]
                BY <4>2
            <4>4. \A q \in Request : done'[q] \in [entry : C!Entry \cup {NoEntry}, soft : BOOLEAN, astray : BOOLEAN]
                BY <1>0, <4>2, <4>3 DEF ListTypes
            <4>5. done'[r].entry = NoEntry /\ ~done'[r].soft
                BY <4>2
            <4> QED
                BY <4>2, <4>4, <4>5
        <3> QED
            BY <3>2, <3>4, <3>5
    <2>3. ListTypes'
        BY <1>0, <2>1, <2>2 DEF ListTypes
    <2>4. (found'[r] = found[r] /\ done' = done) \/ FoundNamed(r)'
        <3> SUFFICES ASSUME walk[r].i <= Len(C!Now), found' = [found EXCEPT ![r] = <<list, walk[r].i>>],
                            done' = [done EXCEPT ![r].astray = found[r] # <<list, walk[r].i>>]
                     PROVE  FoundNamed(r)'
            BY <1>11 DEF C!Take
        <3>1. arrays[list] \in Seq(C!Entry) /\ walk[r].i \in Nat \ {0} /\ list \in 1 .. Len(arrays)
            BY <1>0, Constants DEF C!Assumptions, ListTypes
        <3>2. walk[r].i \in DOMAIN arrays[list] /\ found'[r] = <<list, walk[r].i>>
            BY <1>0, <3>1, LenProperties DEF C!Now, ListTypes
        <3>3. done'[r].astray = (found[r] # <<list, walk[r].i>>) /\ ~done[r].astray
            BY <1>0, <2>1 DEF ListTypes, Chosen
        <3>4. CASE found[r] = <<list, walk[r].i>>
            <4>1. arrays[list][walk[r].i].name = want[r].name
                BY <1>0, <2>1, <3>3, <3>4 DEF Chosen, FoundNamed, Named
            <4> QED
                BY <2>1, <3>1, <3>2, <4>1 DEF FoundNamed, Named
        <3>5. CASE found[r] # <<list, walk[r].i>>
            BY <2>1, <3>1, <3>2, <3>3, <3>5 DEF FoundNamed, Named
        <3> QED
            BY <3>4, <3>5
    <2>5. ASSUME NEW q \in Request PROVE Chosen(q)' /\ ShownKept(q)'
        <3>1. CASE q = r
            <4>1. FoundNamed(r) /\ found'[r] = found[r] /\ done' = done => FoundNamed(r)'
                BY <2>1 DEF FoundNamed, Named
            <4> QED
                BY <1>0, <2>1, <2>2, <2>4, <3>1, <4>1 DEF Chosen, ShownKept
        <3>2. CASE q # r
            BY <1>0, <2>1, <2>2, <3>2, ChosenFrame, ShownFrame
        <3> QED
            BY <3>1, <3>2
    <2> QED
        BY <2>3, <2>5 DEF ListInv
<1>3. ASSUME NEW r \in Request, C!Branch(r) PROVE ListInv'
    <2> DEFINE entry == IF found[r] = NoEntry
                        THEN [name |-> want[r].name, mode |-> "external", services |-> {}]
                        ELSE C!At(found[r])
    <2>1. /\ UNCHANGED <<arrays, list, want, page, state, calm>> /\ pc[r] = "branch"
          /\ done' = [done EXCEPT ![r].entry = entry]
          /\ found' = [found EXCEPT ![r] = NoEntry]
          /\ walk' = [walk EXCEPT ![r] = [i |-> 1, len |-> 0]]
          /\ pc' = [pc EXCEPT ![r] = CASE entry.mode = "compose" -> "compose"
                                       [] entry.mode = "image" -> "failed"
                                       [] OTHER -> "direct"]
        BY <1>3 DEF C!Branch, C!Goto, C!worldVars
    <2>2. /\ entry \in C!Entry /\ Named(r, entry)
          /\ entry.mode # "external" => Listed(entry)
          /\ entry.services # {} => entry.mode = "compose"
        <3>1. CASE found[r] = NoEntry
            BY <1>0, <2>1, <3>1 DEF Chosen, Named, C!Entry, C!Mode
        <3>2. CASE found[r] # NoEntry
            <4>0. PICK k \in 1 .. Len(arrays) :
                      \E i \in DOMAIN arrays[k] : found[r] = <<k, i>> /\ Named(r, arrays[k][i])
                BY <1>0, <3>2 DEF Chosen, FoundNamed
            <4>1. PICK i \in DOMAIN arrays[k] : found[r] = <<k, i>> /\ Named(r, arrays[k][i])
                BY <4>0
            <4>2. entry = arrays[k][i] /\ arrays[k] \in Files /\ arrays[k] \in Seq(C!Entry)
                BY <1>0, <3>2, <4>1, Constants DEF ListTypes, C!At, C!Assumptions
            <4>3. C!Valid(arrays[k])
                BY <1>0 DEF ListTypes
            <4> QED
                BY <4>1, <4>2, <4>3 DEF Listed, C!Valid
        <3> QED
            BY <3>1, <3>2
    <2> HIDE DEF entry
    <2>3. /\ pc'[r] \in {"compose", "failed", "direct"} /\ pc' \in [Request -> C!PC]
          /\ pc'[r] = "direct" => entry.mode = "external"
          /\ pc'[r] = "compose" => entry.mode = "compose"
        BY <1>0, <2>1, <2>2 DEF ListTypes, C!PC, C!Entry, C!Mode
    <2>4. /\ done'[r] = [entry |-> entry, soft |-> done[r].soft, astray |-> done[r].astray]
          /\ found'[r] = NoEntry
          /\ \A q \in Request \ {r} : pc'[q] = pc[q] /\ done'[q] = done[q] /\ found'[q] = found[q]
          /\ done' \in [Request -> [entry : C!Entry \cup {NoEntry}, soft : BOOLEAN, astray : BOOLEAN]]
          /\ found' = [q \in Request |-> found'[q]]
        BY <1>0, <2>1, <2>2 DEF ListTypes
    <2>7. walk' \in [Request -> [i : Nat \ {0}, len : Nat]]
        BY <1>0, <2>1 DEF ListTypes
    <2>5. ListTypes'
        BY <1>0, <2>1, <2>3, <2>4, <2>7 DEF ListTypes
    <2>6. ASSUME NEW q \in Request PROVE Chosen(q)' /\ ShownKept(q)'
        <3>1. CASE q = r
            <4>1. entry # NoEntry /\ done'[r].entry = entry /\ want[r].name \in Container
                BY <1>0, <2>1, <2>2, <2>4, Constants DEF C!Assumptions, Chosen
            <4>2. ~done'[r].soft
                BY <1>0, <2>1, <2>4 DEF Chosen
            <4>3. \A x : Named(r, x)' = Named(r, x)
                BY <2>1, <2>4 DEF Named
            <4>4. Chosen(r)'
                BY <2>1, <2>2, <2>3, <2>4, <4>1, <4>2, <4>3 DEF Chosen, Listed
            <4> QED
                BY <2>3, <3>1, <4>4 DEF ShownKept
        <3>2. CASE q # r
            BY <1>0, <2>1, <2>4, <3>2, ChosenFrame, ShownFrame
        <3> QED
            BY <3>1, <3>2
    <2> QED
        BY <2>5, <2>6 DEF ListInv
<1>4. ASSUME NEW r \in Request, C!Compose(r) PROVE ListInv'
    <2> DEFINE e == done[r].entry
               cs == C!Runs(e)
               raises == want[r].act = "start"
               reach == {c \in cs : c \in ours \/ (raises /\ state[c] = "absent")}
    <2>1. /\ UNCHANGED <<arrays, list, want, walk, found, page>> /\ pc[r] = "compose"
          /\ pc' = [pc EXCEPT ![r] = "verify"]
        BY <1>4 DEF C!Compose, C!Goto
    <2>2. /\ e \in C!Entry /\ cs \subseteq Container /\ reach \subseteq cs
          /\ want[r].act \in {"start", "stop"} /\ done[r] \in [entry : C!Entry \cup {NoEntry}, soft : BOOLEAN, astray : BOOLEAN]
        BY <1>0, <2>1 DEF ListTypes, Chosen, C!Entry, C!Runs, C!Action
    <2>3. CASE UNCHANGED <<state, done, calm>>
        <3>1. ListTypes'
            BY <1>0, <2>1, <2>3 DEF ListTypes, C!PC
        <3>2. ASSUME NEW q \in Request PROVE Chosen(q)' /\ ShownKept(q)'
            <4>1. CASE q = r
                <5>1. FoundNamed(r)' = FoundNamed(r) /\ \A x : Named(r, x)' = Named(r, x)
                    BY <2>1, <2>3 DEF FoundNamed, Named
                <5> QED
                    BY <1>0, <2>1, <2>2, <2>3, <4>1, <5>1 DEF ListTypes, Chosen, Listed, ShownKept
            <4>2. CASE q # r
                BY <1>0, <2>1, <2>3, <4>2, ChosenFrame, ShownFrame DEF ListTypes
            <4> QED
                BY <4>1, <4>2
        <3> QED
            BY <3>1, <3>2 DEF ListInv
    <2>4. CASE /\ state' = [c \in Container |-> IF c \notin reach THEN state[c]
                                                ELSE IF raises THEN C!Up(state[c]) ELSE C!Down(state[c])]
               /\ done' = [done EXCEPT ![r].soft = (reach = cs)]
               /\ C!Changes(r, reach)
        <3> HIDE DEF reach, cs
        <3>1. ListTypes'
            BY <1>0, <2>1, <2>2, <2>4 DEF ListTypes, C!PC, C!State, C!Up, C!Down, C!Changes
        <3>2. /\ \A q \in Request \ {r} : pc'[q] = pc[q] /\ done'[q] = done[q]
              /\ done'[r] = [entry |-> e, soft |-> (reach = cs), astray |-> done[r].astray]
              /\ pc'[r] = "verify"
              /\ \A c \in Container \ reach : state'[c] = state[c]
              /\ \A c \in reach : state'[c] = IF raises THEN C!Up(state[c]) ELSE C!Down(state[c])
            BY <1>0, <2>1, <2>2, <2>4 DEF ListTypes
        <3>3. ASSUME NEW q \in Request PROVE Chosen(q)' /\ ShownKept(q)'
            <4>1. CASE q = r
                <5>1. Chosen(r)'
                    <6>1. FoundNamed(r)' = FoundNamed(r) /\ \A x : Named(r, x)' = Named(r, x)
                        BY <2>1, <3>2 DEF FoundNamed, Named
                    <6> QED
                        BY <1>0, <2>1, <3>2, <6>1 DEF Chosen, Listed
                <5>2. reach = cs => Composed(r)'
                    <6> SUFFICES ASSUME reach = cs, NEW c \in cs
                                 PROVE  state'[c] \in IF want[r].act = "stop" THEN {"absent"}
                                                      ELSE {"running", "restarting", "paused", "removing"}
                        BY <2>1, <3>2 DEF Composed, cs
                    <6>1. state[c] \in C!State
                        BY <1>0, <2>2 DEF ListTypes
                    <6> QED
                        BY <2>2, <3>2, <6>1 DEF C!State, C!Up, C!Down
                <5>3. CASE reach # cs
                    <6>1. done'[r] = [entry |-> e, soft |-> FALSE, astray |-> done[r].astray]
                        BY <3>2, <5>3
                    <6> QED
                        BY <3>2, <4>1, <5>1, <6>1 DEF ShownKept
                <5> QED
                    BY <3>2, <4>1, <5>1, <5>2, <5>3 DEF ShownKept
            <4>2. CASE q # r
                <5>1. calm'[q] => calm[q] /\ (done[q].entry = NoEntry \/
                                              \A c \in C!Runs(done[q].entry) : state'[c] = state[c])
                    BY <1>0, <2>4, <3>2, <4>2, Undisturbed
                <5> QED
                    BY <1>0, <2>1, <3>2, <4>2, <5>1, ChosenFrame, ShownFrame
            <4> QED
                BY <4>1, <4>2
        <3> QED
            BY <3>1, <3>3 DEF ListInv
    <2> QED
        BY <1>4, <2>3, <2>4 DEF C!Compose
<1>5. ASSUME NEW r \in Request, C!Verify(r) PROVE ListInv'
    <2> DEFINE e == done[r].entry
    <2>1. UNCHANGED <<arrays, list, want, walk, found, done, page>> /\ pc[r] = "verify"
        BY <1>5 DEF C!Verify
    <2>2. /\ e \in C!Entry /\ e.mode = "compose" /\ e.name \in Container
          /\ want[r].act \in C!Action
        BY <1>0, <2>1 DEF ListTypes, Chosen, C!Entry
    <2>3. CASE /\ UNCHANGED <<state, calm>> /\ C!Goto(r, "render")
               /\ state[e.name] = "absent" \/ (want[r].act = "stop" <=> state[e.name] # "running")
        <3>1. Settled(r)' /\ (Composed(r) => Composed(r)')
            BY <1>0, <2>1, <2>2, <2>3 DEF ListTypes, Settled, Composed, C!Action
        <3>2. pc'[r] = "render" /\ pc' = [pc EXCEPT ![r] = "render"] /\ page' = [q \in Request |-> page'[q]]
            BY <1>0, <2>1, <2>3 DEF ListTypes, C!Goto
        <3>3. ShownKept(r)'
            BY <1>0, <2>1, <2>3, <3>1, <3>2 DEF ShownKept
        <3>4. state' \in [Container -> C!State]
            BY <1>0, <2>3 DEF ListTypes
        <3> QED
            BY <1>0, <2>1, <2>2, <2>3, <3>2, <3>3, <3>4, OwnStep
    <2>4. CASE UNCHANGED <<state, calm>> /\ C!Goto(r, "failed")
        <3>1. pc'[r] = "failed" /\ pc' = [pc EXCEPT ![r] = "failed"] /\ page' = [q \in Request |-> page'[q]]
            BY <1>0, <2>1, <2>4 DEF ListTypes, C!Goto
        <3>2. state' \in [Container -> C!State] /\ ShownKept(r)'
            BY <1>0, <2>4, <3>1 DEF ListTypes, ShownKept
        <3> QED
            BY <1>0, <2>1, <2>2, <2>4, <3>1, <3>2, OwnStep
    <2>5. CASE C!Act(r, e.name) /\ ~(want[r].act = "stop" <=> state[e.name] # "running")
        <3>1. /\ state' \in [Container -> C!State] /\ pc' = [pc EXCEPT ![r] = pc'[r]]
              /\ pc'[r] \in {"render", "failed"}
              /\ \A o \in Container \ {e.name} : state'[o] = state[o]
              /\ (calm' = calm /\ state' = state) \/ C!Changes(r, {e.name})
              /\ pc'[r] = "render" => state'[e.name] \in IF want[r].act = "stop" THEN {"created", "exited"}
                                                        ELSE {"running", "restarting"}
              /\ want[r].act = "start" /\ state[e.name] \notin {"created", "exited"} => state' = state
            BY <1>0, <2>2, <2>5, ActEffect
        <3>2. pc'[r] = "render" => Settled(r)'
            BY <2>1, <2>2, <3>1 DEF Settled, C!Action
        <3>3. calm[r] /\ e.services # {} /\ done[r].soft => Composed(r)'
            <4> SUFFICES ASSUME Composed(r) PROVE Composed(r)'
                BY <1>0, <2>1 DEF ShownKept
            <4>1. CASE e.name \notin C!Runs(e)
                <5>1. C!Runs(e) \subseteq Container
                    BY <2>2 DEF C!Runs, C!Entry
                <5> QED
                    BY <2>1, <3>1, <4>1, <5>1 DEF Composed
            <4>2. CASE e.name \in C!Runs(e)
                <5>1. state' = state
                    BY <2>2, <2>5, <3>1, <4>2 DEF Composed, C!Action
                <5> QED
                    BY <2>1, <5>1 DEF Composed
            <4> QED
                BY <4>1, <4>2
        <3>4. calm'[r] => calm[r]
            BY <1>0, <3>1 DEF ListTypes, C!Changes
        <3>5. ShownKept(r)'
            BY <2>1, <3>1, <3>2, <3>3, <3>4 DEF ShownKept
        <3>6. page' = [q \in Request |-> page'[q]]
            BY <1>0, <2>1 DEF ListTypes
        <3> QED
            BY <1>0, <2>1, <2>2, <3>1, <3>5, <3>6, OwnStep
    <2> QED
        BY <1>5, <2>3, <2>4, <2>5 DEF C!Verify, C!worldVars
<1>6. ASSUME NEW r \in Request, C!Direct(r) PROVE ListInv'
    <2> DEFINE e == done[r].entry
    <2>1. UNCHANGED <<arrays, list, want, walk, found, done, page>> /\ pc[r] = "direct"
        BY <1>6 DEF C!Direct
    <2>2. /\ e \in C!Entry /\ e.mode = "external" /\ e.services = {} /\ e.name \in Container
          /\ want[r].act \in C!Action
        BY <1>0, <2>1 DEF ListTypes, Chosen, C!Entry
    <2>3. page' = [q \in Request |-> page'[q]]
        BY <1>0, <2>1 DEF ListTypes
    <2>4. CASE UNCHANGED <<state, calm>> /\ C!Goto(r, "failed")
        <3>1. pc'[r] = "failed" /\ pc' = [pc EXCEPT ![r] = "failed"]
            BY <1>0, <2>1, <2>4 DEF ListTypes, C!Goto
        <3>2. state' \in [Container -> C!State] /\ ShownKept(r)'
            BY <1>0, <2>4, <3>1 DEF ListTypes, ShownKept
        <3> QED
            BY <1>0, <2>1, <2>2, <2>3, <2>4, <3>1, <3>2, OwnStep
    <2>5. CASE C!Act(r, e.name)
        <3>1. /\ state' \in [Container -> C!State] /\ pc' = [pc EXCEPT ![r] = pc'[r]]
              /\ pc'[r] \in {"render", "failed"}
              /\ \A o \in Container \ {e.name} : state'[o] = state[o]
              /\ (calm' = calm /\ state' = state) \/ C!Changes(r, {e.name})
              /\ pc'[r] = "render" => state'[e.name] \in IF want[r].act = "stop" THEN {"created", "exited"}
                                                        ELSE {"running", "restarting"}
            BY <1>0, <2>2, <2>5, ActEffect
        <3>2. ShownKept(r)'
            BY <2>1, <2>2, <3>1 DEF ShownKept, Settled
        <3> QED
            BY <1>0, <2>1, <2>2, <2>3, <3>1, <3>2, OwnStep
    <2> QED
        BY <1>6, <2>4, <2>5 DEF C!Direct, C!worldVars
<1>7. ASSUME NEW r \in Request, C!Render(r) PROVE ListInv'
    <2>1. /\ UNCHANGED <<arrays, list, want, walk, found, done, state, calm>> /\ pc[r] = "render"
          /\ pc' = [pc EXCEPT ![r] = "done"]
        BY <1>7 DEF C!Render, C!Goto, C!worldVars
    <2>2. /\ page' = [q \in Request |-> page'[q]] /\ \A q \in Request \ {r} : page'[q] = page[q]
          /\ pc'[r] = "done" /\ state' \in [Container -> C!State]
        BY <1>0, <1>7, <2>1 DEF ListTypes, C!Render
    <2>3. ShownKept(r)'
        <3> DEFINE e == done[r].entry
                   cs == {c \in C!Runs(e) : \E i \in DOMAIN C!Now : C!Now[i] = e}
                   left == {state[c] : c \in C!Runs(e)}
        <3>1. SUFFICES ASSUME calm[r], "Unknown" \notin page'[r], e.services = {} \/ done[r].soft
                       PROVE  IF want[r].act = "stop"
                              THEN "Running" \in page'[r] => e.mode = "compose" /\ "restarting" \in left
                              ELSE "Stopped" \in page'[r] => e.mode = "compose" /\ "paused" \in left
            BY <2>1, <2>2 DEF ShownKept, Answered
        <3>2. /\ e.services # {} => Composed(r) /\ e.mode = "compose" /\ want[r].act \in {"start", "stop"}
              /\ e.services = {} => Settled(r) /\ C!Runs(e) = {e.name}
            BY <1>0, <2>1, <3>1 DEF ListTypes, Chosen, ShownKept, C!Runs, C!Action
        <3>3. PICK unknown \in SUBSET cs :
                  LET shown == [c \in cs |-> IF c \in unknown THEN "Unknown" ELSE C!Shown(state[c])] IN
                  page' = [page EXCEPT ![r] = {shown[c] : c \in cs} \cup
                              IF cs = {} \/ e.services = {} THEN {} ELSE {C!RollUp(shown, cs)}]
            BY <1>7 DEF C!Render
        <3> DEFINE shown == [c \in cs |-> IF c \in unknown THEN "Unknown" ELSE C!Shown(state[c])]
        <3>4. page'[r] = {shown[c] : c \in cs} \cup
                         IF cs = {} \/ e.services = {} THEN {} ELSE {C!RollUp(shown, cs)}
            BY <1>0, <3>3 DEF ListTypes
        <3>5. \A c \in cs : shown[c] = C!Shown(state[c]) /\ shown[c] # "Unknown"
            BY <3>1, <3>4
        <3>6. CASE e.services = {}
            <4>1. \A x \in page'[r] : x = C!Shown(state[e.name])
                BY <3>2, <3>4, <3>5, <3>6
            <4> QED
                BY <3>2, <3>6, <4>1 DEF Settled, C!Shown
        <3>7. CASE e.services # {} /\ want[r].act = "stop"
            <4>1. \A c \in cs : shown[c] = "Missing"
                BY <3>2, <3>5, <3>7 DEF Composed, C!Shown
            <4>2. C!RollUp(shown, cs) = "Stopped"
                BY <4>1 DEF C!RollUp
            <4> QED
                BY <3>4, <3>7, <4>1, <4>2
        <3>8. CASE e.services # {} /\ want[r].act = "start"
            <4> SUFFICES ASSUME "paused" \notin left PROVE "Stopped" \notin page'[r]
                BY <3>2, <3>8
            <4>1. \A c \in cs : shown[c] = "Running"
                BY <3>2, <3>5, <3>8 DEF Composed, C!Shown
            <4>2. cs # {} => C!RollUp(shown, cs) = "Running"
                BY <4>1 DEF C!RollUp
            <4> QED
                BY <3>4, <4>1, <4>2
        <3> QED
            BY <3>2, <3>6, <3>7, <3>8
    <2>4. done[r].entry.name \in Container
        BY <1>0, <2>1 DEF ListTypes, Chosen, C!Entry
    <2> QED
        BY <1>0, <2>1, <2>2, <2>3, <2>4, OwnStep
<1>8. ASSUME NEW f \in Files, C!Refresh(f) PROVE ListInv'
    <2>1. /\ UNCHANGED <<pc, want, walk, found, done, page, state, calm>> /\ C!Valid(f)
          /\ arrays' = Append(arrays, f) /\ list' = Len(arrays) + 1
        BY <1>8 DEF C!Refresh, C!worldVars
    <2>2. /\ arrays' \in Seq(Files) /\ Len(arrays') = Len(arrays) + 1 /\ Len(arrays) \in Nat
          /\ \A k \in 1 .. Len(arrays) : arrays'[k] = arrays[k]
          /\ arrays'[Len(arrays) + 1] = f
        BY <1>0, <2>1 DEF ListTypes
    <2>3. \A k \in 1 .. Len(arrays') : C!Valid(arrays'[k])
        <3> TAKE k \in 1 .. Len(arrays')
        <3>1. CASE k = Len(arrays) + 1
            <4>1. arrays'[k] = f
                BY <2>2, <3>1
            <4> QED
                BY <2>1, <4>1
        <3>2. CASE k # Len(arrays) + 1
            <4>1. k \in 1 .. Len(arrays) /\ arrays'[k] = arrays[k]
                BY <2>2, <3>2
            <4> QED
                BY <1>0, <4>1 DEF ListTypes
        <3> QED
            BY <3>1, <3>2
    <2>4. ListTypes'
        BY <1>0, <2>1, <2>2, <2>3 DEF ListTypes
    <2>5. ASSUME NEW q \in Request PROVE Chosen(q)' /\ ShownKept(q)'
        <3>1. (FoundNamed(q) => FoundNamed(q)') /\ \A e : Named(q, e)' = Named(q, e)
            BY <2>1, <2>2 DEF FoundNamed, Named
        <3> QED
            BY <1>0, <2>1, <3>1, ShownFrame DEF Chosen, Listed
    <2> QED
        BY <2>4, <2>5 DEF ListInv
<1>9. ASSUME NEW c \in Container, C!Event(c) PROVE ListInv'
    <2>1. /\ UNCHANGED <<arrays, list, pc, want, walk, found, done, page>> /\ C!Changes(NoEntry, {c})
          /\ state' \in [Container -> C!State] /\ calm' \in [Request -> BOOLEAN]
          /\ \A o \in Container \ {c} : state'[o] = state[o]
        BY <1>0, <1>9 DEF ListTypes, C!Event, C!Changes
    <2>2. ListTypes'
        BY <1>0, <2>1 DEF ListTypes
    <2>3. ASSUME NEW q \in Request PROVE Chosen(q)' /\ ShownKept(q)'
        <3>1. q # NoEntry
            BY Constants DEF C!Assumptions
        <3>2. calm'[q] => calm[q] /\ (done[q].entry = NoEntry \/
                                      \A o \in C!Runs(done[q].entry) : state'[o] = state[o])
            BY <1>0, <2>1, <3>1, Undisturbed
        <3> QED
            BY <1>0, <2>1, <3>2, ChosenFrame, ShownFrame
    <2> QED
        BY <2>2, <2>3 DEF ListInv
<1>10. CASE UNCHANGED C!vars
    <2>1. UNCHANGED <<arrays, list, state, pc, want, walk, found, done, page, calm>>
        BY <1>10 DEF C!vars
    <2> QED
        BY <1>0, <2>1, ChosenFrame, ShownFrame DEF ListInv, ListTypes
<1> QED
    BY <1>1, <1>2, <1>3, <1>4, <1>5, <1>6, <1>7, <1>8, <1>9, <1>10, <1>11 DEF C!Next

LEMMA ListSpec == Spec => [](panel = "containers" => ListInv)
<1> DEFINE Inv == panel = "containers" => ListInv
<1>1. Init => Inv
    BY ListInit DEF Init
<1>2. Inv /\ [Next]_vars => Inv'
    <2>1. [Next]_vars => UNCHANGED panel /\ (panel = "containers" => [C!Next]_(C!vars))
        BY DEF Next, vars, C!vars, containersOwn
    <2> QED
        BY <2>1, ListNext
<1> QED
    BY <1>1, <1>2, PTL DEF Spec

(* A request acts on an entry that some version of the file declared, or   *)
(* on the container of the name it asked for; and the entry has that name, *)
(* unless a refresh replaced the list between the comparison and the       *)
(* return of findContainerDecl.                                            *)
THEOREM NamedEntryOnly == Spec => []ActsOnNamed
<1>1. (panel = "containers" => ListInv) => ActsOnNamed
    BY DEF ActsOnNamed, C!ActsOnNamed, ListInv, Chosen, Named, Listed
<1> QED
    BY <1>1, ListSpec, PTL

(* What the panel shows after a start or stop is what was asked for, while *)
(* nobody else touched the containers and each could be looked up, but for *)
(* what compose does to paused and restarting ones.                        *)
THEOREM ShownAsAsked == Spec => []AnswerShown
<1>1. (panel = "containers" => ListInv) => AnswerShown
    BY DEF AnswerShown, C!AnswerShown, ListInv, ShownKept, Answered
<1> QED
    BY <1>1, ListSpec, PTL

(* Containers: a request walks a list from its start, and has found an     *)
(* entry of a list no newer than the one in use.                           *)
WalkKept(r) ==
    /\ walk[r].i \in 1 .. walk[r].len + 1
    /\ found[r] = NoEntry \/ found[r][1] \in 1 .. list
    /\ page[r] # {} => pc[r] = "done"
WalkInv == ListInv /\ list = Len(arrays) /\ ours \subseteq Container /\ \A r \in Request : WalkKept(r)

LEMMA WalkInit == C!Init => WalkInv
<1> SUFFICES ASSUME C!Init PROVE list = Len(arrays) /\ ours \subseteq Container /\ \A r \in Request : WalkKept(r)
    BY ListInit DEF WalkInv
<1>1. PICK f \in Files : arrays = <<f>>
    BY DEF C!Init
<1>2. list = Len(arrays) /\ ours \subseteq Container
    BY <1>1 DEF C!Init
<1>3. ASSUME NEW r \in Request PROVE WalkKept(r)
    BY DEF C!Init, WalkKept
<1> QED
    BY <1>2, <1>3

LEMMA WalkNext == WalkInv /\ [C!Next]_(C!vars) => WalkInv'
<1> DEFINE Kept == list = Len(arrays) /\ ours \subseteq Container /\ \A r \in Request : WalkKept(r)
<1> SUFFICES ASSUME WalkInv, [C!Next]_(C!vars) PROVE Kept'
    BY ListNext DEF WalkInv
<1>0. ListTypes /\ Kept /\ list \in Nat /\ \A r \in Request : Chosen(r)
    BY DEF WalkInv, ListInv, ListTypes
<1>1. ASSUME NEW r \in Request, NEW n \in Container, NEW a \in C!Action, C!Begin(r, n, a) PROVE Kept'
    <2>1. /\ UNCHANGED <<arrays, list, ours, found, page>> /\ pc[r] = "idle" /\ pc' = [pc EXCEPT ![r] = "find"]
          /\ walk' = [walk EXCEPT ![r] = [i |-> 1, len |-> Len(arrays[list])]]
        BY <1>1 DEF C!Begin, C!Goto, C!worldVars, C!Now
    <2>2. Len(arrays[list]) \in Nat
        <3>1. arrays[list] \in Files
            BY <1>0 DEF ListTypes
        <3> QED
            BY <3>1, Constants, LenProperties DEF C!Assumptions
    <2>3. ASSUME NEW q \in Request PROVE WalkKept(q)'
        BY <1>0, <2>1, <2>2 DEF ListTypes, WalkKept
    <2> QED
        BY <1>0, <2>1, <2>3
<1>2. ASSUME NEW r \in Request, C!Find(r) PROVE Kept'
    <2>1. UNCHANGED <<arrays, list, ours, page>> /\ pc[r] = "find" /\ pc' \in {pc, [pc EXCEPT ![r] = pc'[r]]}
        BY <1>0, <1>2 DEF C!Find, C!Goto, C!worldVars, ListTypes
    <2>2. /\ walk' = walk \/ (walk[r].i <= walk[r].len /\ walk' = [walk EXCEPT ![r].i = walk[r].i + 1])
          /\ found' = found \/ \E i \in Nat : found' = [found EXCEPT ![r] = <<list, i>>]
        BY <1>0, <1>2 DEF C!Find, ListTypes
    <2>3. ASSUME NEW q \in Request PROVE (walk[q].i \in 1 .. walk[q].len + 1)'
        <3>1. walk[q] \in [i : Nat \ {0}, len : Nat] /\ walk[q].i \in 1 .. walk[q].len + 1
            BY <1>0 DEF ListTypes, WalkKept
        <3>2. walk' = walk => walk'[q].i = walk[q].i /\ walk'[q].len = walk[q].len
            OBVIOUS
        <3>3. walk' = [walk EXCEPT ![r].i = walk[r].i + 1] =>
                /\ walk'[q].i = IF q = r THEN walk[r].i + 1 ELSE walk[q].i
                /\ walk'[q].len = walk[q].len
            BY <1>0 DEF ListTypes
        <3> QED
            BY <2>2, <3>1, <3>2, <3>3
    <2>4. ASSUME NEW q \in Request PROVE (found[q] = NoEntry \/ found[q][1] \in 1 .. list)'
        <3>1. list \in 1 .. list
            BY <1>0 DEF ListTypes
        <3>2. found'[q] = found[q] \/ \E i \in Nat : found'[q] = <<list, i>>
            BY <1>0, <2>2 DEF ListTypes
        <3> QED
            BY <1>0, <2>1, <3>1, <3>2 DEF WalkKept
    <2>5. ASSUME NEW q \in Request PROVE (page[q] # {} => pc[q] = "done")'
        BY <1>0, <2>1 DEF ListTypes, WalkKept
    <2> QED
        BY <1>0, <2>1, <2>3, <2>4, <2>5 DEF WalkKept
<1>9. ASSUME NEW r \in Request, C!Take(r) PROVE Kept'
    <2>1. UNCHANGED <<arrays, list, ours, walk, page>> /\ pc[r] = "take" /\ pc' \in {pc, [pc EXCEPT ![r] = pc'[r]]}
        BY <1>0, <1>9 DEF C!Take, C!Goto, C!worldVars, ListTypes
    <2>2. found' = found \/ \E i \in Nat : found' = [found EXCEPT ![r] = <<list, i>>]
        BY <1>0, <1>9 DEF C!Take, ListTypes
    <2>3. ASSUME NEW q \in Request PROVE (found[q] = NoEntry \/ found[q][1] \in 1 .. list)'
        <3>1. list \in 1 .. list
            BY <1>0 DEF ListTypes
        <3>2. found'[q] = found[q] \/ \E i \in Nat : found'[q] = <<list, i>>
            BY <1>0, <2>2 DEF ListTypes
        <3> QED
            BY <1>0, <2>1, <3>1, <3>2 DEF WalkKept
    <2>4. ASSUME NEW q \in Request PROVE (page[q] # {} => pc[q] = "done")'
        BY <1>0, <2>1 DEF ListTypes, WalkKept
    <2> QED
        BY <1>0, <2>1, <2>3, <2>4 DEF WalkKept
<1>3. ASSUME NEW r \in Request, C!Branch(r) PROVE Kept'
    <2>1. /\ UNCHANGED <<arrays, list, ours, page>> /\ pc[r] = "branch" /\ pc' = [pc EXCEPT ![r] = pc'[r]]
          /\ found' = [found EXCEPT ![r] = NoEntry] /\ walk' = [walk EXCEPT ![r] = [i |-> 1, len |-> 0]]
        BY <1>0, <1>3, Zenon DEF C!Branch, C!Goto, C!worldVars, ListTypes
    <2>2. ASSUME NEW q \in Request PROVE WalkKept(q)'
        BY <1>0, <2>1 DEF ListTypes, WalkKept
    <2> QED
        BY <1>0, <2>1, <2>2
<1>4. ASSUME NEW r \in Request, C!Compose(r) \/ C!Verify(r) \/ C!Direct(r) PROVE Kept'
    <2>1. /\ UNCHANGED <<arrays, list, walk, found, page>> /\ pc[r] \in {"compose", "verify", "direct"}
          /\ pc' = [pc EXCEPT ![r] = pc'[r]]
        BY <1>0, <1>4 DEF C!Compose, C!Verify, C!Direct, C!Act, C!Start, C!Stop, C!Goto, ListTypes
    <2>2. ours' \subseteq Container
        <3>1. CASE C!Compose(r)
            <4>1. C!Runs(done[r].entry) \subseteq Container
                <5>1. done[r].entry \in C!Entry
                    BY <1>0, <3>1 DEF ListTypes, Chosen, C!Compose
                <5> QED
                    BY <5>1 DEF C!Entry, C!Runs
            <4> QED
                BY <1>0, <3>1, <4>1 DEF C!Compose
        <3>2. CASE C!Verify(r) \/ C!Direct(r)
            BY <1>0, <3>2 DEF C!Verify, C!Direct, C!Act, C!Start, C!Stop, C!worldVars
        <3> QED
            BY <1>4, <3>1, <3>2
    <2>3. ASSUME NEW q \in Request PROVE WalkKept(q)'
        BY <1>0, <2>1 DEF ListTypes, WalkKept
    <2> QED
        BY <1>0, <2>1, <2>2, <2>3
<1>5. ASSUME NEW r \in Request, C!Render(r) PROVE Kept'
    <2>1. /\ UNCHANGED <<arrays, list, ours, walk, found>> /\ pc' = [pc EXCEPT ![r] = "done"]
          /\ page' = [page EXCEPT ![r] = page'[r]]
        BY <1>0, <1>5 DEF C!Render, C!Goto, C!worldVars, ListTypes
    <2>2. ASSUME NEW q \in Request PROVE WalkKept(q)'
        BY <1>0, <2>1 DEF ListTypes, WalkKept
    <2> QED
        BY <1>0, <2>1, <2>2
<1>6. ASSUME NEW f \in Files, C!Refresh(f) PROVE Kept'
    <2>1. /\ UNCHANGED <<ours, pc, walk, found, page>> /\ list' = Len(arrays) + 1 /\ arrays' = Append(arrays, f)
        BY <1>6 DEF C!Refresh, C!worldVars
    <2>2. list' = Len(arrays') /\ list' = list + 1
        BY <1>0, <2>1, AppendProperties DEF ListTypes
    <2>3. ASSUME NEW q \in Request PROVE WalkKept(q)'
        BY <1>0, <2>1, <2>2 DEF WalkKept
    <2> QED
        BY <1>0, <2>1, <2>2, <2>3
<1>7. CASE UNCHANGED C!vars \/ \E c \in Container : C!Event(c)
    <2>1. UNCHANGED <<arrays, list, ours, pc, walk, found, page>>
        BY <1>7 DEF C!vars, C!Event
    <2> QED
        BY <1>0, <2>1 DEF WalkKept
<1> QED
    BY <1>1, <1>2, <1>3, <1>4, <1>5, <1>6, <1>7, <1>9 DEF C!Next

-----------------------------------------------------------------------------
(* Listing: the elements of a kind, one element of the list after the other. *)
LEMMA StoredList ==
    /\ Stored \in Seq(E!Element) /\ Len(Stored) \in Nat /\ Len(Stored) >= 1
    /\ DOMAIN Stored = 1 .. Len(Stored) /\ \A i \in 1 .. Len(Stored) : Stored[i] \in E!Element
    /\ NoKind \notin Kind
<1>1. Stored \in Seq(E!Element) /\ Stored # <<>> /\ NoKind \notin Kind
    BY Constants DEF E!Assumptions
<1> QED
    BY <1>1, EmptySeq, LenProperties

(* The elements of a kind among the first ones of the list.               *)
Among(k) == Sieve(Stored, E!OfKind(k))

OfKindStep(k) ==
    /\ Among(k)[0] = <<>>
    /\ \A n \in 0 .. Len(Stored) : Among(k)[n] \in Seq(E!Element)
    /\ \A n \in 1 .. Len(Stored) :
        Among(k)[n] = IF Stored[n].kind = k THEN Append(Among(k)[n - 1], Stored[n])
                         ELSE Among(k)[n - 1]

LEMMA OfKindSteps == ASSUME NEW k PROVE OfKindStep(k)
<1>1. SieveStep(Stored, E!OfKind(k), E!Element)
    BY StoredList, SieveSteps
<1>2. \A n \in 1 .. Len(Stored) : Stored[n] \in E!OfKind(k) <=> Stored[n].kind = k
    BY StoredList DEF E!OfKind
<1> QED
    BY <1>1, <1>2 DEF SieveStep, OfKindStep, Among

LEMMA SameSieve == \A s, A : E!Sieve(s, A) = Sieve(s, A)
<1> SUFFICES ASSUME NEW s, NEW A PROVE E!Sieve(s, A) = Sieve(s, A)
    OBVIOUS
<1> QED
    BY Zenon DEF E!Sieve, Sieve

(* What a request is to be answered with. *)
LEMMA ExpectedIs ==
    ASSUME NEW r
    PROVE  E!Expected(r) = IF kind[r] = NoKind THEN Stored ELSE Among(kind[r])[Len(Stored)]
BY SameSieve DEF E!Expected, E!Sieved, Among

(* What the array is to a request that filters it for k and nobody else   *)
(* does: up to the elements it has kept, those of the kind among what its *)
(* loop has seen, and from where its loop is, the list as it was.         *)
Compacted(a, p, k, n, m, h) ==
    /\ Len(Among(k)[n - 1]) = m
    /\ \A i \in 1 .. m : a[i] = Among(k)[n - 1][i] \/ (i = m /\ p \in {"copy", "copied"})
    /\ p \in {"copy", "copied"} => h = Among(k)[n - 1][m]
    /\ p = "copied" => a[m].id = h.id
    /\ \A i \in n .. Len(Stored) : a[i] = Stored[i]

(* The loop begins with nothing kept. *)
LEMMA CompactBegin == ASSUME NEW k, NEW h PROVE Compacted(Stored, "filter", k, 1, 0, h)
<1>1. Among(k)[1 - 1] = <<>>
    BY OfKindSteps DEF OfKindStep
<1> QED
    BY <1>1, EmptySeq DEF Compacted

(* A visit passes over an element, or is about to copy it. *)
LEMMA CompactVisit ==
    ASSUME NEW k, NEW h, NEW a, NEW n \in 1 .. Len(Stored), NEW m \in Nat, Compacted(a, "filter", k, n, m, h)
    PROVE  /\ a[n].kind = k => Compacted(a, "copy", k, n + 1, m + 1, a[n])
           /\ a[n].kind # k => Compacted(a, "filter", k, n + 1, m, a[n])
<1> DEFINE s == Among(k)[n - 1]
           t == Among(k)[(n + 1) - 1]
<1>1. n \in Nat /\ n >= 1 /\ Len(Stored) \in Nat /\ (n + 1) - 1 = n /\ n - 1 \in 0 .. Len(Stored)
    BY StoredList
<1>2. s \in Seq(E!Element) /\ t = IF Stored[n].kind = k THEN Append(s, Stored[n]) ELSE s
    BY <1>1, OfKindSteps DEF OfKindStep
<1>3. a[n] = Stored[n] /\ Stored[n] \in E!Element
    BY <1>1, StoredList DEF Compacted
<1>4. Len(s) = m /\ (\A i \in 1 .. m : a[i] = s[i]) /\ \A i \in n .. Len(Stored) : a[i] = Stored[i]
    BY DEF Compacted
<1> HIDE DEF s, t
<1>5. \A i \in n + 1 .. Len(Stored) : a[i] = Stored[i]
    BY <1>1, <1>4
<1>6. CASE a[n].kind = k
    <2>1. t = Append(s, Stored[n])
        BY <1>2, <1>3, <1>6
    <2>2. Len(t) = m + 1 /\ t[m + 1] = Stored[n] /\ \A i \in 1 .. m : t[i] = s[i]
        BY <1>2, <1>3, <1>4, <2>1, AppendProperties
    <2>3. \A i \in 1 .. m + 1 : a[i] = t[i] \/ i = m + 1
        BY <1>4, <2>2
    <2> QED
        BY <1>3, <1>5, <1>6, <2>2, <2>3 DEF Compacted, t
<1>7. CASE a[n].kind # k
    <2>1. t = s
        BY <1>2, <1>3, <1>7
    <2> QED
        BY <1>4, <1>5, <1>7, <2>1 DEF Compacted, t
<1> QED
    BY <1>6, <1>7

(* A field of an element of the array is written. *)
LEMMA Written ==
    ASSUME NEW e \in E!Element, NEW h \in E!Element
    PROVE  /\ [e EXCEPT !.id = h.id] \in E!Element /\ [e EXCEPT !.id = h.id].id = h.id
           /\ [e EXCEPT !.kind = h.kind] \in E!Element
           /\ e.id = h.id => [e EXCEPT !.kind = h.kind] = h
<1>1. h.id \in {Stored[i].id : i \in DOMAIN Stored} /\ h.kind \in Kind
    BY DEF E!Element
<1> QED
    BY <1>1 DEF E!Element

(* A copy adds it to what is kept. *)
LEMMA CompactCopy ==
    ASSUME NEW k, NEW h, NEW a, NEW b, NEW n \in Nat, NEW m \in 1 .. Len(Stored), m < n,
           \A i \in 1 .. Len(Stored) : i # m => b[i] = a[i]
    PROVE  /\ Compacted(a, "copy", k, n, m, h) /\ b[m].id = h.id => Compacted(b, "copied", k, n, m, h)
           /\ Compacted(a, "copied", k, n, m, h) /\ b[m] = h => Compacted(b, "filter", k, n, m, h)
<1>1. Len(Stored) \in Nat
    BY StoredList
<1>2. \A i \in n .. Len(Stored) : i \in 1 .. Len(Stored) /\ i # m
    BY <1>1
<1>3. \A i \in 1 .. m : i \in 1 .. Len(Stored)
    BY <1>1
<1> QED
    BY <1>1, <1>2, <1>3 DEF Compacted

-----------------------------------------------------------------------------
(* Where a request can be, how much it has kept and answered, and, while   *)
(* no other one filters, what the array and its answer are.                *)

ListingTypes ==
    /\ array \in [1 .. Len(Stored) -> E!Element]
    /\ pc \in [Request -> E!PC] /\ kind \in [Request -> Kind \cup {NoKind}]
    /\ next \in [Request -> 1 .. Len(Stored) + 1] /\ kept \in [Request -> 0 .. Len(Stored)]
    /\ hand \in [Request -> E!Element] /\ answer \in [Request -> Seq(E!Element)]

Loop(p, k, n, m, l) ==
    /\ p = "idle" => k = NoKind /\ n = 1 /\ m = 0
    /\ p \in {"idle", "filter", "copy", "copied"} => l = 0
    /\ p \in {"filter", "copy", "copied"} => k # NoKind
    /\ k = NoKind /\ p # "idle" => m = Len(Stored)
    /\ k # NoKind => m < n
    /\ p \in {"copy", "copied"} => m >= 1
    /\ k # NoKind /\ p \in {"encode", "done"} => n = Len(Stored) + 1
    /\ l <= m /\ (p = "done" => l = m)

Unshared(r) == \A q \in Request \ {r} : kind[q] = NoKind

AsAsked(k, s) ==
    \A i \in 1 .. Len(s) : s[i] = IF k = NoKind THEN Stored[i] ELSE Among(k)[Len(Stored)][i]

ListingKept(r) ==
    Unshared(r) =>
        /\ IF kind[r] = NoKind THEN array = Stored
           ELSE Compacted(array, pc[r], kind[r], next[r], kept[r], hand[r])
        /\ AsAsked(kind[r], answer[r])

ListingInv ==
    /\ ListingTypes
    /\ \A r \in Request : Loop(pc[r], kind[r], next[r], kept[r], Len(answer[r])) /\ ListingKept(r)

LEMMA ListingInit == E!Init => ListingInv
<1> SUFFICES ASSUME E!Init PROVE ListingInv
    OBVIOUS
<1>1. Stored \in [1 .. Len(Stored) -> E!Element] /\ Stored[1] \in E!Element
    BY StoredList, LenProperties
<1>2. ListingTypes
    BY <1>1, StoredList, EmptySeq DEF E!Init, ListingTypes, E!PC
<1>3. ASSUME NEW r \in Request PROVE Loop(pc[r], kind[r], next[r], kept[r], Len(answer[r]))
    BY StoredList DEF E!Init, Loop
<1>4. ASSUME NEW r \in Request PROVE ListingKept(r)
    <2>1. kind[r] = NoKind /\ array = Stored /\ answer[r] = <<>>
        BY DEF E!Init
    <2> QED
        BY <2>1 DEF ListingKept, AsAsked
<1> QED
    BY <1>2, <1>3, <1>4 DEF ListingInv

(* A step of one request keeps what the others have, unless they claim     *)
(* nothing because it filters.                                             *)
LEMMA ListingFrame ==
    ASSUME ListingInv, NEW r \in Request, NEW q \in Request \ {r},
           pc'[q] = pc[q], next'[q] = next[q], kept'[q] = kept[q], hand'[q] = hand[q],
           answer'[q] = answer[q], \A x \in Request \ {r} : kind'[x] = kind[x],
           kind'[r] = NoKind => kind[r] = NoKind /\ array' = array
    PROVE  /\ Loop(pc[q], kind[q], next[q], kept[q], Len(answer[q]))'
           /\ ListingKept(q)'
<1>1. kind'[q] = kind[q]
    OBVIOUS
<1>2. Loop(pc'[q], kind'[q], next'[q], kept'[q], Len(answer'[q]))
    BY <1>1 DEF ListingInv
<1>3. ASSUME Unshared(q)'
      PROVE  Unshared(q) /\ array' = array
    BY <1>3 DEF Unshared
<1>4. ASSUME Unshared(q)'
      PROVE  /\ IF kind'[q] = NoKind THEN array' = Stored
                ELSE Compacted(array', pc'[q], kind'[q], next'[q], kept'[q], hand'[q])
             /\ AsAsked(kind'[q], answer'[q])
    BY <1>1, <1>3, <1>4 DEF ListingInv, ListingKept
<1> QED
    BY <1>2, <1>4 DEF ListingKept

LEMMA ListingNext == ListingInv /\ [E!Next]_(E!vars) => ListingInv'
<1> SUFFICES ASSUME ListingInv, [E!Next]_(E!vars) PROVE ListingInv'
    OBVIOUS
<1> DEFINE N == Len(Stored)
<1>0. /\ array \in [1 .. N -> E!Element]
      /\ pc \in [Request -> E!PC] /\ kind \in [Request -> Kind \cup {NoKind}]
      /\ next \in [Request -> 1 .. N + 1] /\ kept \in [Request -> 0 .. N]
      /\ hand \in [Request -> E!Element] /\ answer \in [Request -> Seq(E!Element)]
      /\ N \in Nat /\ N >= 1 /\ NoKind \notin Kind
      /\ \A r \in Request : Loop(pc[r], kind[r], next[r], kept[r], Len(answer[r])) /\ ListingKept(r)
    BY StoredList DEF ListingInv, ListingTypes
<1>00. \A r \in Request : Len(answer[r]) \in Nat
    BY <1>0, LenProperties
<1>1. ASSUME NEW r \in Request, NEW k \in Kind \cup {NoKind}, E!Begin(r, k) PROVE ListingInv'
    <2>1. /\ pc[r] = "idle" /\ UNCHANGED <<array, next, hand, answer>>
          /\ kind' = [kind EXCEPT ![r] = k]
          /\ kept' = [kept EXCEPT ![r] = IF k = NoKind THEN N ELSE 0]
          /\ pc' = [pc EXCEPT ![r] = IF k = NoKind THEN "encode" ELSE "filter"]
        BY <1>1 DEF E!Begin, E!Goto
    <2>2. kind[r] = NoKind /\ next[r] = 1 /\ kept[r] = 0 /\ Len(answer[r]) = 0
        BY <1>0, <2>1 DEF Loop
    <2>3. ListingTypes'
        BY <1>0, <2>1 DEF ListingTypes, E!PC
    <2>4. Loop(pc'[r], kind'[r], next'[r], kept'[r], Len(answer'[r]))
        BY <1>0, <2>1, <2>2 DEF Loop
    <2>5. ASSUME Unshared(r)'
          PROVE  /\ IF kind'[r] = NoKind THEN array' = Stored
                    ELSE Compacted(array', pc'[r], kind'[r], next'[r], kept'[r], hand'[r])
                 /\ AsAsked(kind'[r], answer'[r])
        <3>1. Unshared(r)
            BY <1>0, <2>1, <2>5 DEF Unshared
        <3>2. array = Stored
            BY <1>0, <2>2, <3>1 DEF ListingKept
        <3>3. k # NoKind => Compacted(Stored, "filter", k, 1, 0, hand[r])
            BY CompactBegin
        <3>4. AsAsked(k, answer[r])
            BY <2>2 DEF AsAsked
        <3> QED
            BY <1>0, <2>1, <2>2, <3>2, <3>3, <3>4
    <2>6. ASSUME NEW q \in Request \ {r}
          PROVE  Loop(pc[q], kind[q], next[q], kept[q], Len(answer[q]))' /\ ListingKept(q)'
        BY <1>0, <2>1, <2>2, ListingFrame
    <2>7. ListingKept(r)'
        BY <2>5 DEF ListingKept
    <2> QED
        BY <2>3, <2>4, <2>6, <2>7 DEF ListingInv
<1>2. ASSUME NEW r \in Request, E!Visit(r) PROVE ListingInv'
    <2> DEFINE e == array[next[r]]
    <2>1. /\ pc[r] = "filter" /\ next[r] \in 1 .. N /\ UNCHANGED <<array, kind, answer>>
          /\ hand' = [hand EXCEPT ![r] = e] /\ next' = [next EXCEPT ![r] = next[r] + 1]
          /\ e.kind = kind[r] => kept' = [kept EXCEPT ![r] = kept[r] + 1] /\ pc' = [pc EXCEPT ![r] = "copy"]
          /\ e.kind # kind[r] => kept' = kept /\ pc' = pc
        BY <1>0, <1>2 DEF E!Visit, E!Goto
    <2>2. kind[r] # NoKind /\ kept[r] < next[r] /\ kept[r] \in 0 .. N /\ Len(answer[r]) = 0 /\ e \in E!Element
        BY <1>0, <2>1 DEF Loop
    <2>3. ListingTypes'
        <3> HIDE DEF e
        <3>1. hand' \in [Request -> E!Element] /\ next' \in [Request -> 1 .. N + 1]
            BY <1>0, <2>1, <2>2
        <3>2. pc' \in [Request -> E!PC]
            BY <1>0, <2>1 DEF E!PC
        <3>3. kept' \in [Request -> 0 .. N]
            <4>1. kept[r] + 1 \in 0 .. N
                BY <1>0, <2>1, <2>2
            <4> QED
                BY <1>0, <2>1, <4>1
        <3> QED
            BY <1>0, <2>1, <3>1, <3>2, <3>3 DEF ListingTypes
    <2>4. Loop(pc'[r], kind'[r], next'[r], kept'[r], Len(answer'[r]))
        BY <1>0, <2>1, <2>2 DEF Loop
    <2>5. ASSUME Unshared(r)'
          PROVE  /\ Compacted(array', pc'[r], kind'[r], next'[r], kept'[r], hand'[r])
                 /\ AsAsked(kind'[r], answer'[r])
        <3>1. Unshared(r)
            BY <2>1, <2>5 DEF Unshared
        <3>2. Compacted(array, "filter", kind[r], next[r], kept[r], hand[r])
            BY <1>0, <2>1, <2>2, <3>1 DEF ListingKept
        <3>3. /\ e.kind = kind[r] => Compacted(array, "copy", kind[r], next[r] + 1, kept[r] + 1, e)
              /\ e.kind # kind[r] => Compacted(array, "filter", kind[r], next[r] + 1, kept[r], e)
            BY <2>1, <2>2, <3>2, CompactVisit
        <3>4. AsAsked(kind[r], answer[r])
            BY <2>2 DEF AsAsked
        <3> QED
            BY <1>0, <2>1, <3>3, <3>4
    <2>6. ASSUME NEW q \in Request \ {r}
          PROVE  Loop(pc[q], kind[q], next[q], kept[q], Len(answer[q]))' /\ ListingKept(q)'
        BY <1>0, <2>1, <2>2, ListingFrame
    <2>7. ListingKept(r)'
        BY <2>1, <2>2, <2>5 DEF ListingKept
    <2> QED
        BY <2>3, <2>4, <2>6, <2>7 DEF ListingInv
<1>3. ASSUME NEW r \in Request, E!CopyId(r) \/ E!CopyKind(r) PROVE ListingInv'
    <2> DEFINE m == kept[r]
               h == hand[r]
    <2>1. /\ UNCHANGED <<kind, next, kept, hand, answer>>
          /\ \/ /\ pc[r] = "copy" /\ pc' = [pc EXCEPT ![r] = "copied"]
                /\ array' = [array EXCEPT ![m].id = h.id]
             \/ /\ pc[r] = "copied" /\ pc' = [pc EXCEPT ![r] = "filter"]
                /\ array' = [array EXCEPT ![m].kind = h.kind]
        BY <1>3 DEF E!CopyId, E!CopyKind, E!Goto
    <2>2. kind[r] # NoKind /\ m < next[r] /\ m \in 1 .. N /\ Len(answer[r]) = 0 /\ h \in E!Element
        BY <1>0, <2>1 DEF Loop
    <2>3. /\ array' \in [1 .. N -> E!Element] /\ \A i \in 1 .. N : i # m => array'[i] = array[i]
          /\ pc[r] = "copy" => array'[m].id = h.id
          /\ pc[r] = "copied" /\ array[m].id = h.id => array'[m] = h
        <3>1. array \in [1 .. N -> E!Element]
            BY <1>0
        <3>2. m \in 1 .. N
            BY <2>2
        <3>3. h \in E!Element
            BY <2>2
        <3> HIDE DEF m, h, N
        <3> DEFINE e == array[m]
        <3>00. e \in E!Element
            BY <3>1, <3>2
        <3>4. ASSUME array' = [array EXCEPT ![m].id = h.id]
              PROVE  array' \in [1 .. N -> E!Element] /\ array'[m].id = h.id
                     /\ \A i \in 1 .. N : i # m => array'[i] = array[i]
            <4>1. array' = [array EXCEPT ![m] = [e EXCEPT !.id = h.id]]
                BY <3>4
            <4>2. [e EXCEPT !.id = h.id] \in E!Element /\ [e EXCEPT !.id = h.id].id = h.id
                BY <3>00, <3>3, Written
            <4> QED
                BY <3>1, <3>2, <4>1, <4>2
        <3>5. ASSUME array' = [array EXCEPT ![m].kind = h.kind]
              PROVE  /\ array' \in [1 .. N -> E!Element] /\ \A i \in 1 .. N : i # m => array'[i] = array[i]
                     /\ array[m].id = h.id => array'[m] = h
            <4>1. array' = [array EXCEPT ![m] = [e EXCEPT !.kind = h.kind]]
                BY <3>5
            <4>2. [e EXCEPT !.kind = h.kind] \in E!Element /\ (e.id = h.id => [e EXCEPT !.kind = h.kind] = h)
                BY <3>00, <3>3, Written
            <4> QED
                BY <3>1, <3>2, <4>1, <4>2
        <3>6. \/ pc[r] = "copy" /\ array' = [array EXCEPT ![m].id = h.id]
              \/ pc[r] = "copied" /\ array' = [array EXCEPT ![m].kind = h.kind]
            BY <2>1 DEF m, h
        <3> QED
            BY <3>4, <3>5, <3>6
    <2>4. ListingTypes'
        BY <1>0, <2>1, <2>3 DEF ListingTypes, E!PC
    <2>5. Loop(pc'[r], kind'[r], next'[r], kept'[r], Len(answer'[r]))
        BY <1>0, <2>1, <2>2 DEF Loop
    <2>6. ASSUME Unshared(r)'
          PROVE  /\ Compacted(array', pc'[r], kind'[r], next'[r], kept'[r], hand'[r])
                 /\ AsAsked(kind'[r], answer'[r])
        <3>1. Unshared(r)
            BY <2>1, <2>6 DEF Unshared
        <3>2. Compacted(array, pc[r], kind[r], next[r], m, h)
            BY <1>0, <2>2, <3>1 DEF ListingKept
        <3>3. pc[r] = "copied" => array[m].id = h.id
            BY <3>2 DEF Compacted
        <3>4. /\ pc[r] = "copy" => Compacted(array', "copied", kind[r], next[r], m, h)
              /\ pc[r] = "copied" => Compacted(array', "filter", kind[r], next[r], m, h)
            <4>1. next[r] \in Nat
                BY <1>0
            <4> HIDE DEF m, h
            <4> QED
                BY <2>2, <2>3, <3>2, <3>3, <4>1, CompactCopy
        <3>5. AsAsked(kind[r], answer[r])
            BY <2>2 DEF AsAsked
        <3> QED
            BY <1>0, <2>1, <3>4, <3>5
    <2>7. ASSUME NEW q \in Request \ {r}
          PROVE  Loop(pc[q], kind[q], next[q], kept[q], Len(answer[q]))' /\ ListingKept(q)'
        BY <1>0, <2>1, <2>2, ListingFrame
    <2>8. ListingKept(r)'
        BY <2>1, <2>2, <2>6 DEF ListingKept
    <2> QED
        BY <2>4, <2>5, <2>7, <2>8 DEF ListingInv
<1>4. ASSUME NEW r \in Request, E!Filtered(r) PROVE ListingInv'
    <2>1. /\ UNCHANGED <<array, kind, next, kept, hand, answer>> /\ pc[r] = "filter"
          /\ next[r] > N /\ pc' = [pc EXCEPT ![r] = "encode"]
        BY <1>4 DEF E!Filtered, E!Goto
    <2>2. kind[r] # NoKind /\ kept[r] < next[r] /\ Len(answer[r]) = 0 /\ next[r] = N + 1
        BY <1>0, <2>1 DEF Loop
    <2>3. ListingTypes'
        BY <1>0, <2>1 DEF ListingTypes, E!PC
    <2>4. Loop(pc'[r], kind'[r], next'[r], kept'[r], Len(answer'[r]))
        BY <1>0, <2>1, <2>2 DEF Loop
    <2>5. ASSUME Unshared(r)'
          PROVE  /\ Compacted(array', pc'[r], kind'[r], next'[r], kept'[r], hand'[r])
                 /\ AsAsked(kind'[r], answer'[r])
        <3>1. Compacted(array, "filter", kind[r], next[r], kept[r], hand[r])
            BY <1>0, <2>1, <2>2, <2>5 DEF ListingKept, Unshared
        <3>2. Compacted(array, "encode", kind[r], next[r], kept[r], hand[r])
            BY <3>1 DEF Compacted
        <3>3. AsAsked(kind[r], answer[r])
            BY <2>2 DEF AsAsked
        <3> QED
            BY <1>0, <2>1, <3>2, <3>3
    <2>6. ASSUME NEW q \in Request \ {r}
          PROVE  Loop(pc[q], kind[q], next[q], kept[q], Len(answer[q]))' /\ ListingKept(q)'
        BY <1>0, <2>1, <2>2, ListingFrame
    <2>7. ListingKept(r)'
        BY <2>1, <2>2, <2>5 DEF ListingKept
    <2> QED
        BY <2>3, <2>4, <2>6, <2>7 DEF ListingInv
<1>5. ASSUME NEW r \in Request, E!Encode(r) PROVE ListingInv'
    <2> DEFINE l == Len(answer[r])
    <2>1. /\ UNCHANGED <<array, kind, next, kept, hand>> /\ pc[r] = "encode"
          /\ \/ /\ l < kept[r] /\ pc' = pc
                /\ answer' = [answer EXCEPT ![r] = Append(answer[r], array[l + 1])]
             \/ /\ l = kept[r] /\ answer' = answer /\ pc' = [pc EXCEPT ![r] = "done"]
        BY <1>5 DEF E!Encode, E!Goto
    <2>2. l \in Nat /\ kept[r] \in 0 .. N
        BY <1>0, <1>00
    <2>3. CASE l < kept[r] /\ pc' = pc /\ answer' = [answer EXCEPT ![r] = Append(answer[r], array[l + 1])]
        <3>1. l + 1 \in 1 .. N /\ array[l + 1] \in E!Element /\ answer[r] \in Seq(E!Element)
            BY <1>0, <2>2, <2>3
        <3>2. /\ answer'[r] \in Seq(E!Element) /\ Len(answer'[r]) = l + 1
              /\ answer'[r][l + 1] = array[l + 1] /\ \A i \in 1 .. l : answer'[r][i] = answer[r][i]
            <4>1. answer'[r] = Append(answer[r], array[l + 1])
                BY <1>0, <2>3
            <4> QED
                BY <3>1, <4>1, AppendProperties
        <3>3. answer' \in [Request -> Seq(E!Element)] /\ \A q \in Request \ {r} : answer'[q] = answer[q]
            BY <1>0, <2>3, <3>2
        <3>4. ListingTypes'
            BY <1>0, <2>1, <2>3, <3>3 DEF ListingTypes
        <3>5. Loop(pc'[r], kind'[r], next'[r], kept'[r], Len(answer'[r]))
            BY <1>0, <2>1, <2>2, <2>3, <3>2 DEF Loop
        <3>6. ASSUME Unshared(r)
              PROVE  array[l + 1] = IF kind[r] = NoKind THEN Stored[l + 1]
                                    ELSE Among(kind[r])[N][l + 1]
            <4>1. CASE kind[r] = NoKind
                BY <1>0, <3>6, <4>1 DEF ListingKept
            <4>2. CASE kind[r] # NoKind
                <5>1. Compacted(array, "encode", kind[r], next[r], kept[r], hand[r])
                    BY <1>0, <2>1, <3>6, <4>2 DEF ListingKept
                <5>2. next[r] - 1 = N
                    BY <1>0, <2>1, <4>2 DEF Loop
                <5>3. l + 1 \in 1 .. kept[r]
                    BY <2>2, <2>3
                <5> QED
                    BY <4>2, <5>1, <5>2, <5>3 DEF Compacted
            <4> QED
                BY <4>1, <4>2
        <3>7. ASSUME Unshared(r) PROVE AsAsked(kind[r], answer'[r])
            <4>1. AsAsked(kind[r], answer[r])
                BY <1>0, <3>7 DEF ListingKept
            <4>2. \A i \in 1 .. Len(answer'[r]) : i \in 1 .. l \/ i = l + 1
                BY <2>2, <3>2
            <4> QED
                BY <3>2, <3>6, <3>7, <4>1, <4>2 DEF AsAsked
        <3>8. ListingKept(r)'
            <4>1. ASSUME Unshared(r)'
                  PROVE  /\ IF kind'[r] = NoKind THEN array' = Stored
                            ELSE Compacted(array', pc'[r], kind'[r], next'[r], kept'[r], hand'[r])
                         /\ AsAsked(kind'[r], answer'[r])
                <5>1. Unshared(r)
                    BY <2>1, <4>1 DEF Unshared
                <5> QED
                    BY <1>0, <2>1, <2>3, <3>7, <5>1 DEF ListingKept
            <4> QED
                BY <4>1 DEF ListingKept
        <3>9. ASSUME NEW q \in Request \ {r}
              PROVE  Loop(pc[q], kind[q], next[q], kept[q], Len(answer[q]))' /\ ListingKept(q)'
            BY <2>1, <2>3, <3>3, ListingFrame
        <3> QED
            BY <3>4, <3>5, <3>8, <3>9 DEF ListingInv
    <2>4. CASE l = kept[r] /\ answer' = answer /\ pc' = [pc EXCEPT ![r] = "done"]
        <3>1. ListingTypes'
            BY <1>0, <2>1, <2>4 DEF ListingTypes, E!PC
        <3>2. Loop(pc'[r], kind'[r], next'[r], kept'[r], Len(answer'[r]))
            BY <1>0, <2>1, <2>4 DEF Loop
        <3>3. ASSUME Unshared(r)'
              PROVE  /\ IF kind'[r] = NoKind THEN array' = Stored
                        ELSE Compacted(array', pc'[r], kind'[r], next'[r], kept'[r], hand'[r])
                     /\ AsAsked(kind'[r], answer'[r])
            <4>1. Unshared(r)
                BY <2>1, <3>3 DEF Unshared
            <4>2. AsAsked(kind[r], answer[r]) /\ (kind[r] = NoKind => array = Stored)
                BY <1>0, <4>1 DEF ListingKept
            <4>3. ASSUME kind[r] # NoKind
                  PROVE  Compacted(array, "done", kind[r], next[r], kept[r], hand[r])
                <5>1. Compacted(array, "encode", kind[r], next[r], kept[r], hand[r])
                    BY <1>0, <2>1, <4>1, <4>3 DEF ListingKept
                <5> QED
                    BY <5>1 DEF Compacted
            <4> QED
                BY <1>0, <2>1, <2>4, <4>2, <4>3
        <3>4. ListingKept(r)'
            BY <3>3 DEF ListingKept
        <3>5. ASSUME NEW q \in Request \ {r}
              PROVE  Loop(pc[q], kind[q], next[q], kept[q], Len(answer[q]))' /\ ListingKept(q)'
            BY <1>0, <2>1, <2>4, ListingFrame
        <3> QED
            BY <3>1, <3>2, <3>4, <3>5 DEF ListingInv
    <2> QED
        BY <2>1, <2>3, <2>4
<1>6. CASE UNCHANGED E!vars
    <2>1. UNCHANGED <<array, pc, kind, next, kept, hand, answer>>
        BY <1>6 DEF E!vars
    <2>2. ListingTypes'
        BY <1>0, <2>1 DEF ListingTypes
    <2>3. ASSUME NEW r \in Request
          PROVE  Loop(pc[r], kind[r], next[r], kept[r], Len(answer[r]))' /\ ListingKept(r)'
        BY <1>0, <2>1 DEF ListingKept, Unshared
    <2> QED
        BY <2>2, <2>3 DEF ListingInv
<1> QED
    BY <1>1, <1>2, <1>3, <1>4, <1>5, <1>6 DEF E!Next

LEMMA ListingSpec == Spec => [](panel = "listing" => ListingInv)
<1> DEFINE Inv == panel = "listing" => ListingInv
<1>1. Init => Inv
    BY ListingInit DEF Init
<1>2. Inv /\ [Next]_vars => Inv'
    <2>1. [Next]_vars => UNCHANGED panel /\ (panel = "listing" => [E!Next]_(E!vars))
        BY DEF Next, vars, E!vars, listingOwn
    <2> QED
        BY <2>1, ListingNext
<1> QED
    BY <1>1, <1>2, PTL DEF Spec

(* A request is answered with what it asked for as long as no other one    *)
(* filters the array it reads.                                             *)
THEOREM AnsweredAsAsked == Spec => []UnfilteredAnswers
<1>1. ASSUME ListingInv PROVE E!UnfilteredAnswers
    <2> SUFFICES ASSUME NEW r \in Request, pc[r] = "done", Unshared(r)
                 PROVE  answer[r] = E!Expected(r)
        BY DEF E!UnfilteredAnswers, Unshared
    <2> DEFINE N == Len(Stored)
               s == E!Expected(r)
    <2>1. /\ answer[r] \in Seq(E!Element) /\ Loop(pc[r], kind[r], next[r], kept[r], Len(answer[r]))
          /\ AsAsked(kind[r], answer[r])
          /\ kind[r] # NoKind => Compacted(array, pc[r], kind[r], next[r], kept[r], hand[r])
        BY <1>1 DEF ListingInv, ListingTypes, ListingKept
    <2>2. s \in Seq(E!Element) /\ Len(s) = Len(answer[r])
        <3>1. CASE kind[r] = NoKind
            BY <2>1, <3>1, StoredList DEF E!Expected, Loop
        <3>2. CASE kind[r] # NoKind
            <4>1. next[r] - 1 = N /\ Len(answer[r]) = kept[r] /\ N \in 0 .. Len(Stored)
                BY <2>1, <3>2, StoredList DEF Loop
            <4>2. s = Among(kind[r])[N]
                BY <3>2, ExpectedIs
            <4>3. s \in Seq(E!Element)
                BY <4>1, <4>2, OfKindSteps DEF OfKindStep
            <4> QED
                BY <2>1, <3>2, <4>1, <4>2, <4>3 DEF Compacted
        <3> QED
            BY <3>1, <3>2
    <2>3. \A i \in 1 .. Len(answer[r]) : answer[r][i] = s[i]
        BY <2>1, ExpectedIs DEF AsAsked
    <2> QED
        BY <2>1, <2>2, <2>3, SeqEqual
<1>2. (panel = "listing" => ListingInv) => UnfilteredAnswers
    BY <1>1 DEF UnfilteredAnswers
<1> QED
    BY <1>2, ListingSpec, PTL

-----------------------------------------------------------------------------
(* Disk: while nothing else changes the engine, each call of a prune finds *)
(* what the modal was made of, or what the calls before it released.       *)

DiskTypes ==
    /\ ctr = [c \in EngineContainer |-> ctr[c]]
    /\ records = [all |-> records.all, used |-> records.used]
    /\ op \in S!Op

(* The calls to come, which are some last ones of those a prune makes.     *)
Plan(o) == IF o.act = "remove" THEN <<"remove">> ELSE S!Calls(o)
Queue ==
    /\ pc # "act" => calls = <<>>
    /\ pc \in {"idle", "modal", "refused"} => deleted = {}
    /\ \/ calls = <<>>
       \/ op.act = "remove" /\ calls = <<"remove">>
       \/ op.act = "prune" /\ op.key \in S!Category /\ calls = <<op.key>>
       \/ /\ op.act = "prune" /\ op.key = "__safe__"
          /\ calls \in {<<"dangling", "buildcache">>, <<"dangling">>, <<"buildcache">>}
       \/ /\ op.act = "prune" /\ op.key = "__all__"
          /\ calls \in {<<"containers", "images", "volumes", "buildcache">>,
                        <<"images", "volumes", "buildcache">>,
                        <<"volumes", "buildcache">>, <<"buildcache">>}

Coming(call) == \E i \in DOMAIN calls : calls[i] = call

(* What the modal spoke of, or what its containers held.                   *)
Spoken(o) ==
    \/ o \in modal.unused
    \/ /\ op.key = "__all__" /\ o[1] \in {"images", "volumes"}
       /\ \E u \in modal.unused \cap deleted : u[1] = "containers"
Unchanged ==
    (calm /\ modal.lost = {}) =>
        /\ pc = "modal" => \A i \in DOMAIN Plan(op) : S!Prunable(Plan(op)[i]) \subseteq modal.unused
        /\ \A call : Coming(call) => \A o \in S!Prunable(call) : Spoken(o)
        /\ \A o \in deleted : Spoken(o)
SafeOnly ==
    op.key = "__safe__" => \A o \in deleted : o[1] = "buildcache" \/ o \in S!Sized("images", dangling)

DiskInv == DiskTypes /\ Queue /\ Unchanged /\ SafeOnly

LEMMA DiskInit == S!Init => DiskInv
<1> SUFFICES ASSUME S!Init PROVE DiskInv
    OBVIOUS
<1>1. calls = <<>> /\ deleted = {} /\ pc = "idle"
    BY DEF S!Init
<1>2. ctr = [c \in EngineContainer |-> ctr[c]]
    BY DEF S!Init
<1>3. records = [all |-> records.all, used |-> records.used]
    BY DEF S!Init
<1>4. op \in S!Op
    BY DEF S!Init, S!Op, S!Category
<1> QED
    BY <1>1, <1>2, <1>3, <1>4 DEF DiskInv, DiskTypes, Queue, Coming, Unchanged, SafeOnly

LEMMA Tails ==
    ASSUME NEW a, NEW b, NEW c, NEW d
    PROVE  /\ Tail(<<a>>) = <<>> /\ Head(<<a>>) = a
           /\ Tail(<<a, b>>) = <<b>> /\ Head(<<a, b>>) = a
           /\ Tail(<<a, b, c>>) = <<b, c>> /\ Head(<<a, b, c>>) = a
           /\ Tail(<<a, b, c, d>>) = <<b, c, d>> /\ Head(<<a, b, c, d>>) = a
OBVIOUS

LEMMA PlanFrame ==
    ASSUME UNCHANGED engine, NEW o PROVE Plan(o)' = Plan(o)
BY DEF Plan, S!Calls

LEMMA PrunableFrame ==
    ASSUME UNCHANGED <<images, dangling, ctr, volumes, records, op>>, NEW call
    PROVE  S!Prunable(call)' = S!Prunable(call)
BY DEF S!Prunable, S!Sized, S!Live, S!Held, S!Mounted

(* What an engine prunes is unused. *)
PrunedUnused ==
    /\ \A call \in S!Category : S!Prunable(call) \subseteq {u \in S!Unused({}) : u[1] = call}
    /\ S!Prunable("dangling") \subseteq {u \in S!Unused({}) : u[1] = "images" /\ u[2] \in dangling}
    /\ S!Prunable("remove") \subseteq {u \in S!Unused({}) : u = <<op.key, op.id>>}

LEMMA PrunableUnused == PrunedUnused
<1>1. S!Prunable("images") \subseteq {u \in S!Unused({}) : u[1] = "images"}
    BY DEF S!Prunable, S!Unused, S!Sized
<1>2. S!Prunable("containers") \subseteq {u \in S!Unused({}) : u[1] = "containers"}
    BY DEF S!Prunable, S!Unused, S!Sized
<1>3. S!Prunable("volumes") \subseteq {u \in S!Unused({}) : u[1] = "volumes"}
    BY DEF S!Prunable, S!Unused, S!Sized
<1>4. S!Prunable("buildcache") \subseteq {u \in S!Unused({}) : u[1] = "buildcache"}
    BY DEF S!Prunable, S!Unused, S!Sized
<1>5. S!Prunable("dangling") \subseteq {u \in S!Unused({}) : u[1] = "images" /\ u[2] \in dangling}
    BY DEF S!Prunable, S!Unused, S!Sized
<1>6. S!Prunable("remove") \subseteq {u \in S!Unused({}) : u = <<op.key, op.id>>}
    BY DEF S!Prunable, S!Unused, S!Sized
<1> QED
    BY <1>1, <1>2, <1>3, <1>4, <1>5, <1>6 DEF PrunedUnused, S!Category

(* The modal of a complete reading names all that the calls would delete.  *)
LEMMA ModalCovers ==
    ASSUME NEW o \in S!Op, S!Confirm(o), pc' = "modal", modal'.lost = {}
    PROVE  \A i \in DOMAIN Plan(o) : S!Prunable(Plan(o)[i])' \subseteq modal'.unused
<1> DEFINE unused == S!Unused({})
           loose == {i \in dangling : <<"images", i>> \in unused}
           shown == CASE o.act = "remove" -> unused \cap {<<o.key, o.id>>}
                      [] o.key = "__safe__" ->
                           {u \in unused : u[1] = "buildcache" \/ u \in S!Sized("images", loose)}
                      [] o.key = "__all__" -> unused
                      [] OTHER -> {u \in unused : u[1] = o.key}
<1>1. modal'.unused = shown
    BY SMTT(30) DEF S!Confirm
<1>2. op' = o /\ UNCHANGED <<engine, images, dangling, ctr, volumes, records>>
    BY DEF S!Confirm, S!engineVars
<1>3. Plan(o)' = Plan(o) /\ unused' = unused
    BY <1>2, PlanFrame DEF S!Unused, S!Sized, S!Live, S!Held, S!Mounted
<1>4. /\ \A call \in S!Category : S!Prunable(call)' \subseteq {u \in unused : u[1] = call}
      /\ S!Prunable("dangling")' \subseteq {u \in unused : u[1] = "images" /\ u[2] \in dangling}
      /\ S!Prunable("remove")' \subseteq {u \in unused : u = <<o.key, o.id>>}
    <2>1. PrunedUnused'
        BY PrunableUnused, PTL
    <2> QED
        BY <1>2, <1>3, <2>1 DEF PrunedUnused
<1> HIDE DEF unused
<1>5. CASE o.act = "remove"
    <2>1. Plan(o) = <<"remove">> /\ shown = unused \cap {<<o.key, o.id>>}
        BY <1>5 DEF Plan, S!Op, S!Category
    <2> QED
        BY <1>1, <1>3, <1>4, <2>1
<1>6. CASE o.act = "prune" /\ o.key = "__safe__"
    <2>1. /\ \A i \in DOMAIN Plan(o) : Plan(o)[i] \in {"dangling", "buildcache"}
          /\ shown = {u \in unused : u[1] = "buildcache" \/ u \in S!Sized("images", loose)}
        BY <1>6 DEF Plan, S!Calls
    <2>2. S!Prunable("buildcache")' \subseteq shown
        BY <1>4, <2>1 DEF S!Category
    <2>3. \A u \in unused : u[1] = "images" => \E i : u = <<"images", i>>
        BY DEF unused, S!Unused, S!Sized
    <2>4. S!Prunable("dangling")' \subseteq shown
        BY <1>4, <2>1, <2>3 DEF S!Sized
    <2> QED
        BY <1>1, <1>3, <2>1, <2>2, <2>4
<1>7. CASE o.act = "prune" /\ o.key = "__all__"
    <2>1. (\A i \in DOMAIN Plan(o) : Plan(o)[i] \in S!Category) /\ shown = unused
        BY <1>7 DEF Plan, S!Calls, S!Category
    <2> QED
        BY <1>1, <1>3, <1>4, <2>1
<1>8. CASE o.act = "prune" /\ o.key \in S!Category
    <2>1. Plan(o) = <<o.key>> /\ shown = {u \in unused : u[1] = o.key}
        BY <1>8 DEF Plan, S!Calls, S!Category
    <2> QED
        BY <1>1, <1>3, <1>4, <1>8, <2>1
<1> QED
    BY <1>5, <1>6, <1>7, <1>8 DEF S!Op

(* What a call leaves to the ones after it: only the removal of containers *)
(* makes images and volumes unused.                                        *)
LEMMA AfterDelete ==
    ASSUME DiskTypes, NEW gone, S!Delete(gone), UNCHANGED <<dangling, op>>, \A u \in gone : u[1] # "containers"
    PROVE  \A call : S!Prunable(call)' \subseteq S!Prunable(call)
<1>1. ctr' = ctr
    <2>1. \A c \in EngineContainer : <<"containers", c>> \notin gone
        OBVIOUS
    <2> QED
        BY <2>1 DEF DiskTypes, S!Delete
<1>2. images' \subseteq images /\ volumes' \subseteq volumes
    BY DEF S!Delete
<1>3. records'.all \subseteq records.all /\ records'.used = records.used
    BY DEF DiskTypes, S!Delete
<1> QED
    BY <1>1, <1>2, <1>3 DEF S!Prunable, S!Sized, S!Live, S!Held, S!Mounted

LEMMA DiskNext == DiskInv /\ [S!Next]_(S!vars) => DiskInv'
<1> SUFFICES ASSUME DiskInv, [S!Next]_(S!vars) PROVE DiskInv'
    OBVIOUS
<1>1. ASSUME NEW o \in S!Op, S!Confirm(o) PROVE DiskInv'
    <2>1. UNCHANGED <<engine, images, dangling, ctr, volumes, records, calls, deleted, calm>>
          /\ pc = "idle" /\ op' = o /\ pc' \in {"modal", "refused"}
        BY <1>1 DEF S!Confirm, S!engineVars
    <2>2. calls = <<>> /\ deleted = {}
        BY <2>1 DEF DiskInv, Queue
    <2>3. DiskTypes' /\ Queue' /\ SafeOnly'
        BY <2>1, <2>2 DEF DiskInv, DiskTypes, Queue, SafeOnly
    <2>4. Unchanged'
        <3>1. pc' = "modal" /\ modal'.lost = {} =>
                \A i \in DOMAIN Plan(o) : S!Prunable(Plan(o)[i])' \subseteq modal'.unused
            BY <1>1, ModalCovers
        <3>2. Plan(op)' = Plan(o)
            BY <2>1 DEF Plan, S!Calls
        <3> QED
            BY <2>1, <2>2, <3>1, <3>2 DEF Unchanged, Coming
    <2> QED
        BY <2>3, <2>4 DEF DiskInv
<1>2. CASE S!Proceed
    <2>1. UNCHANGED <<engine, images, dangling, ctr, volumes, records, op, modal, deleted, calm>>
          /\ pc = "modal" /\ calls' = Plan(op) /\ pc' = "act"
        BY <1>2 DEF S!Proceed, S!engineVars, Plan
    <2>2. DiskTypes' /\ SafeOnly' /\ deleted = {}
        BY <2>1 DEF DiskInv, DiskTypes, Queue, SafeOnly
    <2>3. Queue'
        BY <2>1 DEF DiskInv, DiskTypes, Queue, Plan, S!Calls, S!Op, S!Category
    <2>4. Unchanged'
        <3>1. \A call : S!Prunable(call)' = S!Prunable(call)
            BY <2>1, PrunableFrame
        <3> QED
            BY <2>1, <2>2, <3>1 DEF DiskInv, Unchanged, Coming, Spoken
    <2> QED
        BY <2>2, <2>3, <2>4 DEF DiskInv
<1>3. CASE S!Call
    <2>1. /\ UNCHANGED <<engine, pc, op, modal, dangling, calm>> /\ pc = "act" /\ calls # <<>>
          /\ calls' = Tail(calls)
          /\ S!Delete(S!Prunable(Head(calls))) \/ UNCHANGED <<images, ctr, volumes, records, deleted>>
        BY <1>3 DEF S!Call, S!engineVars
    <2>2. DiskTypes'
        BY <2>1 DEF DiskInv, DiskTypes, S!Delete
    <2>3. Queue' /\ (calls' # <<>> => op.key \in {"__safe__", "__all__"})
        <3>1. CASE op.act = "remove" /\ calls = <<"remove">>
            BY <2>1, <3>1 DEF Queue
        <3>2. CASE op.act = "prune" /\ op.key \in S!Category /\ calls = <<op.key>>
            BY <2>1, <3>2 DEF Queue
        <3>3. CASE op.act = "prune" /\ op.key = "__safe__"
            <4>1. calls \in {<<"dangling", "buildcache">>, <<"dangling">>, <<"buildcache">>}
                BY <2>1, <3>3 DEF DiskInv, Queue, S!Category
            <4>2. /\ Tail(<<"dangling", "buildcache">>) = <<"buildcache">>
                  /\ Tail(<<"dangling">>) = <<>> /\ Tail(<<"buildcache">>) = <<>>
                BY Tails
            <4>3. Tail(calls) \in {<<"buildcache">>, <<>>}
                BY <4>1, <4>2
            <4> QED
                BY <2>1, <3>3, <4>3 DEF Queue
        <3>4. CASE op.act = "prune" /\ op.key = "__all__"
            <4>1. calls \in {<<"containers", "images", "volumes", "buildcache">>,
                            <<"images", "volumes", "buildcache">>,
                            <<"volumes", "buildcache">>, <<"buildcache">>}
                BY <2>1, <3>4 DEF DiskInv, Queue, S!Category
            <4>2. /\ Tail(<<"containers", "images", "volumes", "buildcache">>) = <<"images", "volumes", "buildcache">>
                  /\ Tail(<<"images", "volumes", "buildcache">>) = <<"volumes", "buildcache">>
                  /\ Tail(<<"volumes", "buildcache">>) = <<"buildcache">> /\ Tail(<<"buildcache">>) = <<>>
                BY Tails
            <4>3. Tail(calls) \in {<<"images", "volumes", "buildcache">>, <<"volumes", "buildcache">>,
                                  <<"buildcache">>, <<>>}
                BY <4>1, <4>2
            <4> QED
                BY <2>1, <3>4, <4>3 DEF Queue
        <3> QED
            BY <2>1, <3>1, <3>2, <3>3, <3>4 DEF DiskInv, Queue
    <2>4. \A call : Coming(call)' => Coming(call)
        BY <2>1 DEF DiskInv, Queue, Coming
    <2>5. CASE UNCHANGED <<images, ctr, volumes, records, deleted>>
        <3>1. \A call : S!Prunable(call)' = S!Prunable(call)
            BY <2>1, <2>5, PrunableFrame
        <3> QED
            BY <2>1, <2>2, <2>3, <2>4, <2>5, <3>1 DEF DiskInv, Unchanged, Spoken, SafeOnly, S!Sized
    <2>6. CASE S!Delete(S!Prunable(Head(calls)))
        <3> DEFINE gone == S!Prunable(Head(calls))
        <3>1. deleted' = deleted \cup gone /\ 1 \in DOMAIN calls /\ Head(calls) = calls[1]
            BY <2>1, <2>6 DEF DiskInv, Queue, S!Delete
        <3>2. SafeOnly'
            <4>1. op.key = "__safe__" /\ op.act = "prune" => Head(calls) \in {"dangling", "buildcache"}
                BY <2>1 DEF DiskInv, Queue, S!Category
            <4>2. op.key = "__safe__" => op.act = "prune"
                BY DEF DiskInv, DiskTypes, S!Op, S!Category
            <4>3. \A u \in S!Prunable("dangling") : u \in S!Sized("images", dangling)
                BY DEF S!Prunable, S!Sized
            <4>4. \A u \in S!Prunable("buildcache") : u[1] = "buildcache"
                BY DEF S!Prunable, S!Sized
            <4> QED
                BY <2>1, <3>1, <4>1, <4>2, <4>3, <4>4 DEF DiskInv, SafeOnly, S!Sized
        <3>3. Unchanged'
            <4> SUFFICES ASSUME calm, modal.lost = {}
                         PROVE  /\ \A call : Coming(call)' => \A o \in S!Prunable(call)' : Spoken(o)'
                                /\ \A o \in deleted' : Spoken(o)'
                BY <2>1 DEF Unchanged
            <4>1. \A o : Spoken(o) => Spoken(o)'
                BY <2>1, <3>1 DEF Spoken
            <4>2. \A o \in deleted' : Spoken(o)'
                BY <3>1, <4>1 DEF DiskInv, Unchanged, Coming
            <4>3. CASE \A u \in gone : u[1] # "containers"
                <5>1. \A call : S!Prunable(call)' \subseteq S!Prunable(call)
                    BY <2>1, <2>6, <4>3, AfterDelete DEF DiskInv
                <5> QED
                    BY <2>4, <4>1, <4>2, <5>1 DEF DiskInv, Unchanged
            <4>4. CASE \E u \in gone : u[1] = "containers"
                <5>1. PICK u \in gone : u[1] = "containers"
                    BY <4>4
                <5>2. Head(calls) \in {"containers", "remove"}
                    <6>1. Head(calls) \in {"dangling", "remove"} \cup S!Category
                        BY <2>1 DEF DiskInv, Queue, S!Category
                    <6> QED
                        <7>1. CASE Head(calls) = "dangling"
                            BY <5>1, <7>1, PrunableUnused DEF PrunedUnused
                        <7>2. CASE Head(calls) \in S!Category
                            <8>1. \A o \in S!Prunable(Head(calls)) : o[1] = Head(calls)
                                BY <7>2, PrunableUnused DEF PrunedUnused
                            <8> QED
                                BY <5>1, <8>1
                        <7> QED
                            BY <6>1, <7>1, <7>2
                <5>3. CASE calls' = <<>>
                    BY <4>2, <5>3 DEF Coming
                <5>4. CASE op.key = "__all__" /\ calls' = <<"images", "volumes", "buildcache">>
                    <6>1. u \in modal.unused
                        BY <2>1, <3>1, <5>1 DEF DiskInv, Unchanged, Coming, Spoken
                    <6>2. \A o : o[1] \in {"images", "volumes"} => Spoken(o)'
                        BY <2>1, <3>1, <5>1, <5>4, <6>1 DEF Spoken
                    <6>3. \A call : Coming(call)' => call \in {"images", "volumes", "buildcache"}
                        BY <5>4 DEF Coming
                    <6>4. PrunedUnused'
                        BY PrunableUnused, PTL
                    <6>5. \A call \in {"images", "volumes"} : \A o \in S!Prunable(call)' : o[1] \in {"images", "volumes"}
                        BY <6>4 DEF PrunedUnused, S!Category
                    <6>6. S!Prunable("buildcache")' \subseteq S!Prunable("buildcache")
                        <7>1. records'.all \subseteq records.all /\ records'.used = records.used
                            BY <2>6 DEF DiskInv, DiskTypes, S!Delete
                        <7> QED
                            BY <7>1 DEF S!Prunable, S!Sized
                    <6>7. \A o \in S!Prunable("buildcache") : Spoken(o)
                        <7>1. Coming("buildcache")'
                            BY <5>4 DEF Coming
                        <7> QED
                            BY <2>4, <7>1 DEF DiskInv, Unchanged
                    <6> QED
                        BY <4>1, <4>2, <6>2, <6>3, <6>5, <6>6, <6>7
                <5> QED
                    <6>1. CASE op.act = "prune" /\ op.key \in {"__safe__", "__all__"}
                        <7>1. op.key = "__all__" /\ calls = <<"containers", "images", "volumes", "buildcache">>
                            <8>1. calls \in {<<"dangling", "buildcache">>, <<"dangling">>, <<"buildcache">>,
                                            <<"images", "volumes", "buildcache">>,
                                            <<"volumes", "buildcache">>} =>
                                  Head(calls) \in {"dangling", "images", "volumes", "buildcache"}
                                BY Tails
                            <8> QED
                                BY <2>1, <5>2, <6>1, <8>1 DEF DiskInv, Queue, S!Category
                        <7> QED
                            BY <2>1, <5>4, <7>1, Tails
                    <6> QED
                        BY <2>3, <5>3, <6>1 DEF DiskInv, DiskTypes, S!Op, S!Category
            <4> QED
                BY <4>3, <4>4
        <3> QED
            BY <2>2, <2>3, <3>2, <3>3 DEF DiskInv
    <2> QED
        BY <2>1, <2>5, <2>6
<1>4. CASE S!Finish
    <2>1. UNCHANGED <<engine, images, dangling, ctr, volumes, records, op, modal, deleted, calls, calm>>
          /\ calls = <<>> /\ pc' \notin {"idle", "modal", "refused", "act"}
        BY <1>4 DEF S!Finish, S!engineVars
    <2> QED
        BY <2>1 DEF DiskInv, DiskTypes, Queue, Unchanged, Coming, Spoken, SafeOnly
<1>5. CASE S!Event
    <2>1. UNCHANGED <<engine, images, volumes, records, pc, op, modal, calls, deleted>> /\ ~calm'
          /\ dangling \subseteq dangling'
        BY <1>5 DEF S!Event
    <2>2. DiskTypes'
        BY <1>5, <2>1 DEF DiskInv, DiskTypes, S!Event
    <2> QED
        BY <2>1, <2>2 DEF DiskInv, Queue, Unchanged, SafeOnly, S!Sized
<1>6. CASE UNCHANGED S!vars
    <2>1. UNCHANGED <<engine, images, dangling, ctr, volumes, records, pc, op, modal, calls, deleted, calm>>
        BY <1>6 DEF S!vars, S!engineVars
    <2>2. (\A call : S!Prunable(call)' = S!Prunable(call)) /\ Plan(op)' = Plan(op)
        BY <2>1, PrunableFrame DEF Plan, S!Calls
    <2> QED
        BY <2>1, <2>2 DEF DiskInv, DiskTypes, Queue, Unchanged, Coming, Spoken, SafeOnly, S!Sized
<1> QED
    BY <1>1, <1>2, <1>3, <1>4, <1>5, <1>6 DEF S!Next

(* A prune deletes nothing that its confirm modal did not cover.           *)
THEOREM ModalIsKept == Spec => []ConfirmCovers
<1> DEFINE Inv == panel = "system" => DiskInv
<1>1. Init => Inv
    BY DiskInit DEF Init
<1>2. Inv /\ [Next]_vars => Inv'
    <2>1. [Next]_vars => UNCHANGED panel /\ (panel = "system" => [S!Next]_(S!vars))
        BY DEF Next, vars, S!vars, S!engineVars, systemOwn
    <2> QED
        BY <2>1, DiskNext
<1>3. Inv => ConfirmCovers
    BY DEF ConfirmCovers, S!ConfirmCovers, DiskInv, Unchanged, Spoken, SafeOnly
<1> QED
    BY <1>1, <1>2, <1>3, PTL DEF Spec

=============================================================================
