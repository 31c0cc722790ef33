-------------------------- MODULE PortproxyProofs --------------------------
(***************************************************************************)
(* Proofs about the Windows tier, for any bridges, declarations and foreign*)
(* rules: that netsh's output is read back as the table it was printed     *)
(* from, that the comparison and the scripts agree, and that an operation  *)
(* leaves the state of other bridges alone.                                *)
(***************************************************************************)
EXTENDS Portproxy, TLAPS, FiniteSetTheorems, SequenceTheorems, WellFoundedInduction

(* Naturals: a set of them has a least element, and one that has 0 and is  *)
(* closed under successor has all.                                         *)
LEMMA Least ==
    ASSUME NEW T, T \subseteq Nat, T # {}
    PROVE  \E x \in T : \A y \in T : x <= y
<1> DEFINE R == {p \in Nat \X Nat : p[1] < p[2]}
<1>1. IsWellFoundedOn(R, Nat)
    <2>1. R = OpToRel(<, Nat)
        BY DEF OpToRel
    <2> QED
        BY <2>1, NatLessThanWellFounded
<1>2. \E x \in T : \A y \in T : ~(<<y, x>> \in R)
    <2> HIDE DEF R
    <2> QED
        BY <1>1, WFMin
<1>3. PICK x \in T : \A y \in T : ~(<<y, x>> \in R)
    BY <1>2
<1>4. \A y \in T : <<y, x>> \in R \/ x <= y
    BY Z3
<1> QED
    BY <1>3, <1>4

LEMMA UpTo ==
    ASSUME NEW N, N \in Nat, NEW T, 0 \in T, \A n \in 1 .. N : n - 1 \in T => n \in T
    PROVE  \A n \in 0 .. N : n \in T
<1> SUFFICES ASSUME {n \in 0 .. N : n \notin T} # {} PROVE FALSE
    OBVIOUS
<1>1. PICK x \in 0 .. N : x \notin T /\ \A y \in 0 .. N : y \notin T => x <= y
    <2> DEFINE M == {n \in 0 .. N : n \notin T}
    <2>1. M \subseteq Nat /\ M # {}
        OBVIOUS
    <2> HIDE DEF M
    <2>2. PICK x \in M : \A y \in M : x <= y
        BY <2>1, Least
    <2> QED
        BY <2>2 DEF M
<1>2. x \in 1 .. N /\ x - 1 \in 0 .. N /\ ~(x <= x - 1)
    BY <1>1
<1> QED
    BY <1>1, <1>2

-----------------------------------------------------------------------------
(* What the table is, and what decides about a bridge: the rules at its    *)
(* endpoint, of which netsh lists the one of type v4tov4 first.            *)

Function(t) == \A e, f \in t : e.type = f.type /\ e.listen = f.listen => e = f
Table(t) == t \subseteq Entry /\ IsFiniteSet(t) /\ Function(t)

At(t, l) == {e \in t : e.listen = l}
First(A) == CHOOSE e \in A : e.type = "v4tov4" \/ \A f \in A : f.type # "v4tov4"

Verdict(b, A, answers) ==
    IF ListenOf(b).addr = NoIP THEN "unknown"
    ELSE IF A = {} THEN "missing"
    ELSE IF Compare(b, First(A)) = "drifted" THEN "drifted"
    ELSE IF answers THEN "active" ELSE "degraded"

Endpoint == [addr : Address, port : Port]

(* A rule is its fields, and its type tells what it listens on. *)
LEMMA EntryFields ==
    ASSUME NEW e \in Entry
    PROVE  /\ e = [type |-> e.type, listen |-> e.listen, connect |-> e.connect]
           /\ e.type \in {"v4tov4", "v4tov6", "v6tov4", "v6tov6"}
           /\ DOMAIN e = {"type", "listen", "connect"}
           /\ e.listen \in Endpoint => e.type \in {"v4tov4", "v4tov6"}
           /\ e.type \in {"v4tov4", "v4tov6"} => e.listen \in Endpoint
<1>1. CASE e \in [type : {"v4tov4", "v4tov6"}, listen : [addr : Address, port : Port], connect : Target]
    BY <1>1 DEF Endpoint
<1>2. CASE e \in [type : {"v6tov4", "v6tov6"}, listen : [addr : Address6, port : Port], connect : Target]
    <2>1. e.listen.addr \notin Address
        BY <1>2, AddressAssumption
    <2> QED
        BY <1>2, <2>1 DEF Endpoint
<1> QED
    BY <1>1, <1>2 DEF Entry

(* With an address of the adapter a bridge has an endpoint. *)
LEMMA RuleAt ==
    ASSUME conf \in Declared, hostIP \in Address, NEW b \in Bridge
    PROVE  /\ ListenOf(b) \in Endpoint
           /\ conf[b].connect \in Target /\ ListenOf(b).addr # NoIP
<1>1. conf[b] \in Declaration
    BY DeclaredAssumption
<1>2. conf[b].listen \in Listen /\ conf[b].connect \in Target
    BY <1>1 DEF Declaration
<1>3. ListenOf(b) \in Endpoint
    BY <1>2 DEF Listen, ListenOf, Endpoint
<1> QED
    BY <1>2, <1>3, AddressAssumption DEF Endpoint

-----------------------------------------------------------------------------
(* The output of netsh and its parser. *)

(* The rows of a section are the rules of its type. *)
LEMMA RowsOf ==
    ASSUME NEW T, IsFiniteSet(T)
    PROVE  /\ SetToSeq(T) \in Seq(T)
           /\ \A x \in T : \E i \in 1 .. Len(SetToSeq(T)) : SetToSeq(T)[i] = x
<1> DEFINE n == Cardinality(T)
           f == SetToSeq(T)
<1>1. n \in Nat /\ ExistsBijection(1 .. n, T)
    BY FS_CardinalityType
<1>3. PICK g : g \in Bijection(1 .. n, T)
    BY <1>1 DEF ExistsBijection
<1>4. g \in [1 .. n -> T] /\ IsInjective(g)
    BY <1>3 DEF Bijection, Injection, IsInjective
<1>5. f = CHOOSE h \in [1 .. n -> T] : IsInjective(h)
    BY DEF SetToSeq
<1> HIDE DEF f, n
<1>6. f \in [1 .. n -> T] /\ IsInjective(f)
    BY <1>4, <1>5
<1>7. f \in Injection(1 .. n, T)
    BY <1>6 DEF Injection, IsInjective
<1>8. IsFiniteSet(1 .. n) /\ Cardinality(1 .. n) = n
    BY <1>1, FS_Interval
<1>9. f \in Surjection(1 .. n, T)
    BY <1>7, <1>8, FS_Injection DEF n
<1>10. f \in Seq(T) /\ Len(f) = n
    BY <1>1, <1>6
<1> QED
    BY <1>9, <1>10 DEF Surjection, f

Types == {"v4tov4", "v4tov6", "v6tov4", "v6tov6"}
Line == Entry \cup {Header(k) : k \in Types}

(* Headers and rows are told apart. *)
LEMMA Lines ==
    /\ \A e \in Entry : ~IsHeader(e)
    /\ \A k \in Types : IsHeader(Header(k)) /\ Header(k).header = k /\ SectionType(Header(k))
    /\ \A x \in Line : IsHeader(x) => \E k \in Types : x = Header(k)
<1>1. \A e \in Entry : ~IsHeader(e)
    <2> TAKE e \in Entry
    <2>1. DOMAIN e = {"type", "listen", "connect"}
        BY EntryFields
    <2> QED
        BY <2>1 DEF IsHeader
<1>2. \A k \in Types : IsHeader(Header(k)) /\ Header(k).header = k /\ SectionType(Header(k))
    BY DEF Types, Header, IsHeader, SectionType
<1> QED
    BY <1>1, <1>2 DEF Line

(* Lines that print a table: each rule is a row of the section of its      *)
(* type, with no other header between, and no row is anything else.        *)
Under(lines, i, h) == lines[h] = Header(lines[i].type) /\ \A j \in h + 1 .. i : ~IsHeader(lines[j])
Printed(lines, t) ==
    /\ lines \in Seq(Line)
    /\ \A i \in 1 .. Len(lines) : ~IsHeader(lines[i]) =>
            lines[i] \in t /\ \E h \in 1 .. i : Under(lines, i, h)
    /\ \A e \in t : \E i \in 1 .. Len(lines) : lines[i] = e
    /\ \A i, j \in 1 .. Len(lines) :
            (/\ ~IsHeader(lines[i]) /\ lines[i].type = "v4tov4"
             /\ ~IsHeader(lines[j]) /\ lines[j].type = "v4tov6") => i < j

(* The lines u are those of another print with a section put after them.   *)
Extends(u, lines, k, T) ==
    LET m == Len(lines) IN
    /\ u \in Seq(Line) /\ Len(u) >= m + 1
    /\ \A i \in 1 .. Len(u) :
        \/ i <= m /\ u[i] = lines[i]
        \/ i = m + 1 /\ u[i] = Header(k)
        \/ i > m + 1 /\ u[i] \in T
    /\ \A e \in T : \E i \in 1 .. Len(u) : u[i] = e

LEMMA SectionExtends ==
    ASSUME NEW t, t \subseteq Entry, IsFiniteSet(t), NEW k \in Types, NEW lines \in Seq(Line)
    PROVE  Extends(lines \o Section(t, k), lines, k, {e \in t : e.type = k})
<1> DEFINE T == {e \in t : e.type = k}
           r == SetToSeq(T)
           m == Len(lines)
           n == Len(r)
           s == <<Header(k)>> \o r
           u == lines \o s
<1>1. r \in Seq(T) /\ \A x \in T : \E i \in 1 .. n : r[i] = x
    <2>1. IsFiniteSet(T)
        BY FS_Subset
    <2> QED
        BY <2>1, RowsOf
<1>2. T \subseteq Line /\ Header(k) \in Line
    BY DEF Line
<1> HIDE DEF T, r
<1>3. r \in Seq(Line) /\ <<Header(k)>> \in Seq(Line) /\ m \in Nat /\ n \in Nat
    BY <1>1, <1>2, LenProperties
<1>4. /\ s \in Seq(Line) /\ Len(s) = n + 1 /\ s[1] = Header(k)
      /\ \A j \in 2 .. n + 1 : s[j] = r[j - 1]
    BY <1>3, ConcatProperties
<1> HIDE DEF s
<1>5. /\ u \in Seq(Line) /\ Len(u) = m + (n + 1)
      /\ \A i \in 1 .. m + (n + 1) : u[i] = IF i <= m THEN lines[i] ELSE s[i - m]
    <2>1. /\ u \in Seq(Line) /\ Len(u) = m + Len(s)
          /\ \A i \in 1 .. m + Len(s) : u[i] = IF i <= m THEN lines[i] ELSE s[i - m]
        BY ONLY <1>4, lines \in Seq(Line), ConcatProperties
    <2> QED
        BY <1>4, <2>1
<1> HIDE DEF u, m, n
<1>6. ASSUME NEW i \in 1 .. Len(u)
      PROVE  \/ i <= m /\ u[i] = lines[i]
             \/ i = m + 1 /\ u[i] = Header(k)
             \/ i > m + 1 /\ u[i] \in T
    <2>1. CASE i <= m
        BY <1>3, <1>5, <2>1
    <2>2. CASE i = m + 1
        <3>1. ~(i <= m) /\ i - m = 1
            BY <1>3, <2>2
        <3> QED
            BY <1>4, <1>5, <2>2, <3>1
    <2>3. CASE i > m + 1
        <3>1. ~(i <= m) /\ i - m \in 2 .. n + 1 /\ (i - m) - 1 \in 1 .. n
            BY <1>3, <1>5, <2>3
        <3>2. u[i] = r[(i - m) - 1]
            BY <1>4, <1>5, <3>1
        <3>3. r[(i - m) - 1] \in T
            BY <1>1, <3>1, ElementOfSeq DEF n
        <3> QED
            BY <2>3, <3>2, <3>3
    <2> QED
        BY <1>3, <1>5, <2>1, <2>2, <2>3
<1>7. ASSUME NEW e \in T PROVE \E i \in 1 .. Len(u) : u[i] = e
    <2>1. PICK i \in 1 .. n : r[i] = e
        BY <1>1
    <2>2. i + 1 \in 2 .. n + 1 /\ (i + 1) - 1 = i /\ m + (i + 1) \in 1 .. Len(u) /\ ~(m + (i + 1) <= m)
          /\ (m + (i + 1)) - m = i + 1
        BY <1>3, <1>5
    <2>3. u[m + (i + 1)] = s[i + 1] /\ s[i + 1] = r[i]
        BY <1>4, <1>5, <2>2
    <2> QED
        BY <2>1, <2>2, <2>3
<1>8. Extends(u, lines, k, T)
    BY <1>3, <1>5, <1>6, <1>7 DEF Extends, m
<1> QED
    BY <1>8 DEF u, s, r, T, Section

LEMMA Prints ==
    ASSUME NEW lines, NEW t, t \subseteq Entry, Printed(lines, t), NEW k \in Types,
           NEW T, T \subseteq Entry, \A e \in T : e.type = k,
           k = "v4tov4" => \A e \in t : e.type # "v4tov6",
           NEW u, Extends(u, lines, k, T)
    PROVE  Printed(u, t \cup T)
<1> DEFINE m == Len(lines)
<1>0. m \in Nat /\ Len(u) \in Nat /\ lines \in Seq(Line)
    BY LenProperties DEF Printed, Extends
<1>1. \A i \in 1 .. Len(u) :
        \/ i <= m /\ u[i] = lines[i]
        \/ i = m + 1 /\ u[i] = Header(k)
        \/ i > m + 1 /\ u[i] \in T
    BY DEF Extends
<1>2. u \in Seq(Line) /\ Len(u) >= m + 1 /\ \A e \in T : \E i \in 1 .. Len(u) : u[i] = e
    BY DEF Extends
<1> HIDE DEF m
<1>3. IsHeader(Header(k)) /\ \A e \in T : ~IsHeader(e)
    BY Lines
<1>4. \A i \in 1 .. m : i \in 1 .. Len(u) /\ u[i] = lines[i]
    BY <1>0, <1>1, <1>2
<1>5. ASSUME NEW i \in 1 .. Len(u), ~IsHeader(u[i])
      PROVE  /\ u[i] \in t \cup T /\ \E h \in 1 .. i : Under(u, i, h)
             /\ IF i <= m THEN u[i] = lines[i] /\ u[i] \in t ELSE u[i] \in T
    <2>1. CASE i <= m
        <3>1. i \in 1 .. m /\ u[i] = lines[i]
            BY <1>0, <1>4, <2>1
        <3>2. lines[i] \in t /\ \E h \in 1 .. i : Under(lines, i, h)
            BY <1>5, <3>1 DEF Printed, m
        <3>3. PICK h \in 1 .. i : Under(lines, i, h)
            BY <3>2
        <3>4. h \in 1 .. m /\ \A j \in h + 1 .. i : j \in 1 .. m
            BY <1>0, <3>1
        <3>5. Under(u, i, h)
            BY <1>4, <3>1, <3>3, <3>4 DEF Under
        <3> QED
            BY <2>1, <3>1, <3>2, <3>5
    <2>2. CASE ~(i <= m)
        <3>1. i > m + 1 /\ u[i] \in T
            BY <1>1, <1>3, <1>5, <2>2
        <3>2. m + 1 \in 1 .. i /\ m + 1 \in 1 .. Len(u) /\ ~(m + 1 <= m)
            BY <1>0, <3>1
        <3>3. u[m + 1] = Header(k)
            BY <1>0, <1>1, <3>2
        <3>4. \A j \in (m + 1) + 1 .. i : u[j] \in T
            BY <1>0, <1>1
        <3>5. Under(u, i, m + 1)
            BY <1>3, <3>1, <3>3, <3>4 DEF Under
        <3> QED
            BY <2>2, <3>1, <3>2, <3>5
    <2> QED
        BY <2>1, <2>2
<1>6. ASSUME NEW e \in t \cup T PROVE \E i \in 1 .. Len(u) : u[i] = e
    <2>1. CASE e \in t
        <3>1. PICK i \in 1 .. m : lines[i] = e
            BY <2>1 DEF Printed, m
        <3> QED
            BY <1>4, <3>1
    <2> QED
        BY <1>2, <2>1
<1>7. ASSUME NEW i \in 1 .. Len(u), NEW j \in 1 .. Len(u),
             ~IsHeader(u[i]), u[i].type = "v4tov4", ~IsHeader(u[j]), u[j].type = "v4tov6"
      PROVE  i < j
    <2>1. IF i <= m THEN u[i] = lines[i] /\ u[i] \in t ELSE u[i] \in T
        BY <1>5, <1>7
    <2>2. IF j <= m THEN u[j] = lines[j] /\ u[j] \in t ELSE u[j] \in T
        BY <1>5, <1>7
    <2>3. CASE i <= m /\ j <= m
        <3>1. i \in 1 .. m /\ j \in 1 .. m
            BY <1>0, <2>3
        <3> QED
            BY <1>7, <2>1, <2>2, <2>3, <3>1 DEF Printed, m
    <2>4. CASE i <= m /\ ~(j <= m)
        BY <1>0, <2>4
    <2>5. CASE ~(i <= m)
        <3>1. k = "v4tov4"
            BY <1>7, <2>1, <2>5
        <3>2. u[j] \notin T /\ u[j] \notin t
            BY <1>7, <3>1
        <3> QED
            BY <2>2, <3>2
    <2> QED
        BY <2>3, <2>4, <2>5
<1> QED
    BY <1>2, <1>5, <1>6, <1>7 DEF Printed

LEMMA ShowPrints ==
    ASSUME NEW t, Table(t)
    PROVE  Printed(Show(t), t)
<1> DEFINE T(k) == {e \in t : e.type = k}
           l1 == Section(t, "v4tov4")
           l2 == l1 \o Section(t, "v4tov6")
           l3 == l2 \o Section(t, "v6tov4")
<1>0. t \subseteq Entry /\ IsFiniteSet(t)
    BY DEF Table
<1>1. Printed(<<>>, {})
    BY DEF Printed
<1>2. Extends(<<>> \o l1, <<>>, "v4tov4", T("v4tov4"))
    BY <1>0, <1>1, SectionExtends DEF Types, Printed
<1>3. <<>> \o l1 = l1
    <2>1. SetToSeq(T("v4tov4")) \in Seq(Line)
        <3>1. IsFiniteSet(T("v4tov4")) /\ T("v4tov4") \subseteq Line
            BY <1>0, FS_Subset DEF Line
        <3> QED
            BY <3>1, RowsOf
    <2>2. l1 \in Seq(Line)
        BY <2>1, ConcatProperties DEF Section, Line, Types
    <2> HIDE DEF l1
    <2> QED
        BY <2>2, ConcatEmptySeq
<1>4. Printed(l1, {} \cup T("v4tov4"))
    <2> HIDE DEF l1
    <2> QED
        BY <1>0, <1>1, <1>2, <1>3, Prints DEF Types
<1>5. Printed(l2, ({} \cup T("v4tov4")) \cup T("v4tov6"))
    <2>1. Extends(l2, l1, "v4tov6", T("v4tov6"))
        BY <1>0, <1>4, SectionExtends DEF Types, Printed
    <2> HIDE DEF l1, l2
    <2> QED
        BY <1>0, <1>4, <2>1, Prints DEF Types
<1>6. Printed(l3, (({} \cup T("v4tov4")) \cup T("v4tov6")) \cup T("v6tov4"))
    <2>1. Extends(l3, l2, "v6tov4", T("v6tov4"))
        BY <1>0, <1>5, SectionExtends DEF Types, Printed
    <2> HIDE DEF l2, l3
    <2> QED
        BY <1>0, <1>5, <2>1, Prints DEF Types
<1>7. Printed(Show(t), ((({} \cup T("v4tov4")) \cup T("v4tov6")) \cup T("v6tov4")) \cup T("v6tov6"))
    <2>1. Extends(l3 \o Section(t, "v6tov6"), l3, "v6tov6", T("v6tov6"))
        BY <1>0, <1>6, SectionExtends DEF Types, Printed
    <2>2. Show(t) = l3 \o Section(t, "v6tov6")
        BY DEF Show
    <2> HIDE DEF l3
    <2> QED
        BY <1>0, <1>6, <2>1, <2>2, Prints DEF Types
<1>8. ((({} \cup T("v4tov4")) \cup T("v4tov6")) \cup T("v6tov4")) \cup T("v6tov6") = t
    BY <1>0, EntryFields
<1> QED
    BY <1>7, <1>8

(* Every row is read as the rule it shows.                                 *)
LEMMA RowsRead ==
    ASSUME NEW lines, NEW t, t \subseteq Entry, Printed(lines, t)
    PROVE  /\ DOMAIN ParsePortproxyShow(lines) = {i \in 1 .. Len(lines) : ~IsHeader(lines[i])}
           /\ \A i \in DOMAIN ParsePortproxyShow(lines) : ParsePortproxyShow(lines)[i] = lines[i]
<1> DEFINE entries == ParsePortproxyShow(lines)
           sections(i) == {h \in 1 .. i : SectionType(lines[h])}
           rows == {i \in DOMAIN lines : ~IsHeader(lines[i]) /\ sections(i) # {}}
<1>1. DOMAIN lines = 1 .. Len(lines) /\ Len(lines) \in Nat
    BY LenProperties DEF Printed
<1>2. ASSUME NEW i \in 1 .. Len(lines), ~IsHeader(lines[i])
      PROVE  lines[i] \in t /\ sections(i) # {} /\ lines[Max(sections(i))].header = lines[i].type
    <2>1. lines[i] \in t /\ \E h \in 1 .. i : Under(lines, i, h)
        BY <1>2 DEF Printed
    <2>2. PICK h \in 1 .. i : Under(lines, i, h)
        BY <2>1
    <2>3. lines[i].type \in Types
        BY <2>1, EntryFields DEF Types
    <2>4. SectionType(lines[h]) /\ lines[h].header = lines[i].type
        BY <2>2, <2>3, Lines DEF Under
    <2>5. h \in sections(i) /\ \A j \in sections(i) : h >= j
        <3>1. ASSUME NEW j \in sections(i), ~(h >= j) PROVE FALSE
            <4>1. j \in h + 1 .. i /\ IsHeader(lines[j])
                BY <1>1, <3>1 DEF SectionType
            <4> QED
                BY <2>2, <4>1 DEF Under
        <3> QED
            BY <2>4, <3>1
    <2>6. sections(i) \subseteq Nat
        OBVIOUS
    <2> HIDE DEF sections
    <2>7. Max(sections(i)) = h
        <3>1. \A x \in sections(i) : (\A y \in sections(i) : x >= y) => x = h
            BY <2>5, <2>6
        <3>2. Max(sections(i)) \in sections(i) /\ \A y \in sections(i) : Max(sections(i)) >= y
            BY <2>5 DEF Max
        <3> QED
            BY <3>1, <3>2
    <2> QED
        BY <2>1, <2>4, <2>5, <2>7
<1>3. entries = [i \in rows |-> [type |-> lines[Max(sections(i))].header,
                                 listen |-> lines[i].listen, connect |-> lines[i].connect]]
    BY DEF ParsePortproxyShow
<1>4. rows = {i \in 1 .. Len(lines) : ~IsHeader(lines[i])}
    BY <1>1, <1>2
<1> HIDE DEF rows, sections
<1>5. ASSUME NEW i \in rows PROVE entries[i] = lines[i]
    <2>1. lines[i] \in Entry /\ lines[Max(sections(i))].header = lines[i].type
        BY <1>2, <1>4
    <2>2. entries[i] = [type |-> lines[i].type, listen |-> lines[i].listen, connect |-> lines[i].connect]
        BY <1>3, <2>1
    <2> QED
        BY <2>1, <2>2, EntryFields
<1>6. DOMAIN entries = rows
    BY <1>3
<1> HIDE DEF entries
<1>7. (\A i \in DOMAIN entries : entries[i] = lines[i])
      /\ DOMAIN entries = {i \in 1 .. Len(lines) : ~IsHeader(lines[i])}
    BY <1>4, <1>5, <1>6
<1> QED
    BY <1>7 DEF entries

(* What is read of the table: its rules, those of type v4tov4 first.       *)
LEMMA TableRead ==
    ASSUME Table(table)
    PROVE  /\ DOMAIN Entries \subseteq Nat
           /\ {Entries[i] : i \in DOMAIN Entries} = table
           /\ \A i, j \in DOMAIN Entries :
                Entries[i].type = "v4tov4" /\ Entries[j].type = "v4tov6" => i < j
<1> DEFINE lines == Show(table)
           entries == ParsePortproxyShow(lines)
<1>1. Printed(lines, table) /\ table \subseteq Entry
    BY ShowPrints DEF Table
<1> HIDE DEF lines
<1>2. /\ DOMAIN entries = {i \in 1 .. Len(lines) : ~IsHeader(lines[i])}
      /\ \A i \in DOMAIN entries : entries[i] = lines[i]
    BY <1>1, RowsRead
<1> HIDE DEF entries
<1>3. Entries = entries
    BY DEF Entries, entries, lines
<1>4. DOMAIN entries \subseteq Nat
    BY <1>2
<1>5. \A i \in DOMAIN entries : entries[i] \in table
    BY <1>1, <1>2 DEF Printed
<1>6. \A e \in table : \E i \in DOMAIN entries : entries[i] = e
    <2> TAKE e \in table
    <2>1. PICK i \in 1 .. Len(lines) : lines[i] = e
        BY <1>1 DEF Printed
    <2>2. ~IsHeader(e)
        BY <1>1, Lines
    <2> QED
        BY <1>2, <2>1, <2>2
<1>7. \A i, j \in DOMAIN entries :
        entries[i].type = "v4tov4" /\ entries[j].type = "v4tov6" => i < j
    BY <1>1, <1>2 DEF Printed
<1> QED
    BY <1>3, <1>4, <1>5, <1>6, <1>7

(* The state of a bridge is the verdict of the rules at its endpoint. *)
LEMMA StatusIs ==
    ASSUME Table(table), conf \in Declared, hostIP \in Address \cup {NoIP}, NEW b \in Bridge, NEW answers
    PROVE  Status(b, Entries, answers) = Verdict(b, At(table, ListenOf(b)), answers)
<1> DEFINE l == ListenOf(b)
           entries == Entries
           A == At(table, l)
           here == {i \in DOMAIN entries : Compare(b, entries[i]) # "other"}
<1>1. /\ DOMAIN entries \subseteq Nat
      /\ {entries[i] : i \in DOMAIN entries} = table
      /\ \A i, j \in DOMAIN entries :
            entries[i].type = "v4tov4" /\ entries[j].type = "v4tov6" => i < j
    BY TableRead
<1> HIDE DEF entries
<1>2. here = {i \in DOMAIN entries : entries[i].listen = l}
    BY DEF Compare
<1>3. l.addr = NoIP \/ l \in Endpoint
    <2>1. conf[b].listen \in Listen
        BY DeclaredAssumption DEF Declaration
    <2> QED
        BY <2>1 DEF Listen, ListenOf, Endpoint
<1> HIDE DEF l
<1>4. CASE l.addr = NoIP
    BY <1>4 DEF Status, Verdict, l, entries
<1>5. CASE l.addr # NoIP /\ here = {}
    <2>1. A = {}
        BY <1>1, <1>2, <1>5 DEF At
    <2> QED
        BY <1>5, <2>1 DEF Status, Verdict, l, entries
<1>6. CASE l.addr # NoIP /\ here # {}
    <2>1. PICK n \in here : \A j \in here : n <= j
        BY <1>1, <1>6, Least
    <2>2. Min(here) = n
        <3>1. here \subseteq Nat
            BY <1>1
        <3> HIDE DEF here
        <3>2. \A x \in here : (\A y \in here : x <= y) => x = n
            BY <2>1, <3>1
        <3>3. Min(here) \in here /\ \A y \in here : Min(here) <= y
            BY <2>1 DEF Min
        <3> QED
            BY <3>2, <3>3
    <2>3. \A j \in DOMAIN entries : entries[j] \in A <=> j \in here
        BY <1>1, <1>2 DEF At
    <2>4. entries[n] \in A
        BY <2>1, <2>3
    <2>5. \A e \in A : e.type \in {"v4tov4", "v4tov6"}
        BY <1>3, <1>6, EntryFields DEF Table, At
    <2>6. \A e \in A : \E j \in here : entries[j] = e
        <3> TAKE e \in A
        <3>1. e \in table
            BY DEF At
        <3>2. PICK j \in DOMAIN entries : entries[j] = e
            BY <1>1, <3>1
        <3> QED
            BY <2>3, <3>2
    <2>7. entries[n].type = "v4tov4" \/ \A f \in A : f.type # "v4tov4"
        <3> SUFFICES ASSUME NEW f \in A, f.type = "v4tov4", entries[n].type # "v4tov4" PROVE FALSE
            OBVIOUS
        <3>1. PICK j \in here : entries[j] = f
            BY <2>6
        <3>2. entries[n].type = "v4tov6"
            BY <2>4, <2>5
        <3>3. j < n /\ n <= j /\ j \in Nat /\ n \in Nat
            BY <1>1, <2>1, <3>1, <3>2
        <3> QED
            BY <3>3
    <2>8. \A e, f \in A :
            (/\ e.type = "v4tov4" \/ \A g \in A : g.type # "v4tov4"
             /\ f.type = "v4tov4" \/ \A g \in A : g.type # "v4tov4") => e = f
        <3> TAKE e, f \in A
        <3> HAVE /\ e.type = "v4tov4" \/ \A g \in A : g.type # "v4tov4"
                 /\ f.type = "v4tov4" \/ \A g \in A : g.type # "v4tov4"
        <3>1. e.type = f.type
            BY <2>5
        <3> QED
            BY <3>1 DEF At, Table, Function
    <2>9. First(A) = entries[n]
        <3> HIDE DEF A
        <3>1. First(A) \in A /\ (First(A).type = "v4tov4" \/ \A g \in A : g.type # "v4tov4")
            BY <2>4, <2>7 DEF First
        <3> QED
            BY <2>4, <2>7, <2>8, <3>1
    <2>10. A # {}
        BY <2>4
    <2> HIDE DEF A, here
    <2>11. Verdict(b, A, answers) = IF Compare(b, entries[n]) = "drifted" THEN "drifted"
                                    ELSE IF answers THEN "active" ELSE "degraded"
        BY <1>6, <2>9, <2>10 DEF Verdict, l
    <2>12. Status(b, entries, answers) = IF Compare(b, entries[n]) = "drifted" THEN "drifted"
                                         ELSE IF answers THEN "active" ELSE "degraded"
        BY <1>6, <2>2 DEF Status, l, here
    <2> QED
        BY <2>11, <2>12 DEF A, entries, l
<1> QED
    BY <1>4, <1>5, <1>6

-----------------------------------------------------------------------------
(* The scripts: what is left of a table, and which rules are added to it.  *)

Rule(b) == [type |-> FamilyToProxyType(conf[b].family), listen |-> ListenOf(b),
            connect |-> conf[b].connect]
Hits(e, l) == e.type \in {"v4tov4", "v4tov6"} /\ e.listen = l

Left(t, B, n) == {e \in t : \A i \in 1 .. n : Order[i] \in B => ~Hits(e, ListenOf(Order[i]))}

(* The rule of the i-th bridge survives the n-th.                          *)
Stays(B, n, i) ==
    /\ Order[i] \in B
    /\ \A j \in i + 1 .. n :
        Order[j] \in B /\ ListenOf(Order[j]) = ListenOf(Order[i]) => Rule(Order[j]) = Rule(Order[i])
Applied(t, B, n) == Left(t, B, n) \cup {Rule(Order[i]) : i \in {j \in 1 .. n : Stays(B, n, j)}}

(* The rule of a bridge is hit by what deletes at its endpoint. *)
LEMMA Rules ==
    ASSUME NEW b
    PROVE  /\ Rule(b).type \in {"v4tov4", "v4tov6"} /\ Rule(b).listen = ListenOf(b)
           /\ \A l : Hits(Rule(b), l) <=> ListenOf(b) = l
BY DEF Rule, Hits, FamilyToProxyType

(* One step of either script. *)
LEMMA Scripts ==
    ASSUME NEW t, NEW b
    PROVE  /\ PortproxyRemove(t, b) = {e \in t : ~Hits(e, ListenOf(b))}
           /\ PortproxyApply(t, b) = {e \in t : ~Hits(e, ListenOf(b))} \cup {Rule(b)}
BY DEF PortproxyRemove, PortproxyApply, Hits, Rule

(* What is left after one more bridge of a removal, and of an apply. *)
LEMMA LeftStep ==
    ASSUME NEW t, NEW B, NEW n \in Nat \ {0}
    PROVE  Left(t, B, n) = IF Order[n] \in B THEN {e \in Left(t, B, n - 1) : ~Hits(e, ListenOf(Order[n]))}
                           ELSE Left(t, B, n - 1)
<1>1. \A i : i \in 1 .. n <=> i \in 1 .. n - 1 \/ i = n
    OBVIOUS
<1> QED
    BY <1>1 DEF Left

LEMMA AppliedStep ==
    ASSUME NEW t, NEW B, NEW n \in Nat \ {0}
    PROVE  Applied(t, B, n) = IF Order[n] \in B THEN PortproxyApply(Applied(t, B, n - 1), Order[n])
                              ELSE Applied(t, B, n - 1)
<1> DEFINE rules(m) == {Rule(Order[i]) : i \in {j \in 1 .. m : Stays(B, m, j)}}
<1>1. \A i \in 1 .. n - 1 : Stays(B, n, i) <=>
        /\ Stays(B, n - 1, i)
        /\ Order[n] \in B /\ ListenOf(Order[n]) = ListenOf(Order[i]) => Rule(Order[n]) = Rule(Order[i])
    <2> TAKE i \in 1 .. n - 1
    <2>1. \A j : j \in i + 1 .. n <=> j \in i + 1 .. n - 1 \/ j = n
        OBVIOUS
    <2> QED
        BY <2>1 DEF Stays
<1>2. Stays(B, n, n) <=> Order[n] \in B
    BY DEF Stays
<1>3. \A i : i \in 1 .. n <=> i \in 1 .. n - 1 \/ i = n
    OBVIOUS
<1>4. CASE Order[n] \in B
    <2>1. \A x \in rules(n) : (x \in rules(n - 1) /\ ~Hits(x, ListenOf(Order[n]))) \/ x = Rule(Order[n])
        <3> SUFFICES ASSUME NEW i \in 1 .. n, Stays(B, n, i), Rule(Order[i]) # Rule(Order[n])
                     PROVE  Rule(Order[i]) \in rules(n - 1) /\ ~Hits(Rule(Order[i]), ListenOf(Order[n]))
            OBVIOUS
        <3>1. i \in 1 .. n - 1
            BY <1>3
        <3>2. Stays(B, n - 1, i) /\ ListenOf(Order[n]) # ListenOf(Order[i])
            BY <1>1, <1>4, <3>1
        <3> QED
            BY <3>1, <3>2, Rules
    <2>2. \A x \in rules(n - 1) : ~Hits(x, ListenOf(Order[n])) => x \in rules(n)
        <3> SUFFICES ASSUME NEW i \in 1 .. n - 1, Stays(B, n - 1, i), ~Hits(Rule(Order[i]), ListenOf(Order[n]))
                     PROVE  Rule(Order[i]) \in rules(n)
            OBVIOUS
        <3>1. ListenOf(Order[n]) # ListenOf(Order[i])
            BY Rules
        <3>2. i \in 1 .. n /\ Stays(B, n, i)
            BY <1>1, <1>3, <3>1
        <3> QED
            BY <3>2
    <2>3. Rule(Order[n]) \in rules(n)
        <3>1. n \in 1 .. n /\ Stays(B, n, n)
            BY <1>2, <1>4
        <3> QED
            BY <3>1
    <2> HIDE DEF rules
    <2>4. rules(n) = {x \in rules(n - 1) : ~Hits(x, ListenOf(Order[n]))} \cup {Rule(Order[n])}
        BY <2>1, <2>2, <2>3
    <2>5. Applied(t, B, n) = Left(t, B, n) \cup rules(n) /\ Applied(t, B, n - 1) = Left(t, B, n - 1) \cup rules(n - 1)
        BY DEF Applied, rules
    <2>6. Left(t, B, n) = {e \in Left(t, B, n - 1) : ~Hits(e, ListenOf(Order[n]))}
        BY <1>4, LeftStep
    <2>7. PortproxyApply(Applied(t, B, n - 1), Order[n])
            = {e \in Applied(t, B, n - 1) : ~Hits(e, ListenOf(Order[n]))} \cup {Rule(Order[n])}
        BY Scripts
    <2> QED
        BY <1>4, <2>4, <2>5, <2>6, <2>7
<1>5. CASE Order[n] \notin B
    <2>1. rules(n) = rules(n - 1)
        <3>1. \A i : i \in {j \in 1 .. n : Stays(B, n, j)} <=> i \in {j \in 1 .. n - 1 : Stays(B, n - 1, j)}
            BY <1>1, <1>2, <1>3, <1>5
        <3> QED
            BY <3>1
    <2> QED
        BY <1>5, <2>1, LeftStep DEF Applied
<1> QED
    BY <1>4, <1>5

LEMMA ApplyIs ==
    ASSUME NEW t, NEW B
    PROVE  PowerShellApply(t, B) = Applied(t, B, Len(Order))
<1> DEFINE N == Len(Order)
           Is(f) == f = [n \in 0 .. N |->
                        IF n = 0 THEN t
                        ELSE IF Order[n] \in B THEN PortproxyApply(f[n - 1], Order[n]) ELSE f[n - 1]]
           w == [n \in 0 .. N |-> Applied(t, B, n)]
           after[n \in 0 .. N] ==
                IF n = 0 THEN t
                ELSE IF Order[n] \in B THEN PortproxyApply(after[n - 1], Order[n]) ELSE after[n - 1]
<1>0. N \in Nat
    BY OrderAssumption, LenProperties
<1>1. Applied(t, B, 0) = t
    BY DEF Applied, Left
<1>2. Is(w)
    <2> HIDE DEF N
    <2> SUFFICES ASSUME NEW n \in 0 .. N
                 PROVE  w[n] = IF n = 0 THEN t
                               ELSE IF Order[n] \in B THEN PortproxyApply(w[n - 1], Order[n]) ELSE w[n - 1]
        OBVIOUS
    <2>1. CASE n = 0
        BY <1>0, <1>1, <2>1
    <2>2. CASE n # 0
        <3>1. n \in Nat \ {0} /\ n - 1 \in 0 .. N
            BY <1>0, <2>2
        <3>2. w[n] = Applied(t, B, n) /\ w[n - 1] = Applied(t, B, n - 1)
            BY <3>1
        <3> QED
            BY <2>2, <3>1, <3>2, AppliedStep
    <2> QED
        BY <2>1, <2>2
<1>3. Is(after)
    <2>1. \E f : Is(f)
        BY <1>2
    <2> QED
        BY <2>1
<1>4. PowerShellApply(t, B) = after[N]
    BY DEF PowerShellApply
<1> HIDE DEF w, after, N
<1> DEFINE T == {n \in 0 .. N : after[n] = w[n]}
<1>5. 0 \in T
    BY <1>0, <1>2, <1>3
<1>6. \A n \in 1 .. N : n - 1 \in T => n \in T
    BY <1>0, <1>2, <1>3
<1> HIDE DEF T
<1>7. \A n \in 0 .. N : n \in T
    BY <1>0, <1>5, <1>6, UpTo
<1> QED
    BY <1>0, <1>4, <1>7 DEF T, w, N

LEMMA RemoveIs ==
    ASSUME NEW t, NEW B
    PROVE  PowerShellRemove(t, B) = Left(t, B, Len(Order))
<1> DEFINE N == Len(Order)
           Is(f) == f = [n \in 0 .. N |->
                        IF n = 0 THEN t
                        ELSE IF Order[n] \in B THEN PortproxyRemove(f[n - 1], Order[n]) ELSE f[n - 1]]
           w == [n \in 0 .. N |-> Left(t, B, n)]
           after[n \in 0 .. N] ==
                IF n = 0 THEN t
                ELSE IF Order[n] \in B THEN PortproxyRemove(after[n - 1], Order[n]) ELSE after[n - 1]
<1>0. N \in Nat
    BY OrderAssumption, LenProperties
<1>1. Left(t, B, 0) = t
    BY DEF Left
<1>2. Is(w)
    <2> HIDE DEF N
    <2> SUFFICES ASSUME NEW n \in 0 .. N
                 PROVE  w[n] = IF n = 0 THEN t
                               ELSE IF Order[n] \in B THEN PortproxyRemove(w[n - 1], Order[n]) ELSE w[n - 1]
        OBVIOUS
    <2>1. CASE n = 0
        BY <1>0, <1>1, <2>1
    <2>2. CASE n # 0
        <3>1. n \in Nat \ {0} /\ n - 1 \in 0 .. N
            BY <1>0, <2>2
        <3>2. w[n] = Left(t, B, n) /\ w[n - 1] = Left(t, B, n - 1)
            BY <3>1
        <3>3. PortproxyRemove(w[n - 1], Order[n]) = {e \in w[n - 1] : ~Hits(e, ListenOf(Order[n]))}
            BY Scripts
        <3> QED
            BY <2>2, <3>1, <3>2, <3>3, LeftStep
    <2> QED
        BY <2>1, <2>2
<1>3. Is(after)
    <2>1. \E f : Is(f)
        BY <1>2
    <2> QED
        BY <2>1
<1>4. PowerShellRemove(t, B) = after[N]
    BY DEF PowerShellRemove
<1> HIDE DEF w, after, N
<1> DEFINE T == {n \in 0 .. N : after[n] = w[n]}
<1>5. 0 \in T
    BY <1>0, <1>2, <1>3
<1>6. \A n \in 1 .. N : n - 1 \in T => n \in T
    BY <1>0, <1>2, <1>3
<1> HIDE DEF T
<1>7. \A n \in 0 .. N : n \in T
    BY <1>0, <1>5, <1>6, UpTo
<1> QED
    BY <1>0, <1>4, <1>7 DEF T, w, N

(* What an apply makes of the table: the rule of each of its bridges that  *)
(* is alone, and nothing at the endpoints of others.                       *)
LEMMA ApplyEffect ==
    ASSUME conf \in Declared, hostIP \in Address, NEW t, Table(t), NEW B, B \subseteq Bridge
    PROVE  /\ Table(PowerShellApply(t, B))
           /\ \A l : (\A b \in B : ListenOf(b) # l) => At(PowerShellApply(t, B), l) = At(t, l)
           /\ \A b \in B : Alone(b) => At(PowerShellApply(t, B), ListenOf(b)) = {Rule(b)}
<1> DEFINE N == Len(Order)
           u == Applied(t, B, N)
           kept == Left(t, B, N)
           rules == {Rule(Order[i]) : i \in {j \in 1 .. N : Stays(B, N, j)}}
<1>0. N \in Nat /\ \A i \in 1 .. N : Order[i] \in Bridge
    BY OrderAssumption, LenProperties, ElementOfSeq
<1>1. PowerShellApply(t, B) = u /\ u = kept \cup rules
    BY ApplyIs DEF Applied
<1>2. kept \subseteq t /\ \A e \in kept : \A i \in 1 .. N : Order[i] \in B => ~Hits(e, ListenOf(Order[i]))
    BY DEF Left
<1>3. \A x \in rules : \E i \in 1 .. N : Stays(B, N, i) /\ x = Rule(Order[i])
    OBVIOUS
<1>4. \A b \in Bridge : Rule(b) \in Entry
    <2> TAKE b \in Bridge
    <2>1. ListenOf(b) \in Endpoint /\ conf[b].connect \in Target
        BY RuleAt
    <2> QED
        BY <2>1 DEF Rule, Entry, Endpoint, FamilyToProxyType
<1>5. IsFiniteSet(rules)
    <2> DEFINE X == {j \in 1 .. N : Stays(B, N, j)}
               f == [i \in X |-> Rule(Order[i])]
    <2>1. IsFiniteSet(X)
        <3>1. X \subseteq 1 .. N
            OBVIOUS
        <3>2. IsFiniteSet(1 .. N)
            <4> HIDE DEF N
            <4> QED
                BY <1>0, FS_Interval
        <3> HIDE DEF X
        <3> QED
            BY <3>1, <3>2, FS_Subset
    <2>2. f \in Surjection(X, rules)
        BY DEF Surjection
    <2> QED
        BY <2>1, <2>2, FS_Surjection
<1> HIDE DEF u, kept, rules, N
<1>6. u \subseteq Entry
    BY <1>0, <1>1, <1>2, <1>3, <1>4 DEF Table
<1>7. IsFiniteSet(u)
    <2>1. IsFiniteSet(kept)
        BY <1>2, FS_Subset DEF Table
    <2> QED
        BY <1>1, <1>5, <2>1, FS_Union
<1>8. \A e \in kept, x \in rules : e.type = x.type => e.listen # x.listen
    <2> TAKE e \in kept, x \in rules
    <2> HAVE e.type = x.type
    <2>1. PICK i \in 1 .. N : Stays(B, N, i) /\ x = Rule(Order[i])
        BY <1>3
    <2>2. ~Hits(e, ListenOf(Order[i])) /\ x.type \in {"v4tov4", "v4tov6"} /\ x.listen = ListenOf(Order[i])
        BY <1>2, <2>1, Rules DEF Stays
    <2> QED
        BY <2>2 DEF Hits
<1>9. \A x, y \in rules : x.listen = y.listen => x = y
    <2> TAKE x, y \in rules
    <2> HAVE x.listen = y.listen
    <2>1. PICK i \in 1 .. N : Stays(B, N, i) /\ x = Rule(Order[i])
        BY <1>3
    <2>2. PICK j \in 1 .. N : Stays(B, N, j) /\ y = Rule(Order[j])
        BY <1>3
    <2>3. ListenOf(Order[i]) = ListenOf(Order[j])
        BY <2>1, <2>2, Rules
    <2>4. i = j \/ i \in j + 1 .. N \/ j \in i + 1 .. N
        BY <1>0
    <2> QED
        BY <2>1, <2>2, <2>3, <2>4 DEF Stays
<1>10. Function(u)
    BY <1>1, <1>2, <1>8, <1>9 DEF Function, Table
<1>11. ASSUME NEW l, \A b \in B : ListenOf(b) # l PROVE At(u, l) = At(t, l)
    <2>1. \A e \in t : e.listen = l => e \in kept
        BY <1>11 DEF kept, Left, Hits
    <2>2. \A x \in rules : x.listen # l
        BY <1>3, <1>11, Rules DEF Stays
    <2> QED
        BY <1>1, <1>2, <2>1, <2>2 DEF At
<1>12. ASSUME NEW b \in B, Alone(b) PROVE At(u, ListenOf(b)) = {Rule(b)}
    <2>1. b \in Bridge /\ ListenOf(b) \in Endpoint
        BY RuleAt
    <2>2. PICK i \in 1 .. N : Order[i] = b
        BY <2>1, OrderAssumption DEF N
    <2>3. \A c \in B : ListenOf(c) = ListenOf(b) => c = b
        BY <1>12 DEF Alone
    <2>4. Stays(B, N, i)
        BY <2>2, <2>3 DEF Stays
    <2>5. Rule(b) \in rules
        BY <2>2, <2>4 DEF rules
    <2>6. \A e \in kept : e.listen # ListenOf(b)
        <3> SUFFICES ASSUME NEW e \in kept, e.listen = ListenOf(b) PROVE FALSE
            OBVIOUS
        <3>1. ~Hits(e, ListenOf(b))
            BY <1>2, <2>2
        <3>2. e.type \in {"v4tov4", "v4tov6"}
            BY <1>2, <2>1, EntryFields DEF Table
        <3> QED
            BY <3>1, <3>2 DEF Hits
    <2>7. Rule(b).listen = ListenOf(b) /\ \A x \in rules : x.listen = ListenOf(b) => x = Rule(b)
        BY <1>3, <2>3, Rules DEF Stays
    <2> QED
        BY <1>1, <2>5, <2>6, <2>7 DEF At
<1> QED
    BY <1>1, <1>6, <1>7, <1>10, <1>11, <1>12 DEF Table

(* What a removal makes of it: nothing at the endpoints of its bridges,    *)
(* and everything else as it was.                                          *)
LEMMA RemoveEffect ==
    ASSUME conf \in Declared, hostIP \in Address, NEW t, Table(t), NEW B, B \subseteq Bridge
    PROVE  /\ Table(PowerShellRemove(t, B)) /\ PowerShellRemove(t, B) \subseteq t
           /\ \A l : (\A b \in B : ListenOf(b) # l) => At(PowerShellRemove(t, B), l) = At(t, l)
           /\ \A b \in B : At(PowerShellRemove(t, B), ListenOf(b)) = {}
<1> DEFINE N == Len(Order)
           u == Left(t, B, N)
<1>0. N \in Nat /\ \A i \in 1 .. N : Order[i] \in Bridge
    BY OrderAssumption, LenProperties, ElementOfSeq
<1>1. PowerShellRemove(t, B) = u
    BY RemoveIs
<1>2. u \subseteq t /\ \A e \in u : \A i \in 1 .. N : Order[i] \in B => ~Hits(e, ListenOf(Order[i]))
    BY DEF Left
<1>3. Table(u)
    BY <1>2, FS_Subset DEF Table, Function
<1>4. ASSUME NEW l, \A b \in B : ListenOf(b) # l PROVE At(u, l) = At(t, l)
    BY <1>4 DEF Left, Hits, At
<1> HIDE DEF u, N
<1>5. ASSUME NEW b \in B PROVE At(u, ListenOf(b)) = {}
    <2>1. b \in Bridge /\ ListenOf(b) \in Endpoint
        BY RuleAt
    <2>2. PICK i \in 1 .. N : Order[i] = b
        BY <2>1, OrderAssumption DEF N
    <2>3. \A e \in u : e.listen # ListenOf(b)
        <3> SUFFICES ASSUME NEW e \in u, e.listen = ListenOf(b) PROVE FALSE
            OBVIOUS
        <3>1. ~Hits(e, ListenOf(b))
            BY <1>2, <2>2
        <3>2. e.type \in {"v4tov4", "v4tov6"}
            BY <1>2, <2>1, EntryFields DEF Table
        <3> QED
            BY <3>1, <3>2 DEF Hits
    <2> QED
        BY <2>3 DEF At
<1> QED
    BY <1>1, <1>2, <1>3, <1>4, <1>5

-----------------------------------------------------------------------------
(* The inductive invariant. *)

Settled ==
    \A b \in last.names :
        /\ last.verb = "apply" /\ Alone(b) => Verdict(b, At(table, ListenOf(b)), TRUE) = "active"
        /\ last.verb = "remove" => Verdict(b, At(table, ListenOf(b)), TRUE) \in {"missing", "unknown"}

Inv == TypeOK /\ IsFiniteSet(table) /\ Function(table) /\ Settled

(* What the program reads of the table is the table, and the state that it *)
(* gives a bridge is the verdict of the rules at its endpoint.             *)
Readable ==
    /\ {Entries[i] : i \in DOMAIN Entries} = table
    /\ \A b \in Bridge, answers \in BOOLEAN :
        Status(b, Entries, answers) = Verdict(b, At(table, ListenOf(b)), answers)

LEMMA InvTable == Inv => conf \in Declared /\ hostIP \in Address \cup {NoIP} /\ Table(table)
BY DEF Inv, TypeOK, Table

LEMMA Known == Inv => Readable
<1> SUFFICES ASSUME Inv PROVE Readable
    OBVIOUS
<1>1. conf \in Declared /\ hostIP \in Address \cup {NoIP} /\ Table(table)
    BY InvTable
<1>2. {Entries[i] : i \in DOMAIN Entries} = table
    BY <1>1, TableRead
<1>3. \A b \in Bridge, answers \in BOOLEAN :
        Status(b, Entries, answers) = Verdict(b, At(table, ListenOf(b)), answers)
    BY <1>1, StatusIs
<1> QED
    BY <1>2, <1>3 DEF Readable

(* Only the table changes in an operation. *)
LEMMA Same ==
    ASSUME conf' = conf, hostIP' = hostIP
    PROVE  \A b \in Bridge :
            /\ ListenOf(b)' = ListenOf(b) /\ (Alone(b)' <=> Alone(b))
            /\ Verdict(b, At(table, ListenOf(b)), TRUE)' = Verdict(b, At(table', ListenOf(b)), TRUE)
<1>1. \A b : ListenOf(b)' = ListenOf(b)
    BY DEF ListenOf
<1>2. \A b, e : Compare(b, e)' = Compare(b, e)
    BY <1>1 DEF Compare
<1>3. ASSUME NEW b \in Bridge PROVE Alone(b)' <=> Alone(b)
    BY <1>1 DEF Alone
<1>4. ASSUME NEW b \in Bridge
      PROVE  Verdict(b, At(table, ListenOf(b)), TRUE)' = Verdict(b, At(table', ListenOf(b)), TRUE)
    BY <1>1 DEF Verdict, At, Compare
<1> QED
    BY <1>1, <1>3, <1>4

LEMMA Verdicts ==
    ASSUME NEW b, NEW A, NEW answers \in BOOLEAN
    PROVE  /\ Verdict(b, A, answers) = "active" => Verdict(b, A, TRUE) = "active"
           /\ Verdict(b, A, answers) = "missing" => A = {} /\ ListenOf(b).addr # NoIP
           /\ A = {} => Verdict(b, A, answers) \in {"missing", "unknown"}
           /\ A = {Rule(b)} /\ ListenOf(b).addr # NoIP => Verdict(b, A, TRUE) = "active"
<1>1. A = {Rule(b)} => First(A) = Rule(b)
    BY DEF First
<1>2. Compare(b, Rule(b)) = "active"
    BY DEF Compare, Rule, FamilyToProxyType
<1> QED
    BY <1>1, <1>2 DEF Verdict

LEMMA Idle ==
    ASSUME NEW t
    PROVE  PowerShellApply(t, {}) = t /\ PowerShellRemove(t, {}) = t
BY ApplyIs, RemoveIs DEF Applied, Left, Stays

-----------------------------------------------------------------------------
(* An operation keeps the table one, settles its bridges and spares the    *)
(* endpoints of others.                                                    *)
Spares ==
    last'.verb # "none" =>
        \A c \in Bridge \ last'.names : Alone(c) => At(table', ListenOf(c)) = At(table, ListenOf(c))

LEMMA ApplyStep ==
    ASSUME Inv, NEW B \in SUBSET Bridge, NEW answering \in SUBSET B, ApplyBridges(B, answering)
    PROVE  Inv' /\ Spares /\ conf' = conf /\ hostIP' = hostIP
<1> DEFINE needing == WindowsBridgesNeedingApply(B, answering)
<1>1. needing \subseteq B
    BY DEF WindowsBridgesNeedingApply
<1>2. \A b \in B \ needing : Verdict(b, At(table, ListenOf(b)), TRUE) = "active"
    <2> TAKE b \in B \ needing
    <2>1. b \in Bridge /\ (b \in answering) \in BOOLEAN
        OBVIOUS
    <2>2. Status(b, Entries, b \in answering) = "active"
        BY DEF WindowsBridgesNeedingApply
    <2>3. Verdict(b, At(table, ListenOf(b)), b \in answering) = "active"
        BY <2>1, <2>2, Known DEF Readable
    <2> QED
        BY <2>1, <2>3, Verdicts
<1>3. Elevated("apply", B, needing, PowerShellApply(table, needing))
    BY DEF ApplyBridges
<1> HIDE DEF needing
<1>4. conf' = conf /\ hostIP' = hostIP /\ events' = events
    BY <1>3 DEF Elevated
<1>5. conf \in Declared /\ hostIP \in Address \cup {NoIP} /\ Table(table)
    BY InvTable
<1>6. Table(table') => TypeOK' /\ IsFiniteSet(table)' /\ Function(table)'
    BY <1>3, <1>4 DEF Inv, TypeOK, Table, Elevated, Nothing
<1>7. CASE needing = {}
    <2>1. table' = table /\ last' = [verb |-> "apply", names |-> B]
        BY <1>3, <1>7, Idle DEF Elevated
    <2>2. Settled'
        BY <1>2, <1>4, <1>7, <2>1, Same DEF Settled
    <2> QED
        BY <1>4, <1>5, <1>6, <2>1, <2>2 DEF Inv, Spares
<1>8. CASE needing # {} /\ hostIP = NoIP
    <2>1. table' = table /\ last' = Nothing
        BY <1>3, <1>8 DEF Elevated
    <2> QED
        BY <1>4, <1>5, <1>6, <2>1 DEF Inv, Spares, Settled, Nothing
<1>9. CASE needing # {} /\ hostIP # NoIP
    <2>1. table' = PowerShellApply(table, needing) /\ last' = [verb |-> "apply", names |-> B]
        BY <1>3, <1>9 DEF Elevated
    <2>2. hostIP \in Address /\ needing \subseteq Bridge
        BY <1>1, <1>5, <1>9
    <2>3. /\ Table(table')
          /\ \A l : (\A b \in needing : ListenOf(b) # l) => At(table', l) = At(table, l)
          /\ \A b \in needing : Alone(b) => At(table', ListenOf(b)) = {Rule(b)}
        BY <1>5, <2>1, <2>2, ApplyEffect
    <2>4. \A c \in Bridge : c \notin needing /\ Alone(c) => At(table', ListenOf(c)) = At(table, ListenOf(c))
        BY <2>2, <2>3 DEF Alone
    <2>5. \A b \in B : Alone(b) => Verdict(b, At(table', ListenOf(b)), TRUE) = "active"
        <3> TAKE b \in B
        <3> HAVE Alone(b)
        <3>1. CASE b \in needing
            <4>1. At(table', ListenOf(b)) = {Rule(b)} /\ ListenOf(b).addr # NoIP
                BY <1>5, <2>2, <2>3, <3>1, RuleAt
            <4> QED
                BY <4>1, Verdicts
        <3>2. CASE b \notin needing
            BY <1>2, <2>4, <3>2
        <3> QED
            BY <3>1, <3>2
    <2>6. Settled'
        BY <1>4, <2>1, <2>5, Same DEF Settled
    <2>7. Spares
        BY <1>1, <2>1, <2>4 DEF Spares
    <2> QED
        BY <1>4, <1>6, <2>3, <2>6, <2>7 DEF Inv
<1> QED
    BY <1>7, <1>8, <1>9

LEMMA RemoveStep ==
    ASSUME Inv, NEW B \in SUBSET Bridge, NEW needing \in SUBSET B,
           \A b \in B \ needing : Verdict(b, At(table, ListenOf(b)), TRUE) = "missing",
           Elevated("remove", B, needing, PowerShellRemove(table, needing))
    PROVE  Inv' /\ Spares /\ conf' = conf /\ hostIP' = hostIP
<1>4. conf' = conf /\ hostIP' = hostIP /\ events' = events
    BY DEF Elevated
<1>5. conf \in Declared /\ hostIP \in Address \cup {NoIP} /\ Table(table)
    BY InvTable
<1>6. Table(table') => TypeOK' /\ IsFiniteSet(table)' /\ Function(table)'
    BY <1>4 DEF Inv, TypeOK, Table, Elevated, Nothing
<1>7. CASE needing = {}
    <2>1. table' = table /\ last' = [verb |-> "remove", names |-> B]
        BY <1>7, Idle DEF Elevated
    <2>2. Settled'
        BY <1>4, <1>7, <2>1, Same DEF Settled
    <2> QED
        BY <1>4, <1>5, <1>6, <2>1, <2>2 DEF Inv, Spares
<1>8. CASE needing # {} /\ hostIP = NoIP
    <2>1. table' = table /\ last' = Nothing
        BY <1>8 DEF Elevated
    <2> QED
        BY <1>4, <1>5, <1>6, <2>1 DEF Inv, Spares, Settled, Nothing
<1>9. CASE needing # {} /\ hostIP # NoIP
    <2>1. table' = PowerShellRemove(table, needing) /\ last' = [verb |-> "remove", names |-> B]
        BY <1>9 DEF Elevated
    <2>2. hostIP \in Address /\ needing \subseteq Bridge
        BY <1>5, <1>9
    <2>3. /\ Table(table') /\ table' \subseteq table
          /\ \A l : (\A b \in needing : ListenOf(b) # l) => At(table', l) = At(table, l)
          /\ \A b \in needing : At(table', ListenOf(b)) = {}
        BY <1>5, <2>1, <2>2, RemoveEffect
    <2>4. \A c \in Bridge : c \notin needing /\ Alone(c) => At(table', ListenOf(c)) = At(table, ListenOf(c))
        BY <2>2, <2>3 DEF Alone
    <2>5. \A b \in B : At(table', ListenOf(b)) = {}
        <3> TAKE b \in B
        <3>1. CASE b \notin needing
            <4>1. At(table, ListenOf(b)) = {}
                BY <3>1, Verdicts
            <4> QED
                BY <2>3, <4>1 DEF At
        <3> QED
            BY <2>3, <3>1
    <2>6. Settled'
        <3>1. \A b \in B : Verdict(b, At(table', ListenOf(b)), TRUE) \in {"missing", "unknown"}
            BY <2>5, Verdicts
        <3> QED
            BY <1>4, <2>1, <3>1, Same DEF Settled
    <2>7. Spares
        BY <2>1, <2>4 DEF Spares
    <2> QED
        BY <1>4, <1>6, <2>3, <2>6, <2>7 DEF Inv
<1> QED
    BY <1>7, <1>8, <1>9

LEMMA InvInit == Init => Inv
<1> SUFFICES ASSUME Init PROVE Inv
    OBVIOUS
<1>1. conf \in Declared /\ table = {} /\ hostIP \in Address \cup {NoIP} /\ last = Nothing
    BY DEF Init
<1>2. events \in 0 .. MaxEvents
    BY BoundAssumption DEF Init
<1>3. last \in [verb : {"none", "apply", "remove"}, names : SUBSET Bridge] /\ last.names = {}
    BY <1>1 DEF Nothing
<1> QED
    BY <1>1, <1>2, <1>3, FS_EmptySet DEF Inv, TypeOK, Settled, Function

(* A step keeps the invariant, and an operation spares the others. *)
LEMMA InvNext ==
    ASSUME Inv, [Next]_vars
    PROVE  Inv' /\ (vars' # vars /\ last'.verb # "none" => Spares /\ conf' = conf /\ hostIP' = hostIP)
<1>1. ASSUME NEW B \in SUBSET Bridge \ {{}}, NEW answering \in SUBSET B, ApplyBridges(B, answering)
      PROVE  Inv' /\ Spares /\ conf' = conf /\ hostIP' = hostIP
    BY <1>1, ApplyStep
<1>2. ASSUME NEW B \in SUBSET Bridge \ {{}}, PauseBridges(B)
      PROVE  Inv' /\ Spares /\ conf' = conf /\ hostIP' = hostIP
    <2> DEFINE needing == WindowsBridgesNeedingRemoval(B)
    <2>1. needing \subseteq B /\ \A b \in B \ needing : Status(b, Entries, TRUE) = "missing"
        BY DEF WindowsBridgesNeedingRemoval
    <2>2. Elevated("remove", B, needing, PowerShellRemove(table, needing))
        BY <1>2 DEF PauseBridges
    <2> HIDE DEF needing
    <2>3. \A b \in B \ needing : Verdict(b, At(table, ListenOf(b)), TRUE) = "missing"
        BY <2>1, Known DEF Readable
    <2>4. B \in SUBSET Bridge /\ needing \in SUBSET B
        BY <2>1
    <2> QED
        BY ONLY Inv, <2>2, <2>3, <2>4, RemoveStep
<1>3. ASSUME NEW B \in SUBSET Bridge \ {{}}, ResetBridges(B)
      PROVE  Inv' /\ Spares /\ conf' = conf /\ hostIP' = hostIP
    <2>1. Elevated("remove", B, B, PowerShellRemove(table, B))
        BY <1>3 DEF ResetBridges
    <2>2. B \in SUBSET Bridge /\ B \in SUBSET B
        OBVIOUS
    <2>3. \A b \in B \ B : Verdict(b, At(table, ListenOf(b)), TRUE) = "missing"
        OBVIOUS
    <2> QED
        BY ONLY Inv, <2>1, <2>2, <2>3, RemoveStep
<1>4. ASSUME NEW d \in Declared, Edit(d) PROVE Inv' /\ last' = Nothing
    BY <1>4, BoundAssumption DEF Edit, Event, Inv, TypeOK, Settled, Nothing
<1>5. ASSUME NEW ip \in Address \cup {NoIP}, Renumber(ip) PROVE Inv' /\ last' = Nothing
    BY <1>5, BoundAssumption DEF Renumber, Event, Inv, TypeOK, Settled, Nothing
<1>6. ASSUME NEW e \in Entry, Foreign(e) PROVE Inv' /\ last' = Nothing
    <2>1. last' = Nothing /\ events' = events + 1 /\ events < MaxEvents /\ conf' = conf /\ hostIP' = hostIP
        BY <1>6 DEF Foreign, Event
    <2>2. Table(table')
        <3>1. CASE e \in table
            BY <1>6, <3>1, FS_Subset, InvTable DEF Foreign, Table, Function
        <3>2. CASE e \notin table
            <4> DEFINE others == {f \in table : f.type # e.type \/ f.listen # e.listen}
            <4>1. table' = others \cup {e}
                BY <1>6, <3>2 DEF Foreign
            <4>2. IsFiniteSet(others)
                BY FS_Subset, InvTable DEF Table
            <4>3. IsFiniteSet(table')
                BY <4>1, <4>2, FS_AddElement
            <4>4. table' \subseteq Entry /\ Function(table')
                BY <4>1, InvTable DEF Table, Function
            <4> QED
                BY <4>3, <4>4 DEF Table
        <3> QED
            BY <3>1, <3>2
    <2> QED
        BY <2>1, <2>2, BoundAssumption DEF Inv, TypeOK, Settled, Nothing, Table
<1>7. ASSUME UNCHANGED vars PROVE Inv'
    <2>1. /\ conf' = conf /\ hostIP' = hostIP /\ table' = table /\ last' = last /\ events' = events
        BY <1>7 DEF vars
    <2>2. Settled'
        BY <2>1, Same DEF Inv, TypeOK, Settled
    <2> QED
        BY <2>1, <2>2 DEF Inv, TypeOK
<1> QED
    BY <1>1, <1>2, <1>3, <1>4, <1>5, <1>6, <1>7 DEF Next, Nothing

THEOREM Invariant == Spec => []Inv
<1>1. Inv /\ [Next]_vars => Inv'
    BY InvNext
<1> QED
    BY <1>1, InvInit, PTL DEF Spec

(* The table holds rules, and an operation is one on declared bridges.     *)
THEOREM TypeCorrect == Spec => []TypeOK
<1>1. Inv => TypeOK
    BY DEF Inv
<1> QED
    BY <1>1, Invariant, PTL

(* What netsh prints is read back as the table it was printed from,        *)
(* whatever the order of its rows.                                         *)
THEOREM RoundTrip == Spec => []ParseRoundTrip
<1>1. Inv => ParseRoundTrip
    BY Known DEF Inv, Readable, ParseRoundTrip, Function
<1> QED
    BY <1>1, Invariant, PTL

(* The bridges of a successful apply match their rules, and those of a     *)
(* successful removal have none.                                           *)
THEOREM Converge == Spec => []OperationsConverge
<1>1. Inv => OperationsConverge
    <2> SUFFICES ASSUME Inv PROVE OperationsConverge
        OBVIOUS
    <2>1. last.names \subseteq Bridge
        BY DEF Inv, TypeOK
    <2>2. \A b \in last.names : Status(b, Entries, TRUE) = Verdict(b, At(table, ListenOf(b)), TRUE)
        BY <2>1, Known DEF Readable
    <2> QED
        BY <2>2 DEF Inv, Settled, OperationsConverge
<1> QED
    BY <1>1, Invariant, PTL

(* The state of a bridge that is alone on its endpoint is the same after   *)
(* an operation on others.                                                 *)
THEOREM OthersKept == Spec => BystandersKept
<1> DEFINE Kept == last'.verb # "none" =>
                    \A c \in Bridge \ last'.names :
                        Alone(c) => Status(c, Entries, TRUE)' = Status(c, Entries, TRUE)
<1>1. Inv => Readable
    BY Known
<1>2. Inv /\ Readable /\ Readable' /\ [Next]_vars => [Kept]_vars
    <2> SUFFICES ASSUME Inv, Readable, Readable', Next, vars' # vars, last'.verb # "none",
                        NEW c \in Bridge \ last'.names, Alone(c)
                 PROVE  Status(c, Entries, TRUE)' = Status(c, Entries, TRUE)
        OBVIOUS
    <2>1. Spares /\ conf' = conf /\ hostIP' = hostIP
        BY InvNext
    <2>2. At(table', ListenOf(c)) = At(table, ListenOf(c))
        BY <2>1 DEF Spares
    <2>3. Status(c, Entries, TRUE) = Verdict(c, At(table, ListenOf(c)), TRUE)
        BY DEF Readable
    <2>4. Status(c, Entries, TRUE)' = Verdict(c, At(table, ListenOf(c)), TRUE)'
        BY DEF Readable
    <2>5. Verdict(c, At(table, ListenOf(c)), TRUE)' = Verdict(c, At(table', ListenOf(c)), TRUE)
        BY <2>1, Same
    <2> QED
        BY <2>2, <2>3, <2>4, <2>5
<1> QED
    BY <1>1, <1>2, Invariant, PTL DEF Spec, BystandersKept

=============================================================================
