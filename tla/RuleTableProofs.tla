-------------------------- MODULE RuleTableProofs --------------------------
(* Machine-checked, for any number of desktops, users, programs, heads and  *)
(* events: the types of RuleTable, and that the bans a table shows are      *)
(* enforced, that the database keeps them, and that nothing else is         *)
(* enforced by a desktop that has the drivers to itself.                    *)
(*                                                                          *)
(* Four invariants, each on top of the first: RuleInv, the types and that a *)
(* table shows nothing twice; BanInv, what is shown is in the lists;        *)
(* CleanInv, what is shown is in the database; AloneInv, the lists have, as *)
(* often as the tables, what these show.  The database is a list that rows  *)
(* are picked from by their positions: what is picked is told by the one    *)
(* enumeration of these positions, which takes the place of an induction    *)
(* over the list.                                                           *)
EXTENDS RuleTable, FiniteSetTheorems, SequenceTheorems, WellFoundedInduction, TLAPS

----------------------------------------------------------------------------
(* What stands at some positions of a list.                                *)

(* A set of numbers that is not empty has a smallest one. *)
LEMMA LeastExists ==
  ASSUME NEW T, T \subseteq Nat, T # {}
  PROVE  \E i \in T : \A j \in T : i <= j
  <1>1. PICK i \in T : \A j \in T : ~(<<j, i>> \in OpToRel(<, Nat))
    BY NatLessThanWellFounded, WFMin
  <1>2. ASSUME NEW j \in T, ~(i <= j) PROVE FALSE
    <2>1. <<j, i>> \in Nat \X Nat /\ <<j, i>>[1] < <<j, i>>[2]
      BY <1>2
    <2> QED BY <1>1, <2>1 DEF OpToRel
  <1> QED BY <1>2

(* f lists the numbers of A from the smallest to the largest.              *)
Enumerates(f, n, A) ==
  /\ f \in [1 .. n -> A]
  /\ \A i, j \in 1 .. n : i < j => f[i] < f[j]
  /\ \A a \in A : \E i \in 1 .. n : f[i] = a

(* t is what stands at the positions A of s, with f from t to s.           *)
Selects(f, t, s, A) ==
  /\ Enumerates(f, Len(t), A)
  /\ \A i \in 1 .. Len(t) : t[i] = s[f[i]]

(* A set is enumerated in one way only.                                    *)
LEMMA OneEnumeration ==
  ASSUME NEW A, A \subseteq Nat, NEW m \in Nat, NEW n \in Nat, NEW f, NEW g,
         Enumerates(f, m, A), Enumerates(g, n, A)
  PROVE  m = n /\ f = g
  <1> USE DEF Enumerates
  <1>0. /\ \A i \in 1 .. m : f[i] \in A /\ f[i] \in Nat
        /\ \A i \in 1 .. n : g[i] \in A /\ g[i] \in Nat
    OBVIOUS
  <1>1. ASSUME NEW i \in 1 .. m, \A j \in 1 .. i - 1 : j \in 1 .. n /\ f[j] = g[j]
        PROVE  i \in 1 .. n /\ f[i] = g[i]
    <2>1. PICK k \in 1 .. n : g[k] = f[i]
      OBVIOUS
    <2>2. ~(k < i)
      <3> SUFFICES ASSUME k < i PROVE FALSE
        OBVIOUS
      <3>1. k \in 1 .. i - 1
        OBVIOUS
      <3>2. f[k] = g[k]
        BY <1>1, <3>1
      <3>3. k \in 1 .. m /\ f[k] = f[i]
        BY <2>1, <3>1, <3>2
      <3> QED BY <1>0, <3>3
    <2>3. ~(i < k)
      <3> SUFFICES ASSUME i < k PROVE FALSE
        OBVIOUS
      <3>1. i \in 1 .. n /\ g[i] < f[i]
        BY <2>1
      <3>2. PICK j \in 1 .. m : f[j] = g[i]
        BY <1>0, <3>1
      <3>3. f[j] < f[i] /\ f[i] \in Nat /\ f[j] \in Nat
        BY <1>0, <3>1, <3>2
      <3>4. j < i
        BY <3>3
      <3>5. j \in 1 .. i - 1
        BY <3>4
      <3>6. j \in 1 .. n /\ f[j] = g[j]
        BY <1>1, <3>5
      <3>7. g[j] = g[i] /\ g[j] < g[i]
        BY <3>1, <3>2, <3>4, <3>6
      <3> QED BY <1>0, <3>1, <3>7
    <2> QED BY <2>1, <2>2, <2>3
  <1> DEFINE Bad == {i \in 1 .. m : ~(i \in 1 .. n /\ f[i] = g[i])}
  <1>2. Bad = {}
    <2> SUFFICES ASSUME Bad # {} PROVE FALSE
      OBVIOUS
    <2>1. PICK i \in Bad : \A j \in Bad : i <= j
      <3>1. Bad \subseteq Nat
        OBVIOUS
      <3> HIDE DEF Bad
      <3> QED BY <3>1, LeastExists
    <2>2. \A j \in 1 .. i - 1 : j \in 1 .. n /\ f[j] = g[j]
      BY <2>1
    <2> QED BY <1>1, <2>1, <2>2
  <1>3. \A i \in 1 .. m : i \in 1 .. n /\ f[i] = g[i]
    BY <1>2
  <1>4. m <= n
    BY <1>3
  <1>5. n <= m
    <2> SUFFICES ASSUME n > m PROVE FALSE
      OBVIOUS
    <2>0. n \in 1 .. n
      OBVIOUS
    <2>1. PICK j \in 1 .. m : f[j] = g[n]
      BY <1>0, <2>0
    <2>2. j \in 1 .. n /\ j < n /\ f[j] = g[j]
      BY <1>3
    <2>3. g[j] < g[n]
      BY <2>0, <2>2
    <2> QED BY <1>0, <2>0, <2>1, <2>2, <2>3
  <1>6. m = n
    BY <1>4, <1>5
  <1> QED BY <1>3, <1>6

(* Picked is defined: there is the function its recursion describes.       *)
Upto(p, s, at) == p = [n \in 0 .. Len(s) |->
  IF n = 0 THEN <<>> ELSE IF n \in at THEN Append(p[n - 1], s[n]) ELSE p[n - 1]]

(* There is such a function, for every list. *)
LEMMA UptoExists ==
  ASSUME NEW S, NEW s \in Seq(S), NEW at
  PROVE  \E p : Upto(p, s, at)
  <1> DEFINE To(m) == \E p : p = [n \in 0 .. m |->
               IF n = 0 THEN <<>> ELSE IF n \in at THEN Append(p[n - 1], s[n]) ELSE p[n - 1]]
             Bad == {m \in Nat : ~To(m)}
  <1>1. Bad = {}
    <2> SUFFICES ASSUME Bad # {} PROVE FALSE
      OBVIOUS
    <2>1. PICK m \in Bad : \A k \in Bad : m <= k
      <3>1. Bad \subseteq Nat
        OBVIOUS
      <3> HIDE DEF Bad
      <3> QED BY <3>1, LeastExists
    <2>2. CASE m = 0
      <3> DEFINE p == [n \in 0 .. 0 |-> <<>>]
      <3>1. p = [n \in 0 .. m |->
               IF n = 0 THEN <<>> ELSE IF n \in at THEN Append(p[n - 1], s[n]) ELSE p[n - 1]]
        BY <2>2
      <3> QED BY <2>1, <3>1
    <2>3. CASE m # 0
      <3>1. m \in Nat /\ m - 1 \in Nat /\ m - 1 \notin Bad
        <4>1. m \in Nat
          OBVIOUS
        <4> HIDE DEF Bad
        <4> QED BY <2>1, <2>3, <4>1
      <3>2. PICK q : q = [n \in 0 .. m - 1 |->
               IF n = 0 THEN <<>> ELSE IF n \in at THEN Append(q[n - 1], s[n]) ELSE q[n - 1]]
        BY <3>1
      <3> DEFINE p == [n \in 0 .. m |->
               IF n = 0 THEN <<>> ELSE IF n \in at THEN Append(q[n - 1], s[n]) ELSE q[n - 1]]
      <3>3. \A n \in 0 .. m : n # 0 => n - 1 \in 0 .. m - 1 /\ n - 1 \in 0 .. m
        BY <3>1
      <3>4. \A n \in 0 .. m - 1 : q[n] =
               IF n = 0 THEN <<>> ELSE IF n \in at THEN Append(q[n - 1], s[n]) ELSE q[n - 1]
        BY <3>2
      <3>5. \A n \in 0 .. m - 1 : p[n] = q[n]
        BY <3>1, <3>4
      <3> HIDE DEF p
      <3>6. \A n \in 0 .. m :
              (IF n = 0 THEN <<>> ELSE IF n \in at THEN Append(q[n - 1], s[n]) ELSE q[n - 1]) =
              (IF n = 0 THEN <<>> ELSE IF n \in at THEN Append(p[n - 1], s[n]) ELSE p[n - 1])
        BY <3>3, <3>5
      <3>7. p = [n \in 0 .. m |->
              IF n = 0 THEN <<>> ELSE IF n \in at THEN Append(p[n - 1], s[n]) ELSE p[n - 1]]
        BY <3>6 DEF p
      <3> QED BY <2>1, <3>7
    <2> QED BY <2>2, <2>3
  <1>2. Len(s) \in Nat
    OBVIOUS
  <1>3. To(Len(s))
    BY <1>1, <1>2
  <1> QED BY <1>3 DEF Upto

(* Up to each position, it has in order what stands at those before it.    *)
LEMMA UptoSelects ==
  ASSUME NEW S, NEW s \in Seq(S), NEW at, NEW p, Upto(p, s, at), NEW n \in 0 .. Len(s)
  PROVE  p[n] \in Seq(S) /\ \E f : Selects(f, p[n], s, at \intersect (1 .. n))
  <1> DEFINE Good(m) == p[m] \in Seq(S) /\ \E f : Selects(f, p[m], s, at \intersect (1 .. m))
             Bad == {m \in 0 .. Len(s) : ~Good(m)}
  <1>0. \A m \in 0 .. Len(s) : p[m] =
          IF m = 0 THEN <<>> ELSE IF m \in at THEN Append(p[m - 1], s[m]) ELSE p[m - 1]
    BY DEF Upto
  <1> SUFFICES ASSUME Bad # {} PROVE FALSE
    OBVIOUS
  <1>1. PICK m \in Bad : \A k \in Bad : m <= k
    <2>1. Bad \subseteq Nat
      OBVIOUS
    <2> HIDE DEF Bad
    <2> QED BY <2>1, LeastExists
  <1>2. CASE m = 0
    <2>0. 0 \in 0 .. Len(s)
      OBVIOUS
    <2>1. p[m] = <<>> /\ 1 .. m = {} /\ Len(p[m]) = 0 /\ p[m] \in Seq(S)
      <3>1. p[0] = <<>>
        BY <1>0, <2>0
      <3>2. <<>> \in Seq(S) /\ Len(<<>>) = 0
        BY EmptySeq
      <3> QED BY <1>2, <3>1, <3>2
    <2> DEFINE f == [i \in {} |-> 0]
    <2>2. f \in [1 .. 0 -> at \intersect (1 .. m)]
      BY <2>1
    <2>3. Selects(f, p[m], s, at \intersect (1 .. m))
      BY <2>1, <2>2 DEF Selects, Enumerates
    <2> QED BY <1>1, <2>1, <2>3
  <1>3. CASE m # 0
    <2>1. m \in Nat /\ m - 1 \in 0 .. Len(s) /\ m \in 1 .. Len(s) /\ m - 1 \notin Bad
      <3>1. m \in 0 .. Len(s) /\ Len(s) \in Nat
        OBVIOUS
      <3> HIDE DEF Bad
      <3> QED BY <1>1, <1>3, <3>1
    <2>2. p[m - 1] \in Seq(S)
      BY <2>1
    <2>3. PICK f : Selects(f, p[m - 1], s, at \intersect (1 .. m - 1))
      BY <2>1
    <2> DEFINE t == p[m - 1]  k == Len(t)
    <2>4. k \in Nat
      BY <2>2
    <2>5. CASE m \notin at
      <3>1. at \intersect (1 .. m) = at \intersect (1 .. m - 1)
        BY <2>1, <2>5
      <3>2. p[m] = p[m - 1]
        BY <1>0, <1>1, <1>3, <2>5
      <3> QED BY <1>1, <2>2, <2>3, <3>1, <3>2
    <2>6. CASE m \in at
      <3>1. p[m] = Append(t, s[m])
        BY <1>0, <1>1, <1>3, <2>6
      <3> HIDE DEF t
      <3>2. s[m] \in S /\ t \in Seq(S)
        BY <2>1, <2>2 DEF t
      <3>3. /\ p[m] \in Seq(S) /\ Len(p[m]) = k + 1 /\ p[m][k + 1] = s[m]
            /\ \A i \in 1 .. k : p[m][i] = t[i]
        BY <3>1, <3>2, AppendProperties
      <3> DEFINE g == [i \in 1 .. k + 1 |-> IF i = k + 1 THEN m ELSE f[i]]
      <3>4. /\ f \in [1 .. k -> at \intersect (1 .. m - 1)]
            /\ \A i, j \in 1 .. k : i < j => f[i] < f[j]
            /\ \A a \in at \intersect (1 .. m - 1) : \E i \in 1 .. k : f[i] = a
            /\ \A i \in 1 .. k : t[i] = s[f[i]]
        BY <2>3 DEF Selects, Enumerates, t
      <3>5. g \in [1 .. k + 1 -> at \intersect (1 .. m)]
        BY <2>1, <2>4, <2>6, <3>4
      <3>6. \A i, j \in 1 .. k + 1 : i < j => g[i] < g[j]
        <4> SUFFICES ASSUME NEW i \in 1 .. k + 1, NEW j \in 1 .. k + 1, i < j
                     PROVE  g[i] < g[j]
          OBVIOUS
        <4>1. i \in 1 .. k /\ g[i] = f[i] /\ f[i] \in 1 .. m - 1
          BY <2>4, <3>4
        <4>2. CASE j = k + 1
          BY <2>1, <4>1, <4>2
        <4>3. CASE j # k + 1
          BY <2>4, <3>4, <4>1, <4>3
        <4> QED BY <4>2, <4>3
      <3>7. ASSUME NEW a \in at \intersect (1 .. m) PROVE \E i \in 1 .. k + 1 : g[i] = a
        <4>1. CASE a = m
          BY <2>4, <4>1
        <4>2. CASE a # m
          <5>1. a \in at \intersect (1 .. m - 1)
            BY <2>1, <4>2
          <5>2. PICK i \in 1 .. k : f[i] = a
            BY <3>4, <5>1
          <5>3. i \in 1 .. k + 1 /\ g[i] = a
            BY <2>4, <5>2
          <5> QED BY <5>3
        <4> QED BY <4>1, <4>2
      <3>8. \A i \in 1 .. k + 1 : p[m][i] = s[g[i]]
        BY <2>4, <3>3, <3>4
      <3> HIDE DEF g, k
      <3>9. Selects(g, p[m], s, at \intersect (1 .. m))
        BY <3>3, <3>5, <3>6, <3>7, <3>8 DEF Selects, Enumerates
      <3> QED BY <1>1, <3>3, <3>9
    <2> QED BY <2>5, <2>6
  <1> QED BY <1>2, <1>3

(* Picked is the list that has in order what stands at the positions, and  *)
(* there is only one.                                                      *)
LEMMA PickedSelects ==
  ASSUME NEW S, NEW s \in Seq(S), NEW at, at \subseteq 1 .. Len(s)
  PROVE  Picked(s, at) \in Seq(S) /\ \E f : Selects(f, Picked(s, at), s, at)
  <1> DEFINE p == CHOOSE p : p = [n \in 0 .. Len(s) |->
       IF n = 0 THEN <<>> ELSE IF n \in at THEN Append(p[n - 1], s[n]) ELSE p[n - 1]]
  <1>1. Picked(s, at) = p[Len(s)]
    BY DEF Picked
  <1>2. Upto(p, s, at)
    <2>1. PICK q : Upto(q, s, at)
      BY UptoExists
    <2> QED BY <2>1 DEF Upto
  <1> HIDE DEF p
  <1>3. Len(s) \in 0 .. Len(s) /\ at \intersect (1 .. Len(s)) = at
    <2>1. Len(s) \in Nat
      OBVIOUS
    <2>2. Len(s) \in 0 .. Len(s)
      BY <2>1
    <2> DEFINE D == 1 .. Len(s)
    <2>3. at \intersect D = at
      <3> HIDE DEF D
      <3>1. at \subseteq D
        BY DEF D
      <3> QED BY <3>1
    <2> QED BY <2>2, <2>3
  <1>4. p[Len(s)] \in Seq(S) /\ \E f : Selects(f, p[Len(s)], s, at \intersect (1 .. Len(s)))
    BY <1>2, <1>3, UptoSelects
  <1> QED BY <1>1, <1>3, <1>4

(* Conversely, a list with these entries in order is Picked. *)
LEMMA SelectsIsPicked ==
  ASSUME NEW S, NEW s \in Seq(S), NEW at, at \subseteq 1 .. Len(s),
         NEW t \in Seq(S), NEW f, Selects(f, t, s, at)
  PROVE  t = Picked(s, at)
  <1> DEFINE u == Picked(s, at)
  <1>1. u \in Seq(S)
    BY PickedSelects
  <1>2. PICK g : Selects(g, u, s, at)
    BY PickedSelects
  <1> HIDE DEF u
  <1>3. Len(u) \in Nat /\ Len(t) \in Nat /\ at \subseteq Nat
    BY <1>1
  <1>4. Len(u) = Len(t) /\ g = f
    BY <1>2, <1>3, OneEnumeration DEF Selects
  <1>5. \A i \in 1 .. Len(t) : t[i] = u[i]
    BY <1>2, <1>4 DEF Selects
  <1>6. t = u
    BY <1>1, <1>4, <1>5, SeqEqual
  <1> QED BY <1>6 DEF u

----------------------------------------------------------------------------
(* A user's rows of a table in the database.                               *)

Ours(u, rows) == {i \in DOMAIN rows : rows[i].owner = u}

(* What Own returns: the user's rows, in order. *)
LEMMA OwnSelects ==
  ASSUME NEW S, NEW rows \in Seq(S), NEW u
  PROVE  /\ Own(u, rows) \in Seq(S) /\ Ours(u, rows) \subseteq 1 .. Len(rows)
         /\ \E f : Selects(f, Own(u, rows), rows, Ours(u, rows))
  <1>1. Ours(u, rows) \subseteq 1 .. Len(rows)
    BY LenProperties DEF Ours
  <1>2. Own(u, rows) = Picked(rows, Ours(u, rows))
    BY DEF Own, Ours
  <1> QED BY <1>1, <1>2, PickedSelects

(* And only Own returns that. *)
LEMMA SelectsIsOwn ==
  ASSUME NEW S, NEW rows \in Seq(S), NEW u, NEW t \in Seq(S), NEW f,
         Selects(f, t, rows, Ours(u, rows))
  PROVE  t = Own(u, rows)
  <1>1. Ours(u, rows) \subseteq 1 .. Len(rows)
    BY LenProperties DEF Ours
  <1>2. Own(u, rows) = Picked(rows, Ours(u, rows))
    BY DEF Own, Ours
  <1> QED BY <1>1, <1>2, SelectsIsPicked

(* A row is inserted. *)
LEMMA OwnAppend ==
  ASSUME NEW S, NEW rows \in Seq(S), NEW r \in S, NEW u
  PROVE  Own(u, Append(rows, r)) =
           IF r.owner = u THEN Append(Own(u, rows), r) ELSE Own(u, rows)
  <1> DEFINE new == Append(rows, r)  n == Len(rows)  t == Own(u, rows)  m == Len(t)
  <1>1. /\ new \in Seq(S) /\ Len(new) = n + 1 /\ new[n + 1] = r /\ n \in Nat
        /\ \A i \in 1 .. n : new[i] = rows[i]
    BY AppendProperties
  <1>2. PICK f : Selects(f, t, rows, Ours(u, rows))
    BY OwnSelects
  <1>3. t \in Seq(S) /\ m \in Nat
    BY OwnSelects
  <1>4. DOMAIN rows = 1 .. n /\ DOMAIN new = 1 .. n + 1
    BY <1>1, LenProperties
  <1> HIDE DEF new, t, n
  <1>5. /\ f \in [1 .. m -> Ours(u, rows)]
        /\ \A i, j \in 1 .. m : i < j => f[i] < f[j]
        /\ \A a \in Ours(u, rows) : \E i \in 1 .. m : f[i] = a
        /\ \A i \in 1 .. m : t[i] = rows[f[i]]
    BY <1>2 DEF Selects, Enumerates
  <1>6. \A i \in 1 .. m : f[i] \in 1 .. n
    BY <1>4, <1>5 DEF Ours
  <1>7. CASE r.owner # u
    <2>1. Ours(u, new) = Ours(u, rows)
      BY <1>1, <1>4, <1>7 DEF Ours
    <2>2. \A i \in 1 .. m : t[i] = new[f[i]]
      BY <1>1, <1>5, <1>6
    <2>3. Selects(f, t, new, Ours(u, new))
      BY <1>5, <2>1, <2>2 DEF Selects, Enumerates
    <2>4. t = Own(u, new)
      BY <1>1, <1>3, <2>3, SelectsIsOwn
    <2> QED BY <1>7, <2>4 DEF new, t
  <1>8. CASE r.owner = u
    <2> DEFINE w == Append(t, r)
               g == [i \in 1 .. m + 1 |-> IF i = m + 1 THEN n + 1 ELSE f[i]]
    <2>1. /\ w \in Seq(S) /\ Len(w) = m + 1 /\ w[m + 1] = r
          /\ \A i \in 1 .. m : w[i] = t[i]
      BY <1>3, AppendProperties
    <2>2. \A i : i \in Ours(u, new) <=> i = n + 1 \/ i \in Ours(u, rows)
      BY <1>1, <1>4, <1>8 DEF Ours
    <2>3. g \in [1 .. m + 1 -> Ours(u, new)]
      BY <1>3, <1>5, <2>2
    <2>4. ASSUME NEW i \in 1 .. m + 1, NEW j \in 1 .. m + 1, i < j PROVE g[i] < g[j]
      <3>1. i \in 1 .. m /\ g[i] = f[i] /\ f[i] \in 1 .. n
        BY <1>3, <1>6, <2>4
      <3>2. CASE j = m + 1
        BY <1>1, <3>1, <3>2
      <3>3. CASE j # m + 1
        <4>1. j \in 1 .. m /\ g[j] = f[j]
          BY <1>3, <3>3
        <4> QED BY <1>5, <2>4, <3>1, <4>1
      <3> QED BY <3>2, <3>3
    <2>5. ASSUME NEW a \in Ours(u, new) PROVE \E i \in 1 .. m + 1 : g[i] = a
      <3>1. CASE a = n + 1
        BY <1>3, <3>1
      <3>2. CASE a \in Ours(u, rows)
        <4>1. PICK i \in 1 .. m : f[i] = a
          BY <1>5, <3>2
        <4>2. i \in 1 .. m + 1 /\ g[i] = a
          BY <1>3, <4>1
        <4> QED BY <4>2
      <3> QED BY <2>2, <3>1, <3>2
    <2>6. \A i \in 1 .. m + 1 : w[i] = new[g[i]]
      BY <1>1, <1>3, <1>5, <1>6, <2>1
    <2> HIDE DEF w, g
    <2>7. Selects(g, w, new, Ours(u, new))
      BY <2>1, <2>3, <2>4, <2>5, <2>6 DEF Selects, Enumerates
    <2>8. w = Own(u, new)
      BY <1>1, <2>1, <2>7, SelectsIsOwn
    <2> QED BY <1>8, <2>8 DEF new, t, w
  <1> QED BY <1>7, <1>8

(* Rows are changed where they are, and keep their owners. *)
LEMMA OwnUpdated ==
  ASSUME NEW S, NEW rows \in Seq(S), NEW new \in Seq(S), NEW u, Len(new) = Len(rows),
         \A i \in 1 .. Len(rows) : new[i].owner = u <=> rows[i].owner = u
  PROVE  \E f : /\ Selects(f, Own(u, rows), rows, Ours(u, rows))
                /\ Selects(f, Own(u, new), new, Ours(u, rows))
  <1>1. Ours(u, new) = Ours(u, rows)
    BY LenProperties DEF Ours
  <1>2. PICK f : Selects(f, Own(u, rows), rows, Ours(u, rows))
    BY OwnSelects
  <1>3. PICK g : Selects(g, Own(u, new), new, Ours(u, rows))
    BY <1>1, OwnSelects
  <1>4. Own(u, rows) \in Seq(S) /\ Own(u, new) \in Seq(S) /\ Ours(u, rows) \subseteq Nat
    <2>1. Own(u, rows) \in Seq(S) /\ Own(u, new) \in Seq(S) /\ Ours(u, rows) \subseteq 1 .. Len(rows)
      BY OwnSelects
    <2> QED BY <2>1
  <1>5. Len(Own(u, rows)) \in Nat /\ Len(Own(u, new)) \in Nat
    BY <1>4
  <1>6. f = g
    BY <1>2, <1>3, <1>4, <1>5, OneEnumeration DEF Selects
  <1> QED BY <1>2, <1>3, <1>6

Within(g, n, A) == {j \in 1 .. n : g[j] \in A}

(* Of some rows that are kept, a part in order is such a part of the rest. *)
LEMMA PartOfRest ==
  ASSUME NEW S, NEW rows \in Seq(S), NEW keep, keep \subseteq 1 .. Len(rows),
         NEW rest \in Seq(S), NEW g, Selects(g, rest, rows, keep),
         NEW A, A \subseteq keep, NEW t \in Seq(S), NEW f, Selects(f, t, rows, A)
  PROVE  \E h : Selects(h, t, rest, Within(g, Len(rest), A))
  <1> DEFINE m == Len(t)  n == Len(rest)  B == {j \in 1 .. n : g[j] \in A}
             h == [i \in 1 .. m |-> CHOOSE j \in 1 .. n : g[j] = f[i]]
  <1>1. m \in Nat /\ n \in Nat
    OBVIOUS
  <1>2. /\ f \in [1 .. m -> A]
        /\ \A i, j \in 1 .. m : i < j => f[i] < f[j]
        /\ \A a \in A : \E i \in 1 .. m : f[i] = a
        /\ \A i \in 1 .. m : t[i] = rows[f[i]]
    BY DEF Selects, Enumerates
  <1>3. /\ g \in [1 .. n -> keep]
        /\ \A i, j \in 1 .. n : i < j => g[i] < g[j]
        /\ \A a \in keep : \E i \in 1 .. n : g[i] = a
        /\ \A i \in 1 .. n : rest[i] = rows[g[i]]
    BY DEF Selects, Enumerates
  <1>4. \A i \in 1 .. m : h[i] \in 1 .. n /\ g[h[i]] = f[i]
    BY <1>2, <1>3
  <1>5. DOMAIN h = 1 .. m /\ h = [i \in 1 .. m |-> h[i]]
    OBVIOUS
  <1> HIDE DEF h, m, n
  <1>6. h \in [1 .. m -> B]
    BY <1>2, <1>4, <1>5
  <1>7. ASSUME NEW i \in 1 .. m, NEW j \in 1 .. m, i < j PROVE h[i] < h[j]
    <2>1. g[h[i]] < g[h[j]]
      BY <1>2, <1>4, <1>7
    <2>2. \A a \in keep : a \in Nat
      OBVIOUS
    <2>3. g[h[i]] \in Nat /\ g[h[j]] \in Nat
      BY <1>3, <1>4, <2>2
    <2>4. h[i] # h[j]
      BY <2>1, <2>3
    <2>5. ~(h[j] < h[i])
      <3>1. h[j] < h[i] => g[h[j]] < g[h[i]]
        BY <1>3, <1>4
      <3> QED BY <2>1, <2>3, <3>1
    <2> QED BY <1>1, <1>4, <2>4, <2>5
  <1>8. ASSUME NEW b \in B PROVE \E i \in 1 .. m : h[i] = b
    <2>1. PICK i \in 1 .. m : f[i] = g[b]
      BY <1>2
    <2>2. g[h[i]] = g[b] /\ h[i] \in 1 .. n /\ b \in 1 .. n
      BY <1>4, <2>1
    <2>3. \A a \in keep : a \in Nat
      OBVIOUS
    <2>4. g[b] \in Nat
      BY <1>3, <2>2, <2>3
    <2>5. ~(h[i] < b) /\ ~(b < h[i])
      BY <1>3, <2>2, <2>4
    <2> QED BY <1>1, <2>2, <2>5
  <1>9. \A i \in 1 .. m : t[i] = rest[h[i]]
    BY <1>2, <1>3, <1>4
  <1> HIDE DEF B
  <1>10. Selects(h, t, rest, B)
    BY <1>6, <1>7, <1>8, <1>9 DEF Selects, Enumerates, m
  <1> QED BY <1>10 DEF B, n, Within

(* The rows that are equal to a given one are deleted. *)
Without(rows, x) == Picked(rows, {i \in DOMAIN rows : rows[i] # x})

(* A part of what a deletion leaves, if it is in order what the user has  *)
(* left, is what Own returns afterwards.                                  *)
LEMMA OwnOfRest ==
  ASSUME NEW S, NEW rows \in Seq(S), NEW x, NEW u, NEW t \in Seq(S), NEW f,
         Selects(f, t, rows, {i \in Ours(u, rows) : rows[i] # x})
  PROVE  Without(rows, x) \in Seq(S) /\ t = Own(u, Without(rows, x))
  <1> DEFINE keep == {i \in DOMAIN rows : rows[i] # x}
             A == {i \in Ours(u, rows) : rows[i] # x}
             rest == Without(rows, x)
  <1>1. keep \subseteq 1 .. Len(rows) /\ A \subseteq keep
    BY LenProperties DEF Ours
  <1>2. rest = Picked(rows, keep)
    BY DEF Without
  <1> HIDE DEF keep, rest
  <1>3. rest \in Seq(S) /\ \E g : Selects(g, rest, rows, keep)
    BY <1>1, <1>2, PickedSelects
  <1>4. PICK g : Selects(g, rest, rows, keep)
    BY <1>3
  <1>5. {j \in 1 .. Len(rest) : g[j] \in A} = Ours(u, rest)
    <2>1. DOMAIN rest = 1 .. Len(rest)
      BY <1>3, LenProperties
    <2>2. \A j \in 1 .. Len(rest) : g[j] \in keep /\ rest[j] = rows[g[j]]
      BY <1>4 DEF Selects, Enumerates
    <2> QED BY <2>1, <2>2 DEF Ours, keep
  <1>6. Selects(f, t, rows, A)
    OBVIOUS
  <1> HIDE DEF A
  <1>7. \E h : Selects(h, t, rest, Ours(u, rest))
    <2>1. \E h : Selects(h, t, rest, Within(g, Len(rest), A))
      BY <1>1, <1>3, <1>4, <1>6, PartOfRest
    <2> QED BY <1>5, <2>1 DEF Within
  <1>8. t = Own(u, rest)
    BY <1>3, <1>7, SelectsIsOwn
  <1> QED BY <1>3, <1>8 DEF rest

(* A deletion leaves the rows of another user as they are. *)
LEMMA OwnWithoutOther ==
  ASSUME NEW S, NEW rows \in Seq(S), NEW x, NEW u, x.owner # u
  PROVE  Own(u, Without(rows, x)) = Own(u, rows)
  <1>1. {i \in Ours(u, rows) : rows[i] # x} = Ours(u, rows)
    BY DEF Ours
  <1>2. PICK f : Selects(f, Own(u, rows), rows, Ours(u, rows))
    BY OwnSelects
  <1>3. Selects(f, Own(u, rows), rows, {i \in Ours(u, rows) : rows[i] # x})
    BY <1>1, <1>2
  <1> QED BY <1>3, OwnSelects, OwnOfRest

(* What RemoveAt returns. *)
LEMMA RemovedAt ==
  ASSUME NEW S, NEW s \in Seq(S), NEW i \in 1 .. Len(s)
  PROVE  /\ RemoveAt(s, i) \in Seq(S) /\ Len(RemoveAt(s, i)) = Len(s) - 1
         /\ \A j \in 1 .. Len(s) - 1 :
              RemoveAt(s, i)[j] = IF j < i THEN s[j] ELSE s[j + 1]
  <1> DEFINE t == SubSeq(s, 1, i - 1)  u == SubSeq(s, i + 1, Len(s))
  <1>1. t \in Seq(S) /\ Len(t) = i - 1 /\ \A j \in 1 .. i - 1 : t[j] = s[j]
    BY SubSeqProperties
  <1>2. /\ u \in Seq(S) /\ Len(u) = Len(s) - i
        /\ \A j \in 1 .. Len(s) - i : u[j] = s[i + j]
    BY SubSeqProperties
  <1> HIDE DEF t, u
  <1>3. /\ t \o u \in Seq(S) /\ Len(t \o u) = Len(t) + Len(u)
        /\ \A j \in 1 .. Len(t) + Len(u) :
             (t \o u)[j] = IF j <= Len(t) THEN t[j] ELSE u[j - Len(t)]
    BY <1>1, <1>2, ConcatProperties
  <1>4. \A j \in 1 .. Len(s) - 1 : (t \o u)[j] = IF j < i THEN s[j] ELSE s[j + 1]
    <2> SUFFICES ASSUME NEW j \in 1 .. Len(s) - 1
                 PROVE  (t \o u)[j] = IF j < i THEN s[j] ELSE s[j + 1]
      OBVIOUS
    <2>1. CASE j < i
      BY <1>1, <1>3, <2>1
    <2>2. CASE ~(j < i)
      <3>1. j - (i - 1) \in 1 .. Len(s) - i /\ i + (j - (i - 1)) = j + 1
        BY <2>2
      <3>2. (t \o u)[j] = u[j - (i - 1)]
        BY <1>1, <1>2, <1>3, <2>2
      <3>3. u[j - (i - 1)] = s[i + (j - (i - 1))]
        BY <1>2, <3>1
      <3> QED BY <2>2, <3>1, <3>2, <3>3
    <2> QED BY <2>1, <2>2
  <1>5. Len(t \o u) = Len(s) - 1
    BY <1>1, <1>2, <1>3
  <1>6. RemoveAt(s, i) = t \o u
    BY DEF RemoveAt, t, u
  <1> QED BY <1>3, <1>4, <1>5, <1>6

(* The deletion of a row its user has once removes it from the rows of    *)
(* that user.                                                             *)
LEMMA OwnWithout ==
  ASSUME NEW S, NEW rows \in Seq(S), NEW u, NEW i \in 1 .. Len(Own(u, rows)),
         \A j \in 1 .. Len(Own(u, rows)) : Own(u, rows)[j] = Own(u, rows)[i] => j = i
  PROVE  Own(u, Without(rows, Own(u, rows)[i])) = RemoveAt(Own(u, rows), i)
  <1> DEFINE t == Own(u, rows)  m == Len(t)  x == t[i]  w == RemoveAt(t, i)
             A == {k \in Ours(u, rows) : rows[k] # x}
  <1>1. t \in Seq(S) /\ m \in Nat /\ m - 1 \in Nat
    BY OwnSelects
  <1>2. PICK f : Selects(f, t, rows, Ours(u, rows))
    BY OwnSelects
  <1> HIDE DEF t
  <1>3. /\ w \in Seq(S) /\ Len(w) = m - 1
        /\ \A j \in 1 .. m - 1 : w[j] = IF j < i THEN t[j] ELSE t[j + 1]
    BY <1>1, RemovedAt DEF t
  <1>4. /\ f \in [1 .. m -> Ours(u, rows)]
        /\ \A j, k \in 1 .. m : j < k => f[j] < f[k]
        /\ \A a \in Ours(u, rows) : \E j \in 1 .. m : f[j] = a
        /\ \A j \in 1 .. m : t[j] = rows[f[j]]
    BY <1>2 DEF Selects, Enumerates
  <1>5. \A j \in 1 .. m : t[j] = x => j = i
    BY DEF t
  <1> DEFINE g == [j \in 1 .. m - 1 |-> IF j < i THEN f[j] ELSE f[j + 1]]
  <1>6. i \in 1 .. m
    BY DEF t
  <1>7. \A j \in 1 .. m : j # i => f[j] \in A
    BY <1>4, <1>5
  <1> HIDE DEF m, w, x, A
  <1>8. g \in [1 .. m - 1 -> A]
    <2>1. \A j \in 1 .. m - 1 : j \in 1 .. m /\ j + 1 \in 1 .. m /\ ~(j < i) => j + 1 # i
      BY <1>1, <1>6
    <2> QED BY <1>1, <1>6, <1>7, <2>1
  <1>9. ASSUME NEW j \in 1 .. m - 1, NEW k \in 1 .. m - 1, j < k PROVE g[j] < g[k]
    <2>1. j \in 1 .. m /\ k \in 1 .. m /\ j + 1 \in 1 .. m /\ k + 1 \in 1 .. m
      BY <1>1
    <2> QED BY <1>4, <1>6, <1>9, <2>1
  <1>10. ASSUME NEW a \in A PROVE \E j \in 1 .. m - 1 : g[j] = a
    <2>1. a \in Ours(u, rows) /\ rows[a] # x
      BY DEF A
    <2>2. PICK j \in 1 .. m : f[j] = a
      BY <1>4, <2>1
    <2>3. j # i
      BY <1>4, <2>1, <2>2 DEF x
    <2>4. CASE j < i
      BY <1>1, <1>6, <2>2, <2>4
    <2>5. CASE j > i
      <3>1. j - 1 \in 1 .. m - 1 /\ ~(j - 1 < i) /\ (j - 1) + 1 = j
        BY <1>1, <1>6, <2>5
      <3>2. g[j - 1] = f[j]
        BY <3>1
      <3> QED BY <2>2, <3>1, <3>2
    <2> QED BY <1>1, <1>6, <2>3, <2>4, <2>5
  <1>11. \A j \in 1 .. m - 1 : w[j] = rows[g[j]]
    <2>1. \A j \in 1 .. m - 1 : j \in 1 .. m /\ j + 1 \in 1 .. m
      BY <1>1
    <2> QED BY <1>3, <1>4, <2>1
  <1> HIDE DEF g
  <1>12. Selects(g, w, rows, A)
    BY <1>3, <1>8, <1>9, <1>10, <1>11 DEF Selects, Enumerates
  <1>13. w = Own(u, Without(rows, x))
    BY <1>3, <1>12, OwnOfRest DEF A
  <1> QED BY <1>13 DEF t, w, x

----------------------------------------------------------------------------
(* Rows, and the tables of a window.                                       *)

ProcRow == [owner : Users, prog : Programs, open : BOOLEAN, net : BOOLEAN]
HeadRow == [owner : Users, head : Heads]
TabRow == [prog : Programs, open : BOOLEAN, net : BOOLEAN, key : Nat]

Switched(s, i, col, v) == [s EXCEPT ![i][col] = v]

(* The fields of a row. *)
LEMMA RowFields ==
  ASSUME NEW r \in TabRow
  PROVE  /\ r.prog \in Programs /\ r.key \in Nat /\ r.prog.name \in Names
         /\ \A c \in Columns : r[c] \in BOOLEAN
  BY DEF TabRow, Names, Columns

(* A box of a row is turned. *)
LEMMA SwitchedField ==
  ASSUME NEW r \in TabRow, NEW col \in Columns, NEW v \in BOOLEAN
  PROVE  LET x == [r EXCEPT ![col] = v] IN
         /\ x \in TabRow /\ x.prog = r.prog /\ x.key = r.key
         /\ \A c \in Columns : x[c] = IF c = col THEN v ELSE r[c]
  <1>1. CASE col = "open"
    BY <1>1 DEF TabRow, Columns
  <1>2. CASE col = "net"
    BY <1>2 DEF TabRow, Columns
  <1> QED BY <1>1, <1>2 DEF Columns

(* The same in a table: that box changes, and nothing else. *)
LEMMA SwitchedRow ==
  ASSUME NEW s \in Seq(TabRow), NEW i \in 1 .. Len(s), NEW col \in Columns, NEW v \in BOOLEAN
  PROVE  /\ Switched(s, i, col, v) \in Seq(TabRow) /\ Len(Switched(s, i, col, v)) = Len(s)
         /\ \A j \in 1 .. Len(s) :
              /\ Switched(s, i, col, v)[j].prog = s[j].prog
              /\ Switched(s, i, col, v)[j].key = s[j].key
              /\ \A c \in Columns : Switched(s, i, col, v)[j][c] =
                                      IF j = i /\ c = col THEN v ELSE s[j][c]
  <1> DEFINE x == [s[i] EXCEPT ![col] = v]
  <1>0. s[i] \in TabRow
    OBVIOUS
  <1>1. /\ x \in TabRow /\ x.prog = s[i].prog /\ x.key = s[i].key
        /\ \A c \in Columns : x[c] = IF c = col THEN v ELSE s[i][c]
    BY <1>0, SwitchedField
  <1>2. Switched(s, i, col, v) = [s EXCEPT ![i] = x]
    BY DEF Switched
  <1> HIDE DEF x
  <1>3. /\ [s EXCEPT ![i] = x] \in Seq(TabRow) /\ Len([s EXCEPT ![i] = x]) = Len(s)
        /\ \A j \in 1 .. Len(s) : [s EXCEPT ![i] = x][j] = IF j = i THEN x ELSE s[j]
    BY <1>1, ExceptSeq
  <1> QED BY <1>1, <1>2, <1>3


(* A table of programs, and one of heads: nothing is shown twice.          *)
TabOK(s) ==
  /\ s \in Seq(TabRow)
  /\ \A i \in 1 .. Len(s) : s[i].key >= i - 1
  /\ \A i, j \in 1 .. Len(s) : s[i].prog = s[j].prog => i = j
HeadOK(s) == s \in Seq(Heads) /\ \A i, j \in 1 .. Len(s) : s[i] = s[j] => i = j

(* Empty tables show nothing twice. *)
LEMMA NoRows == TabOK(<<>>) /\ HeadOK(<<>>)
  <1>1. \A S : <<>> \in Seq(S) /\ Len(<<>>) = 0
    BY EmptySeq
  <1> QED BY <1>1 DEF TabOK, HeadOK

(* A turned box leaves the programs and the numbers of the rows. *)
LEMMA TabSwitched ==
  ASSUME NEW s, TabOK(s), NEW i \in 1 .. Len(s), NEW col \in Columns, NEW v \in BOOLEAN
  PROVE  TabOK(Switched(s, i, col, v))
  BY SwitchedRow DEF TabOK

(* The rows below a deleted one move up, and keep their numbers. *)
LEMMA TabRemoved ==
  ASSUME NEW s, TabOK(s), NEW i \in 1 .. Len(s)
  PROVE  TabOK(RemoveAt(s, i))
  <1> DEFINE t == RemoveAt(s, i)
  <1>1. /\ s \in Seq(TabRow) /\ Len(s) \in Nat
        /\ \A j \in 1 .. Len(s) : s[j].key \in Nat /\ s[j].key >= j - 1
        /\ \A j, k \in 1 .. Len(s) : s[j].prog = s[k].prog => j = k
    <2>1. s \in Seq(TabRow)
      BY DEF TabOK
    <2>2. \A j \in 1 .. Len(s) : s[j] \in TabRow
      BY <2>1
    <2>3. \A j \in 1 .. Len(s) : s[j].key \in Nat
      BY <2>2, RowFields
    <2> QED BY <2>1, <2>3 DEF TabOK
  <1>2. /\ t \in Seq(TabRow) /\ Len(t) = Len(s) - 1
        /\ \A j \in 1 .. Len(s) - 1 : t[j] = IF j < i THEN s[j] ELSE s[j + 1]
    BY <1>1, RemovedAt
  <1> HIDE DEF t
  <1>3. \A j \in 1 .. Len(s) - 1 : j \in 1 .. Len(s) /\ j + 1 \in 1 .. Len(s)
    BY <1>1
  <1>4. ASSUME NEW j \in 1 .. Len(t) PROVE t[j].key >= j - 1
    <2>1. j \in 1 .. Len(s) /\ j + 1 \in 1 .. Len(s) /\ j \in 1 .. Len(s) - 1
      BY <1>2, <1>3
    <2>2. CASE j < i
      BY <1>1, <1>2, <2>1, <2>2
    <2>3. CASE ~(j < i)
      <3>1. t[j] = s[j + 1] /\ s[j + 1].key \in Nat /\ s[j + 1].key >= (j + 1) - 1
        BY <1>1, <1>2, <2>1, <2>3
      <3> QED BY <2>1, <3>1
    <2> QED BY <2>2, <2>3
  <1>5. ASSUME NEW j \in 1 .. Len(t), NEW k \in 1 .. Len(t), t[j].prog = t[k].prog PROVE j = k
    <2>1. /\ j \in 1 .. Len(s) /\ j + 1 \in 1 .. Len(s) /\ j \in 1 .. Len(s) - 1
          /\ k \in 1 .. Len(s) /\ k + 1 \in 1 .. Len(s) /\ k \in 1 .. Len(s) - 1
      BY <1>2, <1>3
    <2> DEFINE J == IF j < i THEN j ELSE j + 1  K == IF k < i THEN k ELSE k + 1
    <2>2. J \in 1 .. Len(s) /\ K \in 1 .. Len(s) /\ t[j] = s[J] /\ t[k] = s[K]
      BY <1>2, <2>1
    <2>3. J = K
      <3> HIDE DEF J, K
      <3> QED BY <1>1, <1>5, <2>2
    <2> QED BY <2>1, <2>3
  <1> QED BY <1>2, <1>4, <1>5 DEF TabOK, t

(* A row for a program that is not shown is appended. *)
LEMMA TabAppended ==
  ASSUME NEW s, TabOK(s), NEW p \in Programs, NEW o \in BOOLEAN, NEW n \in BOOLEAN,
         \A i \in 1 .. Len(s) : s[i].prog # p
  PROVE  TabOK(Append(s, Row(p, o, n, Len(s))))
  <1> DEFINE r == Row(p, o, n, Len(s))  t == Append(s, r)
  <1>1. s \in Seq(TabRow) /\ Len(s) \in Nat
    BY DEF TabOK
  <1>2. r \in TabRow /\ r.prog = p /\ r.key = Len(s)
    BY <1>1 DEF Row, TabRow
  <1> HIDE DEF r
  <1>3. /\ t \in Seq(TabRow) /\ Len(t) = Len(s) + 1 /\ t[Len(s) + 1] = r
        /\ \A i \in 1 .. Len(s) : t[i] = s[i]
    BY <1>1, <1>2, AppendProperties
  <1> HIDE DEF t
  <1>4. \A i \in 1 .. Len(t) : i \in 1 .. Len(s) \/ i = Len(s) + 1
    BY <1>1, <1>3
  <1>5. \A i \in 1 .. Len(t) : t[i].key >= i - 1
    BY <1>1, <1>2, <1>3, <1>4 DEF TabOK
  <1>6. \A i, j \in 1 .. Len(t) : t[i].prog = t[j].prog => i = j
    BY <1>2, <1>3, <1>4 DEF TabOK
  <1> QED BY <1>3, <1>5, <1>6 DEF TabOK, t, r

(* A head is shown once: when its row is deleted it is shown no more. *)
LEMMA HeadRemoved ==
  ASSUME NEW s, HeadOK(s), NEW i \in 1 .. Len(s)
  PROVE  HeadOK(RemoveAt(s, i)) /\ \A j \in 1 .. Len(RemoveAt(s, i)) : RemoveAt(s, i)[j] # s[i]
  <1> DEFINE t == RemoveAt(s, i)
  <1>1. /\ s \in Seq(Heads) /\ Len(s) \in Nat
        /\ \A j, k \in 1 .. Len(s) : s[j] = s[k] => j = k
    BY DEF HeadOK
  <1>2. /\ t \in Seq(Heads) /\ Len(t) = Len(s) - 1
        /\ \A j \in 1 .. Len(s) - 1 : t[j] = IF j < i THEN s[j] ELSE s[j + 1]
    BY <1>1, RemovedAt
  <1> HIDE DEF t
  <1>3. \A j \in 1 .. Len(t) : /\ j \in 1 .. Len(s) /\ j + 1 \in 1 .. Len(s)
                               /\ t[j] = IF j < i THEN s[j] ELSE s[j + 1]
    BY <1>1, <1>2
  <1>4. ASSUME NEW j \in 1 .. Len(t), NEW k \in 1 .. Len(t), t[j] = t[k] PROVE j = k
    <2> DEFINE J == IF j < i THEN j ELSE j + 1  K == IF k < i THEN k ELSE k + 1
    <2>2. J \in 1 .. Len(s) /\ K \in 1 .. Len(s) /\ t[j] = s[J] /\ t[k] = s[K]
      BY <1>3
    <2>3. J = K
      <3> HIDE DEF J, K
      <3> QED BY <1>1, <1>4, <2>2
    <2> QED BY <1>3, <2>3
  <1>5. ASSUME NEW j \in 1 .. Len(t) PROVE t[j] # s[i]
    <2> DEFINE J == IF j < i THEN j ELSE j + 1
    <2>1. J \in 1 .. Len(s) /\ J # i /\ t[j] = s[J]
      BY <1>3
    <2> HIDE DEF J
    <2> QED BY <1>1, <2>1
  <1> QED BY <1>2, <1>4, <1>5 DEF HeadOK, t

(* A head that is not shown is appended. *)
LEMMA HeadAppended ==
  ASSUME NEW s, HeadOK(s), NEW h \in Heads, \A i \in 1 .. Len(s) : s[i] # h
  PROVE  HeadOK(Append(s, h))
  <1> DEFINE t == Append(s, h)
  <1>1. s \in Seq(Heads) /\ Len(s) \in Nat
    BY DEF HeadOK
  <1>3. /\ t \in Seq(Heads) /\ Len(t) = Len(s) + 1 /\ t[Len(s) + 1] = h
        /\ \A i \in 1 .. Len(s) : t[i] = s[i]
    BY <1>1, AppendProperties
  <1> HIDE DEF t
  <1>4. \A i \in 1 .. Len(t) : i \in 1 .. Len(s) \/ i = Len(s) + 1
    BY <1>1, <1>3
  <1>6. \A i, j \in 1 .. Len(t) : t[i] = t[j] => i = j
    BY <1>3, <1>4 DEF HeadOK
  <1> QED BY <1>3, <1>6 DEF HeadOK, t

----------------------------------------------------------------------------
(* What becomes of the lists.                                               *)

(* What a list ranges over. *)
LEMMA InRange ==
  ASSUME NEW S, NEW s \in Seq(S)
  PROVE  \A x : x \in Range(s) <=> \E i \in 1 .. Len(s) : s[i] = x
  BY LenProperties DEF Range

(* An element is put before a list. *)
LEMMA Consed ==
  ASSUME NEW S, NEW s \in Seq(S), NEW x \in S
  PROVE  /\ <<x>> \o s \in Seq(S) /\ Len(<<x>> \o s) = Len(s) + 1 /\ (<<x>> \o s)[1] = x
         /\ \A i \in 1 .. Len(s) : (<<x>> \o s)[i + 1] = s[i]
  <1>1. <<x>> \in Seq(S) /\ Len(<<x>>) = 1 /\ <<x>>[1] = x
    OBVIOUS
  <1> DEFINE y == <<x>>
  <1> HIDE DEF y
  <1>2. /\ y \o s \in Seq(S) /\ Len(y \o s) = Len(y) + Len(s)
        /\ \A i \in 1 .. Len(y) + Len(s) : (y \o s)[i] =
                     IF i <= Len(y) THEN y[i] ELSE s[i - Len(y)]
    BY <1>1, ConcatProperties DEF y
  <1>3. y \in Seq(S) /\ Len(y) = 1 /\ y[1] = x /\ Len(s) \in Nat
    BY <1>1 DEF y
  <1>4. (y \o s)[1] = x
    BY <1>2, <1>3
  <1>5. ASSUME NEW i \in 1 .. Len(s) PROVE (y \o s)[i + 1] = s[i]
    <2>1. i + 1 \in 1 .. Len(y) + Len(s) /\ ~(i + 1 <= Len(y)) /\ (i + 1) - Len(y) = i
      BY <1>3
    <2> QED BY <1>2, <2>1
  <1> QED BY <1>2, <1>3, <1>4, <1>5 DEF y

(* The smallest of some numbers is one of them. *)
LEMMA LeastIs ==
  ASSUME NEW T, T \subseteq Nat, T # {}
  PROVE  Min(T) \in T
  <1>1. \E x \in T : \A y \in T : x =< y
    BY LeastExists
  <1> QED BY <1>1 DEF Min

(* A list that an element is put before keeps its entries. *)
LEMMA ConsKeeps ==
  ASSUME NEW S, NEW s \in Seq(S), NEW x \in S
  PROVE  Range(s) \subseteq Range(<<x>> \o s) /\ x \in Range(<<x>> \o s)
  <1> DEFINE t == <<x>> \o s
  <1>1. /\ t \in Seq(S) /\ Len(t) = Len(s) + 1 /\ t[1] = x
        /\ \A i \in 1 .. Len(s) : t[i + 1] = s[i]
    BY Consed
  <1> HIDE DEF t
  <1>2. Len(s) \in Nat
    OBVIOUS
  <1>3. \A y : y \in Range(t) <=> \E i \in 1 .. Len(t) : t[i] = y
    BY <1>1, InRange
  <1>4. ASSUME NEW y \in Range(s) PROVE y \in Range(t)
    <2>1. PICK i \in 1 .. Len(s) : s[i] = y
      BY InRange
    <2>2. i + 1 \in 1 .. Len(t) /\ t[i + 1] = y
      BY <1>1, <1>2, <2>1
    <2> QED BY <1>3, <2>2
  <1>5. 1 \in 1 .. Len(t)
    BY <1>1, <1>2
  <1>6. x \in Range(t)
    BY <1>1, <1>3, <1>5
  <1> QED BY <1>4, <1>6 DEF t

(* A removal leaves what differs from the entry removed. *)
LEMMA RemoveKeeps ==
  ASSUME NEW S, NEW s \in Seq(S), NEW i \in 1 .. Len(s), NEW x \in Range(s), x # s[i]
  PROVE  x \in Range(RemoveAt(s, i))
  <1> DEFINE t == RemoveAt(s, i)
  <1>1. /\ t \in Seq(S) /\ Len(t) = Len(s) - 1
        /\ \A j \in 1 .. Len(s) - 1 : t[j] = IF j < i THEN s[j] ELSE s[j + 1]
    BY RemovedAt
  <1> HIDE DEF t
  <1>2. PICK j \in 1 .. Len(s) : s[j] = x
    BY InRange
  <1>3. Len(s) \in Nat /\ j # i
    BY <1>2
  <1>4. \E k \in 1 .. Len(t) : t[k] = x
    <2>1. CASE j < i
      <3>1. j \in 1 .. Len(s) - 1
        BY <1>3, <2>1
      <3> QED BY <1>1, <1>2, <2>1, <3>1
    <2>2. CASE j > i
      <3>1. j - 1 \in 1 .. Len(s) - 1 /\ ~(j - 1 < i) /\ (j - 1) + 1 = j
        BY <1>3, <2>2
      <3>2. t[j - 1] = s[j]
        BY <1>1, <3>1
      <3> QED BY <1>1, <1>2, <3>1, <3>2
    <2> QED BY <1>3, <2>1, <2>2
  <1> QED BY <1>1, <1>4, InRange DEF t

(* A rule that is added takes none away, and is there unless the driver   *)
(* failed.                                                                *)
LEMMA ForbidEffect ==
  ASSUME ssdt \in SUBSET Names, wfp \in Seq(Names), NEW n \in Names, NEW col \in Columns,
         NEW f, Forbid(col, n, f)
  PROVE  /\ ssdt' \in SUBSET Names /\ wfp' \in Seq(Names)
         /\ ssdt \subseteq ssdt' /\ Range(wfp) \subseteq Range(wfp')
         /\ f # Driver(col) => n \in IF col = "open" THEN ssdt' ELSE Range(wfp')
  <1>1. CASE col = "open"
    BY <1>1 DEF Forbid, ForbidOpen, Driver
  <1>2. CASE col = "net"
    <2>1. ssdt' = ssdt /\ wfp' = IF f = "wfp" THEN wfp ELSE <<n>> \o wfp
      BY <1>2 DEF Forbid, ForbidNet
    <2>2. /\ <<n>> \o wfp \in Seq(Names)
          /\ Range(wfp) \subseteq Range(<<n>> \o wfp) /\ n \in Range(<<n>> \o wfp)
      BY Consed, ConsKeeps
    <2>3. CASE f = "wfp"
      BY <1>2, <2>1, <2>3 DEF Driver
    <2>4. CASE f # "wfp"
      BY <1>2, <2>1, <2>2, <2>4 DEF Driver
    <2> QED BY <2>3, <2>4
  <1> QED BY <1>1, <1>2 DEF Columns

(* The SSDT driver deletes only what starts with the given name. *)
LEMMA AllowOpenEffect ==
  ASSUME ssdt \in SUBSET Names, NEW n \in Names, NEW f, AllowOpen(n, f)
  PROVE  ssdt' \in SUBSET Names /\ \A m \in ssdt : m \in ssdt' \/ <<n, m>> \in Starts
  BY DEF AllowOpen

(* So does the WFP driver. *)
LEMMA AllowNetEffect ==
  ASSUME wfp \in Seq(Names), NEW n \in Names, NEW f, AllowNet(n, f)
  PROVE  wfp' \in Seq(Names) /\ \A m \in Range(wfp) : m \in Range(wfp') \/ <<n, m>> \in Starts
  <1> DEFINE hits == {i \in DOMAIN wfp : <<n, wfp[i]>> \in Starts}
  <1>1. wfp' = IF f = "wfp" \/ hits = {} THEN wfp ELSE RemoveAt(wfp, Min(hits))
    BY DEF AllowNet
  <1>2. hits \subseteq 1 .. Len(wfp)
    BY LenProperties
  <1>3. \A i \in hits : <<n, wfp[i]>> \in Starts
    OBVIOUS
  <1> HIDE DEF hits
  <1>4. CASE f = "wfp" \/ hits = {}
    BY <1>1, <1>4
  <1>5. CASE ~(f = "wfp" \/ hits = {})
    <2>1. Min(hits) \in hits
      <3>1. hits \subseteq Nat
        BY <1>2
      <3> QED BY <1>5, <3>1, LeastIs
    <2>2. PICK i \in 1 .. Len(wfp) : wfp' = RemoveAt(wfp, i) /\ <<n, wfp[i]>> \in Starts
      BY <1>1, <1>2, <1>3, <1>5, <2>1
    <2>3. RemoveAt(wfp, i) \in Seq(Names)
      BY RemovedAt
    <2> QED BY <2>2, <2>3, RemoveKeeps
  <1> QED BY <1>4, <1>5

(* The two together, as a box deletes a rule in one of them. *)
LEMMA AllowEffect ==
  ASSUME ssdt \in SUBSET Names, wfp \in Seq(Names), NEW n \in Names, NEW col \in Columns,
         NEW f, Allow(col, n, f)
  PROVE  /\ ssdt' \in SUBSET Names /\ wfp' \in Seq(Names)
         /\ \A m \in ssdt : m \in ssdt' \/ <<n, m>> \in Starts
         /\ \A m \in Range(wfp) : m \in Range(wfp') \/ <<n, m>> \in Starts
  <1>1. CASE col = "open"
    BY <1>1, AllowOpenEffect DEF Allow
  <1>2. CASE col = "net"
    BY <1>2, AllowNetEffect DEF Allow
  <1> QED BY <1>1, <1>2 DEF Columns

(* The NDIS driver deletes only what it takes for the given head. *)
LEMMA FoundEffect ==
  ASSUME ndis \in Seq(Heads), NEW h, Found(h)
  PROVE  ndis' \in Seq(Heads) /\ \A g \in Range(ndis) : g \in Range(ndis') \/ <<g, h>> \in Same
  <1>1. PICK i \in 1 .. Len(ndis) : <<ndis[i], h>> \in Same /\ ndis' = RemoveAt(ndis, i)
    BY LenProperties DEF Found
  <1>2. RemoveAt(ndis, i) \in Seq(Heads)
    BY RemovedAt
  <1> QED BY <1>1, <1>2, RemoveKeeps

----------------------------------------------------------------------------
(* The database.                                                           *)

(* A row that is stored is a row of the database. *)
LEMMA RecordTyped ==
  ASSUME NEW u \in Users, NEW r, r.prog \in Programs, r.open \in BOOLEAN, r.net \in BOOLEAN
  PROVE  Record(u, r) \in ProcRow
  BY DEF Record, ProcRow

(* A part of a list is a list of the same things. *)
LEMMA PickedTyped ==
  ASSUME NEW S, NEW s \in Seq(S), NEW at, at \subseteq DOMAIN s
  PROVE  Picked(s, at) \in Seq(S)
  <1>1. at \subseteq 1 .. Len(s)
    BY LenProperties
  <1> QED BY <1>1, PickedSelects

(* So is what a desktop loads. *)
LEMMA OwnTyped ==
  ASSUME NEW S, NEW rows \in Seq(S), NEW u, NEW f
  PROVE  Loaded(u, rows, f) \in Seq(S)
  <1>1. {i \in DOMAIN rows : rows[i].owner = u} \subseteq DOMAIN rows
    OBVIOUS
  <1>2. {i \in DOMAIN rows : u \notin Admins /\ <<rows[i].owner, u>> \in Senior} \subseteq DOMAIN rows
    OBVIOUS
  <1>3. Own(u, rows) \in Seq(S)
    BY <1>1, PickedTyped DEF Own
  <1>4. Seniors(u, rows) \in Seq(S)
    BY <1>2, PickedTyped DEF Seniors
  <1>5. Own(u, rows) \o Seniors(u, rows) \in Seq(S)
    BY <1>3, <1>4, ConcatProperties
  <1> QED BY <1>5 DEF Loaded

(* A flag of a row of the database is set. *)
LEMMA UpdatedRow ==
  ASSUME NEW r \in ProcRow, NEW col \in Columns, NEW v \in BOOLEAN
  PROVE  LET x == [r EXCEPT ![col] = v] IN
         /\ x \in ProcRow /\ x.owner = r.owner /\ x.prog = r.prog
         /\ \A c \in Columns : x[c] = IF c = col THEN v ELSE r[c]
  <1>1. CASE col = "open"
    BY <1>1 DEF ProcRow, Columns
  <1>2. CASE col = "net"
    BY <1>2 DEF ProcRow, Columns
  <1> QED BY <1>1, <1>2 DEF Columns

Updated(r, u, p, col, v) ==
  IF r.owner = u /\ r.prog = p THEN [r EXCEPT ![col] = v] ELSE r

(* updateProcess sets the flag in the rows of that user and program, and  *)
(* nothing else.                                                          *)
LEMMA UpdateEffect ==
  ASSUME process \in Seq(ProcRow), NEW d, NEW p, NEW col \in Columns, NEW v \in BOOLEAN, NEW f,
         updateProcess(d, p, col, v, f), f # "db"
  PROVE  /\ process' \in Seq(ProcRow) /\ Len(process') = Len(process)
         /\ \A i \in 1 .. Len(process) : process'[i] = Updated(process[i], user[d], p, col, v)
  <1>1. DOMAIN process = 1 .. Len(process) /\ Len(process) \in Nat
    BY LenProperties
  <1> DEFINE x(i) == IF process[i].owner = user[d] /\ process[i].prog = p
                     THEN [process[i] EXCEPT ![col] = v] ELSE process[i]
  <1>2. process' = [i \in 1 .. Len(process) |-> x(i)]
    BY <1>1 DEF updateProcess
  <1>3. ASSUME NEW i \in 1 .. Len(process) PROVE x(i) \in ProcRow
    <2>1. process[i] \in ProcRow
      OBVIOUS
    <2>2. [process[i] EXCEPT ![col] = v] \in ProcRow
      BY <2>1, UpdatedRow
    <2> QED BY <2>1, <2>2
  <1> HIDE DEF x
  <1>4. process' \in Seq(ProcRow) /\ Len(process') = Len(process)
    BY <1>1, <1>2, <1>3
  <1> QED BY <1>2, <1>4 DEF x, Updated

----------------------------------------------------------------------------
(* The types, and what the windows keep of their tables. *)

Tabs == {s \in Seq(TabRow) : TabOK(s)}
HeadTabs == {s \in Seq(Heads) : HeadOK(s)}
DbInv == process \in Seq(ProcRow) /\ nethead \in Seq(HeadRow)
ListInv == ssdt \in SUBSET Names /\ wfp \in Seq(Names) /\ ndis \in Seq(Heads)
Idle == \A d \in Desktops : ~Running(d) => blacktw[d] = <<>> /\ headtw[d] = <<>>
TabInv ==
  /\ user \in [Desktops -> Users \union {Nobody}]
  /\ blacktw \in [Desktops -> Tabs] /\ headtw \in [Desktops -> HeadTabs]
  /\ Idle
HistInv ==
  /\ clean \in [Desktops -> BOOLEAN] /\ alone \in [Desktops -> BOOLEAN]
  /\ kept \in [Desktops -> BOOLEAN]
  /\ lifted \in [Desktops -> SUBSET (Programs \union Heads)]
RuleInv == DbInv /\ ListInv /\ TabInv /\ HistInv /\ events \in 0 .. MaxEvents

(* Empty tables are tables. *)
LEMMA NoTables == <<>> \in Tabs /\ <<>> \in HeadTabs
  BY NoRows, EmptySeq DEF Tabs, HeadTabs

(* Initially the database, the lists and the tables are empty. *)
LEMMA InitRuleInv == Init => RuleInv
  <1>1. \A S : <<>> \in Seq(S)
    BY EmptySeq
  <1>2. SUFFICES ASSUME Init PROVE RuleInv
    OBVIOUS
  <1>3. DbInv /\ ListInv
    BY <1>1, <1>2 DEF Init, DbInv, ListInv
  <1>4. TabInv
    BY <1>2, NoTables DEF Init, TabInv, Idle
  <1>5. HistInv
    BY <1>2 DEF Init, HistInv
  <1> QED BY <1>2, <1>3, <1>4, <1>5, RuleTableAssumption DEF RuleInv, Init

(* The bound is kept. *)
LEMMA EventTyped ==
  ASSUME events \in 0 .. MaxEvents, NEW f, Event(f)
  PROVE  events' \in 0 .. MaxEvents
  BY RuleTableAssumption DEF Event

(* A desktop that is gone has no table left; the others keep theirs. *)
LEMMA GoneKeeps ==
  ASSUME TabInv, HistInv, NEW d \in Desktops,
         NEW taken \in [Desktops -> SUBSET (Programs \union Heads)], Gone(d, taken)
  PROVE  TabInv' /\ HistInv'
  <1>1. user' = [user EXCEPT ![d] = Nobody] /\ blacktw' = [blacktw EXCEPT ![d] = <<>>]
        /\ headtw' = [headtw EXCEPT ![d] = <<>>]
    BY DEF Gone
  <1>2. TabInv'
    BY <1>1, NoTables DEF TabInv, Idle, Running
  <1>3. HistInv'
    BY DEF Gone, HistInv
  <1> QED BY <1>2, <1>3

(* What a failure does to the history. *)
LEMMA FailedTyped ==
  ASSUME HistInv, NEW d \in Desktops, NEW f, Failed(d, f)
  PROVE  clean' \in [Desktops -> BOOLEAN] /\ alone' \in [Desktops -> BOOLEAN]
  BY DEF HistInv, Failed

(* What a desktop shows. *)
LEMMA ShownPrograms ==
  ASSUME TabInv, NEW e \in Desktops
  PROVE  Shown(e) \subseteq Programs /\ Range(headtw[e]) \subseteq Heads
  <1>1. blacktw[e] \in Seq(TabRow) /\ headtw[e] \in Seq(Heads)
    BY DEF TabInv, Tabs, HeadTabs
  <1>2. \A i \in DOMAIN blacktw[e] : blacktw[e][i] \in TabRow
    BY <1>1
  <1>3. Shown(e) \subseteq Programs
    BY <1>2, RowFields DEF Shown
  <1>4. \A i \in DOMAIN headtw[e] : headtw[e][i] \in Heads
    BY <1>1
  <1> QED BY <1>3, <1>4 DEF Range

(* What a deletion may take with it is what desktops show. *)
LEMMA LiftedTyped ==
  ASSUME TabInv, HistInv, NEW d \in Desktops, NEW x
  PROVE  /\ WithProgram(d, x) \in [Desktops -> SUBSET (Programs \union Heads)]
         /\ WithHead(d, x) \in [Desktops -> SUBSET (Programs \union Heads)]
  <1>1. \A e \in Desktops : lifted[e] \subseteq Programs \union Heads
    BY DEF HistInv
  <1>2. \A e \in Desktops :
          {q \in Shown(e) : <<x.name, q.name>> \in Starts /\ ~(e = d /\ q = x)}
            \subseteq Programs \union Heads
    BY ShownPrograms
  <1>3. \A e \in Desktops :
          {g \in Range(headtw[e]) : <<g, x>> \in Same /\ ~(e = d /\ g = x)}
            \subseteq Programs \union Heads
    BY ShownPrograms
  <1> QED BY <1>1, <1>2, <1>3 DEF WithProgram, WithHead

(* A box: the k-th row is the one whose rule is changed. *)
Box(d, rows, i, k, col, f) ==
  /\ blacktw' = [blacktw EXCEPT ![d] = rows]
  /\ nethead' = nethead /\ ndis' = ndis /\ user' = user /\ headtw' = headtw
  /\ IF rows[k][col] THEN Forbid(col, rows[k].prog.name, f) /\ lifted' = lifted
     ELSE Allow(col, rows[k].prog.name, f) /\ lifted' = WithProgram(d, rows[k].prog)
  /\ updateProcess(d, rows[k].prog, col, rows[k][col], f)
  /\ Failed(d, IF k # i THEN "astray" ELSE f)
  /\ kept' = [kept EXCEPT ![d] = @ /\ k = i /\ f # Driver(col)]

(* comboboxChanged: the number of the box leads to a row, or the program  *)
(* ends.                                                                  *)
LEMMA BoxEffect ==
  ASSUME RuleInv, NEW d \in Desktops, NEW i \in 1 .. Len(blacktw[d]),
         NEW col \in Columns, NEW v \in BOOLEAN, NEW f,
         comboboxChanged(d, Switched(blacktw[d], i, col, v), i, col, f)
  PROVE  \/ Gone(d, lifted) /\ UNCHANGED <<process, nethead, ssdt, wfp, ndis>>
         \/ \E k \in 1 .. Len(blacktw[d]) : Box(d, Switched(blacktw[d], i, col, v), i, k, col, f)
  <1> DEFINE rows == Switched(blacktw[d], i, col, v)  k == rows[i].key + 1
  <1>1. blacktw[d] \in Seq(TabRow)
    BY DEF RuleInv, TabInv, Tabs
  <1>2. rows \in Seq(TabRow) /\ Len(rows) = Len(blacktw[d]) /\ rows[i] \in TabRow
    <2>1. rows \in Seq(TabRow) /\ Len(rows) = Len(blacktw[d])
      BY <1>1, SwitchedRow
    <2> HIDE DEF rows
    <2> QED BY <2>1
  <1> HIDE DEF rows
  <1>3. rows[i].key \in Nat
    BY <1>2, RowFields
  <1>4. k > Len(rows) \/ k \in 1 .. Len(blacktw[d])
    BY <1>2, <1>3, <1>1
  <1>5. CASE k > Len(rows)
    BY <1>5 DEF comboboxChanged, rows, database, lists
  <1>6. CASE ~(k > Len(rows))
    <2>1. /\ blacktw' = [blacktw EXCEPT ![d] = rows]
          /\ nethead' = nethead /\ ndis' = ndis /\ user' = user /\ headtw' = headtw
      BY <1>6 DEF comboboxChanged, rows
    <2>2. IF rows[k][col] THEN Forbid(col, rows[k].prog.name, f) /\ lifted' = lifted
          ELSE Allow(col, rows[k].prog.name, f) /\ lifted' = WithProgram(d, rows[k].prog)
      BY <1>6 DEF comboboxChanged, rows
    <2>3. updateProcess(d, rows[k].prog, col, rows[k][col], f)
      BY <1>6 DEF comboboxChanged, rows
    <2>4. Failed(d, IF k # i THEN "astray" ELSE f)
      BY <1>6 DEF comboboxChanged, rows
    <2>5. kept' = [kept EXCEPT ![d] = @ /\ k = i /\ f # Driver(col)]
      BY <1>6 DEF comboboxChanged, rows
    <2>6. Box(d, rows, i, k, col, f)
      BY <2>1, <2>2, <2>3, <2>4, <2>5 DEF Box
    <2> HIDE DEF k
    <2> QED BY <1>4, <1>6, <2>6 DEF rows
  <1> QED BY <1>5, <1>6

(* It keeps the types and the tables. *)
LEMMA BoxTyped ==
  ASSUME RuleInv, NEW d \in Desktops, NEW i \in 1 .. Len(blacktw[d]),
         NEW col \in Columns, NEW v \in BOOLEAN, NEW f, Event(f),
         comboboxChanged(d, Switched(blacktw[d], i, col, v), i, col, f)
  PROVE  RuleInv'
  <1> DEFINE rows == Switched(blacktw[d], i, col, v)
  <1>0. /\ DbInv /\ ListInv /\ TabInv /\ HistInv /\ events' \in 0 .. MaxEvents
        /\ blacktw[d] \in Seq(TabRow) /\ TabOK(blacktw[d])
    BY EventTyped DEF RuleInv, TabInv, Tabs
  <1>1. CASE Gone(d, lifted) /\ UNCHANGED <<process, nethead, ssdt, wfp, ndis>>
    <2>1. TabInv' /\ HistInv'
      BY <1>0, <1>1, GoneKeeps DEF HistInv
    <2>2. DbInv' /\ ListInv'
      BY <1>0, <1>1 DEF DbInv, ListInv
    <2> QED BY <1>0, <2>1, <2>2 DEF RuleInv
  <1>2. ASSUME NEW k \in 1 .. Len(blacktw[d]), Box(d, rows, i, k, col, f) PROVE RuleInv'
    <2>1. rows \in Seq(TabRow) /\ Len(rows) = Len(blacktw[d]) /\ TabOK(rows)
      BY <1>0, SwitchedRow, TabSwitched
    <2> HIDE DEF rows
    <2>2. rows[k] \in TabRow
      BY <2>1
    <2>3. rows[k].prog \in Programs /\ rows[k].prog.name \in Names /\ rows[k][col] \in BOOLEAN
      BY <2>2, RowFields
    <2>4. nethead' = nethead /\ ndis' = ndis /\ user' = user /\ headtw' = headtw
      BY <1>2 DEF Box
    <2>5. blacktw' = [blacktw EXCEPT ![d] = rows]
      BY <1>2 DEF Box
    <2>6. ssdt' \in SUBSET Names /\ wfp' \in Seq(Names)
      <3>1. ssdt \in SUBSET Names /\ wfp \in Seq(Names)
        BY <1>0 DEF ListInv
      <3>2. Forbid(col, rows[k].prog.name, f) \/ Allow(col, rows[k].prog.name, f)
        BY <1>2 DEF Box
      <3> QED BY <2>3, <3>1, <3>2, ForbidEffect, AllowEffect
    <2>7. lifted' \in [Desktops -> SUBSET (Programs \union Heads)]
      <3>1. lifted' = lifted \/ lifted' = WithProgram(d, rows[k].prog)
        BY <1>2 DEF Box
      <3> QED BY <1>0, <3>1, LiftedTyped DEF HistInv
    <2>8. DbInv'
      <3>1. updateProcess(d, rows[k].prog, col, rows[k][col], f) /\ process \in Seq(ProcRow)
        BY <1>0, <1>2 DEF Box, DbInv
      <3>2. CASE f = "db"
        BY <1>0, <2>4, <3>1, <3>2 DEF DbInv, updateProcess
      <3>3. CASE f # "db"
        <4>1. process' \in Seq(ProcRow)
          BY <2>3, <3>1, <3>3, UpdateEffect
        <4> QED BY <1>0, <2>4, <4>1 DEF DbInv
      <3> QED BY <3>2, <3>3
    <2>9. HistInv'
      <3>1. clean' \in [Desktops -> BOOLEAN] /\ alone' \in [Desktops -> BOOLEAN]
        <4>1. Failed(d, IF k # i THEN "astray" ELSE f)
          BY <1>2 DEF Box
        <4> QED BY <1>0, <4>1, FailedTyped
      <3>2. kept' \in [Desktops -> BOOLEAN]
        BY <1>0, <1>2 DEF Box, HistInv
      <3> QED BY <2>7, <3>1, <3>2 DEF HistInv
    <2>10. TabInv'
      <3>1. blacktw' \in [Desktops -> Tabs]
        BY <1>0, <2>1, <2>5 DEF TabInv, Tabs
      <3>2. \A e \in Desktops : ~Running(e) => rows = <<>> \/ e # d
        <4>1. Running(d)
          BY <1>0, EmptySeq DEF TabInv, Idle
        <4> QED BY <4>1
      <3>3. Idle'
        BY <1>0, <2>4, <2>5, <3>2 DEF TabInv, Idle, Running
      <3> QED BY <1>0, <2>4, <3>1, <3>3 DEF TabInv
    <2>11. ListInv'
      BY <1>0, <2>4, <2>6 DEF ListInv
    <2> QED BY <1>0, <2>8, <2>9, <2>10, <2>11 DEF RuleInv
  <1> QED BY <1>1, <1>2, BoxEffect

----------------------------------------------------------------------------
(* The two ways in which a box is turned, and the insertion of a row.      *)

Boxed(d) == \E i \in 1 .. Len(blacktw[d]), col \in Columns, f \in Fault :
  /\ Event(f)
  /\ comboboxChanged(d, Switched(blacktw[d], i, col, ~blacktw[d][i][col]), i, col, f)

InsertedRow(d, p, col, f) ==
  /\ Running(d) /\ Event(f)
  /\ \A i \in 1 .. Len(blacktw[d]) : blacktw[d][i].prog # p
  /\ Forbid(col, p.name, f)
  /\ blacktw' = [blacktw EXCEPT ![d] = IF f = Driver(col) THEN blacktw[d]
       ELSE Append(blacktw[d], Row(p, col = "open", col = "net", Len(blacktw[d])))]
  /\ insertProcess(d, Row(p, col = "open", col = "net", 0), f)
  /\ Failed(d, f)
  /\ nethead' = nethead /\ ndis' = ndis /\ user' = user /\ headtw' = headtw
  /\ kept' = kept /\ lifted' = lifted
Inserted(d) == \E p \in Programs, col \in Columns, f \in Fault : InsertedRow(d, p, col, f)

(* A box that is turned. *)
LEMMA TurnIsBoxed ==
  ASSUME RuleInv, NEW d \in Desktops, Turn(d)
  PROVE  Boxed(d)
  <1>1. PICK i \in DOMAIN blacktw[d], col \in Columns, f \in Fault :
          /\ Event(f)
          /\ comboboxChanged(d, [blacktw[d] EXCEPT ![i][col] = ~@], i, col, f)
    BY DEF Turn
  <1>2. i \in 1 .. Len(blacktw[d])
    <2>1. blacktw[d] \in Seq(TabRow)
      BY DEF RuleInv, TabInv, Tabs
    <2> QED BY <2>1, LenProperties
  <1>3. [blacktw[d] EXCEPT ![i][col] = ~@] = Switched(blacktw[d], i, col, ~blacktw[d][i][col])
    BY DEF Switched
  <1>4. comboboxChanged(d, Switched(blacktw[d], i, col, ~blacktw[d][i][col]), i, col, f)
    BY <1>1, <1>3
  <1> QED BY <1>1, <1>2, <1>4 DEF Boxed

(* A program is banned: its box is turned on, or it gets a row. *)
LEMMA ForbidIsBoxedOrInserted ==
  ASSUME RuleInv, NEW d \in Desktops, forbidProcess(d)
  PROVE  Boxed(d) \/ Inserted(d)
  <1>0. /\ blacktw[d] \in Seq(TabRow) /\ DOMAIN blacktw[d] = 1 .. Len(blacktw[d])
        /\ Running(d) /\ user[d] \in Users
    <2>1. blacktw[d] \in Seq(TabRow) /\ user[d] \in Users \union {Nobody}
      BY DEF RuleInv, TabInv, Tabs
    <2>2. Running(d)
      BY DEF forbidProcess
    <2> QED BY <2>1, <2>2, LenProperties DEF Running
  <1>1. PICK p \in Programs, col \in Justice[user[d]] \ {"head"}, f \in Fault :
     LET at == {i \in DOMAIN blacktw[d] : blacktw[d][i].prog = p} IN
     /\ Event(f)
     /\ \/ /\ at = {}
           /\ InsertForbid(d, p, col, f)
           /\ insertProcess(d, Row(p, col = "open", col = "net", 0), f)
           /\ Failed(d, f)
           /\ UNCHANGED <<nethead, ndis, user, headtw, kept, lifted>>
        \/ \E i \in at :
           /\ ~blacktw[d][i][col]
           /\ comboboxChanged(d, [blacktw[d] EXCEPT ![i][col] = TRUE], i, col, f)
    BY DEF forbidProcess
  <1>2. col \in Columns
    BY <1>0, RuleTableAssumption
  <1> DEFINE at == {i \in DOMAIN blacktw[d] : blacktw[d][i].prog = p}
  <1>3. ASSUME at = {},
               InsertForbid(d, p, col, f),
               insertProcess(d, Row(p, col = "open", col = "net", 0), f),
               Failed(d, f),
               UNCHANGED <<nethead, ndis, user, headtw, kept, lifted>>
        PROVE  Inserted(d)
    <2>1. \A i \in 1 .. Len(blacktw[d]) : blacktw[d][i].prog # p
      BY <1>0, <1>3
    <2>2. Forbid(col, p.name, f) /\
          blacktw' = [blacktw EXCEPT ![d] = IF f = Driver(col) THEN blacktw[d]
            ELSE Append(blacktw[d], Row(p, col = "open", col = "net", Len(blacktw[d])))]
      BY <1>3 DEF InsertForbid
    <2>3. InsertedRow(d, p, col, f)
      BY <1>0, <1>1, <1>3, <2>1, <2>2 DEF InsertedRow
    <2> QED BY <1>2, <2>3 DEF Inserted
  <1>4. ASSUME NEW i \in at, ~blacktw[d][i][col],
               comboboxChanged(d, [blacktw[d] EXCEPT ![i][col] = TRUE], i, col, f)
        PROVE  Boxed(d)
    <2>1. i \in 1 .. Len(blacktw[d]) /\ blacktw[d][i] \in TabRow
      BY <1>0
    <2>2. (~blacktw[d][i][col]) = TRUE
      BY <1>2, <1>4, <2>1, RowFields
    <2>3. [blacktw[d] EXCEPT ![i][col] = TRUE] =
            Switched(blacktw[d], i, col, ~blacktw[d][i][col])
      BY <2>2 DEF Switched
    <2>4. comboboxChanged(d, Switched(blacktw[d], i, col, ~blacktw[d][i][col]), i, col, f)
      BY <1>4, <2>3
    <2> QED BY <1>1, <1>2, <2>1, <2>4 DEF Boxed
  <1> QED BY <1>1, <1>3, <1>4

(* A row is inserted. *)
LEMMA InsertedTyped ==
  ASSUME RuleInv, NEW d \in Desktops, NEW p \in Programs, NEW col \in Columns, NEW f,
         InsertedRow(d, p, col, f)
  PROVE  RuleInv'
  <1>0. DbInv /\ ListInv /\ TabInv /\ HistInv /\ events \in 0 .. MaxEvents
    BY DEF RuleInv
  <1> DEFINE s == blacktw[d]  r == Row(p, col = "open", col = "net", Len(s))
             q == Row(p, col = "open", col = "net", 0)
             rows == IF f = Driver(col) THEN s ELSE Append(s, r)
  <1>1. /\ Running(d) /\ Event(f) /\ (\A i \in 1 .. Len(s) : s[i].prog # p)
        /\ Forbid(col, p.name, f) /\ insertProcess(d, q, f) /\ Failed(d, f)
        /\ nethead' = nethead /\ ndis' = ndis /\ user' = user /\ headtw' = headtw
        /\ kept' = kept /\ lifted' = lifted
    BY DEF InsertedRow
  <1>2. blacktw' = [blacktw EXCEPT ![d] = rows]
    BY DEF InsertedRow
  <1>3. s \in Seq(TabRow) /\ TabOK(s) /\ user[d] \in Users
    BY <1>0, <1>1 DEF TabInv, Tabs, Running
  <1> HIDE DEF s
  <1>4. rows \in Seq(TabRow) /\ TabOK(rows)
    <2>1. TabOK(Append(s, r))
      BY <1>1, <1>3, TabAppended
    <2>2. TabOK(rows)
      BY <1>3, <2>1
    <2> HIDE DEF rows
    <2> QED BY <2>2 DEF TabOK
  <1> HIDE DEF rows
  <1>5. TabInv'
    <2>1. blacktw' \in [Desktops -> Tabs]
      BY <1>0, <1>2, <1>4 DEF TabInv, Tabs
    <2>2. Idle'
      BY <1>0, <1>1, <1>2 DEF TabInv, Idle, Running
    <2> QED BY <1>0, <1>1, <2>1, <2>2 DEF TabInv
  <1>6. DbInv'
    <2>1. Record(user[d], q) \in ProcRow
      <3>1. q.prog \in Programs /\ q.open \in BOOLEAN /\ q.net \in BOOLEAN
        BY DEF Row
      <3> QED BY <1>3, <3>1, RecordTyped
    <2> HIDE DEF q
    <2>2. process' = process \/ process' = Append(process, Record(user[d], q))
      BY <1>1 DEF insertProcess
    <2> QED BY <1>0, <1>1, <2>1, <2>2, AppendProperties DEF DbInv
  <1>7. HistInv'
    BY <1>0, <1>1, FailedTyped DEF HistInv
  <1>8. ListInv'
    <2>1. p.name \in Names
      BY DEF Names
    <2> QED BY <1>0, <1>1, <2>1, ForbidEffect DEF ListInv
  <1> QED BY <1>0, <1>1, <1>5, <1>6, <1>7, <1>8, EventTyped DEF RuleInv

(* A row is deleted. *)
LEMMA AllowProcessTyped ==
  ASSUME RuleInv, NEW d \in Desktops, allowProcess(d)
  PROVE  RuleInv'
  <1>0. DbInv /\ ListInv /\ TabInv /\ HistInv /\ events \in 0 .. MaxEvents
    BY DEF RuleInv
  <1> DEFINE s == blacktw[d]
  <1>1. s \in Seq(TabRow) /\ TabOK(s) /\ DOMAIN s = 1 .. Len(s)
    BY <1>0, LenProperties DEF TabInv, Tabs
  <1>2. PICK i \in 1 .. Len(s), f \in Fault :
          /\ Event(f) /\ blacktw' = [blacktw EXCEPT ![d] = RemoveAt(s, i)]
          /\ AllowNet(s[i].prog.name, f) /\ AllowOpen(s[i].prog.name, f)
          /\ lifted' = WithProgram(d, s[i].prog)
          /\ deleteProcess(d, s[i], f) /\ Failed(d, f)
          /\ nethead' = nethead /\ ndis' = ndis /\ user' = user
          /\ headtw' = headtw /\ kept' = kept
    BY <1>1 DEF allowProcess
  <1> HIDE DEF s
  <1>3. RemoveAt(s, i) \in Tabs
    BY <1>1, TabRemoved DEF Tabs, TabOK
  <1>4. TabInv'
    <2>1. blacktw' \in [Desktops -> Tabs]
      BY <1>0, <1>2, <1>3 DEF TabInv
    <2>2. Running(d)
      BY <1>0, <1>1, <1>2, EmptySeq DEF TabInv, Idle, s
    <2>3. Idle'
      BY <1>0, <1>2, <2>2 DEF TabInv, Idle, Running
    <2> QED BY <1>0, <1>2, <2>1, <2>3 DEF TabInv
  <1>5. DbInv'
    <2>1. {j \in DOMAIN process : process[j] # Record(user[d], s[i])} \subseteq DOMAIN process
      OBVIOUS
    <2>2. process' \in Seq(ProcRow)
      BY <1>0, <1>2, <2>1, PickedTyped DEF deleteProcess, DbInv
    <2> QED BY <1>0, <1>2, <2>2 DEF DbInv
  <1>6. HistInv'
    BY <1>0, <1>2, FailedTyped, LiftedTyped DEF HistInv
  <1>7. ListInv'
    <2>1. s[i] \in TabRow
      BY <1>1
    <2>2. s[i].prog.name \in Names
      BY <2>1, RowFields
    <2> QED BY <1>0, <1>2, <2>2, AllowNetEffect, AllowOpenEffect DEF ListInv
  <1> QED BY <1>0, <1>2, <1>4, <1>5, <1>6, <1>7, EventTyped DEF RuleInv

(* A head is banned. *)
LEMMA ForbidNetheadTyped ==
  ASSUME RuleInv, NEW d \in Desktops, forbidNethead(d)
  PROVE  RuleInv'
  <1>0. DbInv /\ ListInv /\ TabInv /\ HistInv /\ events \in 0 .. MaxEvents
    BY DEF RuleInv
  <1> DEFINE s == headtw[d]
  <1>1. s \in Seq(Heads) /\ HeadOK(s) /\ DOMAIN s = 1 .. Len(s) /\ Running(d) /\ user[d] \in Users
    BY <1>0, LenProperties DEF TabInv, HeadTabs, forbidNethead, Running
  <1>2. PICK h \in Heads, f \in Fault :
          /\ \A i \in 1 .. Len(s) : <<s[i], h>> \notin Alike
          /\ Event(f)
          /\ IF f = "ndis" THEN UNCHANGED <<ndis, headtw>>
             ELSE ndis' = <<h>> \o ndis /\ headtw' = [headtw EXCEPT ![d] = Append(s, h)]
          /\ nethead' = IF f = "db" THEN nethead
                        ELSE Append(nethead, [owner |-> user[d], head |-> h])
          /\ Failed(d, f)
          /\ process' = process /\ ssdt' = ssdt /\ wfp' = wfp /\ user' = user
          /\ blacktw' = blacktw /\ kept' = kept /\ lifted' = lifted
    BY <1>1 DEF forbidNethead
  <1> HIDE DEF s
  <1>3. HeadOK(Append(s, h))
    <2>1. \A i \in 1 .. Len(s) : s[i] # h
      BY <1>2, RuleTableAssumption
    <2> QED BY <1>1, <2>1, HeadAppended
  <1>4. Append(s, h) \in HeadTabs
    BY <1>3 DEF HeadTabs, HeadOK
  <1>5. TabInv'
    <2>1. headtw' \in [Desktops -> HeadTabs]
      BY <1>0, <1>2, <1>4 DEF TabInv
    <2>3. Idle'
      BY <1>0, <1>1, <1>2 DEF TabInv, Idle, Running
    <2> QED BY <1>0, <1>2, <2>1, <2>3 DEF TabInv
  <1>6. DbInv'
    <2>1. [owner |-> user[d], head |-> h] \in HeadRow
      BY <1>1 DEF HeadRow
    <2>2. Append(nethead, [owner |-> user[d], head |-> h]) \in Seq(HeadRow)
      BY <1>0, <2>1, AppendProperties DEF DbInv
    <2> QED BY <1>0, <1>2, <2>2 DEF DbInv
  <1>7. HistInv'
    BY <1>0, <1>2, FailedTyped DEF HistInv
  <1>8. ListInv'
    <2>1. <<h>> \o ndis \in Seq(Heads)
      BY <1>0, Consed DEF ListInv
    <2> QED BY <1>0, <1>2, <2>1 DEF ListInv
  <1> QED BY <1>0, <1>2, <1>5, <1>6, <1>7, <1>8, EventTyped DEF RuleInv

(* The three things that may come of the deletion of a head. *)
RefusedHead(d, h, f) ==
  /\ Failed(d, f)
  /\ UNCHANGED <<process, nethead, ssdt, wfp, ndis, user, blacktw, headtw, kept, lifted>>
EndedAtHead(d, h, f) ==
  /\ Found(h) /\ Gone(d, WithHead(d, h)) /\ UNCHANGED <<process, nethead, ssdt, wfp>>
DeletedHead(d, h, i, f) ==
  /\ Found(h)
  /\ headtw' = [headtw EXCEPT ![d] = RemoveAt(headtw[d], i)]
  /\ nethead' = IF f = "db" THEN nethead
                ELSE Picked(nethead, {k \in DOMAIN nethead :
                                       nethead[k] # [owner |-> user[d], head |-> h]})
  /\ lifted' = WithHead(d, h)
  /\ Failed(d, IF headtw[d][i] # h THEN "astray" ELSE f)
  /\ kept' = [kept EXCEPT ![d] = @ /\ headtw[d][i] = h]
  /\ UNCHANGED <<process, ssdt, wfp, user, blacktw>>

(* The deletion of a head is one of the three. *)
LEMMA AllowNetheadIs ==
  ASSUME RuleInv, NEW d \in Desktops, allowNethead(d)
  PROVE  \E h \in Heads, f \in Fault :
           /\ Running(d) /\ Event(f)
           /\ \/ RefusedHead(d, h, f)
              \/ EndedAtHead(d, h, f)
              \/ \E i \in 1 .. Len(headtw[d]) : DeletedHead(d, h, i, f)
  <1>0. Len(headtw[d]) \in Nat
    BY LenProperties DEF RuleInv, TabInv, HeadTabs
  <1>1. Running(d)
    BY DEF allowNethead
  <1>2. PICK h \in Heads, i \in 0 .. Len(headtw[d]), f \in Fault :
    /\ Event(f)
    /\ \/ Refused /\ Failed(d, f) /\ UNCHANGED <<database, ssdt, wfp, user, tables, kept, lifted>>
       \/ /\ f # "ndis" /\ i = 0 /\ Found(h) /\ Gone(d, WithHead(d, h))
          /\ UNCHANGED <<database, ssdt, wfp>>
       \/ i # 0 /\ DeletedHead(d, h, i, f)
    BY DEF allowNethead, DeletedHead
  <1>3. CASE /\ Refused /\ Failed(d, f)
             /\ UNCHANGED <<database, ssdt, wfp, user, tables, kept, lifted>>
    BY <1>1, <1>2, <1>3 DEF RefusedHead, Refused, database, tables
  <1>4. CASE /\ f # "ndis" /\ i = 0 /\ Found(h) /\ Gone(d, WithHead(d, h))
             /\ UNCHANGED <<database, ssdt, wfp>>
    BY <1>1, <1>2, <1>4 DEF EndedAtHead, database
  <1>5. CASE i # 0 /\ DeletedHead(d, h, i, f)
    <2>1. i \in 1 .. Len(headtw[d])
      BY <1>0, <1>5
    <2> QED BY <1>1, <1>2, <1>5, <2>1
  <1> QED BY <1>2, <1>3, <1>4, <1>5

(* Each of them keeps the types and the tables. *)
LEMMA AllowNetheadTyped ==
  ASSUME RuleInv, NEW d \in Desktops, allowNethead(d)
  PROVE  RuleInv'
  <1>0. DbInv /\ ListInv /\ TabInv /\ HistInv /\ events \in 0 .. MaxEvents
    BY DEF RuleInv
  <1>1. PICK h \in Heads, f \in Fault :
           /\ Running(d) /\ Event(f)
           /\ \/ RefusedHead(d, h, f)
              \/ EndedAtHead(d, h, f)
              \/ \E i \in 1 .. Len(headtw[d]) : DeletedHead(d, h, i, f)
    BY AllowNetheadIs
  <1>2. events' \in 0 .. MaxEvents
    BY <1>0, <1>1, EventTyped
  <1>3. CASE RefusedHead(d, h, f)
    <2>1. HistInv'
      BY <1>0, <1>3, FailedTyped DEF HistInv, RefusedHead
    <2>2. DbInv' /\ ListInv' /\ TabInv'
      BY <1>0, <1>3 DEF RefusedHead, DbInv, ListInv, TabInv, Idle, Running
    <2> QED BY <1>2, <2>1, <2>2 DEF RuleInv
  <1>4. CASE EndedAtHead(d, h, f)
    <2>1. WithHead(d, h) \in [Desktops -> SUBSET (Programs \union Heads)]
      BY <1>0, LiftedTyped
    <2>2. TabInv' /\ HistInv'
      BY <1>0, <1>4, <2>1, GoneKeeps DEF EndedAtHead
    <2>3. DbInv' /\ ListInv'
      BY <1>0, <1>4, FoundEffect DEF EndedAtHead, DbInv, ListInv
    <2> QED BY <1>2, <2>2, <2>3 DEF RuleInv
  <1>5. ASSUME NEW i \in 1 .. Len(headtw[d]), DeletedHead(d, h, i, f) PROVE RuleInv'
    <2>1. DbInv'
      <3>1. {k \in DOMAIN nethead : nethead[k] # [owner |-> user[d], head |-> h]}
              \subseteq DOMAIN nethead
        OBVIOUS
      <3>2. nethead' \in Seq(HeadRow)
        BY <1>0, <1>5, <3>1, PickedTyped DEF DeletedHead, DbInv
      <3> QED BY <1>0, <1>5, <3>2 DEF DeletedHead, DbInv
    <2>2. ListInv'
      BY <1>0, <1>5, FoundEffect DEF DeletedHead, ListInv
    <2>3. TabInv'
      <3>1. HeadOK(headtw[d])
        BY <1>0 DEF TabInv, HeadTabs
      <3>2. RemoveAt(headtw[d], i) \in HeadTabs
        BY <3>1, HeadRemoved DEF HeadTabs, HeadOK
      <3>3. headtw' \in [Desktops -> HeadTabs]
        BY <1>0, <1>5, <3>2 DEF TabInv, DeletedHead
      <3>4. Idle'
        BY <1>0, <1>1, <1>5 DEF TabInv, Idle, Running, DeletedHead
      <3> QED BY <1>0, <1>5, <3>3, <3>4 DEF TabInv, DeletedHead
    <2>4. HistInv'
      <3>1. clean' \in [Desktops -> BOOLEAN] /\ alone' \in [Desktops -> BOOLEAN]
        BY <1>0, <1>5, FailedTyped DEF DeletedHead
      <3>2. kept' \in [Desktops -> BOOLEAN]
        BY <1>0, <1>5 DEF DeletedHead, HistInv
      <3> QED BY <1>0, <1>5, <3>1, <3>2, LiftedTyped DEF HistInv, DeletedHead
    <2> QED BY <1>2, <2>1, <2>2, <2>3, <2>4 DEF RuleInv
  <1> QED BY <1>1, <1>3, <1>4, <1>5

(* A list is sent the other way round. *)
LEMMA ReverseTyped ==
  ASSUME NEW S, NEW s \in Seq(S)
  PROVE  Reverse(s) \in Seq(S)
  <1>1. Len(s) \in Nat /\ \A i \in 1 .. Len(s) : s[i] \in S
    OBVIOUS
  <1>2. \A i \in 1 .. Len(s) : s[(Len(s) - i) + 1] \in S
    BY <1>1
  <1> QED BY <1>1, <1>2 DEF Reverse

(* A list that another one is put before keeps its entries. *)
LEMMA ConcatKeeps ==
  ASSUME NEW S, NEW s \in Seq(S), NEW t \in Seq(S)
  PROVE  s \o t \in Seq(S) /\ Range(t) \subseteq Range(s \o t)
  <1> DEFINE w == s \o t
  <1>1. /\ w \in Seq(S) /\ Len(w) = Len(s) + Len(t)
        /\ \A i \in 1 .. Len(s) + Len(t) : w[i] = IF i <= Len(s) THEN s[i] ELSE t[i - Len(s)]
    BY ConcatProperties
  <1> HIDE DEF w
  <1>2. Len(s) \in Nat /\ Len(t) \in Nat
    OBVIOUS
  <1>3. ASSUME NEW x \in Range(t) PROVE x \in Range(w)
    <2>1. PICK i \in 1 .. Len(t) : t[i] = x
      BY InRange
    <2>2. Len(s) + i \in 1 .. Len(s) + Len(t) /\ ~(Len(s) + i <= Len(s)) /\ (Len(s) + i) - Len(s) = i
      BY <1>2
    <2>3. w[Len(s) + i] = x /\ Len(s) + i \in 1 .. Len(w)
      BY <1>1, <2>1, <2>2
    <2> QED BY <1>1, <2>3, InRange
  <1> QED BY <1>1, <1>3 DEF w

(* The names a desktop sends to a driver. *)
LEMMA BannedTyped ==
  ASSUME NEW rules \in Seq(ProcRow), NEW col
  PROVE  Banned(rules, col) \in Seq(Names)
  <1> DEFINE banned == Picked(rules, {i \in DOMAIN rules : rules[i][col]})
  <1>1. {i \in DOMAIN rules : rules[i][col]} \subseteq DOMAIN rules
    OBVIOUS
  <1>2. banned \in Seq(ProcRow)
    BY <1>1, PickedTyped
  <1> HIDE DEF banned
  <1>3. DOMAIN banned = 1 .. Len(banned) /\ Len(banned) \in Nat
    BY <1>2, LenProperties
  <1>4. \A i \in 1 .. Len(banned) : banned[i].prog.name \in Names
    <2>1. \A i \in 1 .. Len(banned) : banned[i] \in ProcRow
      BY <1>2
    <2>2. \A r \in ProcRow : r.prog \in Programs
      BY DEF ProcRow
    <2> QED BY <2>1, <2>2 DEF Names
  <1>5. [i \in 1 .. Len(banned) |-> banned[i].prog.name] \in Seq(Names)
    BY <1>3, <1>4
  <1> QED BY <1>3, <1>5 DEF Banned, banned

(* A desktop starts: the lists grow, the tables and the database stay. *)
LEMMA StartEffect ==
  ASSUME RuleInv, NEW d \in Desktops, Start(d)
  PROVE  /\ ~Running(d) /\ events' \in 0 .. MaxEvents
         /\ process' = process /\ nethead' = nethead
         /\ blacktw' = blacktw /\ headtw' = headtw /\ lifted' = lifted
         /\ ssdt' \in SUBSET Names /\ ssdt \subseteq ssdt'
         /\ wfp' \in Seq(Names) /\ Range(wfp) \subseteq Range(wfp')
         /\ ndis' \in Seq(Heads) /\ Range(ndis) \subseteq Range(ndis')
         /\ kept' = [kept EXCEPT ![d] = TRUE]
         /\ alone' = [e \in Desktops |->
              e = d /\ {o \in Desktops : Running(o)} = {} /\ ssdt' = {} /\ wfp' = <<>> /\ ndis' = <<>>]
         /\ \E u \in Users :
              /\ user' = [user EXCEPT ![d] = u]
              /\ clean' = [e \in Desktops |->
                   IF e = d THEN /\ Own(u, process) = <<>> /\ Own(u, nethead) = <<>>
                                 /\ \A o \in {x \in Desktops : Running(x)} : user[o] # u
                   ELSE clean[e] /\ user[e] # u]
  <1>0. DbInv /\ ListInv /\ TabInv /\ HistInv /\ events \in 0 .. MaxEvents
    BY DEF RuleInv
  <1>1. PICK u \in Users, f \in Fault :
     LET rules == Loaded(u, process, f)
         heads == Loaded(u, nethead, f)
         others == {e \in Desktops : Running(e)}
     IN
     /\ ~Running(d)
     /\ Event(f)
     /\ user' = [user EXCEPT ![d] = u]
     /\ ssdt' = IF f = "ssdt" THEN ssdt ELSE ssdt \union Range(Banned(rules, "open"))
     /\ wfp' = IF f = "wfp" THEN wfp ELSE Reverse(Banned(rules, "net")) \o wfp
     /\ ndis' = IF f = "ndis" THEN ndis
                ELSE Reverse([i \in DOMAIN heads |-> heads[i].head]) \o ndis
     /\ clean' = [e \in Desktops |->
          IF e = d THEN /\ Own(u, process) = <<>> /\ Own(u, nethead) = <<>>
                        /\ \A o \in others : user[o] # u
          ELSE clean[e] /\ user[e] # u]
     /\ alone' = [e \in Desktops |->
          e = d /\ others = {} /\ ssdt' = {} /\ wfp' = <<>> /\ ndis' = <<>>]
     /\ kept' = [kept EXCEPT ![d] = TRUE]
     /\ UNCHANGED <<database, tables, lifted>>
    BY DEF Start
  <1> DEFINE rules == Loaded(u, process, f)  heads == Loaded(u, nethead, f)
  <1>2. rules \in Seq(ProcRow) /\ heads \in Seq(HeadRow)
    BY <1>0, OwnTyped DEF DbInv
  <1> HIDE DEF rules, heads
  <1>3. ssdt' \in SUBSET Names /\ ssdt \subseteq ssdt'
    <2>1. Banned(rules, "open") \in Seq(Names)
      BY <1>2, BannedTyped
    <2> DEFINE b == Banned(rules, "open")
    <2> HIDE DEF b
    <2>2. Range(b) \subseteq Names
      <3>1. \A x \in Range(b) : \E i \in 1 .. Len(b) : b[i] = x
        BY <2>1, InRange DEF b
      <3>2. \A i \in 1 .. Len(b) : b[i] \in Names
        BY <2>1 DEF b
      <3> QED BY <3>1, <3>2
    <2>3. ssdt' = IF f = "ssdt" THEN ssdt ELSE ssdt \union Range(b)
      BY <1>1 DEF rules, b
    <2> QED BY <1>0, <2>2, <2>3 DEF ListInv
  <1>4. wfp' \in Seq(Names) /\ Range(wfp) \subseteq Range(wfp')
    <2>1. Reverse(Banned(rules, "net")) \in Seq(Names) /\ wfp \in Seq(Names)
      BY <1>0, <1>2, BannedTyped, ReverseTyped DEF ListInv
    <2>2. wfp' = IF f = "wfp" THEN wfp ELSE Reverse(Banned(rules, "net")) \o wfp
      BY <1>1 DEF rules
    <2> DEFINE b == Reverse(Banned(rules, "net"))
    <2> HIDE DEF b
    <2>3. b \o wfp \in Seq(Names) /\ Range(wfp) \subseteq Range(b \o wfp)
      BY <2>1, ConcatKeeps DEF b
    <2> QED BY <2>1, <2>2, <2>3 DEF b
  <1>5. ndis' \in Seq(Heads) /\ Range(ndis) \subseteq Range(ndis')
    <2> DEFINE hs == [i \in DOMAIN heads |-> heads[i].head]
    <2>1. hs \in Seq(Heads)
      <3>1. DOMAIN heads = 1 .. Len(heads) /\ Len(heads) \in Nat
        BY <1>2, LenProperties
      <3>2. \A i \in 1 .. Len(heads) : heads[i].head \in Heads
        <4>1. \A i \in 1 .. Len(heads) : heads[i] \in HeadRow
          BY <1>2
        <4> QED BY <4>1 DEF HeadRow
      <3>3. [i \in 1 .. Len(heads) |-> heads[i].head] \in Seq(Heads)
        BY <3>1, <3>2
      <3> QED BY <3>1, <3>3
    <2>2. ndis' = IF f = "ndis" THEN ndis ELSE Reverse(hs) \o ndis
      BY <1>1 DEF heads
    <2> HIDE DEF hs
    <2>3. Reverse(hs) \in Seq(Heads) /\ ndis \in Seq(Heads)
      BY <1>0, <2>1, ReverseTyped DEF ListInv
    <2> DEFINE b == Reverse(hs)
    <2> HIDE DEF b
    <2>4. b \o ndis \in Seq(Heads) /\ Range(ndis) \subseteq Range(b \o ndis)
      BY <2>3, ConcatKeeps DEF b
    <2> QED BY <2>2, <2>3, <2>4 DEF b
  <1>6. events' \in 0 .. MaxEvents
    BY <1>0, <1>1, EventTyped
  <1>7. /\ process' = process /\ nethead' = nethead /\ blacktw' = blacktw
        /\ headtw' = headtw /\ lifted' = lifted
    BY <1>1 DEF database, tables
  <1> QED BY <1>1, <1>3, <1>4, <1>5, <1>6, <1>7

(* It keeps the types. *)
LEMMA StartTyped ==
  ASSUME RuleInv, NEW d \in Desktops, Start(d)
  PROVE  RuleInv'
  <1>0. DbInv /\ ListInv /\ TabInv /\ HistInv
    BY DEF RuleInv
  <1>1. ListInv' /\ DbInv'
    BY <1>0, StartEffect DEF ListInv, DbInv
  <1>2. TabInv'
    <2>1. PICK u \in Users : user' = [user EXCEPT ![d] = u]
      BY StartEffect
    <2>2. blacktw' = blacktw /\ headtw' = headtw
      BY StartEffect
    <2>3. Idle'
      BY <1>0, <2>1, <2>2, RuleTableAssumption DEF TabInv, Idle, Running
    <2> QED BY <1>0, <2>1, <2>2, <2>3 DEF TabInv
  <1>3. HistInv'
    <2>1. clean' \in [Desktops -> BOOLEAN]
      <3>1. PICK u \in Users : clean' = [e \in Desktops |->
                   IF e = d THEN /\ Own(u, process) = <<>> /\ Own(u, nethead) = <<>>
                                 /\ \A o \in {x \in Desktops : Running(x)} : user[o] # u
                   ELSE clean[e] /\ user[e] # u]
        BY StartEffect
      <3> DEFINE c(e) == IF e = d THEN /\ Own(u, process) = <<>> /\ Own(u, nethead) = <<>>
                                 /\ \A o \in {x \in Desktops : Running(x)} : user[o] # u
                   ELSE clean[e] /\ user[e] # u
      <3>2. \A e \in Desktops : c(e) \in BOOLEAN
        OBVIOUS
      <3>3. clean' = [e \in Desktops |-> c(e)]
        BY <3>1
      <3> HIDE DEF c
      <3> QED BY <3>2, <3>3
    <2>2. alone' \in [Desktops -> BOOLEAN]
      <3>1. alone' = [e \in Desktops |->
              e = d /\ {o \in Desktops : Running(o)} = {} /\ ssdt' = {} /\ wfp' = <<>> /\ ndis' = <<>>]
        BY StartEffect
      <3> QED BY <3>1
    <2>3. kept' \in [Desktops -> BOOLEAN]
      BY <1>0, StartEffect DEF HistInv
    <2> QED BY <1>0, <2>1, <2>2, <2>3, StartEffect DEF HistInv
  <1> QED BY <1>1, <1>2, <1>3, StartEffect DEF RuleInv

(* A desktop ends. *)
LEMMA EndTyped ==
  ASSUME RuleInv, NEW d \in Desktops, End(d)
  PROVE  RuleInv'
  <1>0. DbInv /\ ListInv /\ TabInv /\ HistInv /\ events \in 0 .. MaxEvents
    BY DEF RuleInv
  <1>1. TabInv' /\ HistInv'
    BY <1>0, GoneKeeps DEF End, HistInv
  <1>2. DbInv' /\ ListInv' /\ events' = events
    BY <1>0 DEF End, database, lists, DbInv, ListInv
  <1> QED BY <1>0, <1>1, <1>2 DEF RuleInv

(* Somebody logs on. *)
LEMMA ClearTyped ==
  ASSUME RuleInv, clearAll
  PROVE  RuleInv'
  <1>0. DbInv /\ ListInv /\ TabInv /\ HistInv /\ events \in 0 .. MaxEvents
    BY DEF RuleInv
  <1>1. /\ process' = process /\ nethead' = nethead /\ user' = user /\ blacktw' = blacktw
        /\ headtw' = headtw /\ clean' = clean /\ lifted' = lifted
        /\ kept' = [d \in Desktops |-> FALSE] /\ alone' = kept'
        /\ ssdt' \in {ssdt, {}} /\ wfp' \in {wfp, <<>>} /\ ndis' \in {ndis, <<>>}
    BY DEF clearAll, database, tables
  <1>2. events' \in 0 .. MaxEvents
    BY <1>0, EventTyped DEF clearAll
  <1>3. ListInv'
    BY <1>0, <1>1, EmptySeq DEF ListInv
  <1>4. DbInv' /\ TabInv' /\ HistInv'
    BY <1>0, <1>1 DEF DbInv, TabInv, HistInv, Idle, Running
  <1> QED BY <1>2, <1>3, <1>4 DEF RuleInv

(* A box, by whichever of the handlers. *)
LEMMA BoxedTyped ==
  ASSUME RuleInv, NEW d \in Desktops, Boxed(d)
  PROVE  RuleInv'
  <1>1. PICK i \in 1 .. Len(blacktw[d]), col \in Columns, f \in Fault :
          /\ Event(f)
          /\ comboboxChanged(d, Switched(blacktw[d], i, col, ~blacktw[d][i][col]), i, col, f)
    BY DEF Boxed
  <1>2. (~blacktw[d][i][col]) \in BOOLEAN
    OBVIOUS
  <1> QED BY <1>1, <1>2, BoxTyped

(* The steps, as the proofs below take them. *)
LEMMA StepIs ==
  ASSUME RuleInv, Next
  PROVE  \/ clearAll
         \/ \E d \in Desktops :
              \/ Start(d) \/ End(d) \/ Boxed(d) \/ Inserted(d)
              \/ allowProcess(d) \/ forbidNethead(d) \/ allowNethead(d)
  BY TurnIsBoxed, ForbidIsBoxedOrInserted DEF Next

(* The types, and what the windows keep of their tables, hold always. *)
LEMMA RuleInvHolds == Spec => []RuleInv
  <1>1. RuleInv /\ [Next]_vars => RuleInv'
    <2> SUFFICES ASSUME RuleInv, [Next]_vars PROVE RuleInv'
      OBVIOUS
    <2>1. CASE UNCHANGED vars
      BY <2>1 DEF vars, database, lists, tables, history, RuleInv, DbInv, ListInv, TabInv,
                  HistInv, Idle, Running
    <2>2. CASE Next
      <3>1. CASE clearAll
        BY <3>1, ClearTyped
      <3>2. ASSUME NEW d \in Desktops, Start(d) PROVE RuleInv'
        BY <3>2, StartTyped
      <3>3. ASSUME NEW d \in Desktops, End(d) PROVE RuleInv'
        BY <3>3, EndTyped
      <3>4. ASSUME NEW d \in Desktops, Boxed(d) PROVE RuleInv'
        BY <3>4, BoxedTyped
      <3>5. ASSUME NEW d \in Desktops, Inserted(d) PROVE RuleInv'
        BY <3>5, InsertedTyped DEF Inserted
      <3>6. ASSUME NEW d \in Desktops, allowProcess(d) PROVE RuleInv'
        BY <3>6, AllowProcessTyped
      <3>7. ASSUME NEW d \in Desktops, forbidNethead(d) PROVE RuleInv'
        BY <3>7, ForbidNetheadTyped
      <3>8. ASSUME NEW d \in Desktops, allowNethead(d) PROVE RuleInv'
        BY <3>8, AllowNetheadTyped
      <3> QED BY <2>2, <3>1, <3>2, <3>3, <3>4, <3>5, <3>6, <3>7, <3>8, StepIs
    <2> QED BY <2>1, <2>2
  <1> QED BY <1>1, InitRuleInv, PTL DEF Spec

(* Every variable of the rules keeps its type, whatever handlers run on   *)
(* however many desktops and whatever fails in them; and a box that is    *)
(* made with the number of its row never has that of a row above it, as   *)
(* rows are appended at the end and only move up when one is deleted      *)
(* (comboboxChanged, allowProcess).                                       *)
THEOREM RulesTyped == Spec => []TypeOK
  <1>1. RuleInv => TypeOK
    <2> SUFFICES ASSUME RuleInv PROVE TypeOK
      OBVIOUS
    <2>0. DbInv /\ ListInv /\ TabInv /\ HistInv /\ events \in 0 .. MaxEvents
      BY DEF RuleInv
    <2>1. \A i \in DOMAIN process : process[i] \in
            [owner : Users, prog : Programs, open : BOOLEAN, net : BOOLEAN]
      <3>1. \A i \in DOMAIN process : process[i] \in ProcRow
        BY <2>0 DEF DbInv
      <3> QED BY <3>1 DEF ProcRow
    <2>2. \A i \in DOMAIN nethead : nethead[i] \in [owner : Users, head : Heads]
      <3>1. \A i \in DOMAIN nethead : nethead[i] \in HeadRow
        BY <2>0 DEF DbInv
      <3> QED BY <3>1 DEF HeadRow
    <2>3. ssdt \subseteq Names /\ Range(wfp) \subseteq Names /\ Range(ndis) \subseteq Heads
      <3>1. wfp \in Seq(Names) /\ ndis \in Seq(Heads)
        BY <2>0 DEF ListInv
      <3>2. (\A i \in DOMAIN wfp : wfp[i] \in Names) /\ \A i \in DOMAIN ndis : ndis[i] \in Heads
        BY <3>1
      <3> QED BY <2>0, <3>2 DEF ListInv, Range
    <2>4. ASSUME NEW d \in Desktops, NEW i \in DOMAIN blacktw[d]
          PROVE  /\ blacktw[d][i].prog \in Programs
                 /\ blacktw[d][i].open \in BOOLEAN /\ blacktw[d][i].net \in BOOLEAN
                 /\ blacktw[d][i].key \in Nat /\ blacktw[d][i].key >= i - 1
      <3>1. blacktw[d] \in Seq(TabRow) /\ TabOK(blacktw[d])
        BY <2>0 DEF TabInv, Tabs
      <3>2. blacktw[d][i] \in TabRow /\ i \in 1 .. Len(blacktw[d])
        BY <3>1, LenProperties
      <3> QED BY <3>1, <3>2 DEF TabRow, TabOK
    <2> QED BY <2>0, <2>1, <2>2, <2>3, <2>4, ShownPrograms DEF TypeOK, TabInv
  <1> QED BY <1>1, RuleInvHolds, PTL

----------------------------------------------------------------------------
(* What the tables show is in the lists. *)

RowBans(s, taken, opens, nets) == \A i \in 1 .. Len(s) : s[i].prog \notin taken =>
  /\ s[i].open => s[i].prog.name \in opens
  /\ s[i].net => s[i].prog.name \in nets
HeadBans(s, taken, heads) == Range(s) \ taken \subseteq heads
Bans(d) == /\ RowBans(blacktw[d], lifted[d], ssdt, Range(wfp))
           /\ HeadBans(headtw[d], lifted[d], Range(ndis))
BanInv == \A d \in Desktops : kept[d] => Bans(d)

(* What the invariant says of one desktop. *)
LEMMA TabsOf ==
  ASSUME RuleInv, NEW d \in Desktops
  PROVE  /\ blacktw[d] \in Seq(TabRow) /\ TabOK(blacktw[d])
         /\ DOMAIN blacktw[d] = 1 .. Len(blacktw[d]) /\ Len(blacktw[d]) \in Nat
         /\ headtw[d] \in Seq(Heads) /\ HeadOK(headtw[d])
         /\ DOMAIN headtw[d] = 1 .. Len(headtw[d]) /\ Len(headtw[d]) \in Nat
  <1>1. /\ blacktw[d] \in Seq(TabRow) /\ TabOK(blacktw[d])
        /\ headtw[d] \in Seq(Heads) /\ HeadOK(headtw[d])
    BY DEF RuleInv, TabInv, Tabs, HeadTabs
  <1> QED BY <1>1, LenProperties

(* What a deletion cannot have taken with it. *)
LEMMA ProgramLifted ==
  ASSUME RuleInv, NEW d \in Desktops, NEW e \in Desktops, NEW x, NEW j \in 1 .. Len(blacktw[e]),
         blacktw[e][j].prog \notin WithProgram(d, x)[e]
  PROVE  /\ blacktw[e][j].prog \notin lifted[e]
         /\ \/ <<x.name, blacktw[e][j].prog.name>> \notin Starts
            \/ e = d /\ blacktw[e][j].prog = x
  <1>1. blacktw[e][j].prog \in Shown(e)
    BY TabsOf DEF Shown
  <1>2. WithProgram(d, x)[e] = lifted[e] \union
          {q \in Shown(e) : <<x.name, q.name>> \in Starts /\ ~(e = d /\ q = x)}
    BY DEF WithProgram
  <1> QED BY <1>1, <1>2

(* The same of a head. *)
LEMMA HeadLifted ==
  ASSUME RuleInv, NEW d \in Desktops, NEW e \in Desktops, NEW h, NEW g \in Range(headtw[e]),
         g \notin WithHead(d, h)[e]
  PROVE  g \notin lifted[e] /\ (<<g, h>> \notin Same \/ (e = d /\ g = h))
  <1>2. WithHead(d, h)[e] = lifted[e] \union
          {q \in Range(headtw[e]) : <<q, h>> \in Same /\ ~(e = d /\ q = h)}
    BY DEF WithHead
  <1> QED BY <1>2

(* What was lifted stays lifted. *)
LEMMA LiftedGrows ==
  ASSUME NEW d, NEW e \in Desktops, NEW x
  PROVE  lifted[e] \subseteq WithProgram(d, x)[e] /\ lifted[e] \subseteq WithHead(d, x)[e]
  BY DEF WithProgram, WithHead

(* Another desktop's bans, when a program is banned or allowed.            *)
LEMMA OthersBans ==
  ASSUME RuleInv, NEW d \in Desktops, NEW e \in Desktops, Bans(e),
         blacktw'[e] = blacktw[e], headtw'[e] = headtw[e], ndis' = ndis,
         \/ lifted' = lifted /\ ssdt \subseteq ssdt' /\ Range(wfp) \subseteq Range(wfp')
         \/ /\ e # d
            /\ \E x : /\ lifted' = WithProgram(d, x)
                      /\ \A m \in ssdt : m \in ssdt' \/ <<x.name, m>> \in Starts
                      /\ \A m \in Range(wfp) : m \in Range(wfp') \/ <<x.name, m>> \in Starts
  PROVE  Bans(e)'
  <1> DEFINE s == blacktw[e]
  <1>1. RowBans(s, lifted[e], ssdt, Range(wfp)) /\ HeadBans(headtw[e], lifted[e], Range(ndis))
    BY DEF Bans
  <1>2. CASE lifted' = lifted /\ ssdt \subseteq ssdt' /\ Range(wfp) \subseteq Range(wfp')
    BY <1>1, <1>2 DEF Bans, RowBans, HeadBans
  <1>3. ASSUME e # d, NEW x, lifted' = WithProgram(d, x),
               \A m \in ssdt : m \in ssdt' \/ <<x.name, m>> \in Starts,
               \A m \in Range(wfp) : m \in Range(wfp') \/ <<x.name, m>> \in Starts
        PROVE  Bans(e)'
    <2>1. ASSUME NEW j \in 1 .. Len(s), s[j].prog \notin lifted'[e]
          PROVE  /\ s[j].open => s[j].prog.name \in ssdt'
                 /\ s[j].net => s[j].prog.name \in Range(wfp')
      <3>1. s[j].prog \notin lifted[e] /\ <<x.name, s[j].prog.name>> \notin Starts
        BY <1>3, <2>1, ProgramLifted
      <3> QED BY <1>1, <1>3, <3>1 DEF RowBans
    <2>2. RowBans(s, lifted'[e], ssdt', Range(wfp'))
      BY <2>1 DEF RowBans
    <2>3. lifted[e] \subseteq lifted'[e]
      BY <1>3, LiftedGrows
    <2>4. HeadBans(headtw[e], lifted'[e], Range(ndis))
      BY <1>1, <2>3 DEF HeadBans
    <2> QED BY <2>2, <2>4 DEF Bans
  <1> QED BY <1>2, <1>3

(* One of the drivers is told, the other not. *)
LEMMA OneDriver ==
  ASSUME NEW n, NEW col \in Columns, NEW f, Allow(col, n, f) \/ Forbid(col, n, f)
  PROVE  IF col = "open" THEN wfp' = wfp ELSE ssdt' = ssdt
  BY DEF Allow, Forbid, Columns

(* A box leaves the bans that are shown, unless it goes astray. *)
LEMMA BoxBans ==
  ASSUME RuleInv, BanInv, NEW d \in Desktops, NEW i \in 1 .. Len(blacktw[d]),
         NEW k \in 1 .. Len(blacktw[d]), NEW col \in Columns, NEW v \in BOOLEAN, NEW f,
         Box(d, Switched(blacktw[d], i, col, v), i, k, col, f),
         NEW e \in Desktops, kept'[e]
  PROVE  Bans(e)'
  <1> DEFINE s == blacktw[d]  rows == Switched(s, i, col, v)  p == rows[k].prog
  <1>1. /\ rows \in Seq(TabRow) /\ Len(rows) = Len(s)
        /\ \A j \in 1 .. Len(s) : /\ rows[j].prog = s[j].prog
             /\ \A c \in Columns : rows[j][c] = IF j = i /\ c = col THEN v ELSE s[j][c]
    <2>1. s \in Seq(TabRow)
      BY TabsOf
    <2> HIDE DEF s
    <2>2. i \in 1 .. Len(s)
      BY DEF s
    <2> QED BY <2>1, <2>2, SwitchedRow
  <1> HIDE DEF rows
  <1>2. /\ blacktw' = [blacktw EXCEPT ![d] = rows]
        /\ ndis' = ndis /\ headtw' = headtw
        /\ IF rows[k][col] THEN Forbid(col, p.name, f) /\ lifted' = lifted
           ELSE Allow(col, p.name, f) /\ lifted' = WithProgram(d, p)
        /\ kept' = [kept EXCEPT ![d] = @ /\ k = i /\ f # Driver(col)]
    BY DEF Box, rows
  <1>3. rows[k] \in TabRow
    BY <1>1
  <1>4. p \in Programs /\ p.name \in Names
    BY <1>3, RowFields
  <1>5. kept[e] /\ (e = d => k = i /\ f # Driver(col))
    <2>1. kept'[e] = IF e = d THEN kept[d] /\ k = i /\ f # Driver(col) ELSE kept[e]
      BY <1>2 DEF RuleInv, HistInv
    <2> QED BY <2>1
  <1>6. Bans(e)
    BY <1>5 DEF BanInv
  <1>7. ssdt \in SUBSET Names /\ wfp \in Seq(Names)
    BY DEF RuleInv, ListInv
  <1>8. CASE e # d
    <2>1. blacktw'[e] = blacktw[e] /\ headtw'[e] = headtw[e]
      BY <1>2, <1>8 DEF RuleInv, TabInv
    <2>2. CASE rows[k][col]
      <3>1. Forbid(col, p.name, f) /\ lifted' = lifted
        BY <1>2, <2>2
      <3>2. ssdt \subseteq ssdt' /\ Range(wfp) \subseteq Range(wfp')
        BY <1>4, <1>7, <3>1, ForbidEffect
      <3> QED BY <1>2, <1>6, <2>1, <3>1, <3>2, OthersBans
    <2>3. CASE ~rows[k][col]
      <3>1. Allow(col, p.name, f) /\ lifted' = WithProgram(d, p)
        BY <1>2, <2>3
      <3>2. /\ \A m \in ssdt : m \in ssdt' \/ <<p.name, m>> \in Starts
            /\ \A m \in Range(wfp) : m \in Range(wfp') \/ <<p.name, m>> \in Starts
        BY <1>4, <1>7, <3>1, AllowEffect
      <3> HIDE DEF p
      <3> QED BY <1>2, <1>6, <1>8, <2>1, <3>1, <3>2, OthersBans
    <2> QED BY <2>2, <2>3
  <1>9. CASE e = d
    <2>1. k = i /\ f # Driver(col) /\ p = s[i].prog /\ rows[k][col] = v
      BY <1>1, <1>5, <1>9
    <2>2. RowBans(s, lifted[d], ssdt, Range(wfp)) /\ HeadBans(headtw[d], lifted[d], Range(ndis))
      BY <1>6, <1>9 DEF Bans
    <2>3. blacktw'[d] = rows
      BY <1>2 DEF RuleInv, TabInv
    <2>4. lifted[d] \subseteq lifted'[d]
      BY <1>2, LiftedGrows
    <2>5. HeadBans(headtw[d], lifted'[d], Range(ndis))
      BY <2>2, <2>4 DEF HeadBans
    <2>6. "open" \in Columns /\ "net" \in Columns
      BY DEF Columns
    <2>7. ASSUME NEW j \in 1 .. Len(s), s[j].prog \notin lifted'[d]
          PROVE  /\ rows[j].open => s[j].prog.name \in ssdt'
                 /\ rows[j].net => s[j].prog.name \in Range(wfp')
      <3>1. /\ s[j].open => s[j].prog.name \in ssdt
            /\ s[j].net => s[j].prog.name \in Range(wfp)
        BY <2>2, <2>4, <2>7 DEF RowBans
      <3>2. /\ rows[j].open = IF j = i /\ "open" = col THEN v ELSE s[j].open
            /\ rows[j].net = IF j = i /\ "net" = col THEN v ELSE s[j].net
        BY <1>1, <2>6
      <3>3. CASE v
        <4>1. Forbid(col, p.name, f)
          BY <1>2, <2>1, <3>3
        <4>2. /\ ssdt \subseteq ssdt' /\ Range(wfp) \subseteq Range(wfp')
              /\ p.name \in IF col = "open" THEN ssdt' ELSE Range(wfp')
          BY <1>4, <1>7, <2>1, <4>1, ForbidEffect
        <4>3. CASE j = i
          BY <2>1, <3>1, <3>2, <4>2, <4>3 DEF Columns
        <4>4. CASE j # i
          BY <3>1, <3>2, <4>2, <4>4
        <4> QED BY <4>3, <4>4
      <3>4. CASE ~v
        <4>1. Allow(col, p.name, f) /\ lifted' = WithProgram(d, p)
          BY <1>2, <2>1, <3>4
        <4>2. /\ \A m \in ssdt : m \in ssdt' \/ <<p.name, m>> \in Starts
              /\ \A m \in Range(wfp) : m \in Range(wfp') \/ <<p.name, m>> \in Starts
          BY <1>4, <1>7, <4>1, AllowEffect
        <4>3. CASE j = i
          <5>1. IF col = "open" THEN wfp' = wfp ELSE ssdt' = ssdt
            BY <4>1, OneDriver
          <5> QED BY <3>1, <3>2, <3>4, <4>3, <5>1 DEF Columns
        <4>4. CASE j # i
          <5>1. s[j].prog # p
            BY <2>1, <4>4, TabsOf DEF TabOK
          <5>2. s[j].prog \notin WithProgram(d, p)[d]
            BY <2>7, <4>1
          <5> HIDE DEF p
          <5>3. <<p.name, s[j].prog.name>> \notin Starts
            BY <5>1, <5>2, ProgramLifted
          <5> QED BY <3>1, <3>2, <4>2, <4>4, <5>3
        <4> QED BY <4>3, <4>4
      <3> QED BY <3>3, <3>4
    <2>8. RowBans(rows, lifted'[d], ssdt', Range(wfp'))
      BY <1>1, <2>7 DEF RowBans
    <2> QED BY <1>2, <1>9, <2>3, <2>5, <2>8 DEF Bans
  <1> QED BY <1>8, <1>9

(* A row is inserted: its ban is in the list if the driver took it. *)
LEMMA InsertedBans ==
  ASSUME RuleInv, BanInv, NEW d \in Desktops, NEW p \in Programs, NEW col \in Columns, NEW f,
         InsertedRow(d, p, col, f), NEW e \in Desktops, kept'[e]
  PROVE  Bans(e)'
  <1> DEFINE s == blacktw[d]  r == Row(p, col = "open", col = "net", Len(s))
             rows == IF f = Driver(col) THEN s ELSE Append(s, r)
  <1>1. /\ Forbid(col, p.name, f) /\ ndis' = ndis /\ headtw' = headtw
        /\ kept' = kept /\ lifted' = lifted /\ blacktw' = [blacktw EXCEPT ![d] = rows]
    BY DEF InsertedRow
  <1>2. Bans(e)
    BY <1>1 DEF BanInv
  <1>3. /\ ssdt \subseteq ssdt' /\ Range(wfp) \subseteq Range(wfp')
        /\ f # Driver(col) => p.name \in IF col = "open" THEN ssdt' ELSE Range(wfp')
    <2>1. ssdt \in SUBSET Names /\ wfp \in Seq(Names) /\ p.name \in Names
      BY DEF RuleInv, ListInv, Names
    <2> QED BY <1>1, <2>1, ForbidEffect
  <1>4. CASE e # d \/ f = Driver(col)
    <2>1. blacktw'[e] = blacktw[e]
      BY <1>1, <1>4 DEF RuleInv, TabInv
    <2> QED BY <1>1, <1>2, <1>3, <2>1, OthersBans
  <1>5. CASE e = d /\ f # Driver(col)
    <2>1. RowBans(s, lifted[d], ssdt, Range(wfp)) /\ HeadBans(headtw[d], lifted[d], Range(ndis))
      BY <1>2, <1>5 DEF Bans
    <2>2. blacktw'[d] = Append(s, r)
      BY <1>1, <1>5 DEF RuleInv, TabInv
    <2>3. s \in Seq(TabRow) /\ Len(s) \in Nat
      BY TabsOf
    <2> HIDE DEF s
    <2>4. r \in TabRow /\ r.prog = p /\ r.open = (col = "open") /\ r.net = (col = "net")
      BY <2>3 DEF Row, TabRow
    <2> HIDE DEF r
    <2> DEFINE t == Append(s, r)
    <2>5. /\ t \in Seq(TabRow) /\ Len(t) = Len(s) + 1 /\ t[Len(s) + 1] = r
          /\ \A i \in 1 .. Len(s) : t[i] = s[i]
      BY <2>3, <2>4, AppendProperties
    <2> HIDE DEF t
    <2>6. ASSUME NEW j \in 1 .. Len(t), t[j].prog \notin lifted[d]
          PROVE  /\ t[j].open => t[j].prog.name \in ssdt'
                 /\ t[j].net => t[j].prog.name \in Range(wfp')
      <3>1. CASE j = Len(s) + 1
        BY <1>3, <1>5, <2>4, <2>5, <3>1 DEF Columns
      <3>2. CASE j # Len(s) + 1
        <4>1. j \in 1 .. Len(s) /\ t[j] = s[j]
          BY <2>3, <2>5, <3>2
        <4> QED BY <1>3, <2>1, <2>6, <4>1 DEF RowBans
      <3> QED BY <3>1, <3>2
    <2>7. RowBans(t, lifted[d], ssdt', Range(wfp'))
      BY <2>6 DEF RowBans
    <2> QED BY <1>1, <1>5, <2>1, <2>2, <2>7 DEF Bans, t
  <1> QED BY <1>4, <1>5

(* A row is deleted: what its name takes from the lists besides is        *)
(* counted as lifted.                                                     *)
LEMMA AllowProcessBans ==
  ASSUME RuleInv, BanInv, NEW d \in Desktops, allowProcess(d), NEW e \in Desktops, kept'[e]
  PROVE  Bans(e)'
  <1> DEFINE s == blacktw[d]
  <1>1. s \in Seq(TabRow) /\ TabOK(s) /\ DOMAIN s = 1 .. Len(s) /\ Len(s) \in Nat
    BY TabsOf
  <1>2. PICK i \in 1 .. Len(s), f \in Fault :
          /\ blacktw' = [blacktw EXCEPT ![d] = RemoveAt(s, i)]
          /\ AllowNet(s[i].prog.name, f) /\ AllowOpen(s[i].prog.name, f)
          /\ lifted' = WithProgram(d, s[i].prog)
          /\ ndis' = ndis /\ headtw' = headtw /\ kept' = kept
    BY <1>1 DEF allowProcess
  <1> DEFINE p == s[i].prog
  <1>3. /\ \A m \in ssdt : m \in ssdt' \/ <<p.name, m>> \in Starts
        /\ \A m \in Range(wfp) : m \in Range(wfp') \/ <<p.name, m>> \in Starts
    <2>1. s[i] \in TabRow
      BY <1>1
    <2>2. p.name \in Names
      BY <2>1, RowFields
    <2>3. ssdt \in SUBSET Names /\ wfp \in Seq(Names)
      BY DEF RuleInv, ListInv
    <2> QED BY <1>2, <2>2, <2>3, AllowNetEffect, AllowOpenEffect
  <1>4. Bans(e)
    BY <1>2 DEF BanInv
  <1>5. CASE e # d
    <2>1. blacktw'[e] = blacktw[e] /\ headtw'[e] = headtw[e]
      BY <1>2, <1>5 DEF RuleInv, TabInv
    <2>2. lifted' = WithProgram(d, p)
      BY <1>2
    <2> HIDE DEF p
    <2> QED BY <1>2, <1>3, <1>4, <1>5, <2>1, <2>2, OthersBans
  <1>6. CASE e = d
    <2>1. RowBans(s, lifted[d], ssdt, Range(wfp)) /\ HeadBans(headtw[d], lifted[d], Range(ndis))
      BY <1>4, <1>6 DEF Bans
    <2> DEFINE t == RemoveAt(s, i)
    <2>2. blacktw'[d] = t
      BY <1>2 DEF RuleInv, TabInv
    <2>3. /\ Len(t) = Len(s) - 1
          /\ \A j \in 1 .. Len(s) - 1 : t[j] = IF j < i THEN s[j] ELSE s[j + 1]
      BY <1>1, RemovedAt
    <2> HIDE DEF t
    <2>4. lifted' = WithProgram(d, p) /\ lifted[d] \subseteq lifted'[d]
      BY <1>2, LiftedGrows
    <2>5. ASSUME NEW j \in 1 .. Len(t), t[j].prog \notin lifted'[d]
          PROVE  /\ t[j].open => t[j].prog.name \in ssdt'
                 /\ t[j].net => t[j].prog.name \in Range(wfp')
      <3> DEFINE J == IF j < i THEN j ELSE j + 1
      <3>1. J \in 1 .. Len(s) /\ J # i /\ t[j] = s[J]
        BY <1>1, <2>3
      <3> HIDE DEF J
      <3>2. s[J].prog # p
        BY <1>1, <3>1 DEF TabOK
      <3>3. s[J].prog \notin WithProgram(d, p)[d]
        BY <2>4, <2>5, <3>1
      <3>4. <<p.name, s[J].prog.name>> \notin Starts /\ s[J].prog \notin lifted[d]
        <4> HIDE DEF p
        <4> QED BY <3>1, <3>2, <3>3, ProgramLifted
      <3>5. /\ s[J].open => s[J].prog.name \in ssdt
            /\ s[J].net => s[J].prog.name \in Range(wfp)
        BY <2>1, <3>1, <3>4 DEF RowBans
      <3> QED BY <1>3, <3>1, <3>4, <3>5
    <2>6. RowBans(t, lifted'[d], ssdt', Range(wfp'))
      BY <2>5 DEF RowBans
    <2>7. HeadBans(headtw[d], lifted'[d], Range(ndis))
      BY <2>1, <2>4 DEF HeadBans
    <2> QED BY <1>2, <1>6, <2>2, <2>6, <2>7 DEF Bans
  <1> QED BY <1>5, <1>6

(* A head is banned: it has a row only if the driver took it. *)
LEMMA ForbidNetheadBans ==
  ASSUME RuleInv, BanInv, NEW d \in Desktops, forbidNethead(d), NEW e \in Desktops, kept'[e]
  PROVE  Bans(e)'
  <1>1. PICK h \in Heads, f \in Fault :
          /\ IF f = "ndis" THEN UNCHANGED <<ndis, headtw>>
             ELSE ndis' = <<h>> \o ndis /\ headtw' = [headtw EXCEPT ![d] = Append(headtw[d], h)]
          /\ ssdt' = ssdt /\ wfp' = wfp
          /\ blacktw' = blacktw /\ kept' = kept /\ lifted' = lifted
    BY DEF forbidNethead
  <1>2. Bans(e)
    BY <1>1 DEF BanInv
  <1>3. ndis \in Seq(Heads)
    BY DEF RuleInv, ListInv
  <1>4. Range(ndis) \subseteq Range(<<h>> \o ndis) /\ h \in Range(<<h>> \o ndis)
    BY <1>3, ConsKeeps
  <1>5. RowBans(blacktw'[e], lifted'[e], ssdt', Range(wfp'))
    BY <1>1, <1>2 DEF Bans
  <1>6. HeadBans(headtw'[e], lifted'[e], Range(ndis'))
    <2>1. CASE f = "ndis"
      BY <1>1, <1>2, <2>1 DEF Bans
    <2>2. CASE f # "ndis" /\ e # d
      <3>1. headtw'[e] = headtw[e]
        BY <1>1, <2>2 DEF RuleInv, TabInv
      <3> QED BY <1>1, <1>2, <1>4, <2>2, <3>1 DEF Bans, HeadBans
    <2>3. CASE f # "ndis" /\ e = d
      <3> DEFINE s == headtw[d]  t == Append(s, h)
      <3>1. headtw'[d] = t
        BY <1>1, <2>3 DEF RuleInv, TabInv
      <3>2. s \in Seq(Heads) /\ Len(s) \in Nat
        BY TabsOf
      <3> HIDE DEF s
      <3>3. /\ t \in Seq(Heads) /\ Len(t) = Len(s) + 1 /\ t[Len(s) + 1] = h
            /\ \A i \in 1 .. Len(s) : t[i] = s[i]
        BY <3>2, AppendProperties
      <3> HIDE DEF t
      <3>4. ASSUME NEW g \in Range(t) PROVE g = h \/ g \in Range(s)
        <4>1. PICK i \in 1 .. Len(t) : t[i] = g
          BY <3>3, InRange
        <4>2. CASE i = Len(s) + 1
          BY <3>3, <4>1, <4>2
        <4>3. CASE i # Len(s) + 1
          <5>1. i \in 1 .. Len(s)
            BY <3>2, <3>3, <4>3
          <5>2. s[i] = g
            BY <3>3, <4>1, <5>1
          <5> QED BY <3>2, <5>1, <5>2, InRange
        <4> QED BY <4>2, <4>3
      <3>5. Range(s) \ lifted[d] \subseteq Range(ndis)
        BY <1>2, <2>3 DEF Bans, HeadBans, s
      <3>6. ndis' = <<h>> \o ndis
        BY <1>1, <2>3
      <3> QED BY <1>1, <1>4, <2>3, <3>1, <3>4, <3>5, <3>6 DEF HeadBans
    <2> QED BY <2>1, <2>2, <2>3
  <1> QED BY <1>5, <1>6 DEF Bans

(* The heads of a table, when one is deleted in the driver.                *)
LEMMA HeadsLeft ==
  ASSUME RuleInv, NEW d \in Desktops, NEW e \in Desktops, NEW h \in Heads, Found(h), Bans(e),
         NEW g \in Range(headtw[e]), g \notin WithHead(d, h)[e], ~(e = d /\ g = h)
  PROVE  g \in Range(ndis')
  <1>1. g \notin lifted[e] /\ <<g, h>> \notin Same
    BY HeadLifted
  <1>2. g \in Range(ndis)
    BY <1>1 DEF Bans, HeadBans
  <1>3. ndis \in Seq(Heads)
    BY DEF RuleInv, ListInv
  <1> QED BY <1>1, <1>2, <1>3, FoundEffect

(* A head is deleted: what the driver takes for it is counted as lifted. *)
LEMMA AllowNetheadBans ==
  ASSUME RuleInv, BanInv, NEW d \in Desktops, allowNethead(d), NEW e \in Desktops, kept'[e]
  PROVE  Bans(e)'
  <1>1. PICK h \in Heads, f \in Fault :
           \/ RefusedHead(d, h, f)
           \/ EndedAtHead(d, h, f)
           \/ \E i \in 1 .. Len(headtw[d]) : DeletedHead(d, h, i, f)
    BY AllowNetheadIs
  <1>3. CASE RefusedHead(d, h, f)
    BY <1>3 DEF RefusedHead, BanInv, Bans
  <1>4. CASE EndedAtHead(d, h, f)
    <2>1. /\ Found(h) /\ ssdt' = ssdt /\ wfp' = wfp
          /\ blacktw' = [blacktw EXCEPT ![d] = <<>>] /\ headtw' = [headtw EXCEPT ![d] = <<>>]
          /\ kept' = [kept EXCEPT ![d] = FALSE]
          /\ lifted' = [WithHead(d, h) EXCEPT ![d] = {}]
      BY <1>4 DEF EndedAtHead, Gone
    <2>2. e # d /\ kept[e]
      BY <2>1 DEF RuleInv, HistInv
    <2>3. Bans(e)
      BY <2>2 DEF BanInv
    <2>4. WithHead(d, h) \in [Desktops -> SUBSET (Programs \union Heads)]
      BY LiftedTyped DEF RuleInv
    <2>5. blacktw'[e] = blacktw[e] /\ headtw'[e] = headtw[e] /\ lifted'[e] = WithHead(d, h)[e]
      BY <2>1, <2>2, <2>4 DEF RuleInv, TabInv
    <2>6. RowBans(blacktw'[e], lifted'[e], ssdt', Range(wfp'))
      <3>1. lifted[e] \subseteq lifted'[e]
        BY <2>5, LiftedGrows
      <3> QED BY <2>1, <2>3, <2>5, <3>1 DEF Bans, RowBans
    <2>7. HeadBans(headtw'[e], lifted'[e], Range(ndis'))
      BY <2>1, <2>2, <2>3, <2>5, HeadsLeft DEF HeadBans
    <2> QED BY <2>6, <2>7 DEF Bans
  <1>5. ASSUME NEW i \in 1 .. Len(headtw[d]), DeletedHead(d, h, i, f) PROVE Bans(e)'
    <2>1. /\ Found(h) /\ ssdt' = ssdt /\ wfp' = wfp /\ blacktw' = blacktw
          /\ headtw' = [headtw EXCEPT ![d] = RemoveAt(headtw[d], i)]
          /\ kept' = [kept EXCEPT ![d] = @ /\ headtw[d][i] = h]
          /\ lifted' = WithHead(d, h)
      BY <1>5 DEF DeletedHead
    <2>2. kept[e] /\ (e = d => headtw[d][i] = h)
      <3>1. kept'[e] = IF e = d THEN kept[d] /\ headtw[d][i] = h ELSE kept[e]
        BY <2>1 DEF RuleInv, HistInv
      <3> QED BY <3>1
    <2>3. Bans(e)
      BY <2>2 DEF BanInv
    <2>4. RowBans(blacktw'[e], lifted'[e], ssdt', Range(wfp'))
      <3>1. lifted[e] \subseteq lifted'[e]
        BY <2>1, LiftedGrows
      <3> QED BY <2>1, <2>3, <3>1 DEF Bans, RowBans
    <2>5. \A g \in Range(headtw'[e]) : g \in Range(headtw[e]) /\ ~(e = d /\ g = h)
      <3>1. CASE e # d
        BY <2>1, <3>1 DEF RuleInv, TabInv
      <3>2. CASE e = d
        <4> DEFINE s == headtw[d]  t == RemoveAt(s, i)
        <4>1. headtw'[d] = t
          BY <2>1 DEF RuleInv, TabInv
        <4>2. s \in Seq(Heads) /\ HeadOK(s) /\ Len(s) \in Nat
          BY TabsOf
        <4> HIDE DEF s
        <4>3. i \in 1 .. Len(s) /\ s[i] = h
          BY <2>2, <3>2 DEF s
        <4>4. /\ t \in Seq(Heads) /\ Len(t) = Len(s) - 1
              /\ \A j \in 1 .. Len(s) - 1 : t[j] = IF j < i THEN s[j] ELSE s[j + 1]
              /\ \A j \in 1 .. Len(t) : t[j] # h
          <5>1. \A j \in 1 .. Len(t) : t[j] # s[i]
            BY <4>2, <4>3, HeadRemoved
          <5>2. /\ t \in Seq(Heads) /\ Len(t) = Len(s) - 1
                /\ \A j \in 1 .. Len(s) - 1 : t[j] = IF j < i THEN s[j] ELSE s[j + 1]
            BY <4>2, <4>3, RemovedAt
          <5> HIDE DEF t
          <5> QED BY <4>3, <5>1, <5>2
        <4> HIDE DEF t
        <4>5. ASSUME NEW g \in Range(t) PROVE g \in Range(s) /\ g # h
          <5>1. PICK j \in 1 .. Len(t) : t[j] = g
            BY <4>4, InRange
          <5> DEFINE J == IF j < i THEN j ELSE j + 1
          <5>2. J \in 1 .. Len(s) /\ s[J] = g
            BY <4>2, <4>4, <5>1
          <5> HIDE DEF J
          <5> QED BY <4>2, <4>4, <5>1, <5>2, InRange
        <4> QED BY <3>2, <4>1, <4>5 DEF s
      <3> QED BY <3>1, <3>2
    <2>6. HeadBans(headtw'[e], lifted'[e], Range(ndis'))
      BY <2>1, <2>3, <2>5, HeadsLeft DEF HeadBans
    <2> QED BY <2>4, <2>6 DEF Bans
  <1> QED BY <1>1, <1>3, <1>4, <1>5

(* A desktop starts with an empty table, and the lists only grow. *)
LEMMA StartBans ==
  ASSUME RuleInv, BanInv, NEW d \in Desktops, Start(d), NEW e \in Desktops, kept'[e]
  PROVE  Bans(e)'
  <1>1. /\ ~Running(d) /\ blacktw' = blacktw /\ headtw' = headtw /\ lifted' = lifted
        /\ ssdt \subseteq ssdt' /\ Range(wfp) \subseteq Range(wfp')
        /\ Range(ndis) \subseteq Range(ndis') /\ kept' = [kept EXCEPT ![d] = TRUE]
    BY StartEffect
  <1>2. CASE e = d
    <2>1. blacktw[d] = <<>> /\ headtw[d] = <<>>
      BY <1>1 DEF RuleInv, TabInv, Idle
    <2>2. Len(<<>>) = 0 /\ Range(<<>>) = {}
      BY DEF Range
    <2> QED BY <1>1, <1>2, <2>1, <2>2 DEF Bans, RowBans, HeadBans
  <1>3. CASE e # d
    <2>1. kept[e]
      BY <1>1, <1>3 DEF RuleInv, HistInv
    <2> QED BY <1>1, <2>1 DEF BanInv, Bans, RowBans, HeadBans
  <1> QED BY <1>2, <1>3

(* A desktop that is gone shows nothing. *)
LEMMA GoneBans ==
  ASSUME RuleInv, BanInv, NEW d \in Desktops, Gone(d, lifted), UNCHANGED <<ssdt, wfp, ndis>>,
         NEW e \in Desktops, kept'[e]
  PROVE  Bans(e)'
  <1>1. /\ blacktw' = [blacktw EXCEPT ![d] = <<>>] /\ headtw' = [headtw EXCEPT ![d] = <<>>]
        /\ kept' = [kept EXCEPT ![d] = FALSE]
        /\ lifted' = [lifted EXCEPT ![d] = {}]
    BY DEF Gone
  <1>2. e # d /\ kept[e]
    BY <1>1 DEF RuleInv, HistInv
  <1>3. blacktw'[e] = blacktw[e] /\ headtw'[e] = headtw[e] /\ lifted'[e] = lifted[e]
    BY <1>1, <1>2 DEF RuleInv, TabInv, HistInv
  <1> QED BY <1>2, <1>3 DEF BanInv, Bans

(* A box, or the end of the program at a box without a row. *)
LEMMA BoxedBans ==
  ASSUME RuleInv, BanInv, NEW d \in Desktops, Boxed(d), NEW e \in Desktops, kept'[e]
  PROVE  Bans(e)'
  <1>1. PICK i \in 1 .. Len(blacktw[d]), col \in Columns, f \in Fault :
          comboboxChanged(d, Switched(blacktw[d], i, col, ~blacktw[d][i][col]), i, col, f)
    BY DEF Boxed
  <1> DEFINE v == ~blacktw[d][i][col]
  <1>2. v \in BOOLEAN
    OBVIOUS
  <1>3. comboboxChanged(d, Switched(blacktw[d], i, col, v), i, col, f)
    BY <1>1
  <1> HIDE DEF v
  <1>4. \/ Gone(d, lifted) /\ UNCHANGED <<process, nethead, ssdt, wfp, ndis>>
        \/ \E k \in 1 .. Len(blacktw[d]) : Box(d, Switched(blacktw[d], i, col, v), i, k, col, f)
    BY <1>2, <1>3, BoxEffect
  <1> QED BY <1>2, <1>4, BoxBans, GoneBans

(* A ban that a table shows is in the list of its driver, next to any     *)
(* number of other desktops, until somebody logs on, a box fails or       *)
(* changes another row, or something is allowed that the driver cannot    *)
(* tell from it: the handlers tell the driver first, and show only what   *)
(* it has taken.                                                          *)
THEOREM ShownIsBanned == Spec => []BansAreEnforced
  <1>1. Init => BanInv
    BY DEF Init, BanInv
  <1>2. RuleInv /\ BanInv /\ [Next]_vars => BanInv'
    <2> SUFFICES ASSUME RuleInv, BanInv, [Next]_vars, NEW e \in Desktops, kept'[e] PROVE Bans(e)'
      BY DEF BanInv
    <2>1. CASE UNCHANGED vars
      BY <2>1 DEF vars, lists, tables, history, BanInv, Bans
    <2>2. CASE Next
      <3>1. CASE clearAll
        BY <3>1 DEF clearAll
      <3>2. ASSUME NEW d \in Desktops, Start(d) PROVE Bans(e)'
        BY <3>2, StartBans
      <3>3. ASSUME NEW d \in Desktops, End(d) PROVE Bans(e)'
        BY <3>3, GoneBans DEF End, lists
      <3>4. ASSUME NEW d \in Desktops, Boxed(d) PROVE Bans(e)'
        BY <3>4, BoxedBans
      <3>5. ASSUME NEW d \in Desktops, Inserted(d) PROVE Bans(e)'
        BY <3>5, InsertedBans DEF Inserted
      <3>6. ASSUME NEW d \in Desktops, allowProcess(d) PROVE Bans(e)'
        BY <3>6, AllowProcessBans
      <3>7. ASSUME NEW d \in Desktops, forbidNethead(d) PROVE Bans(e)'
        BY <3>7, ForbidNetheadBans
      <3>8. ASSUME NEW d \in Desktops, allowNethead(d) PROVE Bans(e)'
        BY <3>8, AllowNetheadBans
      <3> QED BY <2>2, <3>1, <3>2, <3>3, <3>4, <3>5, <3>6, <3>7, <3>8, StepIs
    <2> QED BY <2>1, <2>2
  <1>3. RuleInv /\ BanInv => BansAreEnforced
    <2> SUFFICES ASSUME RuleInv, BanInv, NEW d \in Desktops, kept[d]
                 PROVE  /\ \A i \in DOMAIN blacktw[d] : LET r == blacktw[d][i] IN
                             r.prog \notin lifted[d] =>
                               /\ r.open => r.prog.name \in ssdt
                               /\ r.net => r.prog.name \in Range(wfp)
                        /\ Range(headtw[d]) \ lifted[d] \subseteq Range(ndis)
      BY DEF BansAreEnforced
    <2> QED BY TabsOf DEF BanInv, Bans, RowBans, HeadBans
  <1> QED BY <1>1, <1>2, <1>3, RuleInvHolds, PTL DEF Spec

----------------------------------------------------------------------------
(* The database keeps what the tables show. *)

HeadRecord(u, h) == [owner |-> u, head |-> h]
SoleUser(e) == Running(e) /\ \A o \in Desktops : o # e => user[o] # user[e]
StoredRows(t, u, s) == Len(t) = Len(s) /\ \A i \in 1 .. Len(s) : t[i] = Record(u, s[i])
StoredHeads(t, u, s) == Len(t) = Len(s) /\ \A i \in 1 .. Len(s) : t[i] = HeadRecord(u, s[i])
Stored(e) == /\ StoredRows(Own(user[e], process), user[e], blacktw[e])
             /\ StoredHeads(Own(user[e], nethead), user[e], headtw[e])
CleanInv == \A e \in Desktops : clean[e] => SoleUser(e) /\ Stored(e)

(* Rows of the database with the same fields are the same. *)
LEMMA SameRecord ==
  ASSUME NEW r \in ProcRow, NEW q \in ProcRow, r.owner = q.owner, r.prog = q.prog,
         \A c \in Columns : r[c] = q[c]
  PROVE  r = q
  <1>1. r.open = q.open /\ r.net = q.net
    BY DEF Columns
  <1> QED BY <1>1 DEF ProcRow

(* Rows of another owner are changed. *)
LEMMA OwnUpdatedOther ==
  ASSUME NEW S, NEW rows \in Seq(S), NEW new \in Seq(S), NEW u, Len(new) = Len(rows),
         \A i \in 1 .. Len(rows) : new[i].owner = u <=> rows[i].owner = u,
         \A i \in 1 .. Len(rows) : rows[i].owner = u => new[i] = rows[i]
  PROVE  Own(u, new) = Own(u, rows)
  <1> DEFINE t == Own(u, rows)  w == Own(u, new)  A == Ours(u, rows)
  <1>1. PICK f : Selects(f, t, rows, A) /\ Selects(f, w, new, A)
    BY OwnUpdated
  <1>2. t \in Seq(S) /\ w \in Seq(S) /\ A \subseteq 1 .. Len(rows)
    BY OwnSelects
  <1>3. \A i \in A : new[i] = rows[i]
    BY <1>2 DEF Ours
  <1> HIDE DEF t, w, A
  <1>4. Len(t) \in Nat /\ Len(w) \in Nat /\ A \subseteq Nat
    BY <1>2
  <1>5. Len(t) = Len(w)
    BY <1>1, <1>4, OneEnumeration DEF Selects
  <1>6. \A i \in 1 .. Len(t) : t[i] = w[i]
    BY <1>1, <1>3, <1>5 DEF Selects, Enumerates
  <1>7. t = w
    BY <1>2, <1>5, <1>6, SeqEqual
  <1> QED BY <1>7 DEF t, w

(* A call that fails, or a row that is missed, spoils the history of its  *)
(* desktop only.                                                          *)
LEMMA CleanBefore ==
  ASSUME RuleInv, NEW d \in Desktops, NEW f, Failed(d, f), NEW e \in Desktops
  PROVE  clean'[e] <=> clean[e] /\ (e = d => f = "none")
  <1>1. clean'[e] = IF e = d THEN clean[d] /\ f = "none" ELSE clean[e]
    BY DEF Failed, RuleInv, HistInv
  <1> QED BY <1>1

(* The row of the database for a row of the table. *)
LEMMA RecordFields ==
  ASSUME NEW u \in Users, NEW r \in TabRow
  PROVE  /\ Record(u, r) \in ProcRow
         /\ Record(u, r).owner = u /\ Record(u, r).prog = r.prog
         /\ \A c \in Columns : Record(u, r)[c] = r[c]
  BY DEF Record, ProcRow, TabRow, Columns

(* The box of a row changes that row in the database. *)
LEMMA BoxStoresOwn ==
  ASSUME RuleInv, NEW d \in Desktops, user[d] \in Users, NEW i \in 1 .. Len(blacktw[d]),
         NEW col \in Columns, NEW v \in BOOLEAN, NEW f, f # "db",
         StoredRows(Own(user[d], process), user[d], blacktw[d]),
         updateProcess(d, blacktw[d][i].prog, col, v, f)
  PROVE  StoredRows(Own(user[d], process'), user[d], Switched(blacktw[d], i, col, v))
  <1> DEFINE s == blacktw[d]  rows == Switched(s, i, col, v)  u == user[d]  p == s[i].prog
             A == Ours(u, process)
  <1>1. /\ rows \in Seq(TabRow) /\ Len(rows) = Len(s)
        /\ \A j \in 1 .. Len(s) : /\ rows[j].prog = s[j].prog
             /\ \A c \in Columns : rows[j][c] = IF j = i /\ c = col THEN v ELSE s[j][c]
    <2>1. s \in Seq(TabRow)
      BY TabsOf
    <2> HIDE DEF s
    <2>2. i \in 1 .. Len(s)
      BY DEF s
    <2> QED BY <2>1, <2>2, SwitchedRow
  <1> HIDE DEF rows
  <1>2. s \in Seq(TabRow) /\ TabOK(s) /\ Len(s) \in Nat
    BY TabsOf
  <1>3. process \in Seq(ProcRow)
    BY DEF RuleInv, DbInv
  <1>4. PICK new : new = process'
    OBVIOUS
  <1>5. /\ new \in Seq(ProcRow) /\ Len(new) = Len(process)
        /\ \A j \in 1 .. Len(process) : new[j] = Updated(process[j], u, p, col, v)
    <2>1. updateProcess(d, p, col, v, f)
      OBVIOUS
    <2> HIDE DEF p
    <2>2. /\ process' \in Seq(ProcRow) /\ Len(process') = Len(process)
          /\ \A j \in 1 .. Len(process) : process'[j] = Updated(process[j], u, p, col, v)
      BY <1>3, <2>1, UpdateEffect
    <2> QED BY <1>4, <2>2
  <1> DEFINE t == Own(u, process)  w == Own(u, new)
  <1>6. Len(t) = Len(s) /\ \A j \in 1 .. Len(s) : t[j] = Record(u, s[j])
    BY DEF StoredRows
  <1> HIDE DEF u, p, s
  <1>7. \A j \in 1 .. Len(process) : new[j].owner = u <=> process[j].owner = u
    <2> SUFFICES ASSUME NEW j \in 1 .. Len(process)
                 PROVE  new[j].owner = process[j].owner
      OBVIOUS
    <2>1. process[j] \in ProcRow
      BY <1>3
    <2>2. [process[j] EXCEPT ![col] = v].owner = process[j].owner
      BY <2>1 DEF Columns, ProcRow
    <2> QED BY <1>5, <2>2 DEF Updated
  <1>8. PICK g : Selects(g, t, process, A) /\ Selects(g, w, new, A)
    BY <1>3, <1>5, <1>7, OwnUpdated
  <1>9. t \in Seq(ProcRow) /\ w \in Seq(ProcRow) /\ A \subseteq 1 .. Len(process)
    BY <1>3, <1>5, OwnSelects
  <1> HIDE DEF t, w, A
  <1>10. Len(w) = Len(t)
    <2>1. Len(t) \in Nat /\ Len(w) \in Nat /\ A \subseteq Nat
      BY <1>9
    <2> QED BY <1>8, <2>1, OneEnumeration DEF Selects
  <1>11. ASSUME NEW j \in 1 .. Len(s) PROVE w[j] = Record(u, rows[j])
    <2>1. g[j] \in 1 .. Len(process) /\ process[g[j]] = t[j] /\ w[j] = new[g[j]]
      BY <1>6, <1>8, <1>9, <1>10 DEF Selects, Enumerates
    <2>2. s[j] \in TabRow /\ rows[j] \in TabRow /\ u \in Users
      BY <1>1, <1>2 DEF u
    <2> DEFINE q == Record(u, s[j])  r == Record(u, rows[j])
    <2>3. /\ q \in ProcRow /\ q.owner = u /\ q.prog = s[j].prog
          /\ \A c \in Columns : q[c] = s[j][c]
          /\ r \in ProcRow /\ r.owner = u /\ r.prog = rows[j].prog
          /\ \A c \in Columns : r[c] = rows[j][c]
      BY <2>2, RecordFields
    <2>4. t[j] = q
      BY <1>6
    <2> HIDE DEF q, r
    <2>5. w[j] = IF s[j].prog = p THEN [q EXCEPT ![col] = v] ELSE q
      BY <1>5, <2>1, <2>3, <2>4 DEF Updated
    <2>6. s[j].prog = p <=> j = i
      BY <1>2 DEF TabOK, p, s
    <2>7. /\ [q EXCEPT ![col] = v] \in ProcRow
          /\ [q EXCEPT ![col] = v].owner = u /\ [q EXCEPT ![col] = v].prog = q.prog
          /\ \A c \in Columns : [q EXCEPT ![col] = v][c] = IF c = col THEN v ELSE q[c]
      BY <2>3, UpdatedRow
    <2>8. /\ w[j] \in ProcRow /\ w[j].owner = r.owner /\ w[j].prog = r.prog
          /\ \A c \in Columns : w[j][c] = r[c]
      <3>1. CASE j = i
        BY <1>1, <2>3, <2>5, <2>6, <2>7, <3>1
      <3>2. CASE j # i
        BY <1>1, <2>3, <2>5, <2>6, <3>2
      <3> QED BY <3>1, <3>2
    <2>9. w[j] = r
      BY <2>3, <2>8, SameRecord
    <2> QED BY <2>9 DEF r
  <1> QED BY <1>1, <1>4, <1>6, <1>10, <1>11 DEF StoredRows, w, u, s, rows

(* updateProcess leaves the rows of other users. *)
LEMMA UpdateStoresOthers ==
  ASSUME RuleInv, NEW d, NEW u, user[d] # u, NEW p, NEW col \in Columns, NEW v \in BOOLEAN,
         NEW f, updateProcess(d, p, col, v, f)
  PROVE  Own(u, process') = Own(u, process)
  <1>1. CASE f = "db"
    BY <1>1 DEF updateProcess
  <1>2. CASE f # "db"
    <2>1. process \in Seq(ProcRow)
      BY DEF RuleInv, DbInv
    <2>2. PICK new : new = process'
      OBVIOUS
    <2>3. /\ new \in Seq(ProcRow) /\ Len(new) = Len(process)
          /\ \A j \in 1 .. Len(process) : new[j] = Updated(process[j], user[d], p, col, v)
      <3>1. /\ process' \in Seq(ProcRow) /\ Len(process') = Len(process)
            /\ \A j \in 1 .. Len(process) : process'[j] = Updated(process[j], user[d], p, col, v)
        BY <1>2, <2>1, UpdateEffect
      <3> QED BY <2>2, <3>1
    <2>4. ASSUME NEW j \in 1 .. Len(process)
          PROVE  /\ new[j].owner = u <=> process[j].owner = u
                 /\ process[j].owner = u => new[j] = process[j]
      <3>1. process[j] \in ProcRow
        BY <2>1
      <3>2. [process[j] EXCEPT ![col] = v].owner = process[j].owner
        BY <3>1 DEF Columns, ProcRow
      <3> QED BY <2>3, <3>2 DEF Updated
    <2>5. Own(u, new) = Own(u, process)
      BY <2>1, <2>3, <2>4, OwnUpdatedOther
    <2> QED BY <2>2, <2>5
  <1> QED BY <1>1, <1>2

(* A box keeps the database as the tables, for every desktop. *)
LEMMA BoxStores ==
  ASSUME RuleInv, CleanInv, NEW d \in Desktops, Running(d), NEW i \in 1 .. Len(blacktw[d]),
         NEW k \in 1 .. Len(blacktw[d]), NEW col \in Columns, NEW v \in BOOLEAN, NEW f,
         Box(d, Switched(blacktw[d], i, col, v), i, k, col, f),
         NEW e \in Desktops, clean'[e]
  PROVE  SoleUser(e)' /\ Stored(e)'
  <1> DEFINE rows == Switched(blacktw[d], i, col, v)
  <1>1. /\ rows \in Seq(TabRow) /\ Len(rows) = Len(blacktw[d])
        /\ rows[i].prog = blacktw[d][i].prog /\ rows[i][col] = v
    BY TabsOf, SwitchedRow
  <1> HIDE DEF rows
  <1>2. /\ blacktw' = [blacktw EXCEPT ![d] = rows]
        /\ nethead' = nethead /\ user' = user /\ headtw' = headtw
        /\ updateProcess(d, rows[k].prog, col, rows[k][col], f)
        /\ Failed(d, IF k # i THEN "astray" ELSE f)
    BY DEF Box, rows
  <1>3. clean[e] /\ (e = d => k = i /\ f = "none")
    BY <1>2, CleanBefore
  <1>4. SoleUser(e) /\ Stored(e)
    BY <1>3 DEF CleanInv
  <1>5. SoleUser(e)'
    BY <1>2, <1>4 DEF SoleUser, Running
  <1>6. CASE e # d
    <2>1. user[d] # user[e] /\ blacktw'[e] = blacktw[e]
      BY <1>2, <1>4, <1>6 DEF SoleUser, RuleInv, TabInv
    <2>2. rows[k][col] \in BOOLEAN
      <3>1. rows[k] \in TabRow
        BY <1>1
      <3> QED BY <3>1, RowFields
    <2>3. Own(user[e], process') = Own(user[e], process)
      BY <1>2, <2>1, <2>2, UpdateStoresOthers
    <2> QED BY <1>2, <1>4, <1>5, <2>1, <2>3 DEF Stored
  <1>7. CASE e = d
    <2>1. k = i /\ f # "db" /\ user[d] \in Users
      BY <1>3, <1>7 DEF Running, RuleInv, TabInv
    <2>2. StoredRows(Own(user[d], process), user[d], blacktw[d])
      BY <1>4, <1>7 DEF Stored
    <2>3. updateProcess(d, blacktw[d][i].prog, col, v, f)
      BY <1>1, <1>2, <2>1
    <2>4. StoredRows(Own(user[d], process'), user[d], rows)
      BY <2>1, <2>2, <2>3, BoxStoresOwn DEF rows
    <2>5. blacktw'[d] = rows
      BY <1>2 DEF RuleInv, TabInv
    <2> QED BY <1>2, <1>4, <1>5, <1>7, <2>4, <2>5 DEF Stored
  <1> QED BY <1>6, <1>7

(* A row is appended to a table and to the rows of its user, or removed from both. *)
LEMMA StoredAppend ==
  ASSUME NEW S, NEW T, NEW t \in Seq(S), NEW s \in Seq(T), NEW x \in S, NEW y \in T, NEW u
  PROVE  /\ StoredRows(t, u, s) /\ x = Record(u, y) => StoredRows(Append(t, x), u, Append(s, y))
         /\ StoredHeads(t, u, s) /\ x = HeadRecord(u, y)
              => StoredHeads(Append(t, x), u, Append(s, y))
  <1> DEFINE m == Append(t, x)  n == Append(s, y)
  <1>1. /\ Len(m) = Len(t) + 1 /\ m[Len(t) + 1] = x
        /\ \A i \in 1 .. Len(t) : m[i] = t[i]
    BY AppendProperties
  <1>2. /\ Len(n) = Len(s) + 1 /\ n[Len(s) + 1] = y
        /\ \A i \in 1 .. Len(s) : n[i] = s[i]
    BY AppendProperties
  <1> HIDE DEF m, n
  <1>3. Len(s) \in Nat /\ \A i \in 1 .. Len(s) + 1 : i \in 1 .. Len(s) \/ i = Len(s) + 1
    OBVIOUS
  <1>4. StoredRows(t, u, s) /\ x = Record(u, y) => StoredRows(m, u, n)
    BY <1>1, <1>2, <1>3 DEF StoredRows
  <1>5. StoredHeads(t, u, s) /\ x = HeadRecord(u, y) => StoredHeads(m, u, n)
    BY <1>1, <1>2, <1>3 DEF StoredHeads
  <1> QED BY <1>4, <1>5 DEF m, n

(* The same for a removal at one place. *)
LEMMA StoredRemove ==
  ASSUME NEW S, NEW T, NEW t \in Seq(S), NEW s \in Seq(T), NEW u, NEW i \in 1 .. Len(s)
  PROVE  /\ StoredRows(t, u, s) => StoredRows(RemoveAt(t, i), u, RemoveAt(s, i))
         /\ StoredHeads(t, u, s) => StoredHeads(RemoveAt(t, i), u, RemoveAt(s, i))
  <1> DEFINE m == RemoveAt(t, i)  n == RemoveAt(s, i)
  <1> SUFFICES ASSUME Len(t) = Len(s)
               PROVE  /\ StoredRows(t, u, s) => StoredRows(m, u, n)
                      /\ StoredHeads(t, u, s) => StoredHeads(m, u, n)
    BY DEF StoredRows, StoredHeads
  <1>0. i \in 1 .. Len(t)
    OBVIOUS
  <1>1. /\ Len(m) = Len(t) - 1
        /\ \A j \in 1 .. Len(t) - 1 : m[j] = IF j < i THEN t[j] ELSE t[j + 1]
    BY <1>0, RemovedAt
  <1>2. /\ Len(n) = Len(s) - 1
        /\ \A j \in 1 .. Len(s) - 1 : n[j] = IF j < i THEN s[j] ELSE s[j + 1]
    BY RemovedAt
  <1> HIDE DEF m, n
  <1>3. Len(s) \in Nat /\ \A j \in 1 .. Len(s) - 1 : j \in 1 .. Len(s) /\ j + 1 \in 1 .. Len(s)
    OBVIOUS
  <1> QED BY <1>1, <1>2, <1>3 DEF StoredRows, StoredHeads

(* A row is inserted. *)
LEMMA InsertedStores ==
  ASSUME RuleInv, CleanInv, NEW d \in Desktops, NEW p \in Programs, NEW col \in Columns, NEW f,
         InsertedRow(d, p, col, f), NEW e \in Desktops, clean'[e]
  PROVE  SoleUser(e)' /\ Stored(e)'
  <1> DEFINE s == blacktw[d]  r == Row(p, col = "open", col = "net", Len(s))
             q == Row(p, col = "open", col = "net", 0)
             rows == IF f = Driver(col) THEN s ELSE Append(s, r)
  <1>1. /\ Running(d) /\ insertProcess(d, q, f) /\ Failed(d, f)
        /\ nethead' = nethead /\ user' = user /\ headtw' = headtw
        /\ blacktw' = [blacktw EXCEPT ![d] = rows]
    BY DEF InsertedRow
  <1>2. clean[e] /\ (e = d => f = "none")
    BY <1>1, CleanBefore
  <1>3. SoleUser(e) /\ Stored(e)
    BY <1>2 DEF CleanInv
  <1>4. SoleUser(e)'
    BY <1>1, <1>3 DEF SoleUser, Running
  <1>5. s \in Seq(TabRow) /\ user[d] \in Users /\ process \in Seq(ProcRow) /\ Len(s) \in Nat
    BY <1>1, TabsOf DEF RuleInv, TabInv, DbInv, Running
  <1>6. r \in TabRow
    BY <1>5 DEF Row, TabRow
  <1> DEFINE x == Record(user[d], q)
  <1>7. x = Record(user[d], r) /\ x \in ProcRow /\ x.owner = user[d]
    <2>1. x = Record(user[d], r)
      BY DEF Record, Row
    <2> HIDE DEF x, r
    <2> QED BY <1>5, <1>6, <2>1, RecordFields
  <1>8. process' = IF f = "db" THEN process ELSE Append(process, x)
    BY <1>1 DEF insertProcess
  <1> HIDE DEF s, x, r
  <1>9. CASE e # d
    <2>1. user[d] # user[e] /\ blacktw'[e] = blacktw[e]
      BY <1>1, <1>3, <1>9 DEF SoleUser, RuleInv, TabInv
    <2>2. Own(user[e], Append(process, x)) = Own(user[e], process)
      BY <1>5, <1>7, <2>1, OwnAppend
    <2> QED BY <1>1, <1>3, <1>8, <2>1, <2>2, <1>4 DEF Stored
  <1>10. CASE e = d
    <2>1. f = "none" /\ f # Driver(col)
      BY <1>2, <1>10 DEF Driver, Columns
    <2>2. blacktw'[d] = Append(s, r)
      BY <1>1, <2>1 DEF RuleInv, TabInv
    <2> DEFINE t == Own(user[d], process)
    <2>3. Own(user[d], Append(process, x)) = Append(t, x)
      BY <1>5, <1>7, OwnAppend
    <2>4. t \in Seq(ProcRow)
      BY <1>5, OwnSelects
    <2>5. StoredRows(t, user[d], s)
      BY <1>3, <1>10 DEF Stored, s
    <2> HIDE DEF t
    <2>6. StoredRows(Append(t, x), user[d], Append(s, r))
      BY <1>5, <1>6, <1>7, <2>4, <2>5, StoredAppend
    <2> QED BY <1>1, <1>3, <1>4, <1>8, <1>10, <2>1, <2>2, <2>3, <2>6 DEF Stored
  <1> QED BY <1>9, <1>10

(* A row is deleted: the database has it, once, with these flags. *)
LEMMA AllowProcessStores ==
  ASSUME RuleInv, CleanInv, NEW d \in Desktops, allowProcess(d), NEW e \in Desktops, clean'[e]
  PROVE  SoleUser(e)' /\ Stored(e)'
  <1> DEFINE s == blacktw[d]
  <1>1. s \in Seq(TabRow) /\ TabOK(s) /\ DOMAIN s = 1 .. Len(s) /\ Len(s) \in Nat
    BY TabsOf
  <1>2. PICK i \in 1 .. Len(s), f \in Fault :
          /\ blacktw' = [blacktw EXCEPT ![d] = RemoveAt(s, i)]
          /\ deleteProcess(d, s[i], f) /\ Failed(d, f)
          /\ nethead' = nethead /\ headtw' = headtw /\ user' = user
    BY <1>1 DEF allowProcess
  <1>3. clean[e] /\ (e = d => f = "none")
    BY <1>2, CleanBefore
  <1>4. SoleUser(e) /\ Stored(e)
    BY <1>3 DEF CleanInv
  <1>5. SoleUser(e)'
    BY <1>2, <1>4 DEF SoleUser, Running
  <1>6. process \in Seq(ProcRow)
    BY DEF RuleInv, DbInv
  <1> DEFINE u == user[d]  x == Record(u, s[i])
  <1>7. process' = IF f = "db" THEN process ELSE Without(process, x)
    BY <1>2 DEF deleteProcess, Without
  <1>8. x.owner = u
    BY DEF Record
  <1> HIDE DEF s, x
  <1>9. CASE e # d
    <2>1. user[e] # u /\ blacktw'[e] = blacktw[e]
      BY <1>2, <1>4, <1>9 DEF SoleUser, RuleInv, TabInv
    <2>2. Own(user[e], Without(process, x)) = Own(user[e], process)
      BY <1>6, <1>8, <2>1, OwnWithoutOther
    <2> QED BY <1>2, <1>4, <1>5, <1>7, <2>1, <2>2 DEF Stored
  <1>10. CASE e = d
    <2>1. f = "none"
      BY <1>3, <1>10
    <2>2. blacktw'[d] = RemoveAt(s, i)
      BY <1>2 DEF RuleInv, TabInv
    <2> DEFINE t == Own(u, process)
    <2>3. StoredRows(t, u, s)
      BY <1>4, <1>10 DEF Stored, s
    <2>4. t \in Seq(ProcRow)
      BY <1>6, OwnSelects
    <2>5. Len(t) = Len(s) /\ t[i] = x /\ i \in 1 .. Len(t)
      BY <2>3 DEF StoredRows, x
    <2>6. \A j \in 1 .. Len(t) : t[j] = t[i] => j = i
      <3> SUFFICES ASSUME NEW j \in 1 .. Len(s), t[j] = t[i] PROVE j = i
        BY <2>5
      <3>1. Record(u, s[j]) = Record(u, s[i])
        BY <2>3 DEF StoredRows
      <3>2. Record(u, s[j]).prog = s[j].prog /\ Record(u, s[i]).prog = s[i].prog
        BY DEF Record
      <3> QED BY <1>1, <3>1, <3>2 DEF TabOK
    <2>7. Own(u, Without(process, x)) = RemoveAt(t, i)
      <3>1. Own(u, Without(process, t[i])) = RemoveAt(t, i)
        BY <1>6, <2>5, <2>6, OwnWithout
      <3> QED BY <2>5, <3>1
    <2> HIDE DEF t
    <2>8. StoredRows(RemoveAt(t, i), u, RemoveAt(s, i))
      BY <1>1, <2>3, <2>4, StoredRemove
    <2> QED BY <1>2, <1>4, <1>5, <1>7, <1>10, <2>1, <2>2, <2>7, <2>8 DEF Stored
  <1> QED BY <1>9, <1>10

(* A head is banned. *)
LEMMA ForbidNetheadStores ==
  ASSUME RuleInv, CleanInv, NEW d \in Desktops, forbidNethead(d), NEW e \in Desktops, clean'[e]
  PROVE  SoleUser(e)' /\ Stored(e)'
  <1>1. PICK h \in Heads, f \in Fault :
          /\ IF f = "ndis" THEN UNCHANGED <<ndis, headtw>>
             ELSE ndis' = <<h>> \o ndis /\ headtw' = [headtw EXCEPT ![d] = Append(headtw[d], h)]
          /\ nethead' = IF f = "db" THEN nethead
                        ELSE Append(nethead, [owner |-> user[d], head |-> h])
          /\ Failed(d, f)
          /\ process' = process /\ user' = user /\ blacktw' = blacktw
    BY DEF forbidNethead
  <1>2. clean[e] /\ (e = d => f = "none")
    BY <1>1, CleanBefore
  <1>3. SoleUser(e) /\ Stored(e)
    BY <1>2 DEF CleanInv
  <1>4. SoleUser(e)'
    BY <1>1, <1>3 DEF SoleUser, Running
  <1> DEFINE s == headtw[d]  x == HeadRecord(user[d], h)
  <1>5. s \in Seq(Heads) /\ user[d] \in Users /\ nethead \in Seq(HeadRow)
    BY TabsOf DEF RuleInv, TabInv, DbInv, forbidNethead, Running
  <1>6. x \in HeadRow /\ x.owner = user[d]
    BY <1>5 DEF HeadRecord, HeadRow
  <1>7. nethead' = IF f = "db" THEN nethead ELSE Append(nethead, x)
    BY <1>1 DEF HeadRecord
  <1> HIDE DEF s, x
  <1>8. CASE e # d
    <2>1. user[d] # user[e] /\ headtw'[e] = headtw[e]
      BY <1>1, <1>3, <1>8 DEF SoleUser, RuleInv, TabInv
    <2>2. Own(user[e], Append(nethead, x)) = Own(user[e], nethead)
      BY <1>5, <1>6, <2>1, OwnAppend
    <2> QED BY <1>1, <1>3, <1>4, <1>7, <2>1, <2>2 DEF Stored
  <1>9. CASE e = d
    <2>1. f = "none"
      BY <1>2, <1>9
    <2>2. headtw'[d] = Append(s, h)
      BY <1>1, <2>1 DEF RuleInv, TabInv, s
    <2> DEFINE t == Own(user[d], nethead)
    <2>3. Own(user[d], Append(nethead, x)) = Append(t, x)
      BY <1>5, <1>6, OwnAppend
    <2>4. t \in Seq(HeadRow)
      BY <1>5, OwnSelects
    <2>5. StoredHeads(t, user[d], s)
      BY <1>3, <1>9 DEF Stored, s
    <2> HIDE DEF t
    <2>6. StoredHeads(Append(t, x), user[d], Append(s, h))
      <3>1. x = HeadRecord(user[d], h)
        BY DEF x
      <3> QED BY <1>5, <1>6, <2>4, <2>5, <3>1, StoredAppend
    <2> QED BY <1>1, <1>3, <1>4, <1>7, <1>9, <2>1, <2>2, <2>3, <2>6 DEF Stored
  <1> QED BY <1>8, <1>9

(* A desktop that is gone. *)
LEMMA GoneStores ==
  ASSUME RuleInv, CleanInv, NEW d \in Desktops, NEW taken, Gone(d, taken),
         UNCHANGED <<process, nethead>>, NEW e \in Desktops, clean'[e]
  PROVE  SoleUser(e)' /\ Stored(e)'
  <1>1. /\ user' = [user EXCEPT ![d] = Nobody]
        /\ blacktw' = [blacktw EXCEPT ![d] = <<>>] /\ headtw' = [headtw EXCEPT ![d] = <<>>]
        /\ clean' = [clean EXCEPT ![d] = FALSE]
    BY DEF Gone
  <1>2. e # d /\ clean[e]
    BY <1>1 DEF RuleInv, HistInv
  <1>3. SoleUser(e) /\ Stored(e)
    BY <1>2 DEF CleanInv
  <1>4. /\ user'[e] = user[e] /\ blacktw'[e] = blacktw[e] /\ headtw'[e] = headtw[e]
        /\ \A o \in Desktops : user'[o] = IF o = d THEN Nobody ELSE user[o]
    BY <1>1, <1>2 DEF RuleInv, TabInv
  <1> QED BY <1>3, <1>4 DEF SoleUser, Stored, Running

(* A head is deleted: the row selected is that of the head given, or the  *)
(* history says so.                                                       *)
LEMMA AllowNetheadStores ==
  ASSUME RuleInv, CleanInv, NEW d \in Desktops, allowNethead(d), NEW e \in Desktops, clean'[e]
  PROVE  SoleUser(e)' /\ Stored(e)'
  <1>1. PICK h \in Heads, f \in Fault :
           \/ RefusedHead(d, h, f)
           \/ EndedAtHead(d, h, f)
           \/ \E i \in 1 .. Len(headtw[d]) : DeletedHead(d, h, i, f)
    BY AllowNetheadIs
  <1>3. CASE RefusedHead(d, h, f)
    <2>1. clean[e]
      BY <1>3, CleanBefore DEF RefusedHead
    <2> QED BY <1>3, <2>1 DEF RefusedHead, CleanInv, SoleUser, Stored, Running
  <1>4. CASE EndedAtHead(d, h, f)
    BY <1>4, GoneStores DEF EndedAtHead
  <1>5. ASSUME NEW i \in 1 .. Len(headtw[d]), DeletedHead(d, h, i, f)
        PROVE  SoleUser(e)' /\ Stored(e)'
    <2>1. /\ process' = process /\ blacktw' = blacktw /\ user' = user
          /\ headtw' = [headtw EXCEPT ![d] = RemoveAt(headtw[d], i)]
          /\ nethead' = IF f = "db" THEN nethead
                        ELSE Picked(nethead, {k \in DOMAIN nethead :
                                               nethead[k] # [owner |-> user[d], head |-> h]})
          /\ Failed(d, IF headtw[d][i] # h THEN "astray" ELSE f)
      BY <1>5 DEF DeletedHead
    <2>2. clean[e] /\ (e = d => headtw[d][i] = h /\ f = "none")
      BY <2>1, CleanBefore
    <2>3. SoleUser(e) /\ Stored(e)
      BY <2>2 DEF CleanInv
    <2>4. SoleUser(e)'
      BY <2>1, <2>3 DEF SoleUser, Running
    <2> DEFINE s == headtw[d]  u == user[d]  x == HeadRecord(u, h)
    <2>5. s \in Seq(Heads) /\ HeadOK(s) /\ nethead \in Seq(HeadRow)
      BY TabsOf DEF RuleInv, DbInv
    <2>6. nethead' = IF f = "db" THEN nethead ELSE Without(nethead, x)
      BY <2>1 DEF Without, HeadRecord
    <2>7. x.owner = u
      BY DEF HeadRecord
    <2> HIDE DEF s, x
    <2>8. CASE e # d
      <3>1. user[e] # u /\ headtw'[e] = headtw[e]
        BY <2>1, <2>3, <2>8 DEF SoleUser, RuleInv, TabInv
      <3>2. Own(user[e], Without(nethead, x)) = Own(user[e], nethead)
        BY <2>5, <2>7, <3>1, OwnWithoutOther
      <3> QED BY <2>1, <2>3, <2>4, <2>6, <3>1, <3>2 DEF Stored
    <2>9. CASE e = d
      <3>1. f = "none" /\ s[i] = h
        BY <2>2, <2>9 DEF s
      <3>2. headtw'[d] = RemoveAt(s, i)
        BY <2>1 DEF RuleInv, TabInv, s
      <3> DEFINE t == Own(u, nethead)
      <3>3. StoredHeads(t, u, s)
        BY <2>3, <2>9 DEF Stored, s
      <3>4. t \in Seq(HeadRow)
        BY <2>5, OwnSelects
      <3>5. Len(t) = Len(s) /\ t[i] = x /\ i \in 1 .. Len(t) /\ i \in 1 .. Len(s)
        BY <3>1, <3>3 DEF StoredHeads, x, s
      <3>6. \A j \in 1 .. Len(t) : t[j] = t[i] => j = i
        <4> SUFFICES ASSUME NEW j \in 1 .. Len(s), t[j] = t[i] PROVE j = i
          BY <3>5
        <4>1. HeadRecord(u, s[j]) = HeadRecord(u, s[i])
          BY <3>3, <3>5 DEF StoredHeads
        <4>2. HeadRecord(u, s[j]).head = s[j] /\ HeadRecord(u, s[i]).head = s[i]
          BY DEF HeadRecord
        <4> QED BY <2>5, <3>5, <4>1, <4>2 DEF HeadOK
      <3>7. Own(u, Without(nethead, x)) = RemoveAt(t, i)
        <4>1. Own(u, Without(nethead, t[i])) = RemoveAt(t, i)
          BY <2>5, <3>5, <3>6, OwnWithout
        <4> QED BY <3>5, <4>1
      <3> HIDE DEF t
      <3>8. StoredHeads(RemoveAt(t, i), u, RemoveAt(s, i))
        BY <2>5, <3>3, <3>4, <3>5, StoredRemove
      <3> QED BY <2>1, <2>3, <2>4, <2>6, <2>9, <3>1, <3>2, <3>7, <3>8 DEF Stored
    <2> QED BY <2>8, <2>9
  <1> QED BY <1>1, <1>3, <1>4, <1>5

(* A desktop starts: with an empty table, which the database is if its    *)
(* user had no rules.                                                     *)
LEMMA StartStores ==
  ASSUME RuleInv, CleanInv, NEW d \in Desktops, Start(d), NEW e \in Desktops, clean'[e]
  PROVE  SoleUser(e)' /\ Stored(e)'
  <1>1. /\ ~Running(d) /\ process' = process /\ nethead' = nethead
        /\ blacktw' = blacktw /\ headtw' = headtw
    BY StartEffect
  <1>2. PICK u \in Users :
              /\ user' = [user EXCEPT ![d] = u]
              /\ clean' = [o \in Desktops |->
                   IF o = d THEN /\ Own(u, process) = <<>> /\ Own(u, nethead) = <<>>
                                 /\ \A x \in {y \in Desktops : Running(y)} : user[x] # u
                   ELSE clean[o] /\ user[o] # u]
    BY StartEffect
  <1>3. /\ u # Nobody
        /\ \A o \in Desktops : user'[o] = IF o = d THEN u ELSE user[o]
    BY <1>2, RuleTableAssumption DEF RuleInv, TabInv
  <1>4. CASE e = d
    <2>1. /\ Own(u, process) = <<>> /\ Own(u, nethead) = <<>>
          /\ \A x \in Desktops : Running(x) => user[x] # u
      BY <1>2, <1>4
    <2>2. blacktw[d] = <<>> /\ headtw[d] = <<>>
      BY <1>1 DEF RuleInv, TabInv, Idle
    <2>3. StoredRows(<<>>, u, <<>>) /\ StoredHeads(<<>>, u, <<>>)
      BY DEF StoredRows, StoredHeads
    <2>4. Stored(e)'
      BY <1>1, <1>3, <1>4, <2>1, <2>2, <2>3 DEF Stored
    <2>5. SoleUser(e)'
      BY <1>3, <1>4, <2>1 DEF SoleUser, Running
    <2> QED BY <2>4, <2>5
  <1>5. CASE e # d
    <2>1. clean[e] /\ user[e] # u
      BY <1>2, <1>5
    <2>2. SoleUser(e) /\ Stored(e)
      BY <2>1 DEF CleanInv
    <2> QED BY <1>1, <1>3, <1>5, <2>1, <2>2 DEF SoleUser, Stored, Running
  <1> QED BY <1>4, <1>5

(* A box, or the end of the program at it. *)
LEMMA BoxedStores ==
  ASSUME RuleInv, CleanInv, NEW d \in Desktops, Boxed(d), NEW e \in Desktops, clean'[e]
  PROVE  SoleUser(e)' /\ Stored(e)'
  <1>1. PICK i \in 1 .. Len(blacktw[d]), col \in Columns, f \in Fault :
          comboboxChanged(d, Switched(blacktw[d], i, col, ~blacktw[d][i][col]), i, col, f)
    BY DEF Boxed
  <1> DEFINE v == ~blacktw[d][i][col]
  <1>2. v \in BOOLEAN
    OBVIOUS
  <1>3. comboboxChanged(d, Switched(blacktw[d], i, col, v), i, col, f)
    BY <1>1
  <1> HIDE DEF v
  <1>4. \/ Gone(d, lifted) /\ UNCHANGED <<process, nethead, ssdt, wfp, ndis>>
        \/ \E k \in 1 .. Len(blacktw[d]) : Box(d, Switched(blacktw[d], i, col, v), i, k, col, f)
    BY <1>2, <1>3, BoxEffect
  <1>5. Running(d)
    BY EmptySeq DEF RuleInv, TabInv, Idle
  <1> QED BY <1>2, <1>4, <1>5, BoxStores, GoneStores

(* A desktop with a clean history is the only one of its user, and its    *)
(* tables are stored.                                                     *)
LEMMA CleanInvHolds == Spec => []CleanInv
  <1>1. Init => CleanInv
    BY DEF Init, CleanInv
  <1>2. RuleInv /\ CleanInv /\ [Next]_vars => CleanInv'
    <2> SUFFICES ASSUME RuleInv, CleanInv, [Next]_vars, NEW e \in Desktops, clean'[e]
                 PROVE  SoleUser(e)' /\ Stored(e)'
      BY DEF CleanInv
    <2>1. CASE UNCHANGED vars
      BY <2>1 DEF vars, database, tables, history, CleanInv, SoleUser, Stored, Running
    <2>2. CASE Next
      <3>1. CASE clearAll
        BY <3>1 DEF clearAll, database, tables, CleanInv, SoleUser, Stored, Running
      <3>2. ASSUME NEW d \in Desktops, Start(d) PROVE SoleUser(e)' /\ Stored(e)'
        BY <3>2, StartStores
      <3>3. ASSUME NEW d \in Desktops, End(d) PROVE SoleUser(e)' /\ Stored(e)'
        BY <3>3, GoneStores DEF End, database
      <3>4. ASSUME NEW d \in Desktops, Boxed(d) PROVE SoleUser(e)' /\ Stored(e)'
        BY <3>4, BoxedStores
      <3>5. ASSUME NEW d \in Desktops, Inserted(d) PROVE SoleUser(e)' /\ Stored(e)'
        BY <3>5, InsertedStores DEF Inserted
      <3>6. ASSUME NEW d \in Desktops, allowProcess(d) PROVE SoleUser(e)' /\ Stored(e)'
        BY <3>6, AllowProcessStores
      <3>7. ASSUME NEW d \in Desktops, forbidNethead(d) PROVE SoleUser(e)' /\ Stored(e)'
        BY <3>7, ForbidNetheadStores
      <3>8. ASSUME NEW d \in Desktops, allowNethead(d) PROVE SoleUser(e)' /\ Stored(e)'
        BY <3>8, AllowNetheadStores
      <3> QED BY <2>2, <3>1, <3>2, <3>3, <3>4, <3>5, <3>6, <3>7, <3>8, StepIs
    <2> QED BY <2>1, <2>2
  <1> QED BY <1>1, <1>2, RuleInvHolds, PTL DEF Spec

(* The database keeps row by row what the tables of a desktop show, if    *)
(* its user had no rules before and has no second desktop, no call failed *)
(* and no row but the one meant was changed: the next session loads       *)
(* exactly these.                                                         *)
THEOREM ShownIsStored == Spec => []DatabaseIsTable
  <1>1. RuleInv /\ CleanInv => DatabaseIsTable
    <2> SUFFICES ASSUME RuleInv, CleanInv, NEW d \in Desktops, clean[d]
        PROVE /\ Own(user[d], process) =
                   [i \in DOMAIN blacktw[d] |-> Record(user[d], blacktw[d][i])]
              /\ Own(user[d], nethead) =
                   [i \in DOMAIN headtw[d] |-> [owner |-> user[d], head |-> headtw[d][i]]]
      BY DEF DatabaseIsTable
    <2>1. Stored(d)
      BY DEF CleanInv
    <2>2. process \in Seq(ProcRow) /\ nethead \in Seq(HeadRow)
      BY DEF RuleInv, DbInv
    <2> DEFINE t == Own(user[d], process)  w == Own(user[d], nethead)
    <2>3. t \in Seq(ProcRow) /\ w \in Seq(HeadRow)
      BY <2>2, OwnSelects
    <2>4. /\ Len(t) = Len(blacktw[d])
          /\ \A i \in 1 .. Len(blacktw[d]) : t[i] = Record(user[d], blacktw[d][i])
          /\ Len(w) = Len(headtw[d])
          /\ \A i \in 1 .. Len(headtw[d]) : w[i] = [owner |-> user[d], head |-> headtw[d][i]]
      BY <2>1 DEF Stored, StoredRows, StoredHeads, HeadRecord
    <2> HIDE DEF t, w
    <2>5. DOMAIN blacktw[d] = 1 .. Len(blacktw[d]) /\ DOMAIN headtw[d] = 1 .. Len(headtw[d])
      BY TabsOf
    <2>6. t = [i \in 1 .. Len(t) |-> t[i]] /\ w = [i \in 1 .. Len(w) |-> w[i]]
      BY <2>3, LenProperties
    <2>7. t = [i \in DOMAIN blacktw[d] |-> Record(user[d], blacktw[d][i])]
      BY <2>4, <2>5, <2>6
    <2>8. w = [i \in DOMAIN headtw[d] |-> [owner |-> user[d], head |-> headtw[d][i]]]
      BY <2>4, <2>5, <2>6
    <2> QED BY <2>7, <2>8 DEF t, w
  <1> QED BY <1>1, RuleInvHolds, CleanInvHolds, PTL

----------------------------------------------------------------------------
(* How many entries of a list are of some kind. *)

Hits(s, V) == {i \in 1 .. Len(s) : s[i] \in V}
Count(s, V) == Cardinality(Hits(s, V))
One(b) == IF b THEN 1 ELSE 0

(* The number is a number, and zero if there is none. *)
LEMMA CountNat ==
  ASSUME NEW S, NEW s \in Seq(S), NEW V
  PROVE  /\ IsFiniteSet(Hits(s, V)) /\ Count(s, V) \in Nat
         /\ Count(s, V) = 0 <=> \A i \in 1 .. Len(s) : s[i] \notin V
         /\ Count(s, V) > 0 <=> \E i \in 1 .. Len(s) : s[i] \in V
  <1>1. Len(s) \in Nat
    OBVIOUS
  <1>2. IsFiniteSet(1 .. Len(s))
    BY <1>1, FS_Interval
  <1>3. Hits(s, V) \in SUBSET (1 .. Len(s))
    BY DEF Hits
  <1>4. IsFiniteSet(Hits(s, V))
    BY <1>2, <1>3, FS_Subset
  <1>5. Count(s, V) \in Nat
    BY <1>4, FS_CardinalityType DEF Count
  <1>6. Count(s, V) = 0 <=> Hits(s, V) = {}
    BY <1>4, FS_EmptySet DEF Count
  <1>7. Hits(s, V) = {} <=> \A i \in 1 .. Len(s) : s[i] \notin V
    BY DEF Hits
  <1> QED BY <1>4, <1>5, <1>6, <1>7

(* The entry at one place is another one, or of another kind. *)
LEMMA CountReplaced ==
  ASSUME NEW S, NEW s \in Seq(S), NEW T, NEW t \in Seq(T), NEW V, NEW i \in 1 .. Len(s),
         Len(t) = Len(s), \A j \in 1 .. Len(s) : j # i => (s[j] \in V <=> t[j] \in V)
  PROVE  Count(t, V) = Count(s, V) - One(s[i] \in V) + One(t[i] \in V)
  <1> DEFINE A == Hits(s, V)  B == Hits(t, V)  C == A \ {i}
  <1>1. IsFiniteSet(A) /\ IsFiniteSet(B)
    BY CountNat
  <1>2. Cardinality(A) \in Nat /\ Cardinality(B) \in Nat
    BY <1>1, FS_CardinalityType
  <1>3. (i \in A <=> s[i] \in V) /\ (i \in B <=> t[i] \in V)
    BY DEF Hits
  <1>4. B \ {i} = A \ {i}
    BY DEF Hits
  <1> HIDE DEF A, B
  <1>5. /\ Cardinality(A \ {i}) = IF i \in A THEN Cardinality(A) - 1 ELSE Cardinality(A)
        /\ Cardinality(B \ {i}) = IF i \in B THEN Cardinality(B) - 1 ELSE Cardinality(B)
    BY <1>1, FS_RemoveElement
  <1>6. Cardinality(B) = Cardinality(A) - One(s[i] \in V) + One(t[i] \in V)
    <2> DEFINE a == Cardinality(A)  b == Cardinality(B)  c == Cardinality(A \ {i})
    <2>1. a \in Nat /\ b \in Nat
      BY <1>2
    <2>2. c = (IF i \in A THEN a - 1 ELSE a) /\ c = (IF i \in B THEN b - 1 ELSE b)
      BY <1>4, <1>5
    <2>3. One(s[i] \in V) = (IF i \in A THEN 1 ELSE 0) /\ One(t[i] \in V) = (IF i \in B THEN 1 ELSE 0)
      BY <1>3 DEF One
    <2> HIDE DEF a, b, c
    <2>4. b = a - One(s[i] \in V) + One(t[i] \in V)
      BY <2>1, <2>2, <2>3
    <2> QED BY <2>4 DEF a, b
  <1> QED BY <1>6 DEF A, B, Count

(* An entry is appended. *)
LEMMA CountAppended ==
  ASSUME NEW S, NEW s \in Seq(S), NEW x \in S, NEW V
  PROVE  Count(Append(s, x), V) = Count(s, V) + One(x \in V)
  <1> DEFINE t == Append(s, x)  n == Len(s) + 1  A == Hits(s, V)  B == Hits(t, V)
  <1>1. /\ t \in Seq(S) /\ Len(t) = n /\ t[n] = x /\ \A i \in 1 .. Len(s) : t[i] = s[i]
    BY AppendProperties
  <1>2. Len(s) \in Nat
    OBVIOUS
  <1> HIDE DEF t
  <1>3. B = IF x \in V THEN A \union {n} ELSE A
    <2>1. \A i : i \in 1 .. n <=> i \in 1 .. Len(s) \/ i = n
      BY <1>2
    <2>2. n \notin 1 .. Len(s)
      BY <1>2
    <2> HIDE DEF n
    <2>3. \A i : i \in B <=> i \in A \/ (i = n /\ x \in V)
      BY <1>1, <2>1, <2>2 DEF Hits
    <2> HIDE DEF A, B
    <2>4. CASE x \in V
      BY <2>3, <2>4
    <2>5. CASE x \notin V
      BY <2>3, <2>5
    <2> QED BY <2>4, <2>5
  <1>4. IsFiniteSet(A) /\ Cardinality(A) \in Nat /\ n \notin A
    <2>1. IsFiniteSet(A)
      BY CountNat
    <2> QED BY <1>2, <2>1, FS_CardinalityType DEF Hits
  <1> HIDE DEF A, B, n
  <1>5. Cardinality(A \union {n}) = Cardinality(A) + 1
    BY <1>4, FS_AddElement
  <1>6. Cardinality(B) = Cardinality(A) + One(x \in V)
    BY <1>3, <1>4, <1>5 DEF One
  <1> QED BY <1>6 DEF Count, A, B, t

(* An entry is removed. *)
LEMMA CountRemoved ==
  ASSUME NEW S, NEW s \in Seq(S), NEW i \in 1 .. Len(s), NEW V
  PROVE  Count(RemoveAt(s, i), V) = Count(s, V) - One(s[i] \in V)
  <1> DEFINE t == RemoveAt(s, i)  A == Hits(s, V)  B == Hits(t, V)  C == A \ {i}
             g == [j \in B |-> IF j < i THEN j ELSE j + 1]
  <1>1. /\ t \in Seq(S) /\ Len(t) = Len(s) - 1
        /\ \A j \in 1 .. Len(s) - 1 : t[j] = IF j < i THEN s[j] ELSE s[j + 1]
    BY RemovedAt
  <1>2. Len(s) \in Nat
    OBVIOUS
  <1> HIDE DEF t
  <1>3. g \in [B -> C]
    <2> SUFFICES ASSUME NEW j \in B PROVE (IF j < i THEN j ELSE j + 1) \in C
      OBVIOUS
    <2>1. j \in 1 .. Len(s) - 1 /\ t[j] \in V
      BY <1>1 DEF Hits
    <2> QED BY <1>1, <1>2, <2>1 DEF Hits
  <1>4. \A j, k \in B : g[j] = g[k] => j = k
    <2>1. \A j \in B : j \in Nat
      BY DEF Hits
    <2> HIDE DEF B
    <2> QED BY <2>1
  <1>5. \A a \in C : \E j \in B : g[j] = a
    <2> SUFFICES ASSUME NEW a \in C PROVE \E j \in B : g[j] = a
      OBVIOUS
    <2>1. a \in 1 .. Len(s) /\ s[a] \in V /\ a # i
      BY DEF Hits
    <2>2. CASE a < i
      <3>1. a \in 1 .. Len(s) - 1 /\ t[a] = s[a]
        BY <1>1, <1>2, <2>1, <2>2
      <3>2. a \in B
        BY <1>1, <2>1, <3>1 DEF Hits
      <3> HIDE DEF B
      <3>3. g[a] = a
        BY <2>2, <3>2
      <3> QED BY <3>2, <3>3
    <2>3. CASE a > i
      <3>1. a - 1 \in 1 .. Len(s) - 1 /\ ~(a - 1 < i) /\ (a - 1) + 1 = a
        BY <1>2, <2>1, <2>3
      <3>2. t[a - 1] = s[a]
        BY <1>1, <3>1
      <3>3. a - 1 \in B
        BY <1>1, <2>1, <3>1, <3>2 DEF Hits
      <3> HIDE DEF B
      <3>4. g[a - 1] = a
        BY <3>1, <3>3
      <3> QED BY <3>3, <3>4
    <2> QED BY <2>1, <2>2, <2>3
  <1>6. IsFiniteSet(A) /\ IsFiniteSet(B)
    BY <1>1, CountNat
  <1>7. (i \in A <=> s[i] \in V) /\ Cardinality(A) \in Nat
    BY <1>6, FS_CardinalityType DEF Hits
  <1> HIDE DEF A, B, C, g
  <1>8. ExistsBijection(B, C)
    BY <1>3, <1>4, <1>5 DEF ExistsBijection, Bijection, Injection, Surjection, IsInjective
  <1>9. Cardinality(C) = Cardinality(B)
    BY <1>6, <1>8, FS_Bijection
  <1>10. Cardinality(A \ {i}) = IF i \in A THEN Cardinality(A) - 1 ELSE Cardinality(A)
    BY <1>6, FS_RemoveElement
  <1>11. Cardinality(B) = Cardinality(A) - One(s[i] \in V)
    BY <1>7, <1>9, <1>10 DEF One, C
  <1> QED BY <1>11 DEF Count, A, B, t

(* An entry is put before the list. *)
LEMMA CountConsed ==
  ASSUME NEW S, NEW s \in Seq(S), NEW x \in S, NEW V
  PROVE  Count(<<x>> \o s, V) = Count(s, V) + One(x \in V)
  <1> DEFINE t == <<x>> \o s  w == RemoveAt(t, 1)
  <1>1. /\ t \in Seq(S) /\ Len(t) = Len(s) + 1 /\ t[1] = x
        /\ \A i \in 1 .. Len(s) : t[i + 1] = s[i]
    BY Consed
  <1>2. Len(s) \in Nat
    OBVIOUS
  <1> HIDE DEF t
  <1>3. 1 \in 1 .. Len(t)
    BY <1>1, <1>2
  <1>4. /\ w \in Seq(S) /\ Len(w) = Len(t) - 1
        /\ \A j \in 1 .. Len(t) - 1 : w[j] = IF j < 1 THEN t[j] ELSE t[j + 1]
    BY <1>1, <1>3, RemovedAt
  <1>5. Count(w, V) = Count(t, V) - One(t[1] \in V)
    BY <1>1, <1>3, CountRemoved
  <1> HIDE DEF w
  <1>6. \A j \in 1 .. Len(s) : w[j] = s[j]
    BY <1>1, <1>2, <1>4
  <1>7. w = s
    BY <1>1, <1>2, <1>4, <1>6, SeqEqual
  <1>8. Count(t, V) \in Nat
    BY <1>1, CountNat
  <1> QED BY <1>1, <1>5, <1>7, <1>8 DEF One, t

(* All but one are of another kind. *)
LEMMA CountOnly ==
  ASSUME NEW S, NEW s \in Seq(S), NEW V, NEW i \in 1 .. Len(s),
         \A j \in 1 .. Len(s) : j # i => s[j] \notin V
  PROVE  Count(s, V) = One(s[i] \in V)
  <1>1. CASE s[i] \in V
    <2>1. Hits(s, V) = {i}
      BY <1>1 DEF Hits
    <2>2. Cardinality({i}) = 1
      BY FS_Singleton
    <2> QED BY <1>1, <2>1, <2>2 DEF Count, One
  <1>2. CASE s[i] \notin V
    <2>1. Hits(s, V) = {}
      BY <1>2 DEF Hits
    <2> QED BY <1>2, <2>1, FS_EmptySet DEF Count, One
  <1> QED BY <1>1, <1>2

----------------------------------------------------------------------------
(* The lists of a desktop that is alone are what its tables say. *)

Banning(col, n) == {r \in TabRow : r[col] /\ r.prog.name = n}
OpenExact(s, opens) == \A n \in Names : n \in opens <=> Count(s, Banning("open", n)) > 0
NetExact(s, nets) == \A n \in Names : Count(nets, {n}) = Count(s, Banning("net", n))
HeadExact(s, heads) == \A h \in Heads : Count(heads, {h}) = Count(s, {h})
Exact(d) == /\ OpenExact(blacktw[d], ssdt) /\ NetExact(blacktw[d], wfp)
            /\ HeadExact(headtw[d], ndis)
IsAlone(d) == Running(d) /\ \A e \in Desktops : e # d => ~Running(e)
AloneOf(d) == /\ alone[d] => IsAlone(d)
              /\ clean[d] /\ alone[d] /\ lifted[d] = {} => Exact(d)
AloneInv == \A d \in Desktops : AloneOf(d)

(* A row bans a name in a column. *)
LEMMA InBans ==
  ASSUME NEW r \in TabRow, NEW col \in Columns, NEW n
  PROVE  r \in Banning(col, n) <=> r[col] /\ r.prog.name = n
  BY DEF Banning

(* s's i-th row is the only one whose program a deletion of its name could mean. *)
OnlyRow(s, i) == \A j \in 1 .. Len(s) :
  j # i => <<s[i].prog.name, s[j].prog.name>> \notin Starts

(* The only row a deletion could mean: the SSDT list loses what that row  *)
(* says.                                                                  *)
LEMMA AllowOpenExact ==
  ASSUME NEW s \in Seq(TabRow), NEW t \in Seq(TabRow), NEW i \in 1 .. Len(s), OnlyRow(s, i),
         ssdt \in SUBSET Names, OpenExact(s, ssdt), AllowOpen(s[i].prog.name, "none"),
         \A m \in Names : Count(t, Banning("open", m)) =
                            Count(s, Banning("open", m)) - One(s[i] \in Banning("open", m))
  PROVE  OpenExact(t, ssdt')
  <1> DEFINE n == s[i].prog.name
  <1>1. ssdt' = {m \in ssdt : <<n, m>> \notin Starts}
    BY DEF AllowOpen
  <1>2. \A j \in 1 .. Len(s) : s[j] \in TabRow
    OBVIOUS
  <1>3. "open" \in Columns
    BY DEF Columns
  <1>4. n \in Names
    BY <1>2, RowFields
  <1> SUFFICES ASSUME NEW m \in Names PROVE m \in ssdt' <=> Count(t, Banning("open", m)) > 0
    BY DEF OpenExact
  <1> DEFINE V == Banning("open", m)
  <1>5. \A j \in 1 .. Len(s) : s[j] \in V => s[j].prog.name = m
    BY <1>2, <1>3, InBans
  <1>6. Count(t, V) = Count(s, V) - One(s[i] \in V) /\ (m \in ssdt <=> Count(s, V) > 0)
    BY DEF OpenExact
  <1>7. Count(s, V) \in Nat /\ Count(t, V) \in Nat
    BY CountNat
  <1> HIDE DEF n, V
  <1>8. CASE <<n, m>> \in Starts
    <2>1. \A j \in 1 .. Len(s) : j # i => s[j] \notin V
      BY <1>5, <1>8 DEF OnlyRow, n
    <2>2. Count(s, V) = One(s[i] \in V)
      BY <2>1, CountOnly
    <2>3. Count(t, V) = 0
      BY <1>6, <1>7, <2>2
    <2> QED BY <1>1, <1>8, <2>3 DEF V
  <1>9. CASE <<n, m>> \notin Starts
    <2>1. m # n
      BY <1>4, <1>9, RuleTableAssumption
    <2>2. s[i] \notin V
      BY <1>5, <2>1 DEF n
    <2>3. Count(t, V) = Count(s, V)
      BY <1>6, <1>7, <2>2 DEF One
    <2> QED BY <1>1, <1>6, <1>9, <2>3 DEF V
  <1> QED BY <1>8, <1>9

(* And the WFP list one entry, if the row says so. *)
LEMMA AllowNetExact ==
  ASSUME NEW s \in Seq(TabRow), NEW t \in Seq(TabRow), NEW i \in 1 .. Len(s), OnlyRow(s, i),
         wfp \in Seq(Names), NetExact(s, wfp), AllowNet(s[i].prog.name, "none"),
         \A m \in Names : Count(t, Banning("net", m)) =
                            Count(s, Banning("net", m)) - One(s[i] \in Banning("net", m))
  PROVE  NetExact(t, wfp')
  <1> DEFINE n == s[i].prog.name  hits == {k \in DOMAIN wfp : <<n, wfp[k]>> \in Starts}
  <1>1. wfp' = IF hits = {} THEN wfp ELSE RemoveAt(wfp, Min(hits))
    BY DEF AllowNet
  <1>2. \A j \in 1 .. Len(s) : s[j] \in TabRow
    OBVIOUS
  <1>3. "net" \in Columns
    BY DEF Columns
  <1>4. n \in Names /\ <<n, n>> \in Starts
    BY <1>2, RowFields, RuleTableAssumption
  <1>5. DOMAIN wfp = 1 .. Len(wfp) /\ \A k \in 1 .. Len(wfp) : wfp[k] \in Names
    BY LenProperties
  <1>6. ASSUME NEW k \in 1 .. Len(wfp), <<n, wfp[k]>> \in Starts
        PROVE  wfp[k] = n /\ s[i] \in Banning("net", n)
    <2> DEFINE m == wfp[k]
    <2>1. m \in Names
      BY <1>5
    <2>2. Count(wfp, {m}) > 0
      <3>1. \E j \in 1 .. Len(wfp) : wfp[j] \in {m}
        OBVIOUS
      <3> HIDE DEF m
      <3> QED BY <3>1, CountNat
    <2> HIDE DEF m
    <2>3. Count(s, Banning("net", m)) > 0
      BY <2>1, <2>2 DEF NetExact
    <2>4. PICK j \in 1 .. Len(s) : s[j] \in Banning("net", m)
      BY <2>3, CountNat
    <2>5. s[j].prog.name = m
      BY <1>2, <1>3, <2>4, InBans
    <2>6. j = i
      BY <1>6, <2>5 DEF OnlyRow, m
    <2> QED BY <2>4, <2>5, <2>6 DEF m
  <1> HIDE DEF n, hits
  <1>7. CASE hits = {}
    <2>1. s[i] \notin Banning("net", n)
      <3> SUFFICES ASSUME s[i] \in Banning("net", n) PROVE FALSE
        OBVIOUS
      <3>1. Count(s, Banning("net", n)) > 0
        BY CountNat
      <3>2. Count(wfp, {n}) > 0
        BY <1>4, <3>1 DEF NetExact
      <3>3. PICK k \in 1 .. Len(wfp) : wfp[k] \in {n}
        BY <3>2, CountNat
      <3> QED BY <1>4, <1>5, <1>7, <3>3 DEF hits
    <2>2. \A m \in Names : s[i] \notin Banning("net", m)
      BY <1>2, <1>3, <2>1, InBans DEF n
    <2>3. \A m \in Names : Count(s, Banning("net", m)) \in Nat
      BY CountNat
    <2>4. \A m \in Names : Count(t, Banning("net", m)) = Count(s, Banning("net", m))
      BY <2>2, <2>3 DEF One
    <2> QED BY <1>1, <1>7, <2>4 DEF NetExact
  <1>8. CASE hits # {}
    <2>1. Min(hits) \in hits
      <3>1. hits \subseteq Nat
        BY <1>5 DEF hits
      <3> QED BY <1>8, <3>1, LeastIs
    <2>2. PICK k \in 1 .. Len(wfp) : wfp' = RemoveAt(wfp, k) /\ <<n, wfp[k]>> \in Starts
      BY <1>1, <1>5, <1>8, <2>1 DEF hits
    <2>3. wfp[k] = n /\ s[i] \in Banning("net", n)
      BY <1>6, <2>2
    <2>4. ASSUME NEW m \in Names PROVE Count(wfp', {m}) = Count(t, Banning("net", m))
      <3>1. Count(wfp', {m}) = Count(wfp, {m}) - One(wfp[k] \in {m})
        BY <2>2, CountRemoved
      <3>2. wfp[k] \in {m} <=> s[i] \in Banning("net", m)
        <4>1. s[i].prog.name = n /\ s[i].net
          BY <1>2, <1>3, <2>3, InBans
        <4>2. s[i] \in Banning("net", m) <=> n = m
          BY <1>2, <1>3, <4>1, InBans
        <4> QED BY <2>3, <4>2
      <3>3. One(wfp[k] \in {m}) = One(s[i] \in Banning("net", m))
        BY <3>2 DEF One
      <3> QED BY <3>1, <3>3 DEF NetExact
    <2> QED BY <2>4 DEF NetExact
  <1> QED BY <1>7, <1>8

(* A rule is added, to one of the drivers, and shown in its column. *)
LEMMA ForbidExact ==
  ASSUME NEW s \in Seq(TabRow), NEW t \in Seq(TabRow), NEW n \in Names, NEW col \in Columns,
         ssdt \in SUBSET Names, wfp \in Seq(Names), OpenExact(s, ssdt), NetExact(s, wfp),
         Forbid(col, n, "none"),
         \A c \in Columns : \A m \in Names :
           Count(t, Banning(c, m)) = Count(s, Banning(c, m)) + (IF c = col /\ m = n THEN 1 ELSE 0)
  PROVE  OpenExact(t, ssdt') /\ NetExact(t, wfp')
  <1>1. "open" \in Columns /\ "net" \in Columns
    BY DEF Columns
  <1>2. \A c \in Columns : \A m \in Names : Count(s, Banning(c, m)) \in Nat
    BY CountNat
  <1>3. \A m \in Names : Count(t, Banning("open", m)) =
          Count(s, Banning("open", m)) + (IF "open" = col /\ m = n THEN 1 ELSE 0)
    BY <1>1
  <1>4. \A m \in Names : Count(t, Banning("net", m)) =
          Count(s, Banning("net", m)) + (IF "net" = col /\ m = n THEN 1 ELSE 0)
    BY <1>1
  <1>5. CASE col = "open"
    <2>1. ssdt' = ssdt \union {n} /\ wfp' = wfp
      BY <1>5 DEF Forbid, ForbidOpen
    <2>2. OpenExact(t, ssdt')
      BY <1>1, <1>2, <1>3, <1>5, <2>1 DEF OpenExact
    <2>3. NetExact(t, wfp')
      BY <1>1, <1>2, <1>4, <1>5, <2>1 DEF NetExact
    <2> QED BY <2>2, <2>3
  <1>6. CASE col = "net"
    <2>1. ssdt' = ssdt /\ wfp' = <<n>> \o wfp
      BY <1>6 DEF Forbid, ForbidNet
    <2>2. OpenExact(t, ssdt')
      BY <1>1, <1>2, <1>3, <1>6, <2>1 DEF OpenExact
    <2>3. ASSUME NEW m \in Names PROVE Count(wfp', {m}) = Count(t, Banning("net", m))
      <3>1. Count(<<n>> \o wfp, {m}) = Count(wfp, {m}) + One(n \in {m})
        BY CountConsed
      <3>2. One(n \in {m}) = IF "net" = col /\ m = n THEN 1 ELSE 0
        BY <1>6 DEF One
      <3>3. Count(wfp, {m}) = Count(s, Banning("net", m))
        BY DEF NetExact
      <3> QED BY <1>4, <2>1, <3>1, <3>2, <3>3
    <2> QED BY <2>2, <2>3 DEF NetExact
  <1> QED BY <1>5, <1>6 DEF Columns

(* A failure ends the history of its desktop only. *)
LEMMA AloneBefore ==
  ASSUME RuleInv, NEW d \in Desktops, NEW f, Failed(d, f), NEW e \in Desktops
  PROVE  alone'[e] <=> alone[e] /\ (e = d => f = "none")
  <1>1. alone'[e] = IF e = d THEN alone[d] /\ f = "none" ELSE alone[e]
    BY DEF Failed, RuleInv, HistInv
  <1> QED BY <1>1

(* Who is alone is the one whose handler runs. *)
LEMMA OneActor ==
  ASSUME RuleInv, AloneInv, NEW d \in Desktops, Running(d), NEW f, Failed(d, f),
         NEW e \in Desktops, alone'[e], user' = user
  PROVE  e = d /\ f = "none" /\ alone[d] /\ IsAlone(d) /\ IsAlone(d)'
  <1>1. alone[e] /\ (e = d => f = "none")
    BY AloneBefore
  <1>2. IsAlone(e)
    BY <1>1 DEF AloneInv, AloneOf
  <1>3. e = d
    BY <1>2 DEF IsAlone
  <1>4. IsAlone(d)'
    BY <1>2, <1>3 DEF IsAlone, Running
  <1> QED BY <1>1, <1>2, <1>3, <1>4

(* What is deleted takes nothing that is shown with it. *)
LEMMA NothingLifted ==
  ASSUME RuleInv, NEW d \in Desktops, NEW i \in 1 .. Len(blacktw[d]),
         WithProgram(d, blacktw[d][i].prog)[d] = {}
  PROVE  lifted[d] = {} /\ OnlyRow(blacktw[d], i)
  <1> DEFINE s == blacktw[d]  p == s[i].prog
  <1>1. lifted[d] = {}
    BY LiftedGrows
  <1>2. ASSUME NEW j \in 1 .. Len(s), j # i PROVE <<p.name, s[j].prog.name>> \notin Starts
    <2>1. s[j].prog # p
      BY <1>2, TabsOf DEF TabOK
    <2>2. s[j].prog \notin WithProgram(d, p)[d]
      OBVIOUS
    <2> HIDE DEF p
    <2> QED BY <2>1, <2>2, ProgramLifted
  <1> QED BY <1>1, <1>2 DEF OnlyRow

(* A turned box adds one ban of its program in its column, or takes one   *)
(* away.                                                                  *)
LEMMA SwitchedCount ==
  ASSUME NEW s \in Seq(TabRow), NEW i \in 1 .. Len(s), NEW col \in Columns, NEW v \in BOOLEAN,
         v <=> ~s[i][col], NEW c \in Columns, NEW m
  PROVE  LET t == Switched(s, i, col, v) IN
         /\ t \in Seq(TabRow)
         /\ c # col => Count(t, Banning(c, m)) = Count(s, Banning(c, m))
         /\ c = col /\ v => Count(t, Banning(c, m)) =
                              Count(s, Banning(c, m)) + One(s[i].prog.name = m)
         /\ c = col /\ ~v => Count(t, Banning(c, m)) =
                               Count(s, Banning(c, m)) - One(s[i] \in Banning(c, m))
  <1> DEFINE t == Switched(s, i, col, v)  V == Banning(c, m)
  <1>1. /\ t \in Seq(TabRow) /\ Len(t) = Len(s)
        /\ \A j \in 1 .. Len(s) : /\ t[j].prog = s[j].prog
             /\ \A x \in Columns : t[j][x] = IF j = i /\ x = col THEN v ELSE s[j][x]
    BY SwitchedRow
  <1> HIDE DEF t
  <1>2. \A j \in 1 .. Len(s) : s[j] \in TabRow /\ t[j] \in TabRow
    BY <1>1
  <1>3. \A j \in 1 .. Len(s) : /\ s[j] \in V <=> s[j][c] /\ s[j].prog.name = m
                               /\ t[j] \in V <=> t[j][c] /\ t[j].prog.name = m
    BY <1>2, InBans
  <1> HIDE DEF V
  <1>4. \A j \in 1 .. Len(s) : j # i => (s[j] \in V <=> t[j] \in V)
    BY <1>1, <1>3
  <1>5. Count(t, V) = Count(s, V) - One(s[i] \in V) + One(t[i] \in V)
    BY <1>1, <1>4, CountReplaced
  <1>6. Count(s, V) \in Nat /\ Count(t, V) \in Nat
    BY <1>1, CountNat
  <1>7. ASSUME c # col PROVE Count(t, V) = Count(s, V)
    <2>1. s[i] \in V <=> t[i] \in V
      BY <1>1, <1>3, <1>7
    <2>2. One(s[i] \in V) = One(t[i] \in V) /\ One(t[i] \in V) \in Nat
      BY <2>1 DEF One
    <2> QED BY <1>5, <1>6, <2>2
  <1>8. ASSUME c = col, v PROVE Count(t, V) = Count(s, V) + One(s[i].prog.name = m)
    <2>1. s[i] \notin V /\ (t[i] \in V <=> s[i].prog.name = m)
      BY <1>1, <1>3, <1>8
    <2>2. One(s[i] \in V) = 0 /\ One(t[i] \in V) = One(s[i].prog.name = m)
      BY <2>1 DEF One
    <2>3. One(t[i] \in V) \in Nat
      BY DEF One
    <2> QED BY <1>5, <1>6, <2>2, <2>3
  <1>9. ASSUME c = col, ~v PROVE Count(t, V) = Count(s, V) - One(s[i] \in V)
    <2>1. t[i] \notin V
      BY <1>1, <1>3, <1>9
    <2>2. One(t[i] \in V) = 0 /\ One(s[i] \in V) \in Nat
      BY <2>1 DEF One
    <2> QED BY <1>5, <1>6, <2>2
  <1> QED BY <1>1, <1>7, <1>8, <1>9 DEF t, V

(* A box changes in the lists what it changes in the table. *)
LEMMA BoxAlone ==
  ASSUME RuleInv, AloneInv, NEW d \in Desktops, Running(d), NEW i \in 1 .. Len(blacktw[d]),
         NEW k \in 1 .. Len(blacktw[d]), NEW col \in Columns, NEW v \in BOOLEAN,
         v <=> ~blacktw[d][i][col], NEW f,
         Box(d, Switched(blacktw[d], i, col, v), i, k, col, f), NEW e \in Desktops
  PROVE  AloneOf(e)'
  <1> SUFFICES ASSUME alone'[e]
               PROVE  IsAlone(e)' /\ (clean'[e] /\ lifted'[e] = {} => Exact(e)')
    BY DEF AloneOf
  <1> DEFINE s == blacktw[d]  rows == Switched(s, i, col, v)  n == s[i].prog.name
             g == IF k # i THEN "astray" ELSE f
  <1>1. /\ rows \in Seq(TabRow) /\ Len(rows) = Len(s)
        /\ rows[i].prog = s[i].prog /\ rows[i][col] = v
    BY TabsOf, SwitchedRow
  <1> HIDE DEF rows
  <1>2. /\ blacktw' = [blacktw EXCEPT ![d] = rows]
        /\ ndis' = ndis /\ user' = user /\ headtw' = headtw
        /\ IF rows[k][col] THEN Forbid(col, rows[k].prog.name, f) /\ lifted' = lifted
           ELSE Allow(col, rows[k].prog.name, f) /\ lifted' = WithProgram(d, rows[k].prog)
        /\ Failed(d, g)
    BY DEF Box, rows
  <1> HIDE DEF g
  <1>3. e = d /\ g = "none" /\ alone[d] /\ IsAlone(d)'
    BY <1>2, OneActor
  <1>4. k = i /\ f = "none"
    BY <1>3 DEF g
  <1> SUFFICES ASSUME clean'[d], lifted'[d] = {} PROVE Exact(d)'
    BY <1>3
  <1>5. clean[d]
    BY <1>2, CleanBefore
  <1>6. s \in Seq(TabRow) /\ ssdt \in SUBSET Names /\ wfp \in Seq(Names) /\ blacktw'[d] = rows
    BY <1>2, TabsOf DEF RuleInv, ListInv, TabInv
  <1>7. s[i] \in TabRow
    BY <1>6
  <1>8. n \in Names
    BY <1>7, RowFields
  <1>9. "open" \in Columns /\ "net" \in Columns
    BY DEF Columns
  <1>10. CASE v
    <2>1. Forbid(col, n, "none") /\ lifted[d] = {}
      BY <1>1, <1>2, <1>4, <1>10
    <2>2. Exact(d)
      BY <1>3, <1>5, <2>1 DEF AloneInv, AloneOf
    <2>3. ASSUME NEW c \in Columns, NEW m \in Names
          PROVE  Count(rows, Banning(c, m)) =
                   Count(s, Banning(c, m)) + (IF c = col /\ m = n THEN 1 ELSE 0)
      <3> HIDE DEF s
      <3>1. v <=> ~s[i][col]
        BY DEF s
      <3>2. i \in 1 .. Len(s)
        BY DEF s
      <3>3. /\ c # col => Count(rows, Banning(c, m)) = Count(s, Banning(c, m))
            /\ c = col /\ v => Count(rows, Banning(c, m)) =
                                 Count(s, Banning(c, m)) + One(s[i].prog.name = m)
        BY <1>6, <3>1, <3>2, SwitchedCount DEF rows
      <3>4. Count(s, Banning(c, m)) \in Nat
        BY <1>6, CountNat
      <3> QED BY <1>10, <3>3, <3>4 DEF One
    <2> HIDE DEF n, s
    <2>4. OpenExact(s, ssdt) /\ NetExact(s, wfp)
      BY <2>2 DEF Exact, s
    <2>5. OpenExact(rows, ssdt') /\ NetExact(rows, wfp')
      BY <1>1, <1>6, <1>8, <2>1, <2>3, <2>4, ForbidExact
    <2> QED BY <1>2, <1>6, <2>2, <2>5 DEF Exact
  <1>11. CASE ~v
    <2>1. Allow(col, n, "none") /\ lifted' = WithProgram(d, s[i].prog)
      BY <1>1, <1>2, <1>4, <1>11
    <2>2. lifted[d] = {} /\ OnlyRow(s, i)
      <3>1. WithProgram(d, blacktw[d][i].prog)[d] = {}
        BY <2>1
      <3> QED BY <3>1, NothingLifted
    <2>3. Exact(d)
      BY <1>3, <1>5, <2>2 DEF AloneInv, AloneOf
    <2> HIDE DEF s
    <2>4. OpenExact(s, ssdt) /\ NetExact(s, wfp) /\ HeadExact(headtw[d], ndis)
      BY <2>3 DEF Exact, s
    <2>5. i \in 1 .. Len(s) /\ (v <=> ~s[i][col])
      BY DEF s
    <2>6. \A c \in Columns : \A m \in Names :
            /\ c # col => Count(rows, Banning(c, m)) = Count(s, Banning(c, m))
            /\ c = col => Count(rows, Banning(c, m)) =
                            Count(s, Banning(c, m)) - One(s[i] \in Banning(c, m))
      BY <1>6, <1>11, <2>5, SwitchedCount DEF rows
    <2>7. CASE col = "open"
      <3>1. AllowOpen(s[i].prog.name, "none") /\ wfp' = wfp
        BY <2>1, <2>7 DEF Allow
      <3>2. OpenExact(rows, ssdt')
        BY <1>1, <1>6, <1>9, <2>2, <2>4, <2>5, <2>6, <2>7, <3>1, AllowOpenExact
      <3>3. NetExact(rows, wfp')
        BY <1>9, <2>4, <2>6, <2>7, <3>1 DEF NetExact
      <3> QED BY <1>2, <1>6, <2>4, <3>2, <3>3 DEF Exact
    <2>8. CASE col = "net"
      <3>1. AllowNet(s[i].prog.name, "none") /\ ssdt' = ssdt
        BY <2>1, <2>8 DEF Allow
      <3>2. NetExact(rows, wfp')
        BY <1>1, <1>6, <1>9, <2>2, <2>4, <2>5, <2>6, <2>8, <3>1, AllowNetExact
      <3>3. OpenExact(rows, ssdt')
        BY <1>9, <2>4, <2>6, <2>8, <3>1 DEF OpenExact
      <3> QED BY <1>2, <1>6, <2>4, <3>2, <3>3 DEF Exact
    <2> QED BY <2>7, <2>8 DEF Columns
  <1> QED BY <1>10, <1>11

(* A row is inserted, and what it says is added. *)
LEMMA InsertedAlone ==
  ASSUME RuleInv, AloneInv, NEW d \in Desktops, NEW p \in Programs, NEW col \in Columns, NEW f,
         InsertedRow(d, p, col, f), NEW e \in Desktops
  PROVE  AloneOf(e)'
  <1> SUFFICES ASSUME alone'[e]
               PROVE  IsAlone(e)' /\ (clean'[e] /\ lifted'[e] = {} => Exact(e)')
    BY DEF AloneOf
  <1> DEFINE s == blacktw[d]  r == Row(p, col = "open", col = "net", Len(s))
             rows == IF f = Driver(col) THEN s ELSE Append(s, r)
  <1>1. /\ Running(d) /\ Forbid(col, p.name, f) /\ Failed(d, f)
        /\ ndis' = ndis /\ user' = user /\ headtw' = headtw /\ lifted' = lifted
        /\ blacktw' = [blacktw EXCEPT ![d] = rows]
    BY DEF InsertedRow
  <1>2. e = d /\ f = "none" /\ alone[d] /\ IsAlone(d)'
    BY <1>1, OneActor
  <1> SUFFICES ASSUME clean'[d], lifted'[d] = {} PROVE Exact(d)'
    BY <1>2
  <1>3. clean[d]
    BY <1>1, CleanBefore
  <1>4. Exact(d)
    BY <1>1, <1>2, <1>3 DEF AloneInv, AloneOf
  <1>5. f # Driver(col)
    BY <1>2 DEF Driver, Columns
  <1>6. /\ s \in Seq(TabRow) /\ Len(s) \in Nat /\ ssdt \in SUBSET Names /\ wfp \in Seq(Names)
        /\ blacktw'[d] = Append(s, r)
    BY <1>1, <1>5, TabsOf DEF RuleInv, ListInv, TabInv
  <1>7. p.name \in Names
    BY DEF Names
  <1>8. OpenExact(s, ssdt) /\ NetExact(s, wfp) /\ HeadExact(headtw[d], ndis)
    BY <1>4 DEF Exact
  <1> HIDE DEF s
  <1>9. /\ r \in TabRow /\ r.prog = p
        /\ \A c \in Columns : r[c] <=> c = col
    <2>1. /\ r \in TabRow /\ r.prog = p
          /\ (r.open <=> col = "open") /\ (r.net <=> col = "net")
      BY <1>6 DEF Row, TabRow
    <2> HIDE DEF r
    <2> QED BY <2>1 DEF Columns
  <1> HIDE DEF r
  <1>10. ASSUME NEW c \in Columns, NEW m \in Names
         PROVE  Count(Append(s, r), Banning(c, m)) =
                  Count(s, Banning(c, m)) + (IF c = col /\ m = p.name THEN 1 ELSE 0)
    <2>1. r \in Banning(c, m) <=> c = col /\ m = p.name
      BY <1>9, InBans
    <2>2. Count(Append(s, r), Banning(c, m)) = Count(s, Banning(c, m)) + One(r \in Banning(c, m))
      BY <1>6, <1>9, CountAppended
    <2>3. One(r \in Banning(c, m)) = IF c = col /\ m = p.name THEN 1 ELSE 0
      BY <2>1 DEF One
    <2> QED BY <2>2, <2>3
  <1>11. Append(s, r) \in Seq(TabRow)
    BY <1>6, <1>9, AppendProperties
  <1>12. OpenExact(Append(s, r), ssdt') /\ NetExact(Append(s, r), wfp')
    <2> DEFINE t == Append(s, r)  n == p.name
    <2>1. /\ s \in Seq(TabRow) /\ t \in Seq(TabRow) /\ n \in Names
          /\ ssdt \in SUBSET Names /\ wfp \in Seq(Names)
          /\ OpenExact(s, ssdt) /\ NetExact(s, wfp) /\ Forbid(col, n, "none")
      BY <1>1, <1>2, <1>6, <1>7, <1>8, <1>11
    <2>2. \A c \in Columns : \A m \in Names :
            Count(t, Banning(c, m)) = Count(s, Banning(c, m)) + (IF c = col /\ m = n THEN 1 ELSE 0)
      BY <1>10
    <2> HIDE DEF t, n
    <2>3. OpenExact(t, ssdt') /\ NetExact(t, wfp')
      BY <2>1, <2>2, ForbidExact
    <2> QED BY <2>3 DEF t
  <1> QED BY <1>1, <1>6, <1>8, <1>12 DEF Exact

(* A row is deleted, and what it says taken from both lists. *)
LEMMA AllowProcessAlone ==
  ASSUME RuleInv, AloneInv, NEW d \in Desktops, allowProcess(d), NEW e \in Desktops
  PROVE  AloneOf(e)'
  <1> SUFFICES ASSUME alone'[e]
               PROVE  IsAlone(e)' /\ (clean'[e] /\ lifted'[e] = {} => Exact(e)')
    BY DEF AloneOf
  <1> DEFINE s == blacktw[d]
  <1>1. s \in Seq(TabRow) /\ DOMAIN s = 1 .. Len(s)
    BY TabsOf
  <1>2. PICK i \in 1 .. Len(s), f \in Fault :
          /\ blacktw' = [blacktw EXCEPT ![d] = RemoveAt(s, i)]
          /\ AllowNet(s[i].prog.name, f) /\ AllowOpen(s[i].prog.name, f)
          /\ lifted' = WithProgram(d, s[i].prog)
          /\ Failed(d, f)
          /\ ndis' = ndis /\ headtw' = headtw /\ user' = user
    BY <1>1 DEF allowProcess
  <1>3. Running(d)
    BY <1>1, <1>2, EmptySeq DEF RuleInv, TabInv, Idle
  <1>4. e = d /\ f = "none" /\ alone[d] /\ IsAlone(d)'
    BY <1>2, <1>3, OneActor
  <1> SUFFICES ASSUME clean'[d], lifted'[d] = {} PROVE Exact(d)'
    BY <1>4
  <1>5. clean[d]
    BY <1>2, CleanBefore
  <1>6. lifted[d] = {} /\ OnlyRow(s, i)
    <2>1. WithProgram(d, blacktw[d][i].prog)[d] = {}
      BY <1>2
    <2> QED BY <2>1, NothingLifted
  <1>7. Exact(d)
    BY <1>4, <1>5, <1>6 DEF AloneInv, AloneOf
  <1>8. OpenExact(s, ssdt) /\ NetExact(s, wfp) /\ HeadExact(headtw[d], ndis)
    BY <1>7 DEF Exact
  <1>9. ssdt \in SUBSET Names /\ wfp \in Seq(Names) /\ blacktw'[d] = RemoveAt(s, i)
    BY <1>2 DEF RuleInv, ListInv, TabInv
  <1> HIDE DEF s
  <1>10. RemoveAt(s, i) \in Seq(TabRow)
    BY <1>1, RemovedAt
  <1>11. \A c, m : Count(RemoveAt(s, i), Banning(c, m)) =
                     Count(s, Banning(c, m)) - One(s[i] \in Banning(c, m))
    BY <1>1, CountRemoved
  <1>12. AllowNet(s[i].prog.name, "none") /\ AllowOpen(s[i].prog.name, "none")
    BY <1>2, <1>4
  <1>13. OpenExact(RemoveAt(s, i), ssdt')
    BY <1>1, <1>6, <1>8, <1>9, <1>10, <1>11, <1>12, AllowOpenExact
  <1>14. NetExact(RemoveAt(s, i), wfp')
    BY <1>1, <1>6, <1>8, <1>9, <1>10, <1>11, <1>12, AllowNetExact
  <1> QED BY <1>2, <1>8, <1>9, <1>13, <1>14 DEF Exact

(* A head is banned. *)
LEMMA ForbidNetheadAlone ==
  ASSUME RuleInv, AloneInv, NEW d \in Desktops, forbidNethead(d), NEW e \in Desktops
  PROVE  AloneOf(e)'
  <1> SUFFICES ASSUME alone'[e]
               PROVE  IsAlone(e)' /\ (clean'[e] /\ lifted'[e] = {} => Exact(e)')
    BY DEF AloneOf
  <1>1. PICK h \in Heads, f \in Fault :
          /\ IF f = "ndis" THEN UNCHANGED <<ndis, headtw>>
             ELSE ndis' = <<h>> \o ndis /\ headtw' = [headtw EXCEPT ![d] = Append(headtw[d], h)]
          /\ Failed(d, f)
          /\ ssdt' = ssdt /\ wfp' = wfp /\ user' = user /\ blacktw' = blacktw /\ lifted' = lifted
    BY DEF forbidNethead
  <1>2. Running(d)
    BY DEF forbidNethead
  <1>3. e = d /\ f = "none" /\ alone[d] /\ IsAlone(d)'
    BY <1>1, <1>2, OneActor
  <1> SUFFICES ASSUME clean'[d], lifted'[d] = {} PROVE Exact(d)'
    BY <1>3
  <1>4. clean[d]
    BY <1>1, CleanBefore
  <1>5. Exact(d)
    BY <1>1, <1>3, <1>4 DEF AloneInv, AloneOf
  <1> DEFINE s == headtw[d]
  <1>6. s \in Seq(Heads) /\ ndis \in Seq(Heads) /\ ndis' = <<h>> \o ndis
    BY <1>1, <1>3, TabsOf DEF RuleInv, ListInv
  <1>7. headtw'[d] = Append(s, h)
    BY <1>1, <1>3 DEF RuleInv, TabInv
  <1> HIDE DEF s
  <1>8. ASSUME NEW g \in Heads PROVE Count(<<h>> \o ndis, {g}) = Count(Append(s, h), {g})
    <2>1. Count(<<h>> \o ndis, {g}) = Count(ndis, {g}) + One(h \in {g})
      BY <1>6, CountConsed
    <2>2. Count(Append(s, h), {g}) = Count(s, {g}) + One(h \in {g})
      BY <1>6, CountAppended
    <2>3. Count(ndis, {g}) = Count(s, {g})
      BY <1>5 DEF Exact, HeadExact, s
    <2> QED BY <2>1, <2>2, <2>3
  <1>9. HeadExact(Append(s, h), <<h>> \o ndis)
    BY <1>8 DEF HeadExact
  <1> QED BY <1>1, <1>5, <1>6, <1>7, <1>9 DEF Exact

(* A desktop that is gone is not alone. *)
LEMMA GoneAlone ==
  ASSUME RuleInv, AloneInv, NEW d \in Desktops, Running(d), NEW taken, Gone(d, taken),
         NEW e \in Desktops
  PROVE  AloneOf(e)'
  <1> SUFFICES ASSUME alone'[e] PROVE FALSE
    BY DEF AloneOf
  <1>1. e # d /\ alone[e]
    BY DEF Gone, RuleInv, HistInv
  <1>2. IsAlone(e)
    BY <1>1 DEF AloneInv, AloneOf
  <1> QED BY <1>1, <1>2 DEF IsAlone

(* A head is deleted, in the list and in the table. *)
LEMMA AllowNetheadAlone ==
  ASSUME RuleInv, AloneInv, NEW d \in Desktops, allowNethead(d), NEW e \in Desktops
  PROVE  AloneOf(e)'
  <1>1. PICK h \in Heads, f \in Fault :
          /\ Running(d)
          /\ \/ RefusedHead(d, h, f)
             \/ EndedAtHead(d, h, f)
             \/ \E i \in 1 .. Len(headtw[d]) : DeletedHead(d, h, i, f)
    BY AllowNetheadIs
  <1>2. CASE EndedAtHead(d, h, f)
    BY <1>1, <1>2, GoneAlone DEF EndedAtHead
  <1>3. CASE RefusedHead(d, h, f)
    <2> SUFFICES ASSUME alone'[e]
                 PROVE  IsAlone(e)' /\ (clean'[e] /\ lifted'[e] = {} => Exact(e)')
      BY DEF AloneOf
    <2>1. /\ Failed(d, f) /\ ssdt' = ssdt /\ wfp' = wfp /\ ndis' = ndis /\ user' = user
          /\ blacktw' = blacktw /\ headtw' = headtw /\ lifted' = lifted
      BY <1>3 DEF RefusedHead
    <2>2. e = d /\ f = "none" /\ alone[d] /\ IsAlone(d)'
      BY <1>1, <2>1, OneActor
    <2>3. clean'[d] => clean[d]
      BY <2>1, CleanBefore
    <2> QED BY <2>1, <2>2, <2>3 DEF AloneInv, AloneOf, Exact
  <1>4. ASSUME NEW i \in 1 .. Len(headtw[d]), DeletedHead(d, h, i, f) PROVE AloneOf(e)'
    <2> SUFFICES ASSUME alone'[e]
                 PROVE  IsAlone(e)' /\ (clean'[e] /\ lifted'[e] = {} => Exact(e)')
      BY DEF AloneOf
    <2> DEFINE x == IF headtw[d][i] # h THEN "astray" ELSE f  s == headtw[d]
    <2>1. /\ Found(h) /\ ssdt' = ssdt /\ wfp' = wfp /\ user' = user /\ blacktw' = blacktw
          /\ headtw' = [headtw EXCEPT ![d] = RemoveAt(s, i)]
          /\ lifted' = WithHead(d, h) /\ Failed(d, x)
      BY <1>4 DEF DeletedHead
    <2> HIDE DEF x
    <2>2. e = d /\ x = "none" /\ alone[d] /\ IsAlone(d)'
      BY <1>1, <2>1, OneActor
    <2>3. s[i] = h
      BY <2>2 DEF x
    <2> SUFFICES ASSUME clean'[d], lifted'[d] = {} PROVE Exact(d)'
      BY <2>2
    <2>4. clean[d]
      BY <2>1, CleanBefore
    <2>5. lifted[d] = {}
      BY <2>1, LiftedGrows
    <2>6. Exact(d)
      BY <2>2, <2>4, <2>5 DEF AloneInv, AloneOf
    <2>7. /\ s \in Seq(Heads) /\ ndis \in Seq(Heads) /\ DOMAIN ndis = 1 .. Len(ndis)
          /\ headtw'[d] = RemoveAt(s, i)
      BY <2>1, TabsOf, LenProperties DEF RuleInv, ListInv, TabInv
    <2>8. PICK k \in 1 .. Len(ndis) : <<ndis[k], h>> \in Same /\ ndis' = RemoveAt(ndis, k)
      BY <2>1, <2>7 DEF Found
    <2>9. ndis[k] = h
      <3> DEFINE g == ndis[k]
      <3>1. g \in Heads
        BY <2>7
      <3>2. Count(ndis, {g}) > 0
        <4>1. \E j \in 1 .. Len(ndis) : ndis[j] \in {g}
          OBVIOUS
        <4> HIDE DEF g
        <4> QED BY <2>7, <4>1, CountNat
      <3> HIDE DEF g
      <3>3. Count(s, {g}) > 0
        BY <2>6, <3>1, <3>2 DEF Exact, HeadExact
      <3>4. \E j \in 1 .. Len(s) : s[j] \in {g}
        BY <2>7, <3>3, CountNat
      <3>5. g \in Range(headtw[d])
        BY <2>7, <3>4, InRange
      <3>6. g \notin WithHead(d, h)[d]
        BY <2>1
      <3>7. <<g, h>> \notin Same \/ g = h
        BY <3>5, <3>6, HeadLifted
      <3> QED BY <2>8, <3>7 DEF g
    <2> HIDE DEF s
    <2>10. i \in 1 .. Len(s)
      BY DEF s
    <2>11. ASSUME NEW g \in Heads PROVE Count(RemoveAt(ndis, k), {g}) = Count(RemoveAt(s, i), {g})
      <3>1. Count(RemoveAt(ndis, k), {g}) = Count(ndis, {g}) - One(ndis[k] \in {g})
        BY <2>7, CountRemoved
      <3>2. Count(RemoveAt(s, i), {g}) = Count(s, {g}) - One(s[i] \in {g})
        BY <2>7, <2>10, CountRemoved
      <3>3. Count(ndis, {g}) = Count(s, {g})
        BY <2>6 DEF Exact, HeadExact, s
      <3> QED BY <2>3, <2>9, <3>1, <3>2, <3>3
    <2>12. HeadExact(RemoveAt(s, i), RemoveAt(ndis, k))
      BY <2>11 DEF HeadExact
    <2> QED BY <2>1, <2>6, <2>7, <2>8, <2>12 DEF Exact
  <1> QED BY <1>1, <1>2, <1>3, <1>4

(* Nothing is in an empty list. *)
LEMMA NothingCounted == \A V : Count(<<>>, V) = 0
  <1> SUFFICES ASSUME NEW V PROVE Count(<<>>, V) = 0
    OBVIOUS
  <1>1. PICK e : e = <<>>
    OBVIOUS
  <1>2. e \in Seq({}) /\ Len(e) = 0
    BY <1>1, EmptySeq
  <1>3. Count(e, V) = 0
    <2>1. Count(e, V) = 0 <=> \A i \in 1 .. Len(e) : e[i] \notin V
      BY <1>2, CountNat
    <2>2. \A i \in 1 .. Len(e) : e[i] \notin V
      BY <1>2
    <2> QED BY <2>1, <2>2
  <1> QED BY <1>1, <1>3

(* A desktop starts, with nothing in the drivers. *)
LEMMA StartAlone ==
  ASSUME RuleInv, AloneInv, NEW d \in Desktops, Start(d), NEW e \in Desktops
  PROVE  AloneOf(e)'
  <1> SUFFICES ASSUME alone'[e] PROVE IsAlone(e)' /\ Exact(e)'
    BY DEF AloneOf
  <1>1. /\ ~Running(d) /\ blacktw' = blacktw /\ headtw' = headtw
        /\ alone' = [o \in Desktops |->
             o = d /\ {y \in Desktops : Running(y)} = {} /\ ssdt' = {} /\ wfp' = <<>> /\ ndis' = <<>>]
        /\ \E u \in Users : user' = [user EXCEPT ![d] = u]
    BY StartEffect
  <1>2. /\ e = d /\ {y \in Desktops : Running(y)} = {}
        /\ ssdt' = {} /\ wfp' = <<>> /\ ndis' = <<>>
    BY <1>1
  <1>3. IsAlone(d)'
    <2>1. PICK u \in Users : user' = [user EXCEPT ![d] = u]
      BY <1>1
    <2>2. \A o \in Desktops : user'[o] = IF o = d THEN u ELSE user[o]
      BY <2>1 DEF RuleInv, TabInv
    <2> QED BY <1>2, <2>2, RuleTableAssumption DEF IsAlone, Running
  <1>4. blacktw'[d] = <<>> /\ headtw'[d] = <<>>
    BY <1>1 DEF RuleInv, TabInv, Idle
  <1>5. Exact(d)'
    <2>1. OpenExact(<<>>, {}) /\ NetExact(<<>>, <<>>) /\ HeadExact(<<>>, <<>>)
      BY NothingCounted DEF OpenExact, NetExact, HeadExact
    <2> QED BY <1>2, <1>4, <2>1 DEF Exact
  <1> QED BY <1>2, <1>3, <1>5

(* A box, or the end of the program at it. *)
LEMMA BoxedAlone ==
  ASSUME RuleInv, AloneInv, NEW d \in Desktops, Boxed(d), NEW e \in Desktops
  PROVE  AloneOf(e)'
  <1>1. PICK i \in 1 .. Len(blacktw[d]), col \in Columns, f \in Fault :
          comboboxChanged(d, Switched(blacktw[d], i, col, ~blacktw[d][i][col]), i, col, f)
    BY DEF Boxed
  <1> DEFINE v == ~blacktw[d][i][col]
  <1>2. v \in BOOLEAN /\ (v <=> ~blacktw[d][i][col])
    OBVIOUS
  <1>3. comboboxChanged(d, Switched(blacktw[d], i, col, v), i, col, f)
    BY <1>1
  <1> HIDE DEF v
  <1>4. \/ Gone(d, lifted) /\ UNCHANGED <<process, nethead, ssdt, wfp, ndis>>
        \/ \E k \in 1 .. Len(blacktw[d]) : Box(d, Switched(blacktw[d], i, col, v), i, k, col, f)
    BY <1>2, <1>3, BoxEffect
  <1>5. Running(d)
    BY EmptySeq DEF RuleInv, TabInv, Idle
  <1> QED BY <1>2, <1>4, <1>5, BoxAlone, GoneAlone

(* A desktop that is alone is the only one running, and the lists are     *)
(* what its tables say.                                                   *)
LEMMA AloneInvHolds == Spec => []AloneInv
  <1>1. Init => AloneInv
    BY DEF Init, AloneInv, AloneOf
  <1>2. RuleInv /\ AloneInv /\ [Next]_vars => AloneInv'
    <2> SUFFICES ASSUME RuleInv, AloneInv, [Next]_vars, NEW e \in Desktops PROVE AloneOf(e)'
      BY DEF AloneInv
    <2>1. CASE UNCHANGED vars
      BY <2>1 DEF vars, lists, tables, history, AloneInv, AloneOf, IsAlone, Exact, Running
    <2>2. CASE Next
      <3>1. CASE clearAll
        BY <3>1 DEF clearAll, AloneOf
      <3>2. ASSUME NEW d \in Desktops, Start(d) PROVE AloneOf(e)'
        BY <3>2, StartAlone
      <3>3. ASSUME NEW d \in Desktops, End(d) PROVE AloneOf(e)'
        BY <3>3, GoneAlone DEF End
      <3>4. ASSUME NEW d \in Desktops, Boxed(d) PROVE AloneOf(e)'
        BY <3>4, BoxedAlone
      <3>5. ASSUME NEW d \in Desktops, Inserted(d) PROVE AloneOf(e)'
        BY <3>5, InsertedAlone DEF Inserted
      <3>6. ASSUME NEW d \in Desktops, allowProcess(d) PROVE AloneOf(e)'
        BY <3>6, AllowProcessAlone
      <3>7. ASSUME NEW d \in Desktops, forbidNethead(d) PROVE AloneOf(e)'
        BY <3>7, ForbidNetheadAlone
      <3>8. ASSUME NEW d \in Desktops, allowNethead(d) PROVE AloneOf(e)'
        BY <3>8, AllowNetheadAlone
      <3> QED BY <2>2, <3>1, <3>2, <3>3, <3>4, <3>5, <3>6, <3>7, <3>8, StepIs
    <2> QED BY <2>1, <2>2
  <1> QED BY <1>1, <1>2, RuleInvHolds, PTL DEF Spec

(* Nothing is enforced that no table shows: with the drivers to itself, a *)
(* desktop that found them empty has in their lists what its rows say, as *)
(* often as they say it, as long as no deletion could have meant          *)
(* something else.                                                        *)
THEOREM EnforcedIsShown == Spec => []OnlyShownIsEnforced
  <1>1. RuleInv /\ AloneInv => OnlyShownIsEnforced
    <2> DEFINE banned(d, col, n) ==
                 {i \in DOMAIN blacktw[d] : blacktw[d][i][col] /\ blacktw[d][i].prog.name = n}
               times(x, s) == Cardinality({i \in DOMAIN s : s[i] = x})
    <2> SUFFICES ASSUME RuleInv, AloneInv, NEW d \in Desktops, clean[d], alone[d], lifted[d] = {}
        PROVE /\ \A n \in Names : /\ n \in ssdt <=> banned(d, "open", n) # {}
                                  /\ times(n, wfp) = Cardinality(banned(d, "net", n))
              /\ \A h \in Heads : times(h, ndis) = times(h, headtw[d])
      BY DEF OnlyShownIsEnforced
    <2>1. Exact(d)
      BY DEF AloneInv, AloneOf
    <2>2. /\ blacktw[d] \in Seq(TabRow) /\ DOMAIN blacktw[d] = 1 .. Len(blacktw[d])
          /\ DOMAIN headtw[d] = 1 .. Len(headtw[d])
          /\ DOMAIN wfp = 1 .. Len(wfp) /\ DOMAIN ndis = 1 .. Len(ndis)
      BY TabsOf, LenProperties DEF RuleInv, ListInv
    <2>3. ASSUME NEW col \in Columns, NEW n
          PROVE  banned(d, col, n) = Hits(blacktw[d], Banning(col, n))
      <3>1. \A i \in 1 .. Len(blacktw[d]) : blacktw[d][i] \in TabRow
        BY <2>2
      <3>2. \A i \in 1 .. Len(blacktw[d]) :
              blacktw[d][i] \in Banning(col, n) <=>
                blacktw[d][i][col] /\ blacktw[d][i].prog.name = n
        BY <3>1, InBans
      <3> QED BY <2>2, <3>2 DEF Hits
    <2>4. ASSUME NEW x, NEW s, DOMAIN s = 1 .. Len(s) PROVE times(x, s) = Count(s, {x})
      BY <2>4 DEF Count, Hits
    <2>5. "open" \in Columns /\ "net" \in Columns
      BY DEF Columns
    <2>6. ASSUME NEW n \in Names PROVE n \in ssdt <=> banned(d, "open", n) # {}
      <3>1. n \in ssdt <=> Count(blacktw[d], Banning("open", n)) > 0
        BY <2>1 DEF Exact, OpenExact
      <3>2. Count(blacktw[d], Banning("open", n)) > 0 <=> Hits(blacktw[d], Banning("open", n)) # {}
        BY <2>2, CountNat DEF Hits
      <3> QED BY <2>3, <2>5, <3>1, <3>2
    <2>7. ASSUME NEW n \in Names PROVE times(n, wfp) = Cardinality(banned(d, "net", n))
      BY <2>1, <2>2, <2>3, <2>4, <2>5 DEF Exact, NetExact, Count
    <2>8. ASSUME NEW h \in Heads PROVE times(h, ndis) = times(h, headtw[d])
      <3> HIDE DEF times
      <3>1. times(h, ndis) = Count(ndis, {h})
        BY <2>2, <2>4
      <3>2. times(h, headtw[d]) = Count(headtw[d], {h})
        BY <2>2, <2>4
      <3> QED BY <2>1, <3>1, <3>2 DEF Exact, HeadExact
    <2> QED BY <2>6, <2>7, <2>8
  <1> QED BY <1>1, RuleInvHolds, AloneInvHolds, PTL
=============================================================================
