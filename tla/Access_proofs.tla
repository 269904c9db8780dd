---------------------------- MODULE Access_proofs ---------------------------
(***************************************************************************)
(* Proofs about what stands between a client and the API, for any users,   *)
(* accounts, windows and requests: sessions that end, one account per      *)
(* address, limits of requests and of failed logins, messages to           *)
(* windows.  The lists of times and of connections need what is true of    *)
(* any filtered list; it comes first.                                      *)
(***************************************************************************)
EXTENDS Sessions, UserAccounts, RateLimits, WebSockets, SequenceTheorems,
        FiniteSetTheorems, NaturalsInduction, WellFoundedInduction, TLAPS

-----------------------------------------------------------------------------
(***************************************************************************)
(* Lists: induction over a list, and what Kept returns.                    *)
(***************************************************************************)

\* Every set of natural numbers that has one has a least one: what stands for
\* induction here.
LEMMA LeastNumber ==
    ASSUME NEW T \in SUBSET Nat, T # {}
    PROVE  \E x \in T : \A y \in T : x <= y
<1>1. PICK x \in T : \A y \in T : <<y, x>> \notin OpToRel(<, Nat)
  BY NatLessThanWellFounded, WFMin, Zenon
<1>2. \A y \in T : ~(y < x)
  BY <1>1 DEF OpToRel
<1> QED
  BY <1>2

\* Sequences without what the provers know of them.
EmptyList == <<>>
Longer(s, e) == Append(s, e)

\* A list with one more at its end.
LEMMA LongerProperties ==
    \A A : \A s \in Seq(A), e \in A :
        /\ Longer(s, e) \in Seq(A)
        /\ Len(Longer(s, e)) = Len(s) + 1
        /\ \A i \in 1 .. Len(s) : Longer(s, e)[i] = s[i]
        /\ Longer(s, e)[Len(s) + 1] = e
  BY AppendProperties DEF Longer

\* A list that is not empty is one element longer than another.
LEMMA LastSplit ==
    ASSUME NEW A, NEW x \in Seq(A), Len(x) # 0
    PROVE  \E y \in Seq(A), v \in A : x = Longer(y, v) /\ Len(x) = Len(y) + 1
<1>1. PICK n, k : n = Len(x) /\ k = n - 1
  OBVIOUS
<1>2. n \in Nat /\ k \in Nat /\ n = k + 1 /\ \A i \in 1 .. n : i \in 1 .. k \/ i = n
  BY <1>1, LenProperties
<1>3. \A i \in 1 .. n : x[i] \in A
  BY <1>1, ElementOfSeq
<1>4. PICK y : y = SubSeq(x, 1, k)
  OBVIOUS
<1>5. y \in Seq(A) /\ Len(y) = k /\ \A i \in 1 .. k : y[i] = x[i]
  <2>1. k \in Int /\ 1 \in Int /\ \A i \in 1 .. k : x[i] \in A
    BY <1>2, <1>3
  <2>2. /\ SubSeq(x, 1, k) \in Seq(A)
        /\ Len(SubSeq(x, 1, k)) = IF 1 <= k THEN k - 1 + 1 ELSE 0
        /\ \A i \in 1 .. k - 1 + 1 : SubSeq(x, 1, k)[i] = x[1 + i - 1]
    BY <2>1, SubSeqProperties
  <2>3. Len(SubSeq(x, 1, k)) = k /\ \A i \in 1 .. k : SubSeq(x, 1, k)[i] = x[i]
    BY <1>2, <2>2
  <2> QED
    BY <1>4, <2>2, <2>3
<1>6. PICK v : v = x[n]
  OBVIOUS
<1>7. v \in A
  <2>1. n \in 1 .. n
    BY <1>2
  <2> QED
    BY <1>3, <1>6, <2>1
<1>8. PICK z : z = Longer(y, v)
  OBVIOUS
<1>9. /\ z \in Seq(A)
      /\ Len(z) = Len(y) + 1
      /\ \A i \in 1 .. Len(y) : z[i] = y[i]
      /\ z[Len(y) + 1] = v
  <2>1. /\ Longer(y, v) \in Seq(A)
        /\ Len(Longer(y, v)) = Len(y) + 1
        /\ \A i \in 1 .. Len(y) : Longer(y, v)[i] = y[i]
        /\ Longer(y, v)[Len(y) + 1] = v
    BY <1>5, <1>7, LongerProperties
  <2> QED
    BY <1>8, <2>1
<1>10. Len(z) = Len(x) /\ \A i \in 1 .. Len(x) : x[i] = z[i]
  BY <1>1, <1>2, <1>5, <1>6, <1>9
<1>11. x = z
  BY <1>9, <1>10, SeqEqual
<1> QED
  BY <1>1, <1>2, <1>5, <1>7, <1>8, <1>11

\* Induction over the length of a list.
LEMMA ListInduction ==
    ASSUME NEW T, NEW A, T \subseteq Seq(A), EmptyList \in T,
           \A x \in T, e \in A : Longer(x, e) \in T
    PROVE  \A x \in Seq(A) : x \in T
<1> DEFINE Missing == {n \in Nat : \E x \in Seq(A) : Len(x) = n /\ x \notin T}
<1>1. SUFFICES ASSUME Missing # {} PROVE FALSE
  <2>1. \A x \in Seq(A) : Len(x) \in Nat
    OBVIOUS
  <2> QED
    BY <2>1
<1>2. PICK n \in Missing : \A m \in Missing : n <= m
  BY <1>1, LeastNumber
<1>3. PICK x \in Seq(A) : Len(x) = n /\ x \notin T
  BY <1>2
<1>4. n \in Nat /\ Len(x) # 0
  <2>1. n \in Nat
    BY <1>2
  <2>2. ASSUME Len(x) = 0 PROVE x = EmptyList
    BY <2>2 DEF EmptyList
  <2> QED
    BY <1>3, <2>1, <2>2
<1>5. PICK y \in Seq(A), v \in A : x = Longer(y, v) /\ Len(x) = Len(y) + 1
  BY <1>4, LastSplit
<1>6. Len(y) \in Nat /\ ~(n <= Len(y))
  BY <1>3, <1>4, <1>5, LenProperties
<1>7. y \in T
  <2>1. Len(y) \notin Missing
    BY <1>2, <1>6
  <2> QED
    BY <1>6, <2>1
<1> QED
  BY <1>3, <1>5, <1>7

\* What Kept builds up: the filtered list of every beginning of s.
IsUpTo(f, s, S, m) ==
    f = [n \in 0 .. m |->
            IF n = 0 THEN EmptyList
            ELSE IF s[n] \in S THEN Longer(f[n - 1], s[n])
            ELSE f[n - 1]]

\* There is such a function, and
LEMMA UpToExists ==
    ASSUME NEW s, NEW S, NEW m \in Nat
    PROVE  \E f : IsUpTo(f, s, S, m)
<1> DEFINE Missing == {k \in Nat : ~\E f : IsUpTo(f, s, S, k)}
<1>1. SUFFICES ASSUME Missing # {} PROVE FALSE
  OBVIOUS
<1>2. PICK k \in Missing : \A j \in Missing : k <= j
  BY <1>1, LeastNumber
<1>3. CASE k = 0
  <2>1. IsUpTo([n \in 0 .. 0 |-> EmptyList], s, S, 0)
    BY DEF IsUpTo
  <2> QED
    BY <1>2, <1>3, <2>1
<1>4. CASE k # 0
  <2>1. k \in Nat /\ k - 1 \in Nat /\ k - 1 \notin Missing
    BY <1>2, <1>4
  <2>2. PICK f : IsUpTo(f, s, S, k - 1)
    BY <2>1
  <2> DEFINE last == IF s[k] \in S THEN Longer(f[k - 1], s[k]) ELSE f[k - 1]
             g == [n \in 0 .. k |-> IF n = k THEN last ELSE f[n]]
  <2>3. \A n \in 0 .. k - 1 : g[n] = f[n]
    BY <2>1
  <2>4. ASSUME NEW n \in 0 .. k
        PROVE  g[n] = IF n = 0 THEN EmptyList
                      ELSE IF s[n] \in S THEN Longer(g[n - 1], s[n])
                      ELSE g[n - 1]
    <3>1. CASE n = k
      <4>1. n - 1 \in 0 .. k - 1 /\ g[n - 1] = f[n - 1]
        BY <1>4, <2>1, <2>3, <3>1
      <4> QED
        BY <1>4, <3>1, <4>1
    <3>2. CASE n # k
      <4>1. n \in 0 .. k - 1 /\ (n # 0 => n - 1 \in 0 .. k - 1)
        BY <2>1, <3>2
      <4>2. f[n] = IF n = 0 THEN EmptyList
                   ELSE IF s[n] \in S THEN Longer(f[n - 1], s[n])
                   ELSE f[n - 1]
        BY <2>2, <4>1 DEF IsUpTo
      <4> HIDE DEF g
      <4> QED
        BY <2>3, <4>1, <4>2
    <3> QED
      BY <3>1, <3>2
  <2>5. IsUpTo(g, s, S, k)
    <3>1. g = [n \in 0 .. k |-> g[n]]
      OBVIOUS
    <3> HIDE DEF g
    <3> QED
      BY <2>4, <3>1 DEF IsUpTo
  <2> QED
    BY <1>2, <2>5
<1> QED
  BY <1>3, <1>4

\* it takes one step at a time.
LEMMA UpToStep ==
    \A s, S, m, f : m \in Nat /\ IsUpTo(f, s, S, m) =>
        /\ f[0] = EmptyList
        /\ \A k, n \in 0 .. m : n = k + 1 =>
               /\ s[n] \in S => f[n] = Longer(f[k], s[n])
               /\ s[n] \notin S => f[n] = f[k]
<1> SUFFICES ASSUME NEW s, NEW S, NEW m, NEW f, m \in Nat, IsUpTo(f, s, S, m)
             PROVE  /\ f[0] = EmptyList
                    /\ \A k, n \in 0 .. m : n = k + 1 =>
                           /\ s[n] \in S => f[n] = Longer(f[k], s[n])
                           /\ s[n] \notin S => f[n] = f[k]
  OBVIOUS
<1> DEFINE g == [i \in 0 .. m |->
                  IF i = 0 THEN EmptyList
                  ELSE IF s[i] \in S THEN Longer(f[i - 1], s[i])
                  ELSE f[i - 1]]
<1>1. f = g
  BY DEF IsUpTo
<1>2. g[0] = EmptyList
  BY 0 \in 0 .. m
<1>3. ASSUME NEW k \in 0 .. m, NEW n \in 0 .. m, n = k + 1
      PROVE  g[n] = IF s[n] \in S THEN Longer(f[k], s[n]) ELSE f[k]
  <2>1. n # 0 /\ n - 1 = k
    BY <1>3
  <2>2. g[n] = IF n = 0 THEN EmptyList
               ELSE IF s[n] \in S THEN Longer(f[n - 1], s[n])
               ELSE f[n - 1]
    OBVIOUS
  <2> HIDE DEF g
  <2> QED
    BY <2>1, <2>2
<1> HIDE DEF g
<1> QED
  BY <1>1, <1>2, <1>3

\* Functions for lists that begin alike are alike.
LEMMA UpToAgree ==
    \A s, r, S, m, k, f, g :
        /\ m \in Nat /\ k \in Nat /\ m <= k
        /\ \A n \in 1 .. m : s[n] = r[n]
        /\ IsUpTo(f, s, S, m) /\ IsUpTo(g, r, S, k)
        => \A n \in 0 .. m : f[n] = g[n]
<1> SUFFICES ASSUME NEW s, NEW r, NEW S, NEW m, NEW k, NEW f, NEW g,
                    m \in Nat, k \in Nat, m <= k, \A n \in 1 .. m : s[n] = r[n],
                    IsUpTo(f, s, S, m), IsUpTo(g, r, S, k)
             PROVE  \A n \in 0 .. m : f[n] = g[n]
  OBVIOUS
<1> DEFINE Wrong == {n \in 0 .. m : f[n] # g[n]}
<1>1. SUFFICES ASSUME Wrong # {} PROVE FALSE
  OBVIOUS
<1>2. PICK n \in Wrong : \A j \in Wrong : n <= j
  <2>1. Wrong \in SUBSET Nat
    OBVIOUS
  <2> QED
    BY <1>1, <2>1, LeastNumber
<1>3. n \in 0 .. m /\ n \in 0 .. k /\ f[n] # g[n]
  BY <1>2
<1>4. n # 0
  BY <1>3, UpToStep
<1>5. PICK j : j = n - 1
  OBVIOUS
<1>6. j \in 0 .. m /\ j \in 0 .. k /\ n = j + 1 /\ f[j] = g[j] /\ s[n] = r[n]
  <2>1. j \in 0 .. m /\ j \in 0 .. k /\ n = j + 1 /\ ~(n <= j) /\ n \in 1 .. m
    BY <1>3, <1>4, <1>5
  <2> QED
    BY <1>2, <2>1
<1>7. CASE s[n] \in S
  <2>1. f[n] = Longer(f[j], s[n])
    BY <1>3, <1>6, <1>7, UpToStep
  <2>2. g[n] = Longer(g[j], r[n])
    BY <1>3, <1>6, <1>7, UpToStep
  <2> QED
    BY <1>3, <1>6, <2>1, <2>2
<1>8. CASE s[n] \notin S
  <2>1. f[n] = f[j]
    BY <1>3, <1>6, <1>8, UpToStep
  <2>2. g[n] = g[j]
    BY <1>3, <1>6, <1>8, UpToStep
  <2> QED
    BY <1>3, <1>6, <2>1, <2>2
<1> QED
  BY <1>7, <1>8

\* So Kept is its last value.
LEMMA KeptIsUpTo ==
    ASSUME NEW s, NEW S, Len(s) \in Nat, NEW f, IsUpTo(f, s, S, Len(s))
    PROVE  Kept(s, S) = f[Len(s)]
<1> DEFINE upTo == CHOOSE g : IsUpTo(g, s, S, Len(s))
<1>1. IsUpTo(upTo, s, S, Len(s))
  BY UpToExists
<1>2. Kept(s, S) = upTo[Len(s)]
  BY DEF Kept, IsUpTo, Longer, EmptyList
<1> HIDE DEF upTo
<1>3. \A n \in 0 .. Len(s) : upTo[n] = f[n]
  BY <1>1, UpToAgree
<1> QED
  BY <1>2, <1>3

\* The two equations a recursive definition of Kept would have.
LEMMA KeptEmpty == \A S : Kept(EmptyList, S) = EmptyList
<1> TAKE S
<1> Len(EmptyList) = 0
  BY DEF EmptyList
<1>1. PICK f : IsUpTo(f, EmptyList, S, 0)
  BY UpToExists
<1>2. Kept(EmptyList, S) = f[0]
  BY <1>1, KeptIsUpTo
<1>3. f[0] = EmptyList
  BY <1>1, UpToStep
<1> QED
  BY <1>2, <1>3

LEMMA KeptAppend ==
    \A A, S : \A s \in Seq(A), e \in A :
        /\ e \in S => Kept(Longer(s, e), S) = Longer(Kept(s, S), e)
        /\ e \notin S => Kept(Longer(s, e), S) = Kept(s, S)
<1> SUFFICES ASSUME NEW A, NEW S, NEW s \in Seq(A), NEW e \in A
             PROVE  /\ e \in S => Kept(Longer(s, e), S) = Longer(Kept(s, S), e)
                    /\ e \notin S => Kept(Longer(s, e), S) = Kept(s, S)
  OBVIOUS
<1>1. /\ Len(s) \in Nat
      /\ Longer(s, e) \in Seq(A)
      /\ Len(Longer(s, e)) = Len(s) + 1
      /\ \A i \in 1 .. Len(s) : Longer(s, e)[i] = s[i]
      /\ Longer(s, e)[Len(s) + 1] = e
  BY LongerProperties, LenProperties
<1>2. PICK f : IsUpTo(f, s, S, Len(s))
  BY <1>1, UpToExists
<1>3. PICK r, k, n : r = Longer(s, e) /\ k = Len(s) /\ n = Len(s) + 1
  OBVIOUS
<1>4. k \in Nat /\ n \in Nat /\ k <= n /\ k \in 0 .. k /\ k \in 0 .. n /\ n \in 0 .. n /\ n = k + 1
  BY <1>1, <1>3
<1>5. PICK g : IsUpTo(g, r, S, n)
  BY <1>4, UpToExists
<1>6. Kept(s, S) = f[k] /\ Kept(r, S) = g[n]
  <2>1. Kept(s, S) = f[k]
    BY <1>1, <1>2, <1>3, KeptIsUpTo
  <2>2. Len(r) = n /\ Len(r) \in Nat
    BY <1>1, <1>3
  <2>3. IsUpTo(g, r, S, Len(r))
    BY <1>5, <2>2
  <2>4. Kept(r, S) = g[Len(r)]
    BY <2>2, <2>3, KeptIsUpTo
  <2> QED
    BY <2>1, <2>2, <2>4
<1>7. f[k] = g[k]
  <2>1. \A i \in 1 .. k : s[i] = r[i]
    BY <1>1, <1>3
  <2>2. IsUpTo(f, s, S, k)
    BY <1>2, <1>3
  <2>3. \A i \in 0 .. k : f[i] = g[i]
    BY <1>4, <1>5, <2>1, <2>2, UpToAgree
  <2> QED
    BY <1>4, <2>3
<1>8. g[n] = IF r[n] \in S THEN Longer(g[k], r[n]) ELSE g[k]
  BY <1>4, <1>5, UpToStep
<1>9. r[n] = e
  BY <1>1, <1>3
<1> QED
  BY <1>3, <1>6, <1>7, <1>8, <1>9

-----------------------------------------------------------------------------
(* What a filter returns.                                                  *)

\* e is in the list s.
Among(e, s) == \E i \in 1 .. Len(s) : s[i] = e

\* Nothing is there twice.
Single(s) == \A i, j \in 1 .. Len(s) : s[i] = s[j] => i = j

LEMMA NothingIn ==
    /\ Len(EmptyList) = 0
    /\ Single(EmptyList)
    /\ \A A : EmptyList \in Seq(A)
    /\ \A e : ~Among(e, EmptyList)
  BY DEF EmptyList, Single, Among

\* What is in a list with one more.
LEMMA OneLonger ==
    \A A : \A s \in Seq(A), e \in A :
        /\ Longer(s, e) \in Seq(A)
        /\ Len(s) \in Nat /\ Len(Longer(s, e)) = Len(s) + 1
        /\ \A d : Among(d, Longer(s, e)) <=> Among(d, s) \/ d = e
        /\ Single(Longer(s, e)) <=> Single(s) /\ ~Among(e, s)
<1> SUFFICES ASSUME NEW A, NEW s \in Seq(A), NEW e \in A
             PROVE  /\ Longer(s, e) \in Seq(A)
                    /\ Len(s) \in Nat /\ Len(Longer(s, e)) = Len(s) + 1
                    /\ \A d : Among(d, Longer(s, e)) <=> Among(d, s) \/ d = e
                    /\ Single(Longer(s, e)) <=> Single(s) /\ ~Among(e, s)
  OBVIOUS
<1>1. PICK r, n : r = Longer(s, e) /\ n = Len(s)
  OBVIOUS
<1>2. n \in Nat /\ r \in Seq(A) /\ Len(r) = n + 1 /\ r[n + 1] = e
      /\ \A i \in 1 .. n : r[i] = s[i]
  <2>1. /\ Longer(s, e) \in Seq(A)
        /\ Len(Longer(s, e)) = Len(s) + 1
        /\ \A i \in 1 .. Len(s) : Longer(s, e)[i] = s[i]
        /\ Longer(s, e)[Len(s) + 1] = e
    BY LongerProperties
  <2> QED
    BY <1>1, <2>1, LenProperties
<1>3. \A i \in 1 .. n + 1 : i \in 1 .. n \/ i = n + 1
  BY <1>2
<1>4. n + 1 \in 1 .. n + 1 /\ n + 1 \notin 1 .. n /\ 1 .. n \subseteq 1 .. n + 1
  BY <1>2
<1>5. \A d : Among(d, r) <=> Among(d, s) \/ d = e
  BY <1>1, <1>2, <1>3, <1>4 DEF Among
<1>6. Single(r) <=> Single(s) /\ ~Among(e, s)
  <2>1. ASSUME Single(r) PROVE Single(s) /\ ~Among(e, s)
    BY <1>1, <1>2, <1>3, <1>4, <2>1 DEF Single, Among
  <2>2. ASSUME Single(s), ~Among(e, s) PROVE Single(r)
    BY <1>1, <1>2, <1>3, <1>4, <2>2 DEF Single, Among
  <2> QED
    BY <2>1, <2>2
<1> QED
  BY <1>1, <1>2, <1>5, <1>6

\* Kept keeps exactly the members of the set,
LEMMA KeptIsList ==
    \A A, S : \A s \in Seq(A) :
        /\ Kept(s, S) \in Seq(A)
        /\ \A e : Among(e, Kept(s, S)) <=> e \in S /\ Among(e, s)
<1> SUFFICES ASSUME NEW A, NEW S
             PROVE  \A s \in Seq(A) :
                        /\ Kept(s, S) \in Seq(A)
                        /\ \A e : Among(e, Kept(s, S)) <=> e \in S /\ Among(e, s)
  OBVIOUS
<1> DEFINE T == {s \in Seq(A) : /\ Kept(s, S) \in Seq(A)
                               /\ \A e : Among(e, Kept(s, S)) <=> e \in S /\ Among(e, s)}
<1>1. EmptyList \in T
  BY NothingIn, KeptEmpty
<1>2. ASSUME NEW s \in T, NEW e \in A PROVE Longer(s, e) \in T
  <2>1. s \in Seq(A) /\ Kept(s, S) \in Seq(A)
        /\ \A d : Among(d, Kept(s, S)) <=> d \in S /\ Among(d, s)
    OBVIOUS
  <2>2. Longer(s, e) \in Seq(A) /\ \A d : Among(d, Longer(s, e)) <=> Among(d, s) \/ d = e
    BY <2>1, OneLonger
  <2> HIDE DEF T
  <2>3. CASE e \in S
    <3>1. Kept(Longer(s, e), S) = Longer(Kept(s, S), e)
      BY <2>1, <2>3, KeptAppend
    <3>2. /\ Longer(Kept(s, S), e) \in Seq(A)
          /\ \A d : Among(d, Longer(Kept(s, S), e)) <=> Among(d, Kept(s, S)) \/ d = e
      BY <2>1, OneLonger
    <3> QED
      BY <2>1, <2>2, <2>3, <3>1, <3>2 DEF T
  <2>4. CASE e \notin S
    <3>1. Kept(Longer(s, e), S) = Kept(s, S)
      BY <2>1, <2>4, KeptAppend
    <3> QED
      BY <2>1, <2>2, <2>4, <3>1 DEF T
  <2> QED
    BY <2>3, <2>4
<1> HIDE DEF T
<1>3. \A x \in Seq(A) : x \in T
  BY <1>1, <1>2, ListInduction DEF T
<1> QED
  BY <1>3 DEF T

\* and nothing twice that was there once.
LEMMA KeptIsSingle ==
    \A A, S : \A s \in Seq(A) : Single(s) => Single(Kept(s, S))
<1> SUFFICES ASSUME NEW A, NEW S
             PROVE  \A s \in Seq(A) : Single(s) => Single(Kept(s, S))
  OBVIOUS
<1> DEFINE T == {s \in Seq(A) : Single(s) => Single(Kept(s, S))}
<1>1. EmptyList \in T
  BY NothingIn, KeptEmpty
<1>2. ASSUME NEW s \in T, NEW e \in A PROVE Longer(s, e) \in T
  <2>1. CASE e \in S
    BY <2>1, KeptAppend, OneLonger, KeptIsList
  <2>2. CASE e \notin S
    BY <2>2, KeptAppend, OneLonger
  <2> QED
    BY <2>1, <2>2
<1> HIDE DEF T
<1>3. \A x \in Seq(A) : x \in T
  BY <1>1, <1>2, ListInduction DEF T
<1> QED
  BY <1>3 DEF T

\* Filters that get stricter are the strictest one, and leave less.
LEMMA KeptOfKept ==
    \A A, S, R : R \subseteq S =>
        \A s \in Seq(A) : /\ Kept(Kept(s, S), R) = Kept(s, R)
                          /\ Len(Kept(s, R)) <= Len(Kept(s, S))
<1> SUFFICES ASSUME NEW A, NEW S, NEW R, R \subseteq S
             PROVE  \A s \in Seq(A) : /\ Kept(Kept(s, S), R) = Kept(s, R)
                                      /\ Len(Kept(s, R)) <= Len(Kept(s, S))
  OBVIOUS
<1> DEFINE T == {s \in Seq(A) : /\ Kept(Kept(s, S), R) = Kept(s, R)
                               /\ Len(Kept(s, R)) <= Len(Kept(s, S))}
<1>1. EmptyList \in T
  BY NothingIn, KeptEmpty
<1>2. ASSUME NEW s \in T, NEW e \in A PROVE Longer(s, e) \in T
  <2>1. /\ Kept(s, S) \in Seq(A) /\ Kept(s, R) \in Seq(A)
        /\ Len(Kept(s, S)) \in Nat /\ Len(Kept(s, R)) \in Nat
    BY KeptIsList, LenProperties
  <2>2. CASE e \in R
    BY <2>1, <2>2, KeptAppend, OneLonger
  <2>3. CASE e \in S /\ e \notin R
    BY <2>1, <2>3, KeptAppend, OneLonger
  <2>4. CASE e \notin S
    BY <2>1, <2>4, KeptAppend, OneLonger
  <2> QED
    BY <2>2, <2>3, <2>4
<1> HIDE DEF T
<1>3. \A x \in Seq(A) : x \in T
  BY <1>1, <1>2, ListInduction DEF T
<1> QED
  BY <1>3 DEF T

\* Without a member of the set nothing is left.
LEMMA KeptNothing ==
    \A A, S : \A s \in Seq(A) : (\A e \in S : ~Among(e, s)) => Kept(s, S) = EmptyList
<1> SUFFICES ASSUME NEW A, NEW S
             PROVE  \A s \in Seq(A) : (\A e \in S : ~Among(e, s)) => Kept(s, S) = EmptyList
  OBVIOUS
<1> DEFINE T == {s \in Seq(A) : (\A e \in S : ~Among(e, s)) => Kept(s, S) = EmptyList}
<1>1. EmptyList \in T
  BY NothingIn, KeptEmpty
<1>2. ASSUME NEW s \in T, NEW e \in A PROVE Longer(s, e) \in T
  <2>1. s \in Seq(A) /\ ((\A d \in S : ~Among(d, s)) => Kept(s, S) = EmptyList)
    OBVIOUS
  <2>2. Longer(s, e) \in Seq(A) /\ \A d : Among(d, Longer(s, e)) <=> Among(d, s) \/ d = e
    BY <2>1, OneLonger
  <2>3. e \notin S => Kept(Longer(s, e), S) = Kept(s, S)
    BY <2>1, KeptAppend
  <2> QED
    BY <2>1, <2>2, <2>3
<1> HIDE DEF T
<1>3. \A x \in Seq(A) : x \in T
  BY <1>1, <1>2, ListInduction DEF T
<1> QED
  BY <1>3 DEF T

-----------------------------------------------------------------------------
(***************************************************************************)
(* Sessions: the types, and that a session that has ended stays ended.     *)
(***************************************************************************)

\* A login ends with its token, and its MFA session begins when it has one; a
\* logout is with a token that was given.
TokenOnce ==
    /\ \A l \in Logins :
          /\ token[Access(l)] # "none" => login[l] = "done"
          /\ token[MfaSession(l)] # "none" => login[l] \in {"mfa", "code", "done"}
    /\ \A t \in Tokens : logout[t] # "none" => token[t] # "none"

\* While a logout is written the memory has it; once it was answered the
\* table has it, and the memory of every life that has loaded the table.
\* Only an expired token may be missing from either.
LogoutKept ==
    \A t \in Tokens : HasJti(t) =>
        /\ logout[t] = "writing" => api = "up" /\ t \in revoked
        /\ logout[t] = "answered" =>
              \/ token[t] = "expired"
              \/ t \in revokedRows /\ (api \in {"clean", "up"} => t \in revoked)

\* What this life has refused is revoked in its memory, idle or expired.
RefusalKept ==
    /\ turnedAway # {} => api = "up"
    /\ \A t \in turnedAway :
          /\ token[t] # "none"
          /\ token[t] = "expired" \/ t \in revoked \/ activity[t] = "idle"

SessionsInv == SessionsTypeOK /\ TokenOnce /\ LogoutKept /\ RefusalKept

-----------------------------------------------------------------------------
LEMMA SessionsInitInv == SessionsInit => SessionsInv
BY SessionsAssumption
   DEF SessionsInit, SessionsInv, SessionsTypeOK, TokenOnce, LogoutKept, RefusalKept,
       Tokens, Access, MfaSession

(* The steps of the process itself.                                        *)
LEMMA LifeStep ==
    ASSUME SessionsInv,
           StartSessions \/ LoadRevoked \/ CleanupExpired \/ StopSessions
    PROVE  SessionsInv'
<1>. USE SessionsAssumption DEF SessionsInv
<1>1. CASE StartSessions
  BY <1>1 DEF StartSessions, SessionsTypeOK, TokenOnce, LogoutKept, RefusalKept,
              loginVars, tokenVars
<1>2. CASE LoadRevoked
  <2>1. SessionsTypeOK'
    BY <1>2 DEF LoadRevoked, SessionsTypeOK, loginVars
  <2>2. TokenOnce' /\ RefusalKept'
    BY <1>2 DEF LoadRevoked, TokenOnce, RefusalKept, loginVars
  <2>3. LogoutKept'
    BY <1>2 DEF LoadRevoked, LogoutKept, Expired, loginVars
  <2>. QED
    BY <2>1, <2>2, <2>3
<1>3. CASE CleanupExpired
  <2>1. SessionsTypeOK'
    BY <1>3 DEF CleanupExpired, SessionsTypeOK, loginVars
  <2>2. TokenOnce' /\ RefusalKept'
    BY <1>3 DEF CleanupExpired, TokenOnce, RefusalKept, loginVars
  <2>3. LogoutKept'
    BY <1>3 DEF CleanupExpired, LogoutKept, Expired, loginVars
  <2>. QED
    BY <2>1, <2>2, <2>3
<1>4. CASE StopSessions
  <2>1. SessionsTypeOK'
    BY <1>4 DEF StopSessions, SessionsTypeOK
  <2>2. TokenOnce'
    BY <1>4 DEF StopSessions, SessionsTypeOK, TokenOnce
  <2>3. LogoutKept' /\ RefusalKept'
    BY <1>4 DEF StopSessions, SessionsTypeOK, LogoutKept, RefusalKept
  <2>. QED
    BY <2>1, <2>2, <2>3
<1>. QED
  BY <1>1, <1>2, <1>3, <1>4

\* A token that is given for the first time.
LEMMA GiveStep ==
    ASSUME SessionsInv, NEW l \in Logins, NEW t \in {Access(l), MfaSession(l)}, Give(t),
           login' \in [Logins -> {"sent", "lookup", "mfa", "code", "stamp", "done"}],
           \A k \in Logins : k # l => login'[k] = login[k],
           token[t] = "none",
           token[Access(l)] = "none",
           login'[l] = "done" \/ (t = MfaSession(l) /\ login'[l] = "mfa"),
           UNCHANGED <<api, lives, mfa, change, activity, revoked, revokedRows, logout, turnedAway>>
    PROVE  SessionsInv'
<1>. USE SessionsAssumption DEF SessionsInv
<1>1. /\ t \in Tokens
      /\ \A k \in Logins : k # l => t # Access(k) /\ t # MfaSession(k)
  BY DEF Tokens, Access, MfaSession
<1>2. token' = [token EXCEPT ![t] = "valid"] /\ logout[t] = "none" /\ t \notin turnedAway
  BY <1>1 DEF Give, TokenOnce, RefusalKept
<1>3. SessionsTypeOK'
  BY <1>1, <1>2 DEF SessionsTypeOK
<1>4. TokenOnce'
  <2>1. \A u \in Tokens : u # t => token'[u] = token[u]
    BY <1>2 DEF SessionsTypeOK
  <2>2. token'[t] = "valid"
    BY <1>1, <1>2 DEF SessionsTypeOK
  <2>3. \A k \in Logins : Access(k) \in Tokens /\ MfaSession(k) \in Tokens /\ Access(k) # MfaSession(k)
    BY DEF Tokens, Access, MfaSession
  <2>4. /\ token'[Access(l)] # "none" => login'[l] = "done"
        /\ token'[MfaSession(l)] # "none" => login'[l] \in {"mfa", "code", "done"}
    BY <2>1, <2>2, <2>3
  <2>5. ASSUME NEW k \in Logins, k # l
        PROVE  /\ token'[Access(k)] # "none" => login'[k] = "done"
               /\ token'[MfaSession(k)] # "none" => login'[k] \in {"mfa", "code", "done"}
    BY <1>1, <2>1, <2>3, <2>5 DEF TokenOnce
  <2>6. \A u \in Tokens : logout'[u] # "none" => token'[u] # "none"
    BY <2>1, <2>2 DEF TokenOnce
  <2>. QED
    BY <2>4, <2>5, <2>6 DEF TokenOnce
<1>5. LogoutKept' /\ RefusalKept'
  BY <1>1, <1>2 DEF LogoutKept, RefusalKept, SessionsTypeOK
<1>. QED
  BY <1>3, <1>4, <1>5

(* Logins and MFA changes: only a login that is not done gets a token.     *)
LEMMA LoginStep ==
    ASSUME SessionsInv,
           \/ \E l \in Logins : \/ SendLogin(l) \/ CheckPassword(l) \/ RefuseLogin(l)
                                \/ CheckCode(l) \/ MfaLoginFails(l) \/ IssueToken(l)
           \/ \E c \in MfaChanges : ReadMfa(c) \/ WriteMfa(c)
    PROVE  SessionsInv'
<1>. USE SessionsAssumption DEF SessionsInv
<1>1. ASSUME NEW l \in Logins,
             SendLogin(l) \/ (CheckPassword(l) /\ UNCHANGED token) \/ RefuseLogin(l)
                          \/ CheckCode(l) \/ MfaLoginFails(l)
      PROVE  SessionsInv'
  <2>1. /\ login[l] # "done"
        /\ login[l] \in {"mfa", "code"} => login'[l] \in {"mfa", "code", "done"}
        /\ login' \in [Logins -> {"sent", "lookup", "mfa", "code", "stamp", "done"}]
        /\ \A k \in Logins : k # l => login'[k] = login[k]
        /\ UNCHANGED <<api, lives, mfa, change, tokenVars>>
    BY <1>1 DEF SendLogin, CheckPassword, RefuseLogin, CheckCode, MfaLoginFails,
                SessionsTypeOK, tokenVars
  <2>2. TokenOnce'
    BY <2>1 DEF TokenOnce, tokenVars
  <2>. QED
    BY <2>1, <2>2 DEF SessionsTypeOK, LogoutKept, RefusalKept, tokenVars
<1>2. ASSUME NEW l \in Logins, IssueToken(l)
      PROVE  SessionsInv'
  <2>1. Access(l) \in {Access(l), MfaSession(l)} /\ Give(Access(l))
    BY <1>2 DEF IssueToken
  <2>2. token[Access(l)] = "none" /\ login'[l] = "done"
    BY <1>2 DEF IssueToken, TokenOnce, SessionsTypeOK
  <2>3. /\ login' \in [Logins -> {"sent", "lookup", "mfa", "code", "stamp", "done"}]
        /\ \A k \in Logins : k # l => login'[k] = login[k]
        /\ UNCHANGED <<api, lives, mfa, change, activity, revoked, revokedRows, logout, turnedAway>>
    BY <1>2 DEF IssueToken, SessionsTypeOK
  <2>. QED
    BY <2>1, <2>2, <2>3, GiveStep
<1>4. ASSUME NEW l \in Logins, CheckPassword(l), ~UNCHANGED token
      PROVE  SessionsInv'
  <2>1. MfaSession(l) \in {Access(l), MfaSession(l)} /\ Give(MfaSession(l))
    BY <1>4 DEF CheckPassword
  <2>2. token[Access(l)] = "none" /\ token[MfaSession(l)] = "none" /\ login'[l] = "mfa"
    BY <1>4 DEF CheckPassword, TokenOnce, SessionsTypeOK
  <2>3. /\ login' \in [Logins -> {"sent", "lookup", "mfa", "code", "stamp", "done"}]
        /\ \A k \in Logins : k # l => login'[k] = login[k]
        /\ UNCHANGED <<api, lives, mfa, change, activity, revoked, revokedRows, logout, turnedAway>>
    BY <1>4 DEF CheckPassword, SessionsTypeOK
  <2>. QED
    BY <2>1, <2>2, <2>3, GiveStep
<1>3. ASSUME NEW c \in MfaChanges, ReadMfa(c) \/ WriteMfa(c)
      PROVE  SessionsInv'
  <2>1. UNCHANGED <<api, lives, login, tokenVars>>
    BY <1>3 DEF ReadMfa, WriteMfa
  <2>2. mfa' \in [Members -> BOOLEAN]
    <3>1. mfa \in [Members -> BOOLEAN] /\ (change[c] = "enable") \in BOOLEAN
      BY DEF SessionsTypeOK
    <3>2. CASE ReadMfa(c)
      BY <3>1, <3>2 DEF ReadMfa
    <3>3. CASE WriteMfa(c)
      BY <3>1, <3>3 DEF WriteMfa
    <3>. QED
      BY <1>3, <3>2, <3>3
  <2>3. change' \in [MfaChanges -> {"sent", "enable", "disable", "done"}]
    BY <1>3 DEF ReadMfa, WriteMfa, SessionsTypeOK
  <2>. QED
    BY <2>1, <2>2, <2>3 DEF SessionsTypeOK, TokenOnce, LogoutKept, RefusalKept, tokenVars
<1>. QED
  BY <1>1, <1>2, <1>3, <1>4

(* Requests, logouts, WebSockets and time.                                 *)
LEMMA SessionRequestStep ==
    ASSUME SessionsInv, NEW t \in Tokens,
           \/ Request(t) \/ Refuse(t) \/ Logout(t) \/ StoreRevocation(t)
           \/ RevocationFails(t) \/ Expire(t) \/ GoIdle(t)
    PROVE  SessionsInv'
<1>. USE SessionsAssumption DEF SessionsInv
<1>1. CASE Request(t)
  <2>1. SessionsTypeOK'
    BY <1>1 DEF Request, Used, SessionsTypeOK, loginVars
  <2>2. t \notin turnedAway
    BY <1>1 DEF Request, Used, Admitted, RefusalKept
  <2>. QED
    BY <1>1, <2>1, <2>2
    DEF Request, Used, TokenOnce, LogoutKept, RefusalKept, SessionsTypeOK, loginVars
<1>2. CASE Refuse(t)
  <2>1. SessionsTypeOK'
    BY <1>2 DEF Refuse, SessionsTypeOK, loginVars
  <2>2. TokenOnce' /\ LogoutKept'
    BY <1>2 DEF Refuse, TokenOnce, LogoutKept, loginVars
  <2>3. RefusalKept'
    BY <1>2 DEF Refuse, Admitted, RefusalKept, SessionsTypeOK
  <2>. QED
    BY <2>1, <2>2, <2>3
<1>3. CASE Logout(t)
  <2>1. SessionsTypeOK'
    BY <1>3 DEF Logout, Used, HasJti, SessionsTypeOK, loginVars
  <2>2. TokenOnce'
    BY <1>3 DEF Logout, Used, HasJti, Admitted, TokenOnce, SessionsTypeOK, loginVars
  <2>3. LogoutKept'
    BY <1>3 DEF Logout, Used, HasJti, LogoutKept, SessionsTypeOK
  <2>4. RefusalKept'
    BY <1>3 DEF Logout, Used, HasJti, Admitted, RefusalKept, SessionsTypeOK
  <2>. QED
    BY <2>1, <2>2, <2>3, <2>4
<1>4. CASE StoreRevocation(t) \/ RevocationFails(t)
  <2>1. SessionsTypeOK'
    BY <1>4 DEF StoreRevocation, RevocationFails, SessionsTypeOK, loginVars
  <2>2. TokenOnce' /\ RefusalKept'
    BY <1>4 DEF StoreRevocation, RevocationFails, TokenOnce, RefusalKept,
                SessionsTypeOK, loginVars
  <2>3. LogoutKept'
    BY <1>4 DEF StoreRevocation, RevocationFails, LogoutKept, SessionsTypeOK
  <2>. QED
    BY <2>1, <2>2, <2>3
<1>5. CASE Expire(t)
  <2>1. SessionsTypeOK'
    BY <1>5 DEF Expire, SessionsTypeOK, loginVars
  <2>. QED
    BY <1>5, <2>1
    DEF Expire, TokenOnce, LogoutKept, RefusalKept, SessionsTypeOK, loginVars
<1>6. CASE GoIdle(t)
  <2>1. SessionsTypeOK'
    BY <1>6 DEF GoIdle, SessionsTypeOK, loginVars
  <2>. QED
    BY <1>6, <2>1
    DEF GoIdle, TokenOnce, LogoutKept, RefusalKept, SessionsTypeOK, loginVars
<1>. QED
  BY <1>1, <1>2, <1>3, <1>4, <1>5, <1>6

\* Every step keeps SessionsInv.
LEMMA SessionsStep == SessionsInv /\ [SessionsNext]_sessionVars => SessionsInv'
<1>. SUFFICES ASSUME SessionsInv, [SessionsNext]_sessionVars
              PROVE  SessionsInv'
  OBVIOUS
<1>1. CASE SessionsNext
  BY <1>1, LifeStep, LoginStep, SessionRequestStep DEF SessionsNext
<1>2. CASE UNCHANGED sessionVars
  BY <1>2 DEF SessionsInv, SessionsTypeOK, TokenOnce, LogoutKept, RefusalKept,
              sessionVars, loginVars, tokenVars
<1>. QED
  BY <1>1, <1>2

\* The invariant of the sessions holds throughout, their types among it, for
\* any accounts and restarts (auth_routes.py, token_blacklist.py).
THEOREM SessionsInvCorrect == SessionsSpec => []SessionsInv
BY SessionsInitInv, SessionsStep, PTL DEF SessionsSpec

-----------------------------------------------------------------------------
(* A logout that was answered is final for a token that has a jti: it gets *)
(* neither a request nor a WebSocket through, in this life of the API or a *)
(* later one (auth_routes.py logout, token_blacklist.py).                  *)
THEOREM EndedStaysEndedCorrect == SessionsSpec => []EndedStaysEnded
<1>1. SessionsInv => EndedStaysEnded
  BY DEF SessionsInv, LogoutKept, EndedStaysEnded, Admitted, SocketAdmitted
<1>. QED
  BY <1>1, SessionsInvCorrect, PTL

(* A session that was answered 401 is not revived by further requests      *)
(* (auth_middleware.py _check_session_validity).                           *)
THEOREM RefusedStaysRefusedCorrect == SessionsSpec => []RefusedStaysRefused
<1>1. SessionsInv => RefusedStaysRefused
  BY DEF SessionsInv, SessionsTypeOK, RefusalKept, RefusedStaysRefused, Admitted
<1>. QED
  BY <1>1, SessionsInvCorrect, PTL

-----------------------------------------------------------------------------
(***************************************************************************)
(* UserAccounts: an address has one account, and an account that still     *)
(* has the password of the source has to change it.                        *)
(***************************************************************************)

\* Of the types, what the argument needs.
RowTypes ==
    /\ role \in [UserIds -> Roles \cup {NoRole}]
    /\ mail \in [UserIds -> Mails \cup {NoMail}]
    /\ password \in [UserIds -> {"seed", "own"}]
    /\ mustChange \in [UserIds -> BOOLEAN]

RequestTypes ==
    /\ request \in [Admins -> AccountRequests \cup {Idle}]
    /\ pwStep \in [PwChanges -> PwSteps \cup {Idle}]

\* A row has an address, and no two rows have the same.
MailsDiffer ==
    /\ \A i \in UserIds : HasAccount(i) => mail[i] # NoMail
    /\ \A i, j \in UserIds : HasAccount(i) /\ HasAccount(j) /\ mail[i] = mail[j] => i = j

\* A change of a password is of a row that was there: no later row gets its
\* id.  Past its first write the row does not have the seeded password.
ChangesOfOwn ==
    \A p \in PwChanges : pwStep[p] # Idle =>
        /\ mail[pwStep[p].of] # NoMail
        /\ pwStep[p].kind = "written" => password[pwStep[p].of] = "own"

AccountsInv ==
    RowTypes /\ RequestTypes /\ MailsDiffer /\ ChangesOfOwn /\ SeedPasswordFlagged

-----------------------------------------------------------------------------
LEMMA AccountsInitInv == AccountsInit => AccountsInv
BY AccountsAssumption
   DEF AccountsInit, AccountsInv, RowTypes, RequestTypes, MailsDiffer, ChangesOfOwn,
       SeedPasswordFlagged, HasAccount

(* An INSERT of a row under a fresh id and a free address: the invariants  *)
(* about rows hold again when the row is flagged or its password is own.   *)
LEMMA InsertKeeps ==
    ASSUME AccountsInv, NEW m \in Mails, NEW r \in Roles, NEW pw \in {"seed", "own"},
           NEW must \in BOOLEAN, pw = "seed" => must = TRUE,
           CreateAccount(m, r, pw, must)
    PROVE  RowTypes' /\ MailsDiffer' /\ SeedPasswordFlagged' /\
           \A i \in UserIds : mail[i] # NoMail => mail'[i] # NoMail /\ password'[i] = password[i]
<1>. USE AccountsAssumption DEF AccountsInv
<1>1. CASE WithMail(m) # {}
  <2>1. UNCHANGED <<role, mail, password, mustChange>>
    BY <1>1 DEF CreateAccount
  <2>. QED
    BY <2>1 DEF RowTypes, MailsDiffer, SeedPasswordFlagged, HasAccount
<1>2. ASSUME WithMail(m) = {}, NEW i \in Fresh, Insert(i, m, r, pw, must)
      PROVE  RowTypes' /\ MailsDiffer' /\ SeedPasswordFlagged' /\
             \A k \in UserIds : mail[k] # NoMail => mail'[k] # NoMail /\ password'[k] = password[k]
  <2>1. i \in UserIds /\ mail[i] = NoMail /\ m # NoMail
    BY <1>2 DEF Fresh
  <2>2. \A k \in UserIds : ~(HasAccount(k) /\ mail[k] = m)
    BY <1>2 DEF WithMail
  <2>3. RowTypes'
    BY <1>2, <2>1 DEF Insert, RowTypes
  <2>4. \A k \in UserIds :
            /\ role'[k] = IF k = i THEN r ELSE role[k]
            /\ mail'[k] = IF k = i THEN m ELSE mail[k]
            /\ password'[k] = IF k = i THEN pw ELSE password[k]
            /\ mustChange'[k] = IF k = i THEN must ELSE mustChange[k]
    BY <1>2 DEF Insert, RowTypes
  <2>5. MailsDiffer'
    BY <2>1, <2>2, <2>4 DEF MailsDiffer, HasAccount
  <2>6. SeedPasswordFlagged'
    BY <2>4 DEF SeedPasswordFlagged, HasAccount
  <2>. QED
    BY <2>1, <2>3, <2>4, <2>5, <2>6
<1>. QED
  BY <1>1, <1>2 DEF CreateAccount

(* What the requests read changes no row; StartAccounts and Write insert   *)
(* one, or update one by its id.                                           *)
LEMMA AccountsStep == AccountsInv /\ [AccountsNext]_accountVars => AccountsInv'
<1>. SUFFICES ASSUME AccountsInv, [AccountsNext]_accountVars
              PROVE  AccountsInv'
  OBVIOUS
<1>. USE AccountsAssumption DEF AccountsInv
<1>0. ASSUME UNCHANGED <<role, mail, password, mustChange>>
      PROVE  RowTypes' /\ MailsDiffer' /\ SeedPasswordFlagged'
  BY <1>0 DEF RowTypes, MailsDiffer, SeedPasswordFlagged, HasAccount
<1>1. CASE StartAccounts
  <2>1. RequestTypes' /\ UNCHANGED pwStep
    BY <1>1 DEF StartAccounts, RequestTypes
  <2>2. CASE WithMail(AdminMail) = {}
    <3>1. CreateAccount(AdminMail, SystemAdmin, "seed", TRUE)
      BY <1>1, <2>2 DEF StartAccounts
    <3>2. /\ RowTypes' /\ MailsDiffer' /\ SeedPasswordFlagged'
          /\ \A i \in UserIds : mail[i] # NoMail => mail'[i] # NoMail /\ password'[i] = password[i]
      BY <3>1, InsertKeeps
    <3>3. ChangesOfOwn'
      BY <2>1, <3>2 DEF ChangesOfOwn, RequestTypes, PwSteps, Idle
    <3>. QED
      BY <2>1, <3>2, <3>3
  <2>3. CASE WithMail(AdminMail) # {}
    <3>1. UNCHANGED <<role, mail, password, mustChange>>
      BY <1>1, <2>3 DEF StartAccounts
    <3>. QED
      BY <1>0, <2>1, <3>1 DEF ChangesOfOwn
  <2>. QED
    BY <2>2, <2>3
<1>2. CASE StopAccounts
  <2>1. RequestTypes' /\ ChangesOfOwn'
    BY <1>2 DEF StopAccounts, RequestTypes, ChangesOfOwn
  <2>. QED
    BY <1>0, <1>2, <2>1 DEF StopAccounts
<1>3. ASSUME NEW i \in UserIds, GetBadge(i)
      PROVE  AccountsInv'
  BY <1>0, <1>3 DEF GetBadge, RequestTypes, ChangesOfOwn
<1>4. ASSUME NEW p \in PwChanges, NEW i \in UserIds, VerifyOld(p, i)
      PROVE  AccountsInv'
  <2>1. /\ pwStep' = [pwStep EXCEPT ![p] = [kind |-> "verified", of |-> i]]
        /\ HasAccount(i)
        /\ UNCHANGED <<role, mail, password, mustChange, request>>
    BY <1>4 DEF VerifyOld
  <2>2. RequestTypes'
    BY <2>1 DEF RequestTypes, PwSteps
  <2>3. ChangesOfOwn'
    BY <2>1 DEF ChangesOfOwn, MailsDiffer, RequestTypes
  <2>. QED
    BY <1>0, <2>1, <2>2, <2>3
<1>5. ASSUME NEW p \in PwChanges, UpdatePassword(p)
      PROVE  AccountsInv'
  <2>1. pwStep[p] \in PwSteps
    BY <1>5 DEF UpdatePassword, RequestTypes
  <2>2. pwStep' = [pwStep EXCEPT ![p] = [kind |-> "written", of |-> pwStep[p].of]]
    <3>1. [pwStep[p] EXCEPT !.kind = "written"] = [kind |-> "written", of |-> pwStep[p].of]
      BY <2>1 DEF PwSteps
    <3>2. pwStep' = [pwStep EXCEPT ![p] = [pwStep[p] EXCEPT !.kind = "written"]]
      BY <1>5 DEF UpdatePassword
    <3>. QED
      BY <3>1, <3>2
  <2>3. \A k \in UserIds : password'[k] = IF k = pwStep[p].of THEN "own" ELSE password[k]
    BY <1>5 DEF UpdatePassword, RowTypes
  <2>4. RowTypes' /\ RequestTypes'
    BY <1>5, <2>1, <2>2 DEF UpdatePassword, RowTypes, RequestTypes, PwSteps
  <2>5. MailsDiffer'
    BY <1>5 DEF UpdatePassword, MailsDiffer, HasAccount
  <2>6. ChangesOfOwn'
    <3>. SUFFICES ASSUME NEW q \in PwChanges, pwStep'[q] # Idle
                  PROVE  /\ mail'[pwStep'[q].of] # NoMail
                         /\ pwStep'[q].kind = "written" => password'[pwStep'[q].of] = "own"
      BY DEF ChangesOfOwn
    <3>1. UNCHANGED mail
      BY <1>5 DEF UpdatePassword
    <3>2. CASE q = p
      <4>1. pwStep'[q].of = pwStep[p].of /\ pwStep[p].of \in UserIds /\ pwStep[p] # Idle
        BY <1>5, <2>1, <2>2, <3>2 DEF PwSteps, RequestTypes, UpdatePassword
      <4>. QED
        BY <2>3, <3>1, <4>1 DEF ChangesOfOwn
    <3>3. CASE q # p
      <4>1. pwStep'[q] = pwStep[q] /\ pwStep[q] \in PwSteps
        BY <2>2, <3>3 DEF RequestTypes
      <4>. QED
        BY <2>3, <3>1, <4>1 DEF ChangesOfOwn, PwSteps
    <3>. QED
      BY <3>2, <3>3
  <2>7. SeedPasswordFlagged'
    BY <1>5, <2>3 DEF UpdatePassword, SeedPasswordFlagged, HasAccount
  <2>. QED
    BY <2>4, <2>5, <2>6, <2>7
<1>6. ASSUME NEW p \in PwChanges, ClearMustChange(p)
      PROVE  AccountsInv'
  <2>1. pwStep[p] \in PwSteps /\ password[pwStep[p].of] = "own"
    BY <1>6 DEF ClearMustChange, RequestTypes, ChangesOfOwn
  <2>2. RowTypes' /\ RequestTypes'
    BY <1>6 DEF ClearMustChange, RowTypes, RequestTypes
  <2>3. MailsDiffer'
    BY <1>6 DEF ClearMustChange, MailsDiffer, HasAccount
  <2>4. ChangesOfOwn'
    BY <1>6 DEF ClearMustChange, ChangesOfOwn, RequestTypes
  <2>5. \A k \in UserIds : k # pwStep[p].of => mustChange'[k] = mustChange[k]
    BY <1>6 DEF ClearMustChange, RowTypes
  <2>6. SeedPasswordFlagged'
    BY <1>6, <2>1, <2>5 DEF ClearMustChange, SeedPasswordFlagged, HasAccount
  <2>. QED
    BY <2>2, <2>3, <2>4, <2>6
<1>7. ASSUME NEW a \in Admins, NEW c \in UserIds,
             Register(a, c) \/ DeleteUser(a, c) \/ ChangeRole(a, c)
      PROVE  AccountsInv'
  <2>1. UNCHANGED <<role, mail, password, mustChange, pwStep>>
    BY <1>7 DEF Register, DeleteUser, ChangeRole, Read
  <2>2. RequestTypes'
    BY <1>7 DEF Register, DeleteUser, ChangeRole, Read, RequestTypes, AccountRequests
  <2>. QED
    BY <1>0, <2>1, <2>2 DEF ChangesOfOwn
<1>8. ASSUME NEW a \in Admins, Write(a)
      PROVE  AccountsInv'
  <2>1. request[a] \in AccountRequests /\ RequestTypes' /\ UNCHANGED pwStep
    BY <1>8 DEF Write, RequestTypes
  <2>2. CASE request[a].kind = "register"
    <3>1. request[a].mail \in Mails /\ CreateAccount(request[a].mail, Analyst, "own", FALSE)
      BY <1>8, <2>1, <2>2 DEF Write, AccountRequests
    <3>2. /\ RowTypes' /\ MailsDiffer' /\ SeedPasswordFlagged'
          /\ \A i \in UserIds : mail[i] # NoMail => mail'[i] # NoMail /\ password'[i] = password[i]
      BY <3>1, InsertKeeps
    <3>3. ChangesOfOwn'
      BY <2>1, <3>2 DEF ChangesOfOwn, RequestTypes, PwSteps, Idle
    <3>. QED
      BY <2>1, <3>2, <3>3
  <2>3. CASE request[a].kind = "delete"
    <3>1. /\ role' = [role EXCEPT ![request[a].of] = NoRole]
          /\ password' = [password EXCEPT ![request[a].of] = "own"]
          /\ mustChange' = [mustChange EXCEPT ![request[a].of] = FALSE]
          /\ UNCHANGED mail
      BY <1>8, <2>3 DEF Write
    <3>2. RowTypes'
      BY <3>1 DEF RowTypes
    <3>3. \A k \in UserIds :
              /\ role'[k] = IF k = request[a].of THEN NoRole ELSE role[k]
              /\ password'[k] = IF k = request[a].of THEN "own" ELSE password[k]
              /\ k # request[a].of => mustChange'[k] = mustChange[k]
      BY <3>1 DEF RowTypes
    <3>4. MailsDiffer'
      BY <3>1, <3>3 DEF MailsDiffer, HasAccount
    <3>5. SeedPasswordFlagged'
      BY <3>3 DEF SeedPasswordFlagged, HasAccount
    <3>6. ChangesOfOwn'
      BY <2>1, <3>1, <3>3 DEF ChangesOfOwn, RequestTypes, PwSteps, Idle
    <3>. QED
      BY <2>1, <3>2, <3>4, <3>5, <3>6
  <2>4. CASE request[a].kind = "role"
    <3>1. /\ role' = [role EXCEPT ![request[a].of] =
                          IF @ = NoRole THEN NoRole ELSE request[a].to]
          /\ UNCHANGED <<mail, password, mustChange>>
      BY <1>8, <2>4 DEF Write
    <3>2. request[a].to \in Roles
      BY <2>1, <2>4 DEF AccountRequests
    <3>3. RowTypes'
      BY <3>1, <3>2 DEF RowTypes
    <3>4. \A k \in UserIds : HasAccount(k)' => HasAccount(k)
      BY <3>1 DEF HasAccount, RowTypes
    <3>5. MailsDiffer' /\ SeedPasswordFlagged'
      BY <3>1, <3>4 DEF MailsDiffer, SeedPasswordFlagged
    <3>6. ChangesOfOwn'
      BY <2>1, <3>1 DEF ChangesOfOwn
    <3>. QED
      BY <2>1, <3>3, <3>5, <3>6
  <2>. QED
    BY <1>8, <2>2, <2>3, <2>4 DEF Write
<1>9. CASE UNCHANGED accountVars
  BY <1>0, <1>9 DEF accountVars, RequestTypes, ChangesOfOwn
<1>. QED
  BY <1>1, <1>2, <1>3, <1>4, <1>5, <1>6, <1>7, <1>8, <1>9 DEF AccountsNext

\* The invariant of the accounts holds throughout
\* (user_management_routes.py, auth_routes.py, user_repository.py).
THEOREM AccountsInvCorrect == AccountsSpec => []AccountsInv
BY AccountsInitInv, AccountsStep, PTL DEF AccountsSpec

-----------------------------------------------------------------------------
\* What is left of the types.
OtherTypes ==
    /\ serving \in BOOLEAN
    /\ booted \in 0 .. MaxBoots
    /\ badge \in [UserIds -> Roles \cup {NoRole}]

LEMMA OtherTypesKept ==
    AccountsInv /\ OtherTypes /\ [AccountsNext]_accountVars => OtherTypes'
<1>. SUFFICES ASSUME AccountsInv, OtherTypes, [AccountsNext]_accountVars
              PROVE  OtherTypes'
  OBVIOUS
<1>1. MaxBoots \in Nat
  BY AccountsAssumption
<1>2. CASE StartAccounts
  BY <1>1, <1>2 DEF StartAccounts, OtherTypes
<1>3. ASSUME NEW i \in UserIds, GetBadge(i) PROVE OtherTypes'
  BY <1>3 DEF GetBadge, OtherTypes, AccountsInv, RowTypes
<1>4. CASE /\ ~StartAccounts /\ \A i \in UserIds : ~GetBadge(i)
           /\ AccountsNext
  <2>1. UNCHANGED <<booted, badge>> /\ serving' \in BOOLEAN
    BY <1>4 DEF AccountsNext, StopAccounts, VerifyOld, UpdatePassword, ClearMustChange,
                Register, DeleteUser, ChangeRole, Read, Write, OtherTypes
  <2>. QED
    BY <2>1 DEF OtherTypes
<1>5. CASE UNCHANGED accountVars
  BY <1>5 DEF accountVars, OtherTypes
<1>. QED
  BY <1>2, <1>3, <1>4, <1>5

LEMMA AccountsTyped == AccountsInv /\ OtherTypes => AccountsTypeOK
BY DEF AccountsInv, RowTypes, RequestTypes, OtherTypes, AccountsTypeOK

LEMMA OtherTypesInitially == AccountsInit => OtherTypes
<1>. SUFFICES ASSUME AccountsInit PROVE OtherTypes
  OBVIOUS
<1>1. serving = FALSE
  BY Zenon DEF AccountsInit
<1>2. booted = 0 /\ 0 \in 0 .. MaxBoots /\ badge \in [UserIds -> Roles \cup {NoRole}]
  BY AccountsAssumption DEF AccountsInit
<1>. QED
  BY <1>1, <1>2 DEF OtherTypes

\* Rows with different addresses: at most one has a given one.
LEMMA OneAccount == AccountsInv => OneAccountPerMail
<1>1. ASSUME MailsDiffer, NEW m \in Mails
      PROVE  Cardinality(WithMail(m)) <= 1
  <2>1. CASE WithMail(m) = {}
    BY <2>1, FS_EmptySet
  <2>2. ASSUME NEW i \in WithMail(m)
        PROVE  Cardinality(WithMail(m)) <= 1
    <3>1. WithMail(m) = {i}
      BY <1>1 DEF WithMail, MailsDiffer
    <3>. QED
      BY <3>1, FS_Singleton
  <2>. QED
    BY <2>1, <2>2
<1>. QED
  BY <1>1 DEF AccountsInv, OneAccountPerMail

(* Two registrations of one address leave one account, whatever each of    *)
(* them found when it looked (auth_routes.py register).                    *)
THEOREM OneAccountPerMailCorrect == AccountsSpec => []OneAccountPerMail
BY OneAccount, AccountsInvCorrect, PTL

(* As long as an account has the seeded password it has to change it, also *)
(* after a change that a restart has cut off between its two writes        *)
(* (auth_routes.py change_password).                                       *)
THEOREM SeedPasswordFlaggedCorrect == AccountsSpec => []SeedPasswordFlagged
<1>1. AccountsInv => SeedPasswordFlagged
  BY DEF AccountsInv
<1>. QED
  BY <1>1, AccountsInvCorrect, PTL

-----------------------------------------------------------------------------
(***************************************************************************)
(* RateLimits: a window has no more requests, nor failures, than the       *)
(* limit.                                                                  *)
(***************************************************************************)

\* Times of a list are no later than the clock, nor than the last of them.
InOrder(times, clock) ==
    \A e : Among(e, times) => e <= clock /\ e <= times[Len(times)]

\* What the middleware keeps of a key is what it let through, as far as any
\* window of a request to come reaches back; and that is never too much.
WindowInv ==
    \A p \in Paths :
        /\ InOrder(stamps[p], now)
        /\ \A t \in Int : t >= now - Window => Since(stamps[p], t) = Since(admitted[p], t)
        /\ Len(admitted[p]) <= LimitOf[p]

\* The logins that are past the limiter: each may add a failure.
Waiting == {l \in Attempts : attempt[l] = "password"}

\* The same of the failures, together with the logins that may still fail.
LoginInv ==
    /\ \A t \in Int : t >= now - LoginWindow => Since(failures, t) = Since(failed, t)
    /\ Len(Since(failures, now - LoginWindow)) + Cardinality(Waiting)
           <= MaxFailed - 1 + Cardinality(Attempts)
    /\ Len(failed) <= MaxFailed - 1 + Cardinality(Attempts)

LimitsInv == LimitsTypeOK /\ WindowInv /\ LoginInv

\* What the clock can show, and what the constants are.
Times == 0 .. MaxTime

LEMMA LimitsBounds ==
    /\ LimitOf \in [Paths -> Nat \ {0}]
    /\ Window \in Nat /\ Sweep \in Nat /\ MaxFailed \in Nat /\ LoginWindow \in Nat
    /\ Window > 0 /\ LoginWindow > 0 /\ MaxFailed > 0 /\ Window <= Sweep
    /\ IsFiniteSet(Attempts) /\ Cardinality(Attempts) \in Nat
    /\ MaxTime \in Nat
<1>1. /\ LimitOf \in [Paths -> Nat \ {0}]
      /\ {Window, Sweep, MaxFailed, LoginWindow} \subseteq Nat \ {0}
      /\ Window <= Sweep /\ IsFiniteSet(Attempts) /\ MaxTime \in Nat
  BY LimitsAssumption DEF LimitsAssumption
<1>2. /\ Window \in Nat \ {0} /\ Sweep \in Nat \ {0}
      /\ MaxFailed \in Nat \ {0} /\ LoginWindow \in Nat \ {0}
  BY <1>1
<1>3. Cardinality(Attempts) \in Nat
  BY <1>1, FS_CardinalityType
<1> QED
  BY <1>1, <1>2, <1>3

-----------------------------------------------------------------------------
(* What is left of a list since some time.                                 *)

\* The times after t are a list of times after t,
LEMMA SinceIsList ==
    \A s \in Seq(Times), t \in Int :
        /\ Since(s, t) \in Seq(Times)
        /\ Len(Since(s, t)) \in Nat
        /\ \A e : Among(e, Since(s, t)) => e > t /\ Among(e, s)
<1> SUFFICES ASSUME NEW s \in Seq(Times), NEW t \in Int
             PROVE  /\ Since(s, t) \in Seq(Times)
                    /\ Len(Since(s, t)) \in Nat
                    /\ \A e : Among(e, Since(s, t)) => e > t /\ Among(e, s)
  OBVIOUS
<1> DEFINE late == {u \in 0 .. MaxTime : u > t}
<1>1. Since(s, t) = Kept(s, late)
  BY DEF Since
<1>2. \A e \in late : e > t
  OBVIOUS
<1> HIDE DEF late
<1>3. /\ Kept(s, late) \in Seq(Times)
      /\ \A e : Among(e, Kept(s, late)) <=> e \in late /\ Among(e, s)
  BY KeptIsList
<1>4. Len(Kept(s, late)) \in Nat
  BY <1>3, LenProperties
<1> QED
  BY <1>1, <1>2, <1>3, <1>4

\* cutting twice is cutting once, and a later cut leaves fewer,
LEMMA SinceSince ==
    \A s \in Seq(Times), t, u \in Int : t <= u =>
        /\ Since(Since(s, t), u) = Since(s, u)
        /\ Len(Since(s, u)) <= Len(Since(s, t))
<1> SUFFICES ASSUME NEW s \in Seq(Times), NEW t \in Int, NEW u \in Int, t <= u
             PROVE  /\ Since(Since(s, t), u) = Since(s, u)
                    /\ Len(Since(s, u)) <= Len(Since(s, t))
  OBVIOUS
<1> DEFINE late == {e \in 0 .. MaxTime : e > t}
           later == {e \in 0 .. MaxTime : e > u}
<1>1. Since(s, t) = Kept(s, late) /\ \A r : Since(r, u) = Kept(r, later)
  BY DEF Since
<1>2. later \subseteq late
  BY LimitsBounds
<1> HIDE DEF late, later
<1>3. /\ Kept(Kept(s, late), later) = Kept(s, later)
      /\ Len(Kept(s, later)) <= Len(Kept(s, late))
  BY <1>2, KeptOfKept
<1> QED
  BY <1>1, <1>3

\* and the equation for a list with one more.
LEMMA SinceLonger ==
    \A s \in Seq(Times), e \in Times, t \in Int :
        /\ e > t => Since(Longer(s, e), t) = Longer(Since(s, t), e)
        /\ ~(e > t) => Since(Longer(s, e), t) = Since(s, t)
<1> SUFFICES ASSUME NEW s \in Seq(Times), NEW e \in Times, NEW t \in Int
             PROVE  /\ e > t => Since(Longer(s, e), t) = Longer(Since(s, t), e)
                    /\ ~(e > t) => Since(Longer(s, e), t) = Since(s, t)
  OBVIOUS
<1> DEFINE late == {u \in 0 .. MaxTime : u > t}
<1>1. \A r : Since(r, t) = Kept(r, late)
  BY DEF Since
<1>2. e \in late <=> e > t
  BY DEF Times
<1> HIDE DEF late
<1>3. /\ e \in late => Kept(Longer(s, e), late) = Longer(Kept(s, late), e)
      /\ e \notin late => Kept(Longer(s, e), late) = Kept(s, late)
  BY KeptAppend
<1> QED
  BY <1>1, <1>2, <1>3

\* Nothing is left of a list whose times are all too early.
LEMMA SinceNothing ==
    \A s \in Seq(Times), t \in Int :
        (\A e : Among(e, s) => ~(e > t)) => Since(s, t) = EmptyList
<1> SUFFICES ASSUME NEW s \in Seq(Times), NEW t \in Int, \A e : Among(e, s) => ~(e > t)
             PROVE  Since(s, t) = EmptyList
  OBVIOUS
<1> DEFINE late == {u \in 0 .. MaxTime : u > t}
<1>1. Since(s, t) = Kept(s, late)
  BY DEF Since
<1>2. \A e \in late : ~Among(e, s)
  OBVIOUS
<1> HIDE DEF late
<1> QED
  BY <1>1, <1>2, KeptNothing

\* No window holds more times than there are in the list.
LEMMA WithinIsSmaller ==
    \A A : \A s \in Seq(A) : \A first, last :
        /\ Cardinality(Within(s, first, last)) \in Nat
        /\ Len(s) \in Nat /\ Cardinality(Within(s, first, last)) <= Len(s)
<1> SUFFICES ASSUME NEW A, NEW s \in Seq(A), NEW first, NEW last
             PROVE  /\ Cardinality(Within(s, first, last)) \in Nat
                    /\ Len(s) \in Nat /\ Cardinality(Within(s, first, last)) <= Len(s)
  OBVIOUS
<1>1. Len(s) \in Nat /\ DOMAIN s = 1 .. Len(s)
  BY LenProperties
<1>2. Within(s, first, last) \in SUBSET (1 .. Len(s))
  BY <1>1 DEF Within
<1>3. PICK n : n = Len(s)
  OBVIOUS
<1>4. IsFiniteSet(1 .. n) /\ Cardinality(1 .. n) = n
  <2>1. n \in Nat /\ n \in Int /\ 1 \in Int
    BY <1>1, <1>3
  <2>2. IsFiniteSet(1 .. n) /\ Cardinality(1 .. n) = IF 1 > n THEN 0 ELSE n - 1 + 1
    BY <2>1, FS_Interval
  <2> QED
    BY <2>1, <2>2
<1>5. /\ IsFiniteSet(Within(s, first, last))
      /\ Cardinality(Within(s, first, last)) <= Cardinality(1 .. n)
  BY <1>2, <1>3, <1>4, FS_Subset
<1> QED
  BY <1>1, <1>3, <1>4, <1>5, FS_CardinalityType

-----------------------------------------------------------------------------
(* Requests.                                                               *)

\* Sweeping forgets nothing that a window of a request to come reaches.
LEMMA CleanedKeeps ==
    ASSUME LimitsTypeOK, WindowInv
    PROVE  /\ Cleaned \in [Paths -> Seq(Times)]
           /\ \A p \in Paths :
                  /\ InOrder(Cleaned[p], now)
                  /\ \A t \in Int : t >= now - Window =>
                         Since(Cleaned[p], t) = Since(stamps[p], t)
<1>1. /\ stamps \in [Paths -> Seq(Times)]
      /\ now \in Int
      /\ \A p \in Paths : InOrder(stamps[p], now)
  BY LimitsBounds DEF LimitsTypeOK, WindowInv, Times
<1>2. CASE ~(now - swept > Sweep)
  <2>1. Cleaned = stamps
    BY <1>2 DEF Cleaned
  <2> QED
    BY <1>1, <2>1
<1>3. CASE now - swept > Sweep
  <2>1. Cleaned = [p \in Paths |-> IF IsStale(stamps[p]) THEN EmptyList ELSE stamps[p]]
    BY <1>3 DEF Cleaned, EmptyList
  <2>2. EmptyList \in Seq(Times) /\ InOrder(EmptyList, now)
    BY NothingIn DEF InOrder
  <2>3. Cleaned \in [Paths -> Seq(Times)]
    BY <1>1, <2>1, <2>2
  <2>4. \A p \in Paths : Cleaned[p] = IF IsStale(stamps[p]) THEN EmptyList ELSE stamps[p]
    BY <2>1
  <2>5. \A p \in Paths : InOrder(Cleaned[p], now)
    BY <1>1, <2>2, <2>4
  <2>6. ASSUME NEW p \in Paths, NEW t \in Int, t >= now - Window
        PROVE  Since(Cleaned[p], t) = Since(stamps[p], t)
    <3>1. CASE ~IsStale(stamps[p])
      BY <2>4, <3>1
    <3>2. CASE IsStale(stamps[p])
      <4>1. PICK s \in Seq(Times) : s = stamps[p]
        BY <1>1
      <4>2. PICK n : n = s[Len(s)]
        OBVIOUS
      <4>3. n < now - Sweep /\ InOrder(s, now)
        BY <1>1, <3>2, <4>1, <4>2 DEF IsStale
      <4>4. n \in Int
        <5>1. s # <<>>
          BY <3>2, <4>1 DEF IsStale
        <5>2. Len(s) \in 1 .. Len(s)
          BY <4>1, <5>1, EmptySeq, LenProperties
        <5> QED
          BY <4>1, <4>2, <5>2, ElementOfSeq, LimitsBounds DEF Times
      <4>5. ASSUME NEW e, Among(e, s) PROVE ~(e > t)
        <5>1. e <= n
          BY <4>2, <4>3, <4>5 DEF InOrder
        <5>2. e \in Int
          BY <4>1, <4>5, ElementOfSeq, LimitsBounds DEF Among, Times
        <5> QED
          BY <1>1, <2>6, <4>3, <4>4, <5>1, <5>2, LimitsBounds
      <4>6. Since(s, t) = EmptyList
        BY <4>1, <4>5, SinceNothing
      <4>7. Since(EmptyList, t) = EmptyList
        BY <2>2, NothingIn, SinceNothing
      <4> QED
        BY <2>4, <3>2, <4>1, <4>6, <4>7
    <3> QED
      BY <3>1, <3>2
  <2> QED
    BY <2>3, <2>5, <2>6
<1> QED
  BY <1>2, <1>3

\* A request to a path: its key's times are trimmed, it is let through or not.
LEMMA DispatchKeeps ==
    ASSUME LimitsInv, NEW p \in Paths, Dispatch(p)
    PROVE  LimitsInv'
<1> USE DEF LimitsInv
<1> DEFINE recent == Since(Cleaned[p], now - Window)
           earlier == Since(admitted[p], now - Window)
<1>1. /\ now \in Times /\ now \in Int /\ swept \in Times
      /\ stamps \in [Paths -> Seq(Times)] /\ admitted \in [Paths -> Seq(Times)]
      /\ now - Window \in Int /\ now - Window >= now - Window
  BY LimitsBounds DEF LimitsTypeOK, Times
<1>2. /\ Cleaned \in [Paths -> Seq(Times)]
      /\ \A q \in Paths :
             /\ InOrder(Cleaned[q], now)
             /\ \A t \in Int : t >= now - Window =>
                    Since(Cleaned[q], t) = Since(admitted[q], t)
  BY CleanedKeeps DEF WindowInv
<1>3. \A q \in Paths : Len(admitted[q]) <= LimitOf[q]
  BY DEF WindowInv
<1>4. recent = earlier /\ recent \in Seq(Times) /\ Len(recent) \in Nat
  BY <1>1, <1>2, SinceIsList
<1>5. now' = now /\ attempt' = attempt /\ failures' = failures /\ failed' = failed
  BY DEF Dispatch, failureVars
<1>6. swept' \in Times
  BY <1>1 DEF Dispatch
<1>7. LoginInv'
  BY <1>5 DEF LoginInv, Waiting
<1>8. CASE stamps' = Cleaned /\ UNCHANGED admitted
  <2>1. WindowInv'
    BY <1>2, <1>3, <1>5, <1>8 DEF WindowInv
  <2>2. LimitsTypeOK'
    BY <1>1, <1>2, <1>5, <1>6, <1>8 DEF LimitsTypeOK, Times
  <2> QED
    BY <1>7, <2>1, <2>2
<1>9. CASE /\ Len(recent) < LimitOf[p]
           /\ stamps' = [Cleaned EXCEPT ![p] = Append(recent, now)]
           /\ admitted' = [admitted EXCEPT ![p] = Append(earlier, now)]
  <2> HIDE DEF recent, earlier
  <2>1. PICK longer : longer = Longer(recent, now)
    OBVIOUS
  <2>2. /\ stamps' = [Cleaned EXCEPT ![p] = longer]
        /\ admitted' = [admitted EXCEPT ![p] = longer]
    BY <1>4, <1>9, <2>1 DEF Longer
  <2>3. /\ longer \in Seq(Times) /\ Len(longer) = Len(recent) + 1
        /\ longer[Len(recent) + 1] = now
        /\ \A e : Among(e, longer) => Among(e, recent) \/ e = now
    <3>1. now \in Times /\ recent \in Seq(Times)
      BY <1>1, <1>4
    <3>2. /\ Longer(recent, now) \in Seq(Times)
          /\ Len(Longer(recent, now)) = Len(recent) + 1
          /\ Longer(recent, now)[Len(recent) + 1] = now
      BY <3>1, LongerProperties
    <3>3. \A e : Among(e, Longer(recent, now)) => Among(e, recent) \/ e = now
      BY <3>1, OneLonger
    <3> QED
      BY <2>1, <3>2, <3>3
  <2>4. InOrder(longer, now)
    <3>1. longer[Len(longer)] = now
      BY <2>3
    <3>2. ASSUME NEW e, Among(e, longer) PROVE e <= now
      <4>1. CASE e = now
        BY <1>1, <4>1
      <4>2. CASE Among(e, recent)
        <5>1. Among(e, Cleaned[p])
          BY <1>1, <1>2, <4>2, SinceIsList DEF recent
        <5> QED
          BY <1>2, <5>1 DEF InOrder
      <4> QED
        BY <2>3, <3>2, <4>1, <4>2
    <3> QED
      BY <3>1, <3>2 DEF InOrder
  <2>5. Len(longer) <= LimitOf[p]
    BY <1>4, <1>9, <2>3, LimitsBounds
  <2>6. \A q \in Paths : /\ stamps'[q] = IF q = p THEN longer ELSE Cleaned[q]
                         /\ admitted'[q] = IF q = p THEN longer ELSE admitted[q]
    BY <1>1, <1>2, <2>2
  <2>7. WindowInv'
    BY <1>2, <1>3, <1>5, <2>4, <2>5, <2>6 DEF WindowInv
  <2>8. LimitsTypeOK'
    <3>1. stamps' \in [Paths -> Seq(Times)] /\ admitted' \in [Paths -> Seq(Times)]
      BY <1>1, <1>2, <2>2, <2>3
    <3> QED
      BY <1>5, <1>6, <3>1 DEF LimitsTypeOK, Times
  <2> QED
    BY <1>7, <2>7, <2>8
<1> QED
  BY <1>8, <1>9 DEF Dispatch

-----------------------------------------------------------------------------
(* The clock and the logins.                                               *)

\* The clock moves on: windows reach back less far.
LEMMA TickKeeps ==
    ASSUME LimitsInv, Tick
    PROVE  LimitsInv'
<1> USE DEF LimitsInv
<1>1. /\ now \in Int /\ now' = now + 1 /\ now' \in Times /\ now' \in Int
      /\ now - LoginWindow \in Int /\ now' - LoginWindow \in Int
      /\ now - LoginWindow <= now' - LoginWindow
      /\ failures \in Seq(Times)
  BY LimitsBounds DEF Tick, LimitsTypeOK, Times
<1>2. /\ stamps' = stamps /\ swept' = swept /\ admitted' = admitted
      /\ attempt' = attempt /\ failures' = failures /\ failed' = failed
  BY DEF Tick, failureVars
<1>3. LimitsTypeOK'
  BY <1>1, <1>2 DEF LimitsTypeOK, Times
<1>4. WindowInv'
  <2>1. \A p \in Paths : InOrder(stamps[p], now')
    <3>1. ASSUME NEW p \in Paths, NEW e, Among(e, stamps[p])
          PROVE  e <= now' /\ e <= stamps[p][Len(stamps[p])]
      <4>1. e <= now /\ e <= stamps[p][Len(stamps[p])]
        BY <3>1 DEF WindowInv, InOrder
      <4>2. e \in Int
        <5>1. stamps[p] \in Seq(Times)
          BY DEF LimitsTypeOK, Times
        <5> QED
          BY <3>1, <5>1, ElementOfSeq, LimitsBounds DEF Among, Times
      <4> QED
        BY <1>1, <4>1, <4>2
    <3> QED
      BY <3>1 DEF InOrder
  <2>2. \A t \in Int : t >= now' - Window => t >= now - Window
    BY <1>1, LimitsBounds
  <2>3. \A p \in Paths :
            /\ InOrder(stamps[p], now')
            /\ \A t \in Int : t >= now' - Window => Since(stamps[p], t) = Since(admitted[p], t)
            /\ Len(admitted[p]) <= LimitOf[p]
    BY <2>1, <2>2 DEF WindowInv
  <2> QED
    BY <1>1, <1>2, <2>3 DEF WindowInv
<1>5. LoginInv'
  <2>1. \A t \in Int : t >= now' - LoginWindow => t >= now - LoginWindow
    BY <1>1, LimitsBounds
  <2>2. Len(Since(failures, now' - LoginWindow)) <= Len(Since(failures, now - LoginWindow))
    BY <1>1, SinceSince
  <2>3. PICK a, b, c, d :
            /\ a = Len(Since(failures, now' - LoginWindow))
            /\ b = Len(Since(failures, now - LoginWindow))
            /\ c = Cardinality(Waiting) /\ d = MaxFailed - 1 + Cardinality(Attempts)
    OBVIOUS
  <2>4. a \in Nat /\ b \in Nat /\ c \in Nat /\ d \in Nat
    <3>1. Waiting \in SUBSET Attempts
      BY DEF Waiting
    <3>2. IsFiniteSet(Waiting)
      BY <3>1, LimitsBounds, FS_Subset
    <3>3. c \in Nat
      BY <2>3, <3>2, FS_CardinalityType
    <3>4. d \in Nat
      BY <2>3, LimitsBounds
    <3> QED
      BY <1>1, <2>3, <3>3, <3>4, SinceIsList
  <2>5. a <= b /\ b + c <= d
    BY <2>2, <2>3 DEF LoginInv
  <2>6. a + c <= d
    BY <2>4, <2>5
  <2>7. Waiting' = Waiting
    BY <1>2 DEF Waiting
  <2>8. /\ \A t \in Int : t >= now' - LoginWindow => Since(failures, t) = Since(failed, t)
        /\ Len(failed) <= MaxFailed - 1 + Cardinality(Attempts)
    BY <2>1 DEF LoginInv
  <2>9. Len(Since(failures, now' - LoginWindow)) + Cardinality(Waiting)
            <= MaxFailed - 1 + Cardinality(Attempts)
    BY <2>3, <2>6
  <2> QED
    BY <1>2, <2>7, <2>8, <2>9 DEF LoginInv
<1> QED
  BY <1>3, <1>4, <1>5

\* How many logins are past the limiter.
LEMMA WaitingCount ==
    ASSUME LimitsTypeOK, NEW l \in Attempts, NEW where,
           attempt' = [attempt EXCEPT ![l] = where]
    PROVE  /\ Cardinality(Waiting) \in Nat /\ Cardinality(Waiting') \in Nat
           /\ Cardinality(Waiting') <= Cardinality(Attempts)
           /\ where # "password" => Cardinality(Waiting') <= Cardinality(Waiting)
           /\ where # "password" /\ attempt[l] = "password" =>
                  Cardinality(Waiting') = Cardinality(Waiting) - 1
<1>1. Waiting \in SUBSET Attempts /\ Waiting' \in SUBSET Attempts
  BY DEF Waiting
<1>2. IsFiniteSet(Waiting) /\ IsFiniteSet(Waiting')
      /\ Cardinality(Waiting') <= Cardinality(Attempts)
  BY <1>1, LimitsBounds, FS_Subset
<1>3. Cardinality(Waiting) \in Nat /\ Cardinality(Waiting') \in Nat
  BY <1>2, FS_CardinalityType
<1>4. ASSUME where # "password" PROVE Waiting' = Waiting \ {l}
  BY <1>4 DEF Waiting, LimitsTypeOK
<1>5. Cardinality(Waiting \ {l}) =
          IF l \in Waiting THEN Cardinality(Waiting) - 1 ELSE Cardinality(Waiting)
  BY <1>2, FS_RemoveElement
<1>6. l \in Waiting <=> attempt[l] = "password"
  BY DEF Waiting
<1>7. ASSUME where # "password"
      PROVE  Cardinality(Waiting') = IF l \in Waiting THEN Cardinality(Waiting) - 1
                                     ELSE Cardinality(Waiting)
  BY <1>4, <1>5, <1>7
<1> QED
  BY <1>2, <1>3, <1>6, <1>7

\* A login asks the limiter, which trims its list.
LEMMA AskKeeps ==
    ASSUME LimitsInv, NEW l \in Attempts, AskLimiter(l)
    PROVE  LimitsInv'
<1> USE DEF LimitsInv
<1> DEFINE start == now - LoginWindow
           recent == Since(failures, start)
           top == MaxFailed - 1 + Cardinality(Attempts)
<1>1. /\ start \in Int /\ failures \in Seq(Times) /\ top \in Nat
      /\ attempt \in [Attempts -> {"new", "password", "done", "blocked"}]
  BY LimitsBounds DEF LimitsTypeOK, Times
<1>2. /\ now' = now /\ stamps' = stamps /\ swept' = swept /\ admitted' = admitted
      /\ failed' = failed /\ failures' = recent
      /\ attempt' = [attempt EXCEPT ![l] = IF Blocked(Len(recent)) THEN "blocked" ELSE "password"]
      /\ attempt[l] = "new"
  BY DEF AskLimiter, RecentFailures
<1>3. recent \in Seq(Times) /\ Len(recent) \in Nat
  BY <1>1, SinceIsList
<1>4. LimitsTypeOK'
  <2>1. attempt' \in [Attempts -> {"new", "password", "done", "blocked"}]
    BY <1>1, <1>2
  <2> QED
    BY <1>2, <1>3, <2>1 DEF LimitsTypeOK, Times
<1>5. WindowInv'
  BY <1>2 DEF WindowInv
<1>6. \A t \in Int : t >= start => Since(recent, t) = Since(failed, t)
  <2>1. \A t \in Int : t >= start => Since(recent, t) = Since(failures, t)
    BY <1>1, SinceSince
  <2> QED
    BY <2>1 DEF LoginInv
<1>7. Len(Since(recent, start)) = Len(recent)
  BY <1>1, SinceSince
<1>8. Len(recent) + Cardinality(Waiting') <= top
  <2>1. /\ Cardinality(Waiting) \in Nat /\ Cardinality(Waiting') \in Nat
        /\ Cardinality(Waiting') <= Cardinality(Attempts)
        /\ Blocked(Len(recent)) => Cardinality(Waiting') <= Cardinality(Waiting)
    BY <1>2, WaitingCount
  <2>2. CASE Blocked(Len(recent))
    <3>1. Len(recent) + Cardinality(Waiting) <= top
      BY DEF LoginInv
    <3> HIDE DEF recent, top
    <3> QED
      BY <1>1, <1>3, <2>1, <2>2, <3>1
  <2>3. CASE ~Blocked(Len(recent))
    <3>1. Len(recent) <= MaxFailed - 1
      <4> HIDE DEF recent
      <4> QED
        BY <1>3, <2>3, LimitsBounds DEF Blocked
    <3> HIDE DEF recent
    <3> QED
      BY <1>3, <2>1, <3>1, LimitsBounds
  <2> QED
    BY <2>2, <2>3
<1>9. LoginInv'
  <2>1. Len(failed) <= top
    BY DEF LoginInv
  <2> HIDE DEF recent
  <2> QED
    BY <1>2, <1>6, <1>7, <1>8, <2>1 DEF LoginInv
<1> QED
  BY <1>4, <1>5, <1>9

\* A login fails: one waits less, one failure is there more.
LEMMA FailureKeeps ==
    ASSUME LimitsInv, NEW l \in Attempts, LoginFails(l)
    PROVE  LimitsInv'
<1> USE DEF LimitsInv
<1> DEFINE start == now - LoginWindow
           recent == Since(failed, start)
           top == MaxFailed - 1 + Cardinality(Attempts)
<1>1. /\ start \in Int /\ failures \in Seq(Times) /\ failed \in Seq(Times)
      /\ top \in Nat /\ now \in Times /\ now \in Int /\ now > start
      /\ attempt \in [Attempts -> {"new", "password", "done", "blocked"}]
  BY LimitsBounds DEF LimitsTypeOK, Times
<1>2. /\ now' = now /\ stamps' = stamps /\ swept' = swept /\ admitted' = admitted
      /\ failures' = Longer(failures, now) /\ failed' = Longer(recent, now)
      /\ attempt' = [attempt EXCEPT ![l] = "done"]
      /\ attempt[l] = "password"
  BY DEF LoginFails, Longer
<1>3. recent \in Seq(Times) /\ Len(recent) \in Nat
  BY <1>1, SinceIsList
<1>4. \A t \in Int : t >= start =>
          Since(failures, t) = Since(failed, t) /\ Since(recent, t) = Since(failed, t)
  BY <1>1, SinceSince DEF LoginInv
<1> HIDE DEF recent
<1>5. /\ Longer(failures, now) \in Seq(Times) /\ Longer(recent, now) \in Seq(Times)
      /\ Len(Longer(recent, now)) = Len(recent) + 1
  BY <1>1, <1>3, OneLonger
<1>6. LimitsTypeOK'
  <2>1. attempt' \in [Attempts -> {"new", "password", "done", "blocked"}]
    BY <1>1, <1>2
  <2> QED
    BY <1>2, <1>5, <2>1 DEF LimitsTypeOK, Times
<1>7. WindowInv'
  BY <1>2 DEF WindowInv
<1>8. ASSUME NEW t \in Int, t >= start
      PROVE  Since(Longer(failures, now), t) = Since(Longer(recent, now), t)
  <2>1. Since(failures, t) = Since(recent, t)
    BY <1>4, <1>8
  <2>2. CASE now > t
    <3>1. Since(Longer(failures, now), t) = Longer(Since(failures, t), now)
      BY <1>1, <2>2, SinceLonger
    <3>2. Since(Longer(recent, now), t) = Longer(Since(recent, t), now)
      BY <1>1, <1>3, <2>2, SinceLonger
    <3> QED
      BY <2>1, <3>1, <3>2
  <2>3. CASE ~(now > t)
    <3>1. Since(Longer(failures, now), t) = Since(failures, t)
      BY <1>1, <2>3, SinceLonger
    <3>2. Since(Longer(recent, now), t) = Since(recent, t)
      BY <1>1, <1>3, <2>3, SinceLonger
    <3> QED
      BY <2>1, <3>1, <3>2
  <2> QED
    BY <2>2, <2>3
<1>9. Len(Since(Longer(failures, now), start)) = Len(recent) + 1
  <2>1. Since(Longer(failures, now), start) = Longer(Since(failures, start), now)
    BY <1>1, SinceLonger
  <2>2. Since(failures, start) = recent
    BY <1>1, <1>4 DEF recent
  <2> QED
    BY <1>5, <2>1, <2>2
<1>10. /\ Len(recent) + 1 + Cardinality(Waiting') <= top
       /\ Len(recent) + 1 <= top
  <2>1. /\ Cardinality(Waiting) \in Nat /\ Cardinality(Waiting') \in Nat
        /\ Cardinality(Waiting') = Cardinality(Waiting) - 1
    <3>1. PICK where : where = "done"
      OBVIOUS
    <3>2. where # "password" /\ attempt' = [attempt EXCEPT ![l] = where]
      BY <1>2, <3>1
    <3> QED
      BY <1>2, <3>2, WaitingCount
  <2>2. Len(recent) + Cardinality(Waiting) <= top
    <3>1. Since(failures, start) = recent
      BY <1>1, <1>4 DEF recent
    <3> QED
      BY <3>1 DEF LoginInv
  <2> HIDE DEF top
  <2> QED
    BY <1>1, <1>3, <2>1, <2>2
<1>11. LoginInv'
  BY <1>2, <1>5, <1>8, <1>9, <1>10 DEF LoginInv
<1> QED
  BY <1>6, <1>7, <1>11

\* A deactivated account: one waits less, and the lists are the same.
LEMMA ForbiddenKeeps ==
    ASSUME LimitsInv, NEW l \in Attempts, LoginForbidden(l)
    PROVE  LimitsInv'
<1> USE DEF LimitsInv
<1>1. /\ now' = now /\ stamps' = stamps /\ swept' = swept /\ admitted' = admitted
      /\ failures' = failures /\ failed' = failed
      /\ attempt' = [attempt EXCEPT ![l] = "done"]
      /\ attempt[l] = "password"
  BY DEF LoginForbidden
<1>2. LimitsTypeOK'
  BY <1>1 DEF LimitsTypeOK
<1>3. WindowInv'
  BY <1>1 DEF WindowInv
<1>4. /\ Cardinality(Waiting) \in Nat /\ Cardinality(Waiting') \in Nat
      /\ Cardinality(Waiting') = Cardinality(Waiting) - 1
  <2>1. PICK where : where = "done"
    OBVIOUS
  <2>2. where # "password" /\ attempt' = [attempt EXCEPT ![l] = where]
    BY <1>1, <2>1
  <2> QED
    BY <1>1, <2>2, WaitingCount
<1>5. Len(Since(failures, now - LoginWindow)) \in Nat
  <2>1. now - LoginWindow \in Int /\ failures \in Seq(Times)
    BY LimitsBounds DEF LimitsTypeOK, Times
  <2> QED
    BY <2>1, SinceIsList
<1>6. Len(Since(failures, now - LoginWindow)) + Cardinality(Waiting')
          <= MaxFailed - 1 + Cardinality(Attempts)
  <2>1. Len(Since(failures, now - LoginWindow)) + Cardinality(Waiting)
            <= MaxFailed - 1 + Cardinality(Attempts)
    BY DEF LoginInv
  <2> QED
    BY <1>4, <1>5, <2>1, LimitsBounds
<1>7. LoginInv'
  BY <1>1, <1>6 DEF LoginInv
<1> QED
  BY <1>2, <1>3, <1>7

\* A login succeeds: no failures are left.
LEMMA SuccessKeeps ==
    ASSUME LimitsInv, NEW l \in Attempts, LoginSucceeds(l)
    PROVE  LimitsInv'
<1> USE DEF LimitsInv
<1>1. /\ now \in Times /\ now - LoginWindow \in Int
      /\ attempt \in [Attempts -> {"new", "password", "done", "blocked"}]
  BY LimitsBounds DEF LimitsTypeOK, Times
<1>2. /\ now' = now /\ stamps' = stamps /\ swept' = swept /\ admitted' = admitted
      /\ failures' = EmptyList /\ failed' = EmptyList
      /\ attempt' = [attempt EXCEPT ![l] = "done"]
  BY DEF LoginSucceeds, EmptyList
<1>3. EmptyList \in Seq(Times) /\ Len(EmptyList) = 0
  BY NothingIn
<1>4. LimitsTypeOK'
  <2>1. attempt' \in [Attempts -> {"new", "password", "done", "blocked"}]
    BY <1>1, <1>2
  <2> QED
    BY <1>2, <1>3, <2>1 DEF LimitsTypeOK, Times
<1>5. WindowInv'
  BY <1>2 DEF WindowInv
<1>6. Len(Since(EmptyList, now - LoginWindow)) = 0
  BY <1>1, <1>3, NothingIn, SinceNothing
<1>7. Cardinality(Waiting') \in Nat /\ Cardinality(Waiting') <= Cardinality(Attempts)
  BY <1>2, WaitingCount
<1>8. /\ 0 + Cardinality(Waiting') <= MaxFailed - 1 + Cardinality(Attempts)
      /\ 0 <= MaxFailed - 1 + Cardinality(Attempts)
  BY <1>7, LimitsBounds
<1>9. LoginInv'
  BY <1>2, <1>3, <1>6, <1>8 DEF LoginInv
<1> QED
  BY <1>4, <1>5, <1>9

\* A client tries again.
LEMMA AgainKeeps ==
    ASSUME LimitsInv, NEW l \in Attempts, TryAgain(l)
    PROVE  LimitsInv'
<1> USE DEF LimitsInv
<1>1. /\ now' = now /\ stamps' = stamps /\ swept' = swept /\ admitted' = admitted
      /\ failures' = failures /\ failed' = failed
      /\ attempt' = [attempt EXCEPT ![l] = "new"] /\ attempt[l] # "password"
  BY DEF TryAgain
<1>2. LimitsTypeOK'
  BY <1>1 DEF LimitsTypeOK
<1>3. WindowInv'
  BY <1>1 DEF WindowInv
<1>4. Waiting' = Waiting
  BY <1>1 DEF Waiting, LimitsTypeOK
<1>5. LoginInv'
  BY <1>1, <1>4 DEF LoginInv
<1> QED
  BY <1>2, <1>3, <1>5

-----------------------------------------------------------------------------

LEMMA LimitsInitially == LimitsInit => LimitsInv
<1> SUFFICES ASSUME LimitsInit PROVE LimitsInv
  OBVIOUS
<1> USE DEF LimitsInit
<1>1. EmptyList \in Seq(Times) /\ Len(EmptyList) = 0 /\ InOrder(EmptyList, now)
  BY NothingIn DEF InOrder
<1>2. /\ stamps = [p \in Paths |-> EmptyList] /\ admitted = [p \in Paths |-> EmptyList]
      /\ failures = EmptyList /\ failed = EmptyList
  BY DEF EmptyList
<1>3. LimitsTypeOK
  BY <1>1, <1>2, LimitsBounds DEF LimitsTypeOK, Times
<1>4. WindowInv
  BY <1>1, <1>2, LimitsBounds DEF WindowInv
<1>5. LoginInv
  <2>1. Waiting = {} /\ Cardinality({}) = 0
    BY FS_EmptySet DEF Waiting
  <2>2. now - LoginWindow \in Int
    BY LimitsBounds
  <2>3. Len(Since(EmptyList, now - LoginWindow)) = 0
    BY <1>1, <2>2, NothingIn, SinceNothing
  <2> QED
    BY <1>1, <1>2, <2>1, <2>3, LimitsBounds DEF LoginInv
<1> QED
  BY <1>3, <1>4, <1>5 DEF LimitsInv

\* Every step keeps LimitsInv, of whichever limiter.
LEMMA LimitsKept ==
    LimitsInv /\ [MiddlewareNext \/ LoginNext]_limitVars => LimitsInv'
<1> SUFFICES ASSUME LimitsInv, [MiddlewareNext \/ LoginNext]_limitVars PROVE LimitsInv'
  OBVIOUS
<1>1. CASE Tick
  BY <1>1, TickKeeps
<1>2. CASE \E p \in Paths : Dispatch(p)
  BY <1>2, DispatchKeeps
<1>3. CASE \E l \in Attempts : \/ AskLimiter(l) \/ LoginFails(l) \/ LoginForbidden(l)
                              \/ LoginSucceeds(l) \/ TryAgain(l)
  BY <1>3, AskKeeps, FailureKeeps, ForbiddenKeeps, SuccessKeeps, AgainKeeps
<1>4. CASE UNCHANGED limitVars
  BY <1>4 DEF limitVars, LimitsInv, LimitsTypeOK, WindowInv, LoginInv, Waiting
<1> QED
  BY <1>1, <1>2, <1>3, <1>4 DEF MiddlewareNext, LoginNext

\* In no window are more requests of one address let through to a path than
\* its limit, for any number of paths, limits and windows, although the
\* middleware trims a key's times with every request and sweeps stale keys
\* (RateLimitMiddleware.dispatch, _cleanup_old_entries).
THEOREM WindowLimitCorrect == LimitsSpec => []WindowLimit
<1>1. LimitsInv => WindowLimit
  <2>1. SUFFICES ASSUME LimitsInv, NEW p \in Paths, NEW t \in 0 .. now
                 PROVE  Cardinality(Within(admitted[p], t, t + Window - 1)) <= LimitOf[p]
    BY DEF WindowLimit
  <2>2. admitted[p] \in Seq(Times) /\ Len(admitted[p]) <= LimitOf[p] /\ LimitOf[p] \in Nat
    BY <2>1, LimitsBounds DEF LimitsInv, LimitsTypeOK, WindowInv, Times
  <2>3. PICK last : last = t + Window - 1
    OBVIOUS
  <2>4. /\ Cardinality(Within(admitted[p], t, last)) \in Nat /\ Len(admitted[p]) \in Nat
        /\ Cardinality(Within(admitted[p], t, last)) <= Len(admitted[p])
    BY <2>2, WithinIsSmaller
  <2> QED
    BY <2>2, <2>3, <2>4
<1> QED
  BY <1>1, LimitsInitially, LimitsKept, PTL DEF LimitsSpec

\* No window sees more failed logins than the limit and those that were past
\* the limiter when it closed, unless one succeeded in it, for any number of
\* logins (is_blocked, record_failure, reset as login calls them).
THEOREM FailuresBoundedCorrect == LimitsSpec => []FailuresBounded
<1>1. LimitsInv => FailuresBounded
  <2>1. SUFFICES ASSUME LimitsInv, NEW t \in 0 .. now
                 PROVE  Cardinality(Within(failed, t, t + LoginWindow - 1))
                            <= MaxFailed - 1 + Cardinality(Attempts)
    BY DEF FailuresBounded
  <2>2. PICK last, top : last = t + LoginWindow - 1 /\ top = MaxFailed - 1 + Cardinality(Attempts)
    OBVIOUS
  <2>3. failed \in Seq(Times) /\ Len(failed) <= top /\ top \in Nat
    BY <2>1, <2>2, LimitsBounds DEF LimitsInv, LimitsTypeOK, LoginInv, Times
  <2>4. /\ Cardinality(Within(failed, t, last)) \in Nat /\ Len(failed) \in Nat
        /\ Cardinality(Within(failed, t, last)) <= Len(failed)
    BY <2>3, WithinIsSmaller
  <2> QED
    BY <2>2, <2>3, <2>4
<1> QED
  BY <1>1, LimitsInitially, LimitsKept, PTL DEF LimitsSpec

-----------------------------------------------------------------------------
(***************************************************************************)
(* WebSockets: a window hears a message once, and one that is open is      *)
(* registered.                                                             *)
(***************************************************************************)

\* Every list that was ever registered has connections of one user, each
\* once, and they have been accepted.
ListsInv ==
    \A k \in 1 .. Len(lists) :
        /\ \E w : Among(w, lists[k])
        /\ Single(lists[k])
        /\ \A v, w : Among(v, lists[k]) /\ Among(w, lists[k]) => OwnerOf[v] = OwnerOf[w]
        /\ \A w : Among(w, lists[k]) => socket[w] # "new"

\* The list registered for a user has the user's connections, all that are
\* open among them.
EntryInv ==
    /\ \A u \in Clients : \A w : Among(w, Elements(entry[u])) => OwnerOf[w] = u
    /\ \A w \in Sockets : socket[w] = "open" => Among(w, Elements(entry[OwnerOf[w]]))

\* What a send iterates over, and what it has yet to deal with.
Iterated(s) == Elements(list[s])
Ahead(s, w) == \E i \in 1 .. Len(Iterated(s)) : i > position[s] /\ Iterated(s)[i] = w

\* A send has yet to reach the users in its queue and the connections ahead;
\* those it has passed were sent the message or were not open.
SendInv(s) ==
    /\ \A w \in Sockets : got[s][w] \in {0, 1}
    /\ \A w \in Sockets : socket[w] = "new" => got[s][w] = 0 /\ w \notin present[s]
    /\ sendStep[s] = "idle" => present[s] = {} /\ \A w \in Sockets : got[s][w] = 0
    /\ sendStep[s] = "sending" =>
           /\ Single(queue[s])
           /\ \A w \in Sockets : Among(OwnerOf[w], queue[s]) => got[s][w] = 0
           /\ \A w : Among(w, Iterated(s)) => ~Among(OwnerOf[w], queue[s])
           /\ \A w : Ahead(s, w) => got[s][w] = 0
    /\ \A w \in present[s] : socket[w] = "open" =>
           got[s][w] = 1 \/ (sendStep[s] = "sending" /\ Ahead(s, w))
    /\ \A w \in dead[s] : Among(w, Iterated(s)) /\ socket[w] # "open"

SocketsInv == WebSocketsTypeOK /\ ListsInv /\ EntryInv /\ \A s \in Sends : SendInv(s)

\* The types, in the form the proofs use them.
LEMMA SocketTypes ==
    ASSUME WebSocketsTypeOK
    PROVE  /\ lists \in Seq(Seq(Sockets)) /\ Len(lists) \in Nat
           /\ \A k \in 1 .. Len(lists) : lists[k] \in Seq(Sockets)
           /\ entry \in [Clients -> 0 .. Len(lists)]
           /\ list \in [Sends -> 0 .. Len(lists)]
           /\ OwnerOf \in [Sockets -> Clients]
<1>1. lists \in Seq(Seq(Sockets)) /\ Len(lists) \in Nat
  BY LenProperties DEF WebSocketsTypeOK
<1>2. \A k \in 1 .. Len(lists) : lists[k] \in Seq(Sockets)
  BY <1>1, ElementOfSeq
<1> QED
  BY <1>1, <1>2, WebSocketsAssumption DEF WebSocketsTypeOK, WebSocketsAssumption

\* The connections of a list, the empty one for a user without any.
LEMMA ElementsTypes ==
    ASSUME WebSocketsTypeOK
    PROVE  \A k \in 0 .. Len(lists) :
               /\ Elements(k) \in Seq(Sockets) /\ Len(Elements(k)) \in Nat
               /\ \A w : Among(w, Elements(k)) => w \in Sockets
<1>1. /\ Len(lists) \in Nat
      /\ \A k \in 1 .. Len(lists) : lists[k] \in Seq(Sockets)
  BY SocketTypes
<1> SUFFICES ASSUME NEW k \in 0 .. Len(lists)
             PROVE  /\ Elements(k) \in Seq(Sockets) /\ Len(Elements(k)) \in Nat
                    /\ \A w : Among(w, Elements(k)) => w \in Sockets
  OBVIOUS
<1>2. Elements(k) \in Seq(Sockets)
  <2>1. CASE k = 0
    <3>1. Elements(k) = EmptyList
      BY <2>1 DEF Elements, EmptyList
    <3> QED
      BY <3>1, NothingIn
  <2>2. CASE k # 0
    <3>1. k \in 1 .. Len(lists)
      BY <1>1, <2>2
    <3> QED
      BY <1>1, <2>2, <3>1 DEF Elements
  <2> QED
    BY <2>1, <2>2
<1>3. Len(Elements(k)) \in Nat /\ \A i \in 1 .. Len(Elements(k)) : Elements(k)[i] \in Sockets
  BY <1>2, LenProperties, ElementOfSeq
<1> QED
  BY <1>2, <1>3 DEF Among

-----------------------------------------------------------------------------
(* A send that does nothing in a step, whatever is registered meanwhile.   *)

\* Nothing of s changes.
SendStays(s) ==
    /\ sendStep'[s] = sendStep[s] /\ queue'[s] = queue[s] /\ list'[s] = list[s]
    /\ position'[s] = position[s] /\ dead'[s] = dead[s]
    /\ present'[s] = present[s] /\ got'[s] = got[s]

\* Only a new connection can become open.
SocketsMoveOn ==
    \A w \in Sockets :
        /\ socket'[w] = "open" => socket[w] \in {"open", "new"}
        /\ socket'[w] = "new" => socket[w] = "new"

\* What is iterated over has been accepted, and a dead connection stays dead.
LEMMA IteratedAccepted ==
    ASSUME SocketsInv, NEW s \in Sends
    PROVE  /\ Iterated(s) \in Seq(Sockets) /\ Len(Iterated(s)) \in Nat
           /\ \A w : Among(w, Iterated(s)) => w \in Sockets /\ socket[w] # "new"
           /\ \A v, w : Among(v, Iterated(s)) /\ Among(w, Iterated(s)) => OwnerOf[v] = OwnerOf[w]
<1>1. list[s] \in 0 .. Len(lists) /\ Len(lists) \in Nat
  BY SocketTypes DEF SocketsInv
<1>2. /\ Iterated(s) \in Seq(Sockets) /\ Len(Iterated(s)) \in Nat
      /\ \A w : Among(w, Iterated(s)) => w \in Sockets
  BY <1>1, ElementsTypes DEF SocketsInv, Iterated
<1>3. CASE list[s] = 0
  <2>1. \A w : ~Among(w, Iterated(s))
    BY <1>3, NothingIn DEF Iterated, Elements, EmptyList
  <2> QED
    BY <1>2, <2>1
<1>4. CASE list[s] # 0
  <2>1. Iterated(s) = lists[list[s]] /\ list[s] \in 1 .. Len(lists)
    BY <1>1, <1>4 DEF Iterated, Elements
  <2> QED
    BY <1>2, <2>1 DEF SocketsInv, ListsInv
<1> QED
  BY <1>3, <1>4

\* A send is as it was when its list is.
LEMMA SendUndisturbed ==
    ASSUME SocketsInv, NEW s \in Sends, SendStays(s), SocketsMoveOn,
           Iterated(s)' = Iterated(s)
    PROVE  SendInv(s)'
<1>1. SendInv(s) /\ dead[s] \subseteq Sockets /\ present[s] \subseteq Sockets
  BY DEF SocketsInv, WebSocketsTypeOK
<1>2. \A w : Ahead(s, w)' <=> Ahead(s, w)
  BY DEF Ahead, SendStays
<1>3. \A w : Among(w, Iterated(s))' <=> Among(w, Iterated(s))
  BY DEF Among
<1>4. \A w \in dead[s] : Among(w, Iterated(s)) /\ socket'[w] # "open"
  BY <1>1, IteratedAccepted DEF SendInv, SocketsMoveOn
<1>5. \A w \in present[s] : socket'[w] = "open" =>
          got[s][w] = 1 \/ (sendStep[s] = "sending" /\ Ahead(s, w))
  BY <1>1 DEF SendInv, SocketsMoveOn
<1>6. \A w \in Sockets : socket'[w] = "new" => got[s][w] = 0 /\ w \notin present[s]
  BY <1>1 DEF SendInv, SocketsMoveOn
<1> QED
  BY <1>1, <1>2, <1>3, <1>4, <1>5, <1>6 DEF SendInv, SendStays

\* The list a send iterates over has grown at its end.
LEMMA SendJoined ==
    ASSUME SocketsInv, NEW s \in Sends, SendStays(s), SocketsMoveOn,
           NEW w \in Sockets, socket[w] = "new",
           Among(OwnerOf[w], queue[s]) => sendStep[s] # "sending",
           Iterated(s)' = Longer(Iterated(s), w)
    PROVE  SendInv(s)'
<1>1. SendInv(s) /\ dead[s] \subseteq Sockets /\ present[s] \subseteq Sockets
  BY DEF SocketsInv, WebSocketsTypeOK
<1>2. PICK n : n = Len(Iterated(s))
  OBVIOUS
<1>3. /\ n \in Nat
      /\ Len(Iterated(s)') = n + 1
      /\ \A i \in 1 .. n : Iterated(s)'[i] = Iterated(s)[i]
      /\ Iterated(s)'[n + 1] = w
  <2>1. Iterated(s) \in Seq(Sockets) /\ n \in Nat
    BY <1>2, IteratedAccepted
  <2>2. PICK x \in Seq(Sockets) : x = Iterated(s)
    BY <2>1
  <2>3. /\ Len(Longer(x, w)) = Len(x) + 1
        /\ \A i \in 1 .. Len(x) : Longer(x, w)[i] = x[i]
        /\ Longer(x, w)[Len(x) + 1] = w
    BY LongerProperties
  <2> QED
    BY <1>2, <2>1, <2>2, <2>3
<1>4. \A i : i \in 1 .. n + 1 <=> i \in 1 .. n \/ i = n + 1
  BY <1>3
<1>5. \A v : Ahead(s, v)' => Ahead(s, v) \/ v = w
  BY <1>2, <1>3, <1>4 DEF Ahead, SendStays
<1>6. \A v : Ahead(s, v) => Ahead(s, v)'
  BY <1>2, <1>3, <1>4 DEF Ahead, SendStays
<1>7. \A v : Among(v, Iterated(s)') <=> Among(v, Iterated(s)) \/ v = w
  BY <1>2, <1>3, <1>4 DEF Among
<1>8. \A v \in dead[s] : Among(v, Iterated(s)) /\ socket'[v] # "open"
  BY <1>1, IteratedAccepted DEF SendInv, SocketsMoveOn
<1>9. \A v \in present[s] : socket'[v] = "open" =>
          got[s][v] = 1 \/ (sendStep[s] = "sending" /\ Ahead(s, v))
  BY <1>1 DEF SendInv, SocketsMoveOn
<1>10. \A v \in Sockets : socket'[v] = "new" => got[s][v] = 0 /\ v \notin present[s]
  BY <1>1 DEF SendInv, SocketsMoveOn
<1>11. got[s][w] = 0
  BY <1>1 DEF SendInv
<1>12. sendStep[s] = "sending" =>
           /\ \A v : Among(v, Iterated(s)') => ~Among(OwnerOf[v], queue[s])
           /\ \A v : Ahead(s, v)' => got[s][v] = 0
  BY <1>1, <1>5, <1>7, <1>11 DEF SendInv
<1> QED
  BY <1>1, <1>6, <1>7, <1>8, <1>9, <1>10, <1>12 DEF SendInv, SendStays

-----------------------------------------------------------------------------
(* Connections come and go.                                                *)

\* A connection is accepted and registered.
LEMMA ConnectKeeps ==
    ASSUME SocketsInv, NEW w \in Sockets, Connect(w)
    PROVE  SocketsInv'
<1> DEFINE u == OwnerOf[w]
<1>1. /\ socket[w] = "new" /\ socket' = [socket EXCEPT ![w] = "open"]
      /\ sendStep' = sendStep /\ queue' = queue /\ list' = list
      /\ position' = position /\ dead' = dead /\ present' = present /\ got' = got
  BY DEF Connect
<1>2. /\ lists \in Seq(Seq(Sockets)) /\ Len(lists) \in Nat
      /\ \A k \in 1 .. Len(lists) : lists[k] \in Seq(Sockets)
      /\ entry \in [Clients -> 0 .. Len(lists)]
      /\ list \in [Sends -> 0 .. Len(lists)]
      /\ OwnerOf \in [Sockets -> Clients] /\ u \in Clients
  BY SocketTypes DEF SocketsInv
<1>3. /\ socket' \in [Sockets -> {"new", "open", "gone", "closed"}]
      /\ socket'[w] = "open" /\ \A v \in Sockets : v # w => socket'[v] = socket[v]
      /\ SocketsMoveOn
  BY <1>1 DEF SocketsInv, WebSocketsTypeOK, SocketsMoveOn
<1>4. \A s \in Sends : SendStays(s)
  BY <1>1 DEF SendStays
<1>5. CASE entry[u] = 0
  <2>1. PICK one : one = Longer(EmptyList, w)
    OBVIOUS
  <2>2. one \in Seq(Sockets) /\ Single(one) /\ \A v : Among(v, one) <=> v = w
    BY <2>1, NothingIn, OneLonger
  <2>3. PICK n : n = Len(lists) + 1
    OBVIOUS
  <2>4. /\ lists' \in Seq(Seq(Sockets)) /\ Len(lists') = n
        /\ \A k \in 1 .. Len(lists) : lists'[k] = lists[k]
        /\ lists'[n] = one
    <3>1. lists' = Longer(lists, one)
      <4>1. <<w>> = Append(<<>>, w)
        OBVIOUS
      <4>2. <<w>> = one
        BY <2>1, <4>1 DEF Longer, EmptyList
      <4>3. lists' = Append(lists, <<w>>)
        BY <1>5 DEF Connect
      <4> QED
        BY <4>2, <4>3 DEF Longer
    <3>2. /\ Longer(lists, one) \in Seq(Seq(Sockets))
          /\ Len(Longer(lists, one)) = Len(lists) + 1
          /\ \A k \in 1 .. Len(lists) : Longer(lists, one)[k] = lists[k]
          /\ Longer(lists, one)[Len(lists) + 1] = one
      BY <1>2, <2>2, LongerProperties
    <3> QED
      BY <2>3, <3>1, <3>2
  <2>5. entry' = [entry EXCEPT ![u] = n]
    BY <1>5, <2>3 DEF Connect
  <2>6. /\ n \in Nat /\ n # 0 /\ 0 .. Len(lists) \subseteq 0 .. n
        /\ n \in 0 .. n
        /\ \A k : k \in 1 .. n <=> k \in 1 .. Len(lists) \/ k = n
    BY <1>2, <2>3
  <2>7. /\ entry' \in [Clients -> 0 .. n] /\ list' \in [Sends -> 0 .. n]
        /\ entry'[u] = n /\ \A c \in Clients : c # u => entry'[c] = entry[c]
    BY <1>1, <1>2, <2>5, <2>6
  <2>8. WebSocketsTypeOK'
    BY <1>1, <1>3, <2>4, <2>7 DEF SocketsInv, WebSocketsTypeOK
  <2>9. ListsInv'
    <3>1. \A k \in 1 .. Len(lists) :
              /\ \E v : Among(v, lists[k])
              /\ Single(lists[k])
              /\ \A a, b : Among(a, lists[k]) /\ Among(b, lists[k]) => OwnerOf[a] = OwnerOf[b]
              /\ \A v : Among(v, lists[k]) => socket'[v] # "new"
      <4>1. \A k \in 1 .. Len(lists) : \A v : Among(v, lists[k]) => v \in Sockets
        BY <1>2, ElementOfSeq DEF Among
      <4> QED
        BY <1>3, <4>1 DEF SocketsInv, ListsInv, SocketsMoveOn
    <3>2. /\ \E v : Among(v, one)
          /\ Single(one)
          /\ \A a, b : Among(a, one) /\ Among(b, one) => OwnerOf[a] = OwnerOf[b]
          /\ \A v : Among(v, one) => socket'[v] # "new"
      BY <1>3, <2>2
    <3>3. ASSUME NEW k \in 1 .. Len(lists')
          PROVE  /\ \E v : Among(v, lists'[k])
                 /\ Single(lists'[k])
                 /\ \A a, b : Among(a, lists'[k]) /\ Among(b, lists'[k]) => OwnerOf[a] = OwnerOf[b]
                 /\ \A v : Among(v, lists'[k]) => socket'[v] # "new"
      <4>1. CASE k \in 1 .. Len(lists)
        BY <2>4, <3>1, <4>1
      <4>2. CASE k = n
        BY <2>4, <3>2, <4>2
      <4> QED
        BY <2>4, <2>6, <4>1, <4>2
    <3> QED
      BY <3>3 DEF ListsInv
  <2>10. \A k \in 0 .. Len(lists) : Elements(k)' = Elements(k)
    BY <1>2, <2>4 DEF Elements
  <2>11. Elements(entry[u])' = one
    BY <2>4, <2>6, <2>7 DEF Elements
  <2>12. \A c \in Clients : c # u => Elements(entry[c])' = Elements(entry[c])
    BY <1>2, <2>4, <2>7 DEF Elements
  <2>13. EntryInv'
    <3>1. \A c \in Clients : \A v : Among(v, Elements(entry[c])') => OwnerOf[v] = c
      BY <2>2, <2>11, <2>12 DEF SocketsInv, EntryInv
    <3>2. ASSUME NEW v \in Sockets, socket'[v] = "open"
          PROVE  Among(v, Elements(entry[OwnerOf[v]])')
      <4>1. CASE v = w
        BY <2>2, <2>11, <4>1
      <4>2. CASE v # w
        <5>1. Among(v, Elements(entry[OwnerOf[v]]))
          BY <1>3, <3>2, <4>2 DEF SocketsInv, EntryInv
        <5>2. OwnerOf[v] # u
          BY <1>5, <5>1, NothingIn DEF Elements, EmptyList
        <5> QED
          BY <1>2, <2>12, <5>1, <5>2
      <4> QED
        BY <4>1, <4>2
    <3> QED
      BY <3>1, <3>2 DEF EntryInv
  <2>14. \A s \in Sends : SendInv(s)'
    <3>1. \A s \in Sends : Iterated(s)' = Iterated(s)
      BY <1>1, <1>2, <2>4 DEF Iterated, Elements
    <3> QED
      BY <1>3, <1>4, <3>1, SendUndisturbed
  <2> QED
    BY <2>8, <2>9, <2>13, <2>14 DEF SocketsInv
<1>6. CASE entry[u] # 0
  <2>1. PICK k : k = entry[u]
    OBVIOUS
  <2>2. k \in 1 .. Len(lists) /\ lists[k] \in Seq(Sockets) /\ Elements(k) = lists[k]
    BY <1>2, <1>6, <2>1 DEF Elements
  <2>3. PICK old, longer : old = lists[k] /\ longer = Longer(old, w)
    OBVIOUS
  <2>4. ~Among(w, old) /\ Single(old)
    BY <1>1, <2>2, <2>3 DEF SocketsInv, ListsInv
  <2>5. /\ longer \in Seq(Sockets) /\ Single(longer)
        /\ \A v : Among(v, longer) <=> Among(v, old) \/ v = w
    BY <2>2, <2>3, <2>4, OneLonger
  <2>6. lists' = [lists EXCEPT ![k] = longer] /\ entry' = entry
    BY <1>6, <2>1, <2>3 DEF Connect, Longer
  <2>7. /\ lists' \in Seq(Seq(Sockets)) /\ Len(lists') = Len(lists)
        /\ \A j \in 1 .. Len(lists) : lists'[j] = IF j = k THEN longer ELSE lists[j]
    <3>1. PICK x \in Seq(Seq(Sockets)) : x = lists
      BY <1>2
    <3>2. k \in 1 .. Len(x) /\ longer \in Seq(Sockets)
      BY <2>2, <2>5, <3>1
    <3>3. /\ [x EXCEPT ![k] = longer] \in Seq(Seq(Sockets))
          /\ Len([x EXCEPT ![k] = longer]) = Len(x)
          /\ \A j \in 1 .. Len(x) : [x EXCEPT ![k] = longer][j] = IF j = k THEN longer ELSE x[j]
      BY <3>2, ExceptSeq
    <3> QED
      BY <2>6, <3>1, <3>3
  <2>8. WebSocketsTypeOK'
    BY <1>1, <1>2, <1>3, <2>6, <2>7 DEF SocketsInv, WebSocketsTypeOK
  <2>9. \A v : Among(v, old) => v \in Sockets /\ OwnerOf[v] = u /\ socket[v] # "new"
    <3>1. \A v : Among(v, old) => v \in Sockets
      BY <2>2, <2>3, ElementOfSeq DEF Among
    <3>2. \A v : Among(v, old) => OwnerOf[v] = u
      BY <1>2, <2>1, <2>2, <2>3 DEF SocketsInv, EntryInv
    <3> QED
      BY <2>2, <2>3, <3>1, <3>2 DEF SocketsInv, ListsInv
  <2>10. ListsInv'
    <3>1. ASSUME NEW j \in 1 .. Len(lists')
          PROVE  /\ \E v : Among(v, lists'[j])
                 /\ Single(lists'[j])
                 /\ \A a, b : Among(a, lists'[j]) /\ Among(b, lists'[j]) => OwnerOf[a] = OwnerOf[b]
                 /\ \A v : Among(v, lists'[j]) => socket'[v] # "new"
      <4>1. CASE j = k
        <5>1. lists'[j] = longer
          BY <2>2, <2>7, <4>1
        <5>2. \A v : Among(v, longer) => OwnerOf[v] = u /\ socket'[v] # "new"
          BY <1>3, <2>5, <2>9 DEF SocketsMoveOn
        <5> QED
          BY <2>5, <5>1, <5>2
      <4>2. CASE j # k
        <5>1. lists'[j] = lists[j] /\ j \in 1 .. Len(lists)
          BY <2>7, <3>1, <4>2
        <5>2. \A v : Among(v, lists[j]) => v \in Sockets
          BY <1>2, <5>1, ElementOfSeq DEF Among
        <5> QED
          BY <1>3, <5>1, <5>2 DEF SocketsInv, ListsInv, SocketsMoveOn
      <4> QED
        BY <4>1, <4>2
    <3> QED
      BY <3>1 DEF ListsInv
  <2>11. Elements(entry[u])' = longer /\ Elements(entry[u]) = old
    BY <1>6, <2>1, <2>2, <2>3, <2>6, <2>7 DEF Elements
  <2>12. \A c \in Clients : entry[c] # k => Elements(entry[c])' = Elements(entry[c])
    BY <1>2, <2>6, <2>7 DEF Elements
  <2>13. \A c \in Clients : entry[c] = k => c = u
    <3>1. PICK v : Among(v, lists[k])
      BY <2>2 DEF SocketsInv, ListsInv
    <3>2. \A c \in Clients : entry[c] = k => Among(v, Elements(entry[c]))
      BY <2>2, <3>1
    <3> QED
      BY <1>2, <2>1, <3>2 DEF SocketsInv, EntryInv
  <2>14. EntryInv'
    <3>1. ASSUME NEW c \in Clients, NEW v, Among(v, Elements(entry[c])')
          PROVE  OwnerOf[v] = c
      <4>1. CASE entry[c] = k
        BY <2>5, <2>9, <2>11, <2>13, <3>1, <4>1
      <4>2. CASE entry[c] # k
        BY <2>12, <3>1, <4>2 DEF SocketsInv, EntryInv
      <4> QED
        BY <4>1, <4>2
    <3>2. ASSUME NEW v \in Sockets, socket'[v] = "open"
          PROVE  Among(v, Elements(entry[OwnerOf[v]])')
      <4>1. CASE v = w
        BY <2>5, <2>11, <4>1
      <4>2. CASE v # w
        <5>1. Among(v, Elements(entry[OwnerOf[v]]))
          BY <1>3, <3>2, <4>2 DEF SocketsInv, EntryInv
        <5> QED
          BY <1>2, <2>1, <2>5, <2>11, <2>12, <2>13, <5>1
      <4> QED
        BY <4>1, <4>2
    <3> QED
      BY <3>1, <3>2 DEF EntryInv
  <2>15. ASSUME NEW s \in Sends
         PROVE  SendInv(s)'
    <3>1. CASE list[s] = k
      <4>1. Iterated(s) = old /\ Iterated(s)' = longer
        BY <1>1, <2>2, <2>3, <2>7, <3>1 DEF Iterated, Elements
      <4>2. ASSUME sendStep[s] = "sending" PROVE ~Among(u, queue[s])
        <5>1. PICK v : Among(v, old)
          BY <2>2, <2>3 DEF SocketsInv, ListsInv
        <5> QED
          BY <2>9, <4>1, <4>2, <5>1 DEF SocketsInv, SendInv
      <4> QED
        BY <1>1, <1>3, <1>4, <2>3, <4>1, <4>2, SendJoined
    <3>2. CASE list[s] # k
      <4>1. Iterated(s)' = Iterated(s)
        BY <1>1, <1>2, <2>7, <3>2 DEF Iterated, Elements
      <4> QED
        BY <1>3, <1>4, <4>1, SendUndisturbed
    <3> QED
      BY <3>1, <3>2
  <2> QED
    BY <2>8, <2>10, <2>14, <2>15 DEF SocketsInv
<1> QED
  BY <1>5, <1>6

\* A connection breaks: its entry stays until somebody notices.
LEMMA VanishKeeps ==
    ASSUME SocketsInv, NEW w \in Sockets, Vanish(w)
    PROVE  SocketsInv'
<1>1. /\ socket[w] = "open" /\ socket' = [socket EXCEPT ![w] = "gone"]
      /\ lists' = lists /\ entry' = entry
      /\ sendStep' = sendStep /\ queue' = queue /\ list' = list
      /\ position' = position /\ dead' = dead /\ present' = present /\ got' = got
  BY DEF Vanish
<1>2. /\ socket' \in [Sockets -> {"new", "open", "gone", "closed"}]
      /\ \A v \in Sockets : /\ socket'[v] = "open" => socket[v] = "open"
                            /\ socket'[v] = "new" => socket[v] = "new"
  BY <1>1 DEF SocketsInv, WebSocketsTypeOK
<1>3. WebSocketsTypeOK'
  BY <1>1, <1>2 DEF SocketsInv, WebSocketsTypeOK
<1>4. ListsInv'
  <2>1. \A k \in 1 .. Len(lists) : \A v : Among(v, lists[k]) => v \in Sockets
    BY SocketTypes, ElementOfSeq DEF Among, SocketsInv
  <2> QED
    BY <1>1, <1>2, <2>1 DEF SocketsInv, ListsInv
<1>5. EntryInv'
  BY <1>1, <1>2 DEF SocketsInv, EntryInv, Elements
<1>6. ASSUME NEW s \in Sends PROVE SendInv(s)'
  <2>1. Iterated(s)' = Iterated(s)
    BY <1>1 DEF Iterated, Elements
  <2> QED
    BY <1>1, <1>2, <2>1, SendUndisturbed DEF SendStays, SocketsMoveOn
<1> QED
  BY <1>3, <1>4, <1>5, <1>6 DEF SocketsInv

\* What dropping connections does to the lists: those there stay as they are.
LEMMA DropKeeps ==
    ASSUME SocketsInv, NEW u \in Clients, NEW W \in SUBSET Sockets, Drop(u, W)
    PROVE  /\ lists' \in Seq(Seq(Sockets)) /\ Len(lists') \in Nat
           /\ Len(lists) <= Len(lists') /\ entry' \in [Clients -> 0 .. Len(lists')]
           /\ \A k \in 1 .. Len(lists) : lists'[k] = lists[k]
           /\ \A k \in 1 .. Len(lists') :
                  /\ \E w : Among(w, lists'[k])
                  /\ Single(lists'[k])
                  /\ \A v, w : Among(v, lists'[k]) /\ Among(w, lists'[k]) => OwnerOf[v] = OwnerOf[w]
                  /\ \A w : Among(w, lists'[k]) => w \in Sockets /\ socket[w] # "new"
           /\ \A c \in Clients : \A w : Among(w, Elements(entry[c])') => OwnerOf[w] = c
           /\ \A w \in Sockets : w \notin W /\ Among(w, Elements(entry[OwnerOf[w]])) =>
                  Among(w, Elements(entry[OwnerOf[w]])')
<1>1. /\ lists \in Seq(Seq(Sockets)) /\ Len(lists) \in Nat /\ Len(lists) <= Len(lists)
      /\ \A k \in 1 .. Len(lists) : lists[k] \in Seq(Sockets)
      /\ entry \in [Clients -> 0 .. Len(lists)]
      /\ OwnerOf \in [Sockets -> Clients]
  BY SocketTypes DEF SocketsInv
<1>2. \A k \in 1 .. Len(lists) :
          /\ \E w : Among(w, lists[k])
          /\ Single(lists[k])
          /\ \A v, w : Among(v, lists[k]) /\ Among(w, lists[k]) => OwnerOf[v] = OwnerOf[w]
          /\ \A w : Among(w, lists[k]) => w \in Sockets /\ socket[w] # "new"
  BY <1>1, ElementOfSeq DEF SocketsInv, ListsInv, Among
<1>3. /\ \A c \in Clients : \A w : Among(w, Elements(entry[c])) => OwnerOf[w] = c
  BY DEF SocketsInv, EntryInv
<1>4. CASE lists' = lists /\ entry' = entry
  BY <1>1, <1>2, <1>3, <1>4 DEF Elements
<1>5. CASE entry[u] # 0 /\ W # {}
  <2>1. PICK k : k = entry[u]
    OBVIOUS
  <2>2. k \in 1 .. Len(lists) /\ k # 0 /\ lists[k] \in Seq(Sockets)
    BY <1>1, <1>5, <2>1
  <2>3. PICK old, rest : old = lists[k] /\ rest = Kept(old, Sockets \ W)
    OBVIOUS
  <2>4. /\ rest \in Seq(Sockets)
        /\ \A w : Among(w, rest) <=> w \in Sockets \ W /\ Among(w, old)
        /\ Single(rest)
    BY <1>2, <2>2, <2>3, KeptIsList, KeptIsSingle
  <2>5. Elements(entry[u]) = old
    BY <2>1, <2>2, <2>3 DEF Elements
  <2>6. CASE rest = <<>>
    <3>1. lists' = lists /\ entry' = [entry EXCEPT ![u] = 0]
      BY <1>5, <2>1, <2>3, <2>6 DEF Drop
    <3>2. /\ entry' \in [Clients -> 0 .. Len(lists)] /\ entry'[u] = 0
          /\ \A c \in Clients : c # u => entry'[c] = entry[c]
      BY <1>1, <3>1
    <3>3. \A w : ~Among(w, Elements(entry[u])')
      BY <3>2, NothingIn DEF Elements, EmptyList
    <3>4. \A c \in Clients : c # u => Elements(entry[c])' = Elements(entry[c])
      BY <3>1, <3>2 DEF Elements
    <3>5. \A w \in Sockets : w \notin W => ~Among(w, old)
      BY <2>4, <2>6, NothingIn DEF EmptyList
    <3>6. \A c \in Clients : \A w : Among(w, Elements(entry[c])') => OwnerOf[w] = c
      BY <1>3, <3>3, <3>4
    <3>7. \A w \in Sockets : w \notin W /\ Among(w, Elements(entry[OwnerOf[w]])) =>
              Among(w, Elements(entry[OwnerOf[w]])')
      BY <1>1, <2>5, <3>4, <3>5
    <3>8. /\ lists' \in Seq(Seq(Sockets)) /\ Len(lists') \in Nat
          /\ Len(lists) <= Len(lists') /\ entry' \in [Clients -> 0 .. Len(lists')]
          /\ \A j \in 1 .. Len(lists) : lists'[j] = lists[j]
      BY <1>1, <3>1, <3>2
    <3>9. \A j \in 1 .. Len(lists') :
              /\ \E w : Among(w, lists'[j])
              /\ Single(lists'[j])
              /\ \A v, w : Among(v, lists'[j]) /\ Among(w, lists'[j]) => OwnerOf[v] = OwnerOf[w]
              /\ \A w : Among(w, lists'[j]) => w \in Sockets /\ socket[w] # "new"
      BY <1>2, <3>1
    <3> QED
      BY <3>6, <3>7, <3>8, <3>9
  <2>7. CASE rest # <<>>
    <3>1. PICK n : n = Len(lists) + 1
      OBVIOUS
    <3>2. /\ n \in Nat /\ n # 0 /\ n \in 0 .. n /\ Len(lists) <= n
          /\ 0 .. Len(lists) \subseteq 0 .. n
          /\ \A j : j \in 1 .. n <=> j \in 1 .. Len(lists) \/ j = n
      BY <1>1, <3>1
    <3>3. lists' = Longer(lists, rest) /\ entry' = [entry EXCEPT ![u] = n]
      BY <1>5, <2>1, <2>3, <2>7, <3>1 DEF Drop, Longer
    <3>4. /\ lists' \in Seq(Seq(Sockets)) /\ Len(lists') = n
          /\ \A j \in 1 .. Len(lists) : lists'[j] = lists[j]
          /\ lists'[n] = rest
      <4>1. /\ Longer(lists, rest) \in Seq(Seq(Sockets))
            /\ Len(Longer(lists, rest)) = Len(lists) + 1
            /\ \A j \in 1 .. Len(lists) : Longer(lists, rest)[j] = lists[j]
            /\ Longer(lists, rest)[Len(lists) + 1] = rest
        BY <1>1, <2>4, LongerProperties
      <4> QED
        BY <3>1, <3>3, <4>1
    <3>5. /\ entry' \in [Clients -> 0 .. n] /\ entry'[u] = n
          /\ \A c \in Clients : c # u => entry'[c] = entry[c]
      BY <1>1, <3>2, <3>3
    <3>6. Elements(entry[u])' = rest
      BY <3>2, <3>4, <3>5 DEF Elements
    <3>7. \A c \in Clients : c # u => Elements(entry[c])' = Elements(entry[c])
      BY <1>1, <3>4, <3>5 DEF Elements
    <3>8. \E w : Among(w, rest)
      <4>1. 1 \in 1 .. Len(rest)
        BY <2>4, <2>7, EmptySeq
      <4> QED
        BY <4>1 DEF Among
    <3>9. /\ \A v, w : Among(v, rest) /\ Among(w, rest) => OwnerOf[v] = OwnerOf[w]
          /\ \A w : Among(w, rest) => w \in Sockets /\ socket[w] # "new"
      BY <1>2, <2>2, <2>3, <2>4
    <3>10. ASSUME NEW j \in 1 .. Len(lists')
           PROVE  /\ \E w : Among(w, lists'[j])
                  /\ Single(lists'[j])
                  /\ \A v, w : Among(v, lists'[j]) /\ Among(w, lists'[j]) => OwnerOf[v] = OwnerOf[w]
                  /\ \A w : Among(w, lists'[j]) => w \in Sockets /\ socket[w] # "new"
      <4>1. CASE j \in 1 .. Len(lists)
        BY <1>2, <3>4, <4>1
      <4>2. CASE j = n
        BY <2>4, <3>4, <3>8, <3>9, <4>2
      <4> QED
        BY <3>2, <3>4, <4>1, <4>2
    <3>11. \A c \in Clients : \A w : Among(w, Elements(entry[c])') => OwnerOf[w] = c
      BY <1>3, <2>4, <2>5, <3>6, <3>7
    <3>12. \A w \in Sockets : w \notin W /\ Among(w, Elements(entry[OwnerOf[w]])) =>
               Among(w, Elements(entry[OwnerOf[w]])')
      BY <1>1, <2>4, <2>5, <3>6, <3>7
    <3> QED
      BY <3>2, <3>4, <3>5, <3>10, <3>11, <3>12
  <2> QED
    BY <2>6, <2>7
<1> QED
  BY <1>4, <1>5 DEF Drop

\* A connection is taken out of the list of its user.
LEMMA DisconnectKeeps ==
    ASSUME SocketsInv, NEW w \in Sockets, Disconnect(w)
    PROVE  SocketsInv'
<1>1. /\ socket[w] = "gone" /\ socket' = [socket EXCEPT ![w] = "closed"]
      /\ Drop(OwnerOf[w], {w})
      /\ sendStep' = sendStep /\ queue' = queue /\ list' = list
      /\ position' = position /\ dead' = dead /\ present' = present /\ got' = got
  BY DEF Disconnect
<1>2. /\ socket' \in [Sockets -> {"new", "open", "gone", "closed"}]
      /\ socket'[w] = "closed"
      /\ \A v \in Sockets : /\ socket'[v] = "open" => socket[v] = "open"
                            /\ socket'[v] = "new" => socket[v] = "new"
  BY <1>1 DEF SocketsInv, WebSocketsTypeOK
<1>3. OwnerOf[w] \in Clients /\ {w} \in SUBSET Sockets
      /\ list \in [Sends -> 0 .. Len(lists)] /\ Len(lists) \in Nat
      /\ OwnerOf \in [Sockets -> Clients]
  BY SocketTypes DEF SocketsInv
<1>4. /\ lists' \in Seq(Seq(Sockets)) /\ Len(lists') \in Nat
      /\ Len(lists) <= Len(lists') /\ entry' \in [Clients -> 0 .. Len(lists')]
      /\ \A k \in 1 .. Len(lists) : lists'[k] = lists[k]
  BY <1>1, <1>3, DropKeeps
<1>5. WebSocketsTypeOK'
  <2>1. list' \in [Sends -> 0 .. Len(lists')]
    BY <1>1, <1>3, <1>4
  <2> QED
    BY <1>1, <1>2, <1>4, <2>1 DEF SocketsInv, WebSocketsTypeOK
<1>6. ListsInv'
  BY <1>1, <1>2, <1>3, DropKeeps DEF ListsInv
<1>7. EntryInv'
  <2>1. \A c \in Clients : \A v : Among(v, Elements(entry[c])') => OwnerOf[v] = c
    BY <1>1, <1>3, DropKeeps
  <2>2. \A v \in Sockets : v \notin {w} /\ Among(v, Elements(entry[OwnerOf[v]])) =>
            Among(v, Elements(entry[OwnerOf[v]])')
    BY <1>1, <1>3, DropKeeps
  <2>3. \A v \in Sockets : socket'[v] = "open" => v \notin {w} /\ socket[v] = "open"
    BY <1>2
  <2> QED
    BY <2>1, <2>2, <2>3 DEF SocketsInv, EntryInv
<1>8. ASSUME NEW s \in Sends PROVE SendInv(s)'
  <2>1. Iterated(s)' = Iterated(s)
    BY <1>1, <1>3, <1>4 DEF Iterated, Elements
  <2> QED
    BY <1>1, <1>2, <2>1, SendUndisturbed DEF SendStays, SocketsMoveOn
<1> QED
  BY <1>5, <1>6, <1>7, <1>8 DEF SocketsInv

-----------------------------------------------------------------------------
(* Sends.                                                                  *)

\* The lists after a step of a send: those it found stay as they are.
ListsGrew ==
    /\ lists' \in Seq(Seq(Sockets)) /\ Len(lists') \in Nat
    /\ Len(lists) <= Len(lists') /\ entry' \in [Clients -> 0 .. Len(lists')]
    /\ \A k \in 1 .. Len(lists) : lists'[k] = lists[k]
    /\ ListsInv' /\ EntryInv'

\* Lists that did not change grew, too.
LEMMA ListsUnchanged ==
    ASSUME SocketsInv, socket' = socket, lists' = lists, entry' = entry
    PROVE  ListsGrew
<1>1. lists \in Seq(Seq(Sockets)) /\ Len(lists) \in Nat /\ Len(lists) <= Len(lists)
      /\ entry \in [Clients -> 0 .. Len(lists)]
  BY SocketTypes DEF SocketsInv
<1>2. ListsInv'
  BY DEF SocketsInv, ListsInv
<1>3. EntryInv'
  BY DEF SocketsInv, EntryInv, Elements
<1> QED
  BY <1>1, <1>2, <1>3 DEF ListsGrew

\* A step of send s keeps what the others have.
LEMMA OthersKept ==
    ASSUME SocketsInv, NEW s \in Sends, socket' = socket, ListsGrew,
           \A r \in Sends : r # s => SendStays(r), SendInv(s)', WebSocketsTypeOK'
    PROVE  SocketsInv'
<1>1. list \in [Sends -> 0 .. Len(lists)] /\ Len(lists) \in Nat
  BY SocketTypes DEF SocketsInv
<1>2. SocketsMoveOn
  BY DEF SocketsMoveOn
<1>3. ASSUME NEW r \in Sends, r # s PROVE SendInv(r)'
  <2>1. SendStays(r)
    BY <1>3
  <2>2. Iterated(r)' = Iterated(r)
    BY <1>1, <2>1 DEF Iterated, Elements, ListsGrew, SendStays
  <2> QED
    BY <1>2, <2>1, <2>2, SendUndisturbed
<1> QED
  BY <1>3 DEF SocketsInv, ListsGrew

\* The first of a queue without repetitions is not in the rest of it.
LEMMA HeadAndTail ==
    ASSUME NEW A, NEW q \in Seq(A), q # <<>>, Single(q)
    PROVE  /\ Head(q) \in A /\ Tail(q) \in Seq(A) /\ Among(Head(q), q)
           /\ Single(Tail(q)) /\ ~Among(Head(q), Tail(q))
           /\ \A e : Among(e, Tail(q)) => Among(e, q)
<1>1. PICK n, t : n = Len(q) /\ t = Tail(q)
  OBVIOUS
<1>2. /\ n \in Nat /\ n > 0 /\ Head(q) = q[1] /\ Head(q) \in A
      /\ t \in Seq(A) /\ Len(t) = n - 1 /\ \A i \in 1 .. n - 1 : t[i] = q[i + 1]
  BY <1>1, HeadTailProperties, EmptySeq
<1>3. 1 \in 1 .. n /\ \A i \in 1 .. n - 1 : i + 1 \in 1 .. n /\ i + 1 # 1
  BY <1>2
<1>4. \A i \in 1 .. n - 1 : i \in Int
  OBVIOUS
<1>5. Among(Head(q), q)
  BY <1>1, <1>2, <1>3 DEF Among
<1>6. \A e : Among(e, t) => Among(e, q)
  BY <1>1, <1>2, <1>3 DEF Among
<1>7. ~Among(Head(q), t)
  BY <1>1, <1>2, <1>3 DEF Among, Single
<1>8. Single(t)
  <2>1. SUFFICES ASSUME NEW i \in 1 .. n - 1, NEW j \in 1 .. n - 1, t[i] = t[j]
                 PROVE  i = j
    BY <1>2 DEF Single
  <2>2. q[i + 1] = q[j + 1] /\ i + 1 \in 1 .. n /\ j + 1 \in 1 .. n
    BY <1>2, <1>3, <2>1
  <2>3. i + 1 = j + 1
    BY <1>1, <2>2 DEF Single
  <2> QED
    BY <2>3
<1> QED
  BY <1>1, <1>2, <1>5, <1>6, <1>7, <1>8

\* A send that has dealt with everybody before, and comes to user u.
LEMMA EnterKeeps ==
    ASSUME SocketsInv, NEW s \in Sends, NEW u \in Clients, NEW rest \in Seq(Clients),
           ListsGrew, Enter(s, u, rest), socket' = socket, got' = got,
           sendStep' = [sendStep EXCEPT ![s] = "sending"],
           Single(rest), ~Among(u, rest),
           \A w \in Sockets : OwnerOf[w] = u \/ Among(OwnerOf[w], rest) => got[s][w] = 0,
           \A w \in present[s] : socket[w] = "open" => got[s][w] = 1
    PROVE  SocketsInv'
<1>1. /\ queue \in [Sends -> Seq(Clients)] /\ list \in [Sends -> 0 .. Len(lists)]
      /\ position \in [Sends -> Nat] /\ dead \in [Sends -> SUBSET Sockets]
      /\ present \in [Sends -> SUBSET Sockets]
      /\ sendStep \in [Sends -> {"idle", "sending", "done"}]
      /\ Len(lists) \in Nat
  BY SocketTypes DEF SocketsInv, WebSocketsTypeOK
<1>2. PICK elements : elements = Elements(entry[u])'
  OBVIOUS
<1>3. /\ queue' = [queue EXCEPT ![s] = rest]
      /\ list' = [list EXCEPT ![s] = entry'[u]]
      /\ position' = [position EXCEPT ![s] = 0]
      /\ dead' = [dead EXCEPT ![s] = {}]
      /\ present' = [present EXCEPT ![s] = present[s] \cup ToSet(elements)]
  BY <1>2 DEF Enter, Elements
<1>4. /\ lists' \in Seq(Seq(Sockets)) /\ Len(lists') \in Nat /\ Len(lists) <= Len(lists')
      /\ entry' \in [Clients -> 0 .. Len(lists')] /\ entry'[u] \in 0 .. Len(lists')
      /\ 0 .. Len(lists) \subseteq 0 .. Len(lists')
  BY <1>1 DEF ListsGrew
<1>5. /\ elements \in Seq(Sockets)
      /\ \A w : Among(w, elements) => w \in Sockets /\ socket[w] # "new" /\ OwnerOf[w] = u
  <2>1. \A w : Among(w, elements) => OwnerOf[w] = u
    BY <1>2 DEF ListsGrew, EntryInv
  <2>2. CASE entry'[u] = 0
    <3>1. elements = EmptyList
      BY <1>2, <2>2 DEF Elements, EmptyList
    <3> QED
      BY <3>1, NothingIn
  <2>3. CASE entry'[u] # 0
    <3>1. elements = lists'[entry'[u]] /\ entry'[u] \in 1 .. Len(lists')
      BY <1>2, <1>4, <2>3 DEF Elements
    <3>2. elements \in Seq(Sockets)
      BY <1>4, <3>1, ElementOfSeq
    <3>3. \A w : Among(w, elements) => w \in Sockets
      BY <3>2, ElementOfSeq DEF Among
    <3>4. \A w : Among(w, elements) => socket'[w] # "new"
      BY <3>1 DEF ListsGrew, ListsInv
    <3> QED
      BY <2>1, <3>2, <3>3, <3>4
  <2> QED
    BY <2>2, <2>3
<1>6. \A w : w \in ToSet(elements) <=> Among(w, elements)
  BY <1>5, LenProperties DEF ToSet, Among
<1>7. WebSocketsTypeOK'
  <2>1. ToSet(elements) \subseteq Sockets
    BY <1>5, <1>6
  <2>2. list' \in [Sends -> 0 .. Len(lists')]
    BY <1>1, <1>3, <1>4
  <2>3. /\ queue' \in [Sends -> Seq(Clients)] /\ position' \in [Sends -> Nat]
        /\ dead' \in [Sends -> SUBSET Sockets]
        /\ sendStep' \in [Sends -> {"idle", "sending", "done"}]
    BY <1>1, <1>3
  <2>4. present' \in [Sends -> SUBSET Sockets]
    BY <1>1, <1>3, <2>1
  <2> QED
    BY <1>4, <2>2, <2>3, <2>4 DEF SocketsInv, WebSocketsTypeOK
<1>8. /\ queue'[s] = rest /\ list'[s] = entry'[u] /\ position'[s] = 0 /\ dead'[s] = {}
      /\ present'[s] = present[s] \cup ToSet(elements) /\ sendStep'[s] = "sending"
      /\ \A r \in Sends : r # s => SendStays(r)
  BY <1>1, <1>3 DEF SendStays
<1>9. Iterated(s)' = elements
  BY <1>2, <1>8 DEF Iterated, Elements
<1>10. \A w : Ahead(s, w)' <=> Among(w, elements)
  <2>1. \A i \in 1 .. Len(elements) : i > 0
    BY <1>5, LenProperties
  <2> QED
    BY <1>8, <1>9, <2>1 DEF Ahead, Among
<1>11. SendInv(s)'
  <2>1. SendInv(s) /\ present[s] \subseteq Sockets
    BY <1>1 DEF SocketsInv
  <2>2. \A w \in Sockets : socket[w] = "new" => got[s][w] = 0 /\ w \notin present'[s]
    BY <1>5, <1>6, <1>8, <2>1 DEF SendInv
  <2>3. \A w : Among(w, elements) => ~Among(OwnerOf[w], rest) /\ got[s][w] = 0
    BY <1>5
  <2>4. \A w \in present'[s] : socket[w] = "open" => got[s][w] = 1 \/ Among(w, elements)
    BY <1>6, <1>8
  <2>5. \A w \in Sockets : got[s][w] \in {0, 1}
    BY <2>1 DEF SendInv
  <2> QED
    BY <1>8, <1>9, <1>10, <2>2, <2>3, <2>4, <2>5 DEF SendInv
<1> QED
  BY <1>7, <1>8, <1>11, OthersKept

\* A send that has dealt with everybody it was for.
LEMMA FinishKeeps ==
    ASSUME SocketsInv, NEW s \in Sends, ListsGrew, Finish(s), socket' = socket, got' = got,
           \A w \in present[s] : socket[w] = "open" => got[s][w] = 1
    PROVE  SocketsInv'
<1>1. /\ list \in [Sends -> 0 .. Len(lists)] /\ position \in [Sends -> Nat]
      /\ dead \in [Sends -> SUBSET Sockets]
      /\ sendStep \in [Sends -> {"idle", "sending", "done"}]
      /\ Len(lists) \in Nat
  BY SocketTypes DEF SocketsInv, WebSocketsTypeOK
<1>2. /\ sendStep' = [sendStep EXCEPT ![s] = "done"]
      /\ list' = [list EXCEPT ![s] = 0] /\ position' = [position EXCEPT ![s] = 0]
      /\ dead' = [dead EXCEPT ![s] = {}] /\ queue' = queue /\ present' = present
  BY DEF Finish
<1>3. 0 .. Len(lists) \subseteq 0 .. Len(lists') /\ 0 \in 0 .. Len(lists')
  BY <1>1 DEF ListsGrew
<1>4. WebSocketsTypeOK'
  <2>1. list' \in [Sends -> 0 .. Len(lists')]
    BY <1>1, <1>2, <1>3
  <2>2. /\ position' \in [Sends -> Nat] /\ dead' \in [Sends -> SUBSET Sockets]
        /\ sendStep' \in [Sends -> {"idle", "sending", "done"}]
    BY <1>1, <1>2
  <2> QED
    BY <1>2, <2>1, <2>2 DEF SocketsInv, WebSocketsTypeOK, ListsGrew
<1>5. /\ sendStep'[s] = "done" /\ dead'[s] = {}
      /\ \A r \in Sends : r # s => SendStays(r)
  BY <1>1, <1>2 DEF SendStays
<1>6. SendInv(s)'
  BY <1>2, <1>5 DEF SocketsInv, SendInv
<1> QED
  BY <1>4, <1>5, <1>6, OthersKept

\* The users a send is for, each once.
LEMMA AddresseesAreUsers ==
    ASSUME WebSocketsTypeOK, NEW s \in Sends
    PROVE  Addressees(s) \in Seq(Clients) /\ Single(Addressees(s))
<1>1. CASE s \in UserSends
  <2>1. SendTo[s] \in Clients
    BY <1>1, WebSocketsAssumption DEF WebSocketsAssumption
  <2>2. Addressees(s) = <<SendTo[s]>>
    BY <1>1 DEF Addressees
  <2> QED
    BY <2>1, <2>2 DEF Single
<1>2. CASE s \notin UserSends
  <2>1. PICK U : U = {u \in Clients : entry[u] # 0}
    OBVIOUS
  <2>2. IsFiniteSet(U)
    BY <2>1, FS_Subset, WebSocketsAssumption DEF WebSocketsAssumption
  <2>3. PICK n \in Nat : n = Cardinality(U)
    BY <2>2, FS_CardinalityType
  <2>4. \E f \in [1 .. n -> U] : IsInjective(f)
    <3>1. ExistsBijection(1 .. n, U)
      BY <2>2, <2>3, FS_CardinalityType
    <3> QED
      BY <3>1 DEF ExistsBijection, Bijection, Injection
  <2>5. Addressees(s) = CHOOSE f \in [1 .. n -> U] : IsInjective(f)
    BY <1>2, <2>1, <2>3 DEF Addressees, SetToSeq
  <2>6. PICK f \in [1 .. n -> U] : f = Addressees(s) /\ IsInjective(f)
    BY <2>4, <2>5
  <2>7. f \in Seq(Clients) /\ Len(f) = n
    <3>1. f \in [1 .. n -> Clients]
      BY <2>1
    <3> QED
      BY <3>1
  <2>8. Single(f)
    BY <2>6, <2>7 DEF Single, IsInjective
  <2> QED
    BY <2>6, <2>7, <2>8
<1> QED
  BY <1>1, <1>2

\* A send begins, with the users it is for.
LEMMA StartKeeps ==
    ASSUME SocketsInv, NEW s \in Sends, StartSend(s)
    PROVE  SocketsInv'
<1>1. /\ sendStep[s] = "idle" /\ socket' = socket /\ got' = got
      /\ lists' = lists /\ entry' = entry
  BY DEF StartSend
<1>2. ListsGrew
  BY <1>1, ListsUnchanged
<1>3. present[s] = {} /\ \A w \in Sockets : got[s][w] = 0
  BY <1>1 DEF SocketsInv, SendInv
<1>4. PICK q : q = Addressees(s)
  OBVIOUS
<1>5. q \in Seq(Clients) /\ Single(q)
  BY <1>4, AddresseesAreUsers DEF SocketsInv
<1>6. CASE q = <<>>
  <2>1. Finish(s)
    BY <1>4, <1>6 DEF StartSend
  <2> QED
    BY <1>1, <1>2, <1>3, <2>1, FinishKeeps
<1>7. CASE q # <<>>
  <2>1. PICK u, rest : u = Head(q) /\ rest = Tail(q)
    OBVIOUS
  <2>2. Enter(s, u, rest) /\ sendStep' = [sendStep EXCEPT ![s] = "sending"]
    BY <1>4, <1>7, <2>1 DEF StartSend
  <2>3. u \in Clients /\ rest \in Seq(Clients) /\ Single(rest) /\ ~Among(u, rest)
    BY <1>5, <1>7, <2>1, HeadAndTail
  <2> QED
    BY <1>1, <1>2, <1>3, <2>2, <2>3, EnterKeeps
<1> QED
  BY <1>6, <1>7

\* A send goes on to the next user.
LEMMA NextUserKeeps ==
    ASSUME SocketsInv, NEW s \in Sends, NextUser(s)
    PROVE  SocketsInv'
<1>1. /\ sendStep[s] = "sending" /\ socket' = socket /\ got' = got
      /\ position[s] >= Len(Iterated(s))
  BY DEF NextUser, Iterated
<1>2. /\ position[s] \in Nat /\ queue[s] \in Seq(Clients) /\ dead[s] \in SUBSET Sockets
      /\ present[s] \subseteq Sockets /\ SendInv(s)
      /\ sendStep \in [Sends -> {"idle", "sending", "done"}]
  BY DEF SocketsInv, WebSocketsTypeOK
<1>3. \A w : ~Ahead(s, w)
  BY <1>1, <1>2, IteratedAccepted DEF Ahead
<1>4. \A w \in present[s] : socket[w] = "open" => got[s][w] = 1
  BY <1>2, <1>3 DEF SendInv
<1>5. ListsGrew
  <2>1. CASE dead[s] = {}
    <3>1. lists' = lists /\ entry' = entry
      BY <2>1 DEF NextUser
    <3> QED
      BY <1>1, <3>1, ListsUnchanged
  <2>2. CASE dead[s] # {}
    <3>1. PICK u : u = OwnerOf[CHOOSE w \in dead[s] : TRUE]
      OBVIOUS
    <3>2. Drop(u, dead[s])
      BY <2>2, <3>1 DEF NextUser
    <3>3. OwnerOf \in [Sockets -> Clients]
      BY SocketTypes DEF SocketsInv
    <3>4. u \in Clients
      BY <1>2, <2>2, <3>1, <3>3
    <3>5. /\ lists' \in Seq(Seq(Sockets)) /\ Len(lists') \in Nat
          /\ Len(lists) <= Len(lists') /\ entry' \in [Clients -> 0 .. Len(lists')]
          /\ \A k \in 1 .. Len(lists) : lists'[k] = lists[k]
      BY <1>2, <3>2, <3>4, DropKeeps
    <3>6. ListsInv'
      BY <1>1, <1>2, <3>2, <3>4, DropKeeps DEF ListsInv
    <3>7. EntryInv'
      <4>1. \A c \in Clients : \A w : Among(w, Elements(entry[c])') => OwnerOf[w] = c
        BY <1>2, <3>2, <3>4, DropKeeps
      <4>2. \A w \in Sockets : w \notin dead[s] /\ Among(w, Elements(entry[OwnerOf[w]])) =>
                Among(w, Elements(entry[OwnerOf[w]])')
        BY <1>2, <3>2, <3>4, DropKeeps
      <4>3. \A w \in Sockets : socket[w] = "open" => w \notin dead[s]
        BY <1>2 DEF SendInv
      <4> QED
        BY <1>1, <4>1, <4>2, <4>3 DEF SocketsInv, EntryInv
    <3> QED
      BY <3>5, <3>6, <3>7 DEF ListsGrew
  <2> QED
    BY <2>1, <2>2
<1>6. CASE queue[s] = <<>>
  <2>1. Finish(s)
    BY <1>6 DEF NextUser
  <2> QED
    BY <1>1, <1>4, <1>5, <2>1, FinishKeeps
<1>7. CASE queue[s] # <<>>
  <2>1. PICK u, rest : u = Head(queue[s]) /\ rest = Tail(queue[s])
    OBVIOUS
  <2>2. Enter(s, u, rest) /\ sendStep' = sendStep
    BY <1>7, <2>1 DEF NextUser
  <2>3. sendStep' = [sendStep EXCEPT ![s] = "sending"]
    BY <1>1, <1>2, <2>2
  <2>4. /\ u \in Clients /\ rest \in Seq(Clients) /\ Single(rest) /\ ~Among(u, rest)
        /\ Among(u, queue[s]) /\ \A e : Among(e, rest) => Among(e, queue[s])
    <3>1. Single(queue[s])
      BY <1>1, <1>2 DEF SendInv
    <3> QED
      BY <1>2, <1>7, <2>1, <3>1, HeadAndTail
  <2>5. \A w \in Sockets : OwnerOf[w] = u \/ Among(OwnerOf[w], rest) => got[s][w] = 0
    BY <1>1, <1>2, <2>4 DEF SendInv
  <2> QED
    BY <1>1, <1>4, <1>5, <2>2, <2>3, <2>4, <2>5, EnterKeeps
<1> QED
  BY <1>6, <1>7

\* A send deals with the next connection of its list.
LEMMA SendOneKeeps ==
    ASSUME SocketsInv, NEW s \in Sends, SendOne(s)
    PROVE  SocketsInv'
<1>0. PICK n, w : n = position[s] + 1 /\ w = Iterated(s)[n]
  OBVIOUS
<1>1. /\ sendStep[s] = "sending" /\ position[s] < Len(Iterated(s))
      /\ position' = [position EXCEPT ![s] = n]
      /\ socket' = socket /\ lists' = lists /\ entry' = entry /\ sendStep' = sendStep
      /\ queue' = queue /\ list' = list /\ present' = present
      /\ \/ got' = [got EXCEPT ![s][w] = @ + 1] /\ dead' = dead
         \/ /\ socket[w] \in {"gone", "closed"} /\ got' = got
            /\ dead' = [dead EXCEPT ![s] = dead[s] \cup {w}]
  BY <1>0 DEF SendOne, Iterated
<1>2. /\ position \in [Sends -> Nat] /\ dead \in [Sends -> SUBSET Sockets]
      /\ got \in [Sends -> [Sockets -> Nat]] /\ SendInv(s) /\ position[s] \in Nat
      /\ present[s] \subseteq Sockets
  BY DEF SocketsInv, WebSocketsTypeOK
<1>3. PICK elements : elements = Iterated(s)
  OBVIOUS
<1>4. /\ elements \in Seq(Sockets) /\ Len(elements) \in Nat
      /\ n \in Nat /\ n \in 1 .. Len(elements) /\ n > position[s] /\ w = elements[n]
  BY <1>0, <1>1, <1>2, <1>3, IteratedAccepted
<1>5. w \in Sockets /\ Ahead(s, w) /\ Among(w, elements) /\ got[s][w] = 0
  <2>1. w \in Sockets
    BY <1>4, ElementOfSeq
  <2>2. Ahead(s, w) /\ Among(w, elements)
    BY <1>3, <1>4 DEF Ahead, Among
  <2> QED
    BY <1>1, <1>2, <2>1, <2>2 DEF SendInv
<1>6. Iterated(s)' = elements
  BY <1>1, <1>3 DEF Iterated, Elements
<1>7. \A v : Ahead(s, v) <=> \E i \in 1 .. Len(elements) : i > position[s] /\ elements[i] = v
  BY <1>3 DEF Ahead
<1>8. \A v : Ahead(s, v)' <=> \E i \in 1 .. Len(elements) : i > n /\ elements[i] = v
  BY <1>1, <1>2, <1>6 DEF Ahead
<1>9. \A i \in 1 .. Len(elements) : i > position[s] <=> i > n \/ i = n
  BY <1>0, <1>2, <1>4
<1>10. \A v : Ahead(s, v)' => Ahead(s, v)
  BY <1>7, <1>8, <1>9
<1>11. \A v : Ahead(s, v) => Ahead(s, v)' \/ v = w
  BY <1>4, <1>7, <1>8, <1>9
<1>12. ~Ahead(s, w)'
  <2>1. Single(elements)
    <3>1. list[s] \in 0 .. Len(lists) /\ Len(lists) \in Nat
      BY SocketTypes DEF SocketsInv
    <3>2. list[s] # 0
      BY <1>3, <1>5, NothingIn DEF Iterated, Elements, EmptyList
    <3>3. list[s] \in 1 .. Len(lists) /\ elements = lists[list[s]]
      BY <1>3, <3>1, <3>2 DEF Iterated, Elements
    <3> QED
      BY <3>3 DEF SocketsInv, ListsInv
  <2>2. ASSUME NEW i \in 1 .. Len(elements), i > n, elements[i] = w PROVE FALSE
    <3>1. i = n
      BY <1>4, <2>1, <2>2 DEF Single
    <3> QED
      BY <1>4, <2>2, <3>1
  <2> QED
    BY <1>8, <2>2
<1>13. ListsGrew
  BY <1>1, ListsUnchanged
<1>14. \A r \in Sends : r # s => SendStays(r)
  <2>1. \A r \in Sends : r # s => got'[r] = got[r]
    BY <1>1, <1>2
  <2> QED
    BY <1>1, <1>2, <2>1 DEF SendStays
<1>15. \A v \in Sockets : v # w => got'[s][v] = got[s][v]
  BY <1>1, <1>2
<1>16. CASE got' = [got EXCEPT ![s][w] = @ + 1] /\ dead' = dead
  <2>1. got' \in [Sends -> [Sockets -> Nat]] /\ got'[s][w] = 1
    BY <1>2, <1>5, <1>16
  <2>2. WebSocketsTypeOK'
    <3>1. position' \in [Sends -> Nat]
      BY <1>1, <1>2, <1>4
    <3> QED
      BY <1>1, <1>16, <2>1, <3>1 DEF SocketsInv, WebSocketsTypeOK
  <2>3. /\ \A v \in Sockets : got'[s][v] \in {0, 1}
        /\ \A v \in Sockets : socket[v] = "new" => got'[s][v] = 0 /\ v \notin present[s]
    <3>1. socket[w] # "new"
      BY <1>3, <1>5, IteratedAccepted
    <3> QED
      BY <1>2, <1>15, <2>1, <3>1 DEF SendInv
  <2>4. /\ \A v \in Sockets : Among(OwnerOf[v], queue[s]) => got'[s][v] = 0
        /\ \A v : Ahead(s, v)' => got'[s][v] = 0
    <3>1. ~Among(OwnerOf[w], queue[s])
      BY <1>1, <1>2, <1>3, <1>5 DEF SendInv
    <3>2. \A v : Ahead(s, v) => v \in Sockets
      BY <1>4, <1>7, ElementOfSeq
    <3> QED
      BY <1>1, <1>2, <1>10, <1>12, <1>15, <3>1, <3>2 DEF SendInv
  <2>5. \A v \in present[s] : socket[v] = "open" => got'[s][v] = 1 \/ Ahead(s, v)'
    BY <1>1, <1>2, <1>11, <1>15, <2>1 DEF SendInv
  <2>6. SendInv(s)'
    BY <1>1, <1>2, <1>3, <1>6, <1>16, <2>3, <2>4, <2>5 DEF SendInv
  <2> QED
    BY <1>1, <1>13, <1>14, <2>2, <2>6, OthersKept
<1>17. CASE /\ socket[w] \in {"gone", "closed"} /\ got' = got
            /\ dead' = [dead EXCEPT ![s] = dead[s] \cup {w}]
  <2>1. WebSocketsTypeOK'
    <3>1. position' \in [Sends -> Nat] /\ dead' \in [Sends -> SUBSET Sockets]
      BY <1>1, <1>2, <1>4, <1>5, <1>17
    <3> QED
      BY <1>1, <1>17, <3>1 DEF SocketsInv, WebSocketsTypeOK
  <2>2. \A v \in dead'[s] : Among(v, elements) /\ socket[v] # "open"
    BY <1>2, <1>3, <1>5, <1>17 DEF SendInv
  <2>3. \A v \in present[s] : socket[v] = "open" => got[s][v] = 1 \/ Ahead(s, v)'
    BY <1>1, <1>2, <1>11, <1>17 DEF SendInv
  <2>4. SendInv(s)'
    BY <1>1, <1>2, <1>3, <1>6, <1>10, <1>17, <2>2, <2>3 DEF SendInv
  <2> QED
    BY <1>1, <1>13, <1>14, <2>1, <2>4, OthersKept
<1> QED
  BY <1>1, <1>16, <1>17

-----------------------------------------------------------------------------

LEMMA SocketsInitially == WebSocketsInit => SocketsInv
<1> SUFFICES ASSUME WebSocketsInit PROVE SocketsInv
  OBVIOUS
<1> USE DEF WebSocketsInit
<1>1. EmptyList \in Seq(Clients) /\ EmptyList \in Seq(Seq(Sockets)) /\ Len(EmptyList) = 0
  BY NothingIn
<1>2. lists = EmptyList /\ queue = [s \in Sends |-> EmptyList]
  BY DEF EmptyList
<1>3. WebSocketsTypeOK
  BY <1>1, <1>2 DEF WebSocketsTypeOK
<1>4. ListsInv
  BY <1>1, <1>2 DEF ListsInv
<1>5. EntryInv
  <2>1. \A u \in Clients : \A w : ~Among(w, Elements(entry[u]))
    BY NothingIn DEF Elements, EmptyList
  <2> QED
    BY <2>1 DEF EntryInv
<1>6. \A s \in Sends : SendInv(s)
  BY DEF SendInv
<1> QED
  BY <1>3, <1>4, <1>5, <1>6 DEF SocketsInv

\* Every step keeps SocketsInv.
LEMMA SocketsKept == SocketsInv /\ [WebSocketsNext]_socketVars => SocketsInv'
<1> SUFFICES ASSUME SocketsInv, [WebSocketsNext]_socketVars PROVE SocketsInv'
  OBVIOUS
<1>1. CASE \E w \in Sockets : Connect(w) \/ Vanish(w) \/ Disconnect(w)
  BY <1>1, ConnectKeeps, VanishKeeps, DisconnectKeeps
<1>2. CASE \E s \in Sends : StartSend(s) \/ SendOne(s) \/ NextUser(s)
  BY <1>2, StartKeeps, SendOneKeeps, NextUserKeeps
<1>3. CASE UNCHANGED socketVars
  <2>1. SocketsMoveOn /\ ListsGrew /\ WebSocketsTypeOK'
    BY <1>3, ListsUnchanged DEF socketVars, SocketsMoveOn, SocketsInv, WebSocketsTypeOK
  <2>2. \A s \in Sends : SendStays(s) /\ Iterated(s)' = Iterated(s)
    BY <1>3 DEF socketVars, SendStays, Iterated, Elements
  <2> QED
    BY <2>1, <2>2, SendUndisturbed DEF SocketsInv, ListsGrew
<1> QED
  BY <1>1, <1>2, <1>3 DEF WebSocketsNext

\* Whoever was connected when a send came to their user, and still is when
\* it is done, was sent the message, nobody twice, for any number of users,
\* connections and concurrent sends (send_to_user, broadcast).
THEOREM DeliveredOnceCorrect == WebSocketsSpec => []DeliveredOnce
<1>1. SocketsInv => DeliveredOnce
  BY DEF SocketsInv, SendInv, DeliveredOnce
<1> QED
  BY <1>1, SocketsInitially, SocketsKept, PTL DEF WebSocketsSpec

\* Every open connection is in its user's list, once, for any number of
\* them, whatever is dropped by the sends (connect, disconnect).
THEOREM OpenIsRegisteredCorrect == WebSocketsSpec => []OpenIsRegistered
<1>1. SocketsInv => OpenIsRegistered
  <2>1. SUFFICES ASSUME SocketsInv, NEW w \in Sockets, socket[w] = "open"
                 PROVE  Cardinality({k \in DOMAIN Elements(entry[OwnerOf[w]]) :
                                        Elements(entry[OwnerOf[w]])[k] = w}) = 1
    BY DEF OpenIsRegistered
  <2>2. PICK k, x : k = entry[OwnerOf[w]] /\ x = Elements(k)
    OBVIOUS
  <2>3. k \in 0 .. Len(lists) /\ Len(lists) \in Nat
    <3>1. /\ OwnerOf \in [Sockets -> Clients] /\ entry \in [Clients -> 0 .. Len(lists)]
          /\ Len(lists) \in Nat
      BY <2>1, SocketTypes DEF SocketsInv
    <3> QED
      BY <2>2, <3>1
  <2>4. Among(w, x)
    BY <2>1, <2>2 DEF SocketsInv, EntryInv
  <2>5. k # 0
    BY <2>2, <2>4, NothingIn DEF Elements, EmptyList
  <2>6. k \in 1 .. Len(lists) /\ x = lists[k]
    BY <2>2, <2>3, <2>5 DEF Elements
  <2>7. Single(x) /\ x \in Seq(Sockets)
    <3>1. x \in Seq(Sockets)
      BY <2>1, <2>6, SocketTypes DEF SocketsInv
    <3>2. Single(x)
      BY <2>1, <2>6 DEF SocketsInv, ListsInv
    <3> QED
      BY <3>1, <3>2
  <2>8. DOMAIN x = 1 .. Len(x)
    BY <2>7, LenProperties
  <2>9. PICK i \in DOMAIN x : x[i] = w
    BY <2>4, <2>8 DEF Among
  <2>10. {j \in DOMAIN x : x[j] = w} = {i}
    BY <2>7, <2>8, <2>9 DEF Single
  <2>11. Cardinality({i}) = 1
    BY FS_Singleton
  <2> QED
    BY <2>2, <2>10, <2>11
<1> QED
  BY <1>1, SocketsInitially, SocketsKept, PTL DEF WebSocketsSpec

=============================================================================
