------------------------- MODULE IntakeAnswer_proofs -------------------------
(* What parseActions and parseIntakeFields take out of an answer of any      *)
(* length: the passes of stripThinkBlocks and extractThinkContents, the      *)
(* search for a block or a list in what they leave, and the decoding of the  *)
(* list, against the positions of the answer and a reading from its start.   *)
EXTENDS IntakeAnswer, FiniteSetTheorems, SequenceTheorems, WellFoundedInduction, TLAPS

-----------------------------------------------------------------------------
(* Induction over numbers, without an operator for the property *)

\* A set of numbers has a least one.
LEMMA LeastNumber == ASSUME NEW T \in SUBSET Nat, T # {} PROVE \E x \in T : \A y \in T : x <= y
<1>1. PICK x \in T : \A y \in T : <<y, x>> \notin OpToRel(<, Nat)
  BY NatLessThanWellFounded, WFMin
<1>2. \A y \in T : ~(y < x)
  BY <1>1 DEF OpToRel
<1> QED
  BY <1>2

\* A set that holds 0 and the successor of what it holds, up to m, holds all.
LEMMA UpTo ==
  ASSUME NEW m \in Nat, NEW I, 0 \in I, \A n \in 0..m : n < m /\ n \in I => n + 1 \in I
  PROVE  \A n \in 0..m : n \in I
<1> SUFFICES ASSUME NEW k \in 0..m, k \notin I PROVE FALSE
  OBVIOUS
<1> DEFINE T == {n \in 0..m : n \notin I}
<1>1. T \in SUBSET Nat /\ T # {}
  OBVIOUS
<1>2. PICK x \in T : \A y \in T : x <= y
  <2> HIDE DEF T
  <2> QED
    BY <1>1, LeastNumber
<1>3. x # 0 /\ x - 1 \in 0..m /\ x - 1 < m /\ (x - 1) + 1 = x
  OBVIOUS
<1>4. x - 1 \in I
  BY <1>2, <1>3
<1> QED
  BY <1>3, <1>4

\* A pass over m tokens: next[k][x] is the state that follows x on token k.
IsNext(next, m, St) == next \in [1..m -> [St -> St]]
IsRun(g, next, m, St, start) ==
  g \in [0..m -> St] /\ g[0] = start /\ \A k \in 1..m : g[k] = next[k][g[k - 1]]

\* There is one, as the tokens can be read one by one.
LEMMA RunExists ==
  ASSUME NEW m \in Nat, NEW St, NEW start \in St, NEW next, IsNext(next, m, St)
  PROVE  \E g : IsRun(g, next, m, St, start)
<1> DEFINE Run(g, k) == /\ g \in [0..k -> St] /\ g[0] = start
                        /\ \A n \in 1..k : g[n] = next[n][g[n - 1]]
           I == {k \in 0..m : \E g : Run(g, k)}
<1>0. next \in [1..m -> [St -> St]]
  BY DEF IsNext
<1>1. 0 \in I
  <2>1. Run([n \in 0..0 |-> start], 0)
    OBVIOUS
  <2> HIDE DEF Run
  <2> QED
    BY <2>1
<1>2. ASSUME NEW k \in 0..m, k < m, k \in I PROVE k + 1 \in I
  <2>1. PICK g : Run(g, k)
    BY <1>2
  <2> DEFINE h == [n \in 0..(k + 1) |-> IF n <= k THEN g[n] ELSE next[k + 1][g[k]]]
  <2>2. /\ k \in Nat /\ k + 1 \in 1..m /\ k + 1 \in 0..m /\ k \in 0..k /\ k + 1 \in 0..(k + 1) /\ ~(k + 1 <= k)
        /\ 0 \in 0..(k + 1) /\ 0 <= k /\ k <= k /\ k \in 0..(k + 1) /\ (k + 1) - 1 = k
    BY <1>2
  <2>3. \A n \in 0..k : g[n] \in St
    BY <2>1
  <2>4. next[k + 1][g[k]] \in St
    BY <1>0, <2>2, <2>3
  <2>5. h \in [0..(k + 1) -> St]
    BY <2>2, <2>3, <2>4
  <2>6. h[0] = start /\ h[k] = g[k] /\ h[k + 1] = next[k + 1][g[k]]
    BY <2>1, <2>2
  <2>7. ASSUME NEW n \in 1..(k + 1) PROVE h[n] = next[n][h[n - 1]]
    <3>1. CASE n = k + 1
      BY <2>2, <2>6, <3>1
    <3>2. CASE n # k + 1
      <4>1. n \in 1..k /\ n \in 0..(k + 1) /\ n - 1 \in 0..(k + 1) /\ n <= k /\ n - 1 <= k
        BY <2>2, <3>2
      <4>2. h[n] = g[n] /\ h[n - 1] = g[n - 1]
        BY <4>1
      <4> QED
        BY <2>1, <4>1, <4>2
    <3> QED
      BY <3>1, <3>2
  <2> HIDE DEF h
  <2>8. Run(h, k + 1)
    BY <2>5, <2>6, <2>7
  <2> HIDE DEF Run
  <2> QED
    BY <2>2, <2>8
<1> HIDE DEF I
<1>3. \A k \in 0..m : k \in I
  BY <1>1, <1>2, UpTo
<1>4. m \in I
  BY <1>3
<1> QED
  BY <1>4 DEF I, IsRun

-----------------------------------------------------------------------------
(* The pass over the tokens *)

Start      == [open |-> FALSE, out |-> <<>>]
ScanStates == [open : BOOLEAN, out : Seq(Tokens)]

\* What one token does to the state of the pass.
LEMMA TakeType ==
  ASSUME NEW st \in ScanStates, NEW t \in Tokens, NEW inside \in BOOLEAN
  PROVE  /\ Take(st, t, inside) \in ScanStates
         /\ Take(st, t, inside).open <=> t = "<think>" \/ (st.open /\ t # "</think>")
         /\ Take(st, t, inside).out =
              IF IF inside THEN st.open /\ t # "</think>" ELSE ~st.open /\ t # "<think>"
                THEN Append(st.out, t) ELSE st.out
<1>1. /\ st \in [open : BOOLEAN, out : Seq(Tokens)] /\ st.open \in BOOLEAN /\ st.out \in Seq(Tokens)
      /\ Append(st.out, t) \in Seq(Tokens)
  BY DEF ScanStates
<1> DEFINE o == Append(st.out, t)
<1>2. Take(st, t, inside) =
        IF st.open
          THEN IF t = "</think>" THEN [st EXCEPT !.open = FALSE]
               ELSE IF inside THEN [st EXCEPT !.out = o] ELSE st
          ELSE IF t = "<think>" THEN [st EXCEPT !.open = TRUE]
               ELSE IF inside THEN st ELSE [st EXCEPT !.out = o]
  BY Zenon DEF Take
<1>3. o \in Seq(Tokens)
  BY <1>1
<1> HIDE DEF o
<1>4. CASE st.open
  <2>1. CASE t = "</think>"
    BY <1>1, <1>2, <1>4, <2>1 DEF ScanStates
  <2>2. CASE t # "</think>" /\ inside
    BY <1>1, <1>2, <1>3, <1>4, <2>2 DEF ScanStates, o
  <2>3. CASE t # "</think>" /\ ~inside
    BY <1>1, <1>2, <1>4, <2>3
  <2> QED
    BY <2>1, <2>2, <2>3
<1>5. CASE ~st.open
  <2>1. CASE t = "<think>"
    BY <1>1, <1>2, <1>5, <2>1 DEF ScanStates
  <2>2. CASE t # "<think>" /\ ~inside
    BY <1>1, <1>2, <1>3, <1>5, <2>2 DEF ScanStates, o
  <2>3. CASE t # "<think>" /\ inside
    BY <1>1, <1>2, <1>5, <2>3
  <2> QED
    BY <2>1, <2>2, <2>3
<1> QED
  BY <1>4, <1>5

\* Scan starts with no block open, and takes one token more at each step.
LEMMA ScanIs ==
  ASSUME NEW s \in Seq(Tokens), NEW inside \in BOOLEAN
  PROVE  LET g == Scan(s, inside)
             m == Len(s) IN
         /\ g[0] = Start
         /\ \A n \in 0..m : n < m => g[n + 1] = Take(g[n], s[n + 1], inside)
<1> DEFINE m == Len(s)
           F == [k \in 1..m |-> [st \in ScanStates |-> Take(st, s[k], inside)]]
           Scans(g) == g = [n \in 0..m |-> IF n = 0 THEN Start ELSE Take(g[n - 1], s[n], inside)]
<1>1. m \in Nat /\ \A k \in 1..m : s[k] \in Tokens
  OBVIOUS
<1>2. \A k \in 1..m, st \in ScanStates : F[k][st] = Take(st, s[k], inside)
  OBVIOUS
<1>3. F \in [1..m -> [ScanStates -> ScanStates]]
  <2> HIDE DEF m
  <2> QED
    BY <1>1, TakeType
<1>4. Start \in ScanStates
  BY DEF Start, ScanStates
<1> HIDE DEF F, m
<1>5. PICK g : g \in [0..m -> ScanStates] /\ g[0] = Start /\ \A k \in 1..m : g[k] = F[k][g[k - 1]]
  <2> HIDE DEF ScanStates, Start
  <2>1. IsNext(F, m, ScanStates)
    BY <1>3 DEF IsNext
  <2>2. \E g : IsRun(g, F, m, ScanStates, Start)
    BY <1>1, <1>4, <2>1, RunExists
  <2> QED
    BY <2>2 DEF IsRun
<1>6. Scans(g)
  <2>0. g \in [0..m -> ScanStates]
    BY <1>5
  <2>1. \A n \in 0..m : g[n] = IF n = 0 THEN Start ELSE Take(g[n - 1], s[n], inside)
    <3> SUFFICES ASSUME NEW n \in 0..m, n # 0 PROVE g[n] = Take(g[n - 1], s[n], inside)
      BY <1>5
    <3>1. n \in 1..m /\ n - 1 \in 0..m
      BY <1>1
    <3>2. g[n - 1] \in ScanStates
      BY <2>0, <3>1
    <3> QED
      BY <1>2, <1>5, <3>1, <3>2
  <2>2. g = [n \in 0..m |-> g[n]]
    BY <2>0
  <2> QED
    BY <2>1, <2>2
<1> DEFINE h == CHOOSE f : Scans(f)
<1>7. Scans(h)
  <2> HIDE DEF Scans
  <2> QED
    BY <1>6
<1>8. Scan(s, inside) = h
  BY Zenon DEF Scan, m, Start
<1> HIDE DEF h
<1>9. \A n \in 0..m : h[n] = IF n = 0 THEN Start ELSE Take(h[n - 1], s[n], inside)
  BY <1>7
<1>10. h[0] = Start
  BY <1>1, <1>9
<1>11. ASSUME NEW n \in 0..m, n < m PROVE h[n + 1] = Take(h[n], s[n + 1], inside)
  <2>1. n + 1 \in 0..m /\ n + 1 # 0 /\ (n + 1) - 1 = n
    BY <1>1, <1>11
  <2> QED
    BY <1>9, <2>1
<1> QED
  BY <1>8, <1>10, <1>11 DEF m

-----------------------------------------------------------------------------
(* Positions in think blocks *)

\* The first token is in no block.
LEMMA ThinkBegins == \A s : ~InThink(s, 1)
<1> SUFFICES ASSUME NEW s, NEW j \in 1..(1 - 1) PROVE FALSE
  BY DEF InThink
<1> QED
  OBVIOUS

\* Whether the next position lies in a block.
LEMMA ThinkGoesOn ==
  ASSUME NEW s, NEW n \in Nat
  PROVE  InThink(s, n + 2) <=> s[n + 1] = "<think>" \/ (InThink(s, n + 1) /\ s[n + 1] # "</think>")
<1>1. (n + 2) - 1 = n + 1 /\ (n + 1) - 1 = n /\ n + 1 \in 1..(n + 1)
  OBVIOUS
<1> DEFINE Open(j, m) == s[j] = "<think>" /\ \A k \in (j + 1)..m : s[k] # "</think>"
<1>2. InThink(s, n + 2) <=> \E j \in 1..(n + 1) : Open(j, n + 1)
  BY <1>1 DEF InThink
<1>3. InThink(s, n + 1) <=> \E j \in 1..n : Open(j, n)
  BY <1>1 DEF InThink
<1>4. ASSUME InThink(s, n + 2), s[n + 1] # "<think>" PROVE InThink(s, n + 1) /\ s[n + 1] # "</think>"
  <2>1. PICK j \in 1..(n + 1) : Open(j, n + 1)
    BY <1>2, <1>4
  <2>2. j \in 1..n /\ n + 1 \in (j + 1)..(n + 1)
    <3>1. j # n + 1
      BY <1>4, <2>1
    <3> QED
      BY <3>1
  <2>3. Open(j, n)
    <3>1. \A k \in (j + 1)..n : k \in (j + 1)..(n + 1)
      BY <2>2
    <3> QED
      BY <2>1, <3>1
  <2>4. s[n + 1] # "</think>"
    BY <2>1, <2>2
  <2> HIDE DEF Open
  <2> QED
    BY <1>3, <2>2, <2>3, <2>4
<1>5. ASSUME s[n + 1] = "<think>" PROVE InThink(s, n + 2)
  <2>1. \A k \in ((n + 1) + 1)..(n + 1) : FALSE
    OBVIOUS
  <2>2. Open(n + 1, n + 1)
    BY <1>5, <2>1
  <2> HIDE DEF Open
  <2> QED
    BY <1>1, <1>2, <2>2
<1>6. ASSUME InThink(s, n + 1), s[n + 1] # "</think>" PROVE InThink(s, n + 2)
  <2>1. PICK j \in 1..n : Open(j, n)
    BY <1>3, <1>6
  <2>2. j \in 1..(n + 1) /\ \A k \in (j + 1)..(n + 1) : k \in (j + 1)..n \/ k = n + 1
    OBVIOUS
  <2>3. Open(j, n + 1)
    BY <1>6, <2>1, <2>2
  <2> HIDE DEF Open
  <2> QED
    BY <1>2, <2>2, <2>3
<1> QED
  BY <1>4, <1>5, <1>6

-----------------------------------------------------------------------------
(* What a part holds *)

\* p tells of each token of out which of the positions P it is from.
IsPick(p, s, P, out) ==
  /\ p \in [DOMAIN out -> P]
  /\ \A j, k \in DOMAIN out : j < k => p[j] < p[k]
  /\ \A i \in P : \E k \in DOMAIN out : p[k] = i
  /\ \A k \in DOMAIN out : out[k] = s[p[k]]

\* One more token is one more position.
LEMMA PickGrows ==
  ASSUME NEW S, NEW s, NEW n \in Nat, NEW P \in SUBSET (1..n), NEW out \in Seq(S), NEW p,
         IsPick(p, s, P, out), s[n + 1] \in S
  PROVE  \E q : IsPick(q, s, P \cup {n + 1}, Append(out, s[n + 1]))
<1> DEFINE m == Len(out)
           o == Append(out, s[n + 1])
           q == [k \in 1..(m + 1) |-> IF k <= m THEN p[k] ELSE n + 1]
           Q == P \cup {n + 1}
<1>1. /\ m \in Nat /\ DOMAIN out = 1..m /\ DOMAIN o = 1..(m + 1)
      /\ o[m + 1] = s[n + 1] /\ \A k \in 1..m : o[k] = out[k]
  OBVIOUS
<1>2. /\ \A k \in 1..m : p[k] \in P /\ p[k] \in 1..n /\ out[k] = s[p[k]]
      /\ \A j, k \in 1..m : j < k => p[j] < p[k]
      /\ \A i \in P : \E k \in 1..m : p[k] = i
  BY <1>1 DEF IsPick
<1> HIDE DEF m, o
<1>3. /\ \A k \in 1..m : q[k] = p[k] /\ k \in 1..(m + 1)
      /\ q[m + 1] = n + 1 /\ m + 1 \in 1..(m + 1)
      /\ DOMAIN q = 1..(m + 1)
  BY <1>1
<1>4. \A k \in 1..(m + 1) : k \in 1..m \/ k = m + 1
  BY <1>1
<1>5. q \in [1..(m + 1) -> Q]
  BY <1>2, <1>4
<1> HIDE DEF q
<1>6. ASSUME NEW j \in 1..(m + 1), NEW k \in 1..(m + 1), j < k PROVE q[j] < q[k]
  <2>1. j \in 1..m
    BY <1>1, <1>6
  <2>2. CASE k \in 1..m
    BY <1>2, <1>3, <1>6, <2>1, <2>2
  <2>3. CASE k = m + 1
    <3>1. q[j] \in 1..n /\ q[k] = n + 1
      BY <1>2, <1>3, <2>1, <2>3
    <3> QED
      BY <3>1
  <2> QED
    BY <1>4, <2>2, <2>3
<1>7. \A i \in Q : \E k \in 1..(m + 1) : q[k] = i
  BY <1>2, <1>3
<1>8. \A k \in 1..(m + 1) : o[k] = s[q[k]]
  BY <1>1, <1>2, <1>3, <1>4
<1>9. IsPick(q, s, Q, o)
  BY <1>1, <1>5, <1>6, <1>7, <1>8 DEF IsPick
<1> QED
  BY <1>9 DEF o

Chosen(s, inside) == IF inside THEN Reasoned(s) ELSE Answered(s)

\* The pass is in a block where the positions say so, and takes the token of
\* each position of its part.
LEMMA ScanFollows ==
  ASSUME NEW s \in Seq(Tokens), NEW inside \in BOOLEAN
  PROVE  LET g == Scan(s, inside)
             m == Len(s) IN
         /\ g[0] = Start
         /\ \A n \in 0..m : g[n] \in ScanStates /\ (g[n].open <=> InThink(s, n + 1))
         /\ \A n \in 0..m : n < m =>
              g[n + 1].out = IF n + 1 \in Chosen(s, inside) THEN Append(g[n].out, s[n + 1]) ELSE g[n].out
<1> DEFINE g == Scan(s, inside)
           m == Len(s)
           C == Chosen(s, inside)
           Good(n) == g[n] \in ScanStates /\ (g[n].open <=> InThink(s, n + 1))
           I == {n \in 0..m : Good(n)}
<1>1. m \in Nat /\ DOMAIN s = 1..m /\ \A n \in 1..m : s[n] \in Tokens
  OBVIOUS
<1>2. g[0] = Start /\ \A n \in 0..m : n < m => g[n + 1] = Take(g[n], s[n + 1], inside)
  BY ScanIs
<1>3. \A i \in 1..m : i \in C <=> IF inside THEN InThink(s, i) /\ s[i] # "</think>"
                                            ELSE ~InThink(s, i) /\ s[i] # "<think>"
  BY <1>1 DEF Chosen, Reasoned, Answered
<1> HIDE DEF g, m, C
<1>4. 0 \in I
  <2>1. g[0] \in ScanStates /\ g[0].open = FALSE
    BY <1>2 DEF Start, ScanStates
  <2>2. ~InThink(s, 0 + 1)
    BY ThinkBegins
  <2>3. 0 \in 0..m
    BY <1>1
  <2> QED
    BY <2>1, <2>2, <2>3
<1>5. ASSUME NEW n \in 0..m, n < m, Good(n)
      PROVE  /\ Good(n + 1)
             /\ g[n + 1].out = IF n + 1 \in C THEN Append(g[n].out, s[n + 1]) ELSE g[n].out
  <2> DEFINE st == g[n]  t == s[n + 1]
  <2>1. n + 1 \in 1..m /\ n + 1 \in 0..m /\ n \in Nat /\ (n + 1) + 1 = n + 2
    BY <1>1, <1>5
  <2>2. t \in Tokens /\ g[n + 1] = Take(st, t, inside)
    BY <1>1, <1>2, <1>5, <2>1
  <2>3. st \in ScanStates /\ (st.open <=> InThink(s, n + 1))
    BY <1>5
  <2>4. InThink(s, (n + 1) + 1) <=> t = "<think>" \/ (st.open /\ t # "</think>")
    <3>1. InThink(s, n + 2) <=> s[n + 1] = "<think>" \/ (InThink(s, n + 1) /\ s[n + 1] # "</think>")
      BY <2>1, ThinkGoesOn
    <3> QED
      BY <2>1, <2>3, <3>1
  <2>5. n + 1 \in C <=> IF inside THEN st.open /\ t # "</think>" ELSE ~st.open /\ t # "<think>"
    BY <1>3, <2>1, <2>3
  <2> HIDE DEF st, t
  <2>6. /\ Take(st, t, inside) \in ScanStates
        /\ Take(st, t, inside).open <=> t = "<think>" \/ (st.open /\ t # "</think>")
        /\ Take(st, t, inside).out =
             IF IF inside THEN st.open /\ t # "</think>" ELSE ~st.open /\ t # "<think>"
               THEN Append(st.out, t) ELSE st.out
    BY <2>2, <2>3, TakeType
  <2>7. Good(n + 1)
    BY <2>2, <2>4, <2>6
  <2>8. g[n + 1].out = IF n + 1 \in C THEN Append(st.out, t) ELSE st.out
    BY <2>2, <2>5, <2>6
  <2> QED
    BY <2>7, <2>8 DEF st, t
<1>6. \A n \in 0..m : n \in I
  <2>1. ASSUME NEW n \in 0..m, n < m, n \in I PROVE n + 1 \in I
    <3> HIDE DEF Good
    <3>1. n + 1 \in 0..m
      BY <1>1, <2>1
    <3> QED
      BY <1>5, <2>1, <3>1
  <2> HIDE DEF I
  <2> QED
    BY <1>1, <1>4, <2>1, UpTo
<1>7. \A n \in 0..m : Good(n)
  BY <1>6
<1>8. ASSUME NEW n \in 0..m, n < m
      PROVE  g[n + 1].out = IF n + 1 \in C THEN Append(g[n].out, s[n + 1]) ELSE g[n].out
  BY <1>5, <1>7, <1>8
<1> QED
  BY <1>2, <1>7, <1>8 DEF g, m, C

\* A part of an answer holds the tokens of its positions, in their order.
LEMMA PartPicks ==
  ASSUME NEW s \in Seq(Tokens), NEW inside \in BOOLEAN
  PROVE  /\ Part(s, inside) \in Seq(Tokens)
         /\ \E p : IsPick(p, s, Chosen(s, inside), Part(s, inside))
<1> DEFINE g == Scan(s, inside)
           m == Len(s)
           C == Chosen(s, inside)
           P(n) == {i \in C : i <= n}
           I == {n \in 0..m : \E p : IsPick(p, s, P(n), g[n].out)}
<1>1. m \in Nat /\ DOMAIN s = 1..m /\ \A n \in 1..m : s[n] \in Tokens
  OBVIOUS
<1>2. /\ g[0] = Start
      /\ \A n \in 0..m : g[n] \in ScanStates
      /\ \A n \in 0..m : n < m => g[n + 1].out = IF n + 1 \in C THEN Append(g[n].out, s[n + 1]) ELSE g[n].out
  BY ScanFollows
<1>3. C \subseteq 1..m
  BY <1>1 DEF Chosen, Reasoned, Answered
<1> HIDE DEF g, m, C
<1>4. \A i \in C : i \in Nat /\ 1 <= i /\ i <= m
  BY <1>1, <1>3
<1>5. \A n \in 0..m : g[n].out \in Seq(Tokens)
  BY <1>2 DEF ScanStates
<1>6. 0 \in I
  <2>1. g[0].out = <<>>
    BY <1>2 DEF Start
  <2>2. P(0) = {}
    BY <1>4
  <2>3. IsPick(<<>>, s, {}, <<>>)
    BY DEF IsPick
  <2>4. 0 \in 0..m
    BY <1>1
  <2> HIDE DEF P
  <2> QED
    BY <2>1, <2>2, <2>3, <2>4
<1>7. ASSUME NEW n \in 0..m, n < m, n \in I PROVE n + 1 \in I
  <2>1. n \in Nat /\ n + 1 \in 1..m /\ n + 1 \in 0..m
    BY <1>1, <1>7
  <2>2. PICK p : IsPick(p, s, P(n), g[n].out)
    BY <1>7
  <2>3. P(n + 1) = IF n + 1 \in C THEN P(n) \cup {n + 1} ELSE P(n)
    <3>1. \A i \in C : i <= n + 1 <=> i <= n \/ i = n + 1
      BY <1>4, <2>1
    <3> QED
      BY <2>1, <3>1
  <2>4. P(n) \in SUBSET (1..n)
    <3>1. n \in Nat /\ \A i \in P(n) : i \in Nat /\ 1 <= i /\ i <= n
      BY <1>4, <2>1
    <3> HIDE DEF P
    <3> QED
      BY <3>1
  <2> HIDE DEF P
  <2>5. \E q : IsPick(q, s, P(n) \cup {n + 1}, Append(g[n].out, s[n + 1]))
    BY <1>1, <1>5, <2>1, <2>2, <2>4, PickGrows
  <2>6. \E q : IsPick(q, s, P(n + 1), g[n + 1].out)
    <3>1. g[n + 1].out = IF n + 1 \in C THEN Append(g[n].out, s[n + 1]) ELSE g[n].out
      BY <1>2, <1>7
    <3> QED
      BY <2>2, <2>3, <2>5, <3>1
  <2> QED
    BY <2>1, <2>6
<1> HIDE DEF I
<1>8. m \in I
  <2>1. \A n \in 0..m : n \in I
    BY <1>1, <1>6, <1>7, UpTo
  <2> QED
    BY <1>1, <2>1
<1>9. P(m) = C
  BY <1>4
<1>10. Part(s, inside) = g[m].out
  BY DEF Part, g, m
<1>11. \E p : IsPick(p, s, C, g[m].out)
  BY <1>8, <1>9 DEF I
<1>12. g[m].out \in Seq(Tokens)
  BY <1>1, <1>5
<1> QED
  BY <1>10, <1>11, <1>12 DEF C

-----------------------------------------------------------------------------
(* Opening and closing fences of a part *)

\* The least index of a set, or 0 when there is none.
LEMMA MinIs ==
  ASSUME NEW m \in Nat, NEW I \in SUBSET (1..m)
  PROVE  LET d == IF I # {} THEN Min(I) ELSE 0 IN
         /\ d \in 0..m /\ (d # 0 => d \in I)
         /\ \A i \in 1..m : (d = 0 \/ i < d) => i \notin I
<1> DEFINE d == IF I # {} THEN Min(I) ELSE 0
<1>1. CASE I = {}
  BY <1>1
<1>2. CASE I # {}
  <2>1. \E i \in I : \A j \in I : i <= j
    <3>1. I \in SUBSET Nat
      OBVIOUS
    <3> QED
      BY <1>2, <3>1, LeastNumber
  <2>2. d = Min(I)
    BY <1>2
  <2>3. d \in I /\ \A j \in I : d <= j
    BY <2>1, <2>2 DEF Min
  <2> HIDE DEF d
  <2>4. /\ d \in 0..m /\ (d # 0 => d \in I)
        /\ \A i \in 1..m : (d = 0 \/ i < d) => i \notin I
    BY <2>3
  <2> QED
    BY <2>4 DEF d
<1> QED
  BY <1>1, <1>2

\* The first fence of s, and the closing ticks of the block.
LEMMA FenceIs ==
  ASSUME NEW S, NEW o \in Seq(S)
  PROVE  LET i == SelectInSeq(o, LAMBDA t : t = "fence") IN
         /\ i \in 0..Len(o) /\ (HasFence(o) <=> i # 0) /\ (i # 0 => o[i] = "fence")
         /\ \A k \in 1..Len(o) : (i = 0 \/ k < i) => o[k] # "fence"
         /\ AfterFence(o) = SubSeq(o, i + 1, Len(o))
<1> DEFINE i == SelectInSeq(o, LAMBDA t : t = "fence")
           I == {k \in 1..Len(o) : o[k] = "fence"}
           m == Len(o)
<1>1. i = IF I # {} THEN Min(I) ELSE 0
  BY Zenon DEF SelectInSeq
<1>2. AfterFence(o) = SubSeq(o, i + 1, m)
  BY Zenon DEF AfterFence
<1>3. m \in Nat /\ I \in SUBSET (1..m)
  OBVIOUS
<1>4. HasFence(o) <=> I # {}
  BY DEF HasFence, Contains
<1>5. \A k \in 1..m : k \in I <=> o[k] = "fence"
  OBVIOUS
<1> HIDE DEF i, I, m
<1>6. /\ i \in 0..m /\ (i # 0 => i \in I)
      /\ \A k \in 1..m : (i = 0 \/ k < i) => k \notin I
  BY <1>1, <1>3, MinIs
<1>7. HasFence(o) <=> i # 0
  <2>1. i = 0 => I = {}
    BY <1>3, <1>6
  <2>2. i # 0 => I # {}
    BY <1>6
  <2> QED
    BY <1>4, <2>1, <2>2
<1>8. i # 0 => o[i] = "fence"
  BY <1>3, <1>5, <1>6
<1> QED
  BY <1>2, <1>5, <1>6, <1>7, <1>8 DEF i, m

\* CloseOf: the first index that closes, or 0.
LEMMA CloseIs ==
  ASSUME NEW S, NEW o \in Seq(S)
  PROVE  /\ CloseOf(o) \in 0..Len(o) /\ (CloseOf(o) # 0 => o[CloseOf(o)] \in {"ticks", "fence"})
         /\ \A k \in 1..Len(o) : (CloseOf(o) = 0 \/ k < CloseOf(o)) => o[k] \notin {"ticks", "fence"}
<1> DEFINE i == CloseOf(o)
           I == {k \in 1..Len(o) : o[k] \in {"ticks", "fence"}}
           m == Len(o)
<1>1. i = IF I # {} THEN Min(I) ELSE 0
  BY Zenon DEF SelectInSeq, CloseOf
<1>2. m \in Nat /\ I \in SUBSET (1..m)
  OBVIOUS
<1>3. \A k \in 1..m : k \in I <=> o[k] \in {"ticks", "fence"}
  OBVIOUS
<1> HIDE DEF i, I, m
<1>4. /\ i \in 0..m /\ (i # 0 => i \in I)
      /\ \A k \in 1..m : (i = 0 \/ k < i) => k \notin I
  BY <1>1, <1>2, MinIs
<1>5. i # 0 => o[i] \in {"ticks", "fence"}
  BY <1>2, <1>3, <1>4
<1> QED
  BY <1>3, <1>4, <1>5 DEF i, m

\* The rest of a sequence, index by index.
LEMMA RestIs ==
  ASSUME NEW S, NEW o \in Seq(S), NEW i \in 0..Len(o)
  PROVE  LET rest == SubSeq(o, i + 1, Len(o)) IN
         /\ rest \in Seq(S) /\ Len(rest) = Len(o) - i
         /\ \A k \in 1..(Len(o) - i) : i + k \in 1..Len(o) /\ rest[k] = o[i + k]
<1> DEFINE rest == SubSeq(o, i + 1, Len(o))
           m == Len(o)
<1>1. m \in Nat /\ i \in Nat /\ i <= m /\ \A k \in 1..m : o[k] \in S
  OBVIOUS
<1>2. \A k \in (i + 1)..m : o[k] \in S
  BY <1>1
<1>3. i + 1 \in Int /\ m \in Int
  BY <1>1
<1>4. /\ rest \in Seq(S)
      /\ Len(rest) = IF i + 1 <= m THEN m - (i + 1) + 1 ELSE 0
      /\ \A k \in 1..(m - (i + 1) + 1) : rest[k] = o[(i + 1) + k - 1]
  BY <1>2, <1>3, SubSeqProperties
<1> HIDE DEF rest, m
<1>5. Len(rest) = m - i
  BY <1>1, <1>4
<1>6. ASSUME NEW k \in 1..(m - i) PROVE i + k \in 1..m /\ rest[k] = o[i + k]
  <2>1. k \in 1..(m - (i + 1) + 1) /\ (i + 1) + k - 1 = i + k /\ i + k \in 1..m
    BY <1>1
  <2> QED
    BY <1>4, <2>1
<1> QED
  BY <1>4, <1>5, <1>6 DEF rest, m

\* What lies before the closing ticks.
LEMMA HeadIs ==
  ASSUME NEW S, NEW o \in Seq(S), NEW c \in 1..Len(o)
  PROVE  /\ Len(SubSeq(o, 1, c - 1)) = c - 1
         /\ c = 2 => SubSeq(o, 1, c - 1)[1] = o[1]
<1> DEFINE raw == SubSeq(o, 1, c - 1)
           m == Len(o)
<1>1. m \in Nat /\ c \in Nat /\ 1 <= c /\ c <= m /\ \A k \in 1..m : o[k] \in S
  OBVIOUS
<1>2. \A k \in 1..(c - 1) : o[k] \in S
  BY <1>1
<1>3. 1 \in Int /\ c - 1 \in Int
  BY <1>1
<1>4. /\ Len(raw) = IF 1 <= c - 1 THEN (c - 1) - 1 + 1 ELSE 0
      /\ \A k \in 1..((c - 1) - 1 + 1) : raw[k] = o[1 + k - 1]
  BY <1>2, <1>3, SubSeqProperties
<1> HIDE DEF raw, m
<1>5. Len(raw) = c - 1
  BY <1>1, <1>4
<1>6. c = 2 => raw[1] = o[1]
  <2>1. c = 2 => 1 \in 1..((c - 1) - 1 + 1)
    BY <1>1
  <2> QED
    BY <1>4, <2>1
<1> QED
  BY <1>5, <1>6 DEF raw

\* TrimSpace closes no block that was open and opens none: of a fence that ends
\* the text it leaves the ticks.
LEMMA TrimBlock ==
  ASSUME NEW o \in Seq(Tokens)
  PROVE  LET t == TrimSpace(o)
             rest == AfterFence(o)
             c == CloseOf(rest)
             raw == SubSeq(rest, 1, c - 1)
             restT == AfterFence(t)
             cT == CloseOf(restT)
             rawT == SubSeq(restT, 1, cT - 1)
         IN /\ HasFence(t) <=> HasFence(o) /\ Len(rest) > 0
            /\ HasFence(t) => /\ cT = c
                              /\ c > 0 => \A x : Len(rawT) = 1 /\ rawT[1] = x <=> Len(raw) = 1 /\ raw[1] = x
<1> DEFINE t == TrimSpace(o)
           m == Len(o)
           i == SelectInSeq(o, LAMBDA u : u = "fence")
           j == SelectInSeq(t, LAMBDA u : u = "fence")
           rest == AfterFence(o)
           restT == AfterFence(t)
           c == CloseOf(rest)
           cT == CloseOf(restT)
           raw == SubSeq(rest, 1, c - 1)
           rawT == SubSeq(restT, 1, cT - 1)
           S == Tokens \cup {"ticks"}
<1>1. m \in Nat /\ DOMAIN o = 1..m /\ o \in Seq(S) /\ \A k \in 1..m : o[k] \in Tokens
  OBVIOUS
<1>2. /\ i \in 0..m /\ (HasFence(o) <=> i # 0) /\ (i # 0 => o[i] = "fence")
      /\ \A k \in 1..m : (i = 0 \/ k < i) => o[k] # "fence"
      /\ rest = SubSeq(o, i + 1, m)
  BY FenceIs
<1> HIDE DEF i
<1>3. Len(rest) = m - i /\ rest \in Seq(S) /\ \A k \in 1..(m - i) : rest[k] = o[i + k]
  BY <1>1, <1>2, RestIs DEF m
<1>4. CASE o = <<>> \/ o[m] # "fence"
  <2>1. t = o
    BY <1>4 DEF TrimSpace
  <2>2. i # m \/ i = 0
    <3>1. ASSUME i = m, i # 0 PROVE FALSE
      <4>1. o[m] = "fence" /\ m # 0
        BY <1>2, <3>1
      <4>2. o # <<>>
        BY <4>1
      <4> QED
        BY <1>4, <4>1, <4>2
    <3> QED
      BY <3>1
  <2> HIDE DEF m, rest, t
  <2>3. HasFence(o) => Len(rest) > 0
    <3>1. ASSUME HasFence(o) PROVE i \in 1..m /\ i < m
      BY <1>1, <1>2, <2>2, <3>1
    <3> QED
      BY <1>1, <1>3, <3>1
  <2>4. t = o /\ (HasFence(t) <=> HasFence(o) /\ Len(rest) > 0)
    BY <2>1, <2>3
  <2> QED
    BY <2>4 DEF t, rest
<1>5. CASE o # <<>> /\ o[m] = "fence"
  <2>1. m >= 1
    BY <1>1, <1>5
  <2>2. t = [o EXCEPT ![m] = "ticks"]
    BY <1>5 DEF TrimSpace
  <2>3. /\ t \in Seq(S) /\ Len(t) = m /\ t[m] = "ticks"
        /\ \A k \in 1..m : k < m => t[k] = o[k]
    <3>1. m \in 1..m
      BY <1>1, <2>1
    <3>2. t \in [1..m -> S]
      BY <1>1, <2>2
    <3>3. t \in Seq(S) /\ Len(t) = m
      BY <1>1, <3>2
    <3>4. \A k \in 1..m : t[k] = IF k = m THEN "ticks" ELSE o[k]
      BY <1>1, <2>2
    <3> HIDE DEF t, m
    <3>5. t[m] = "ticks" /\ \A k \in 1..m : k < m => t[k] = o[k]
      BY <1>1, <3>1, <3>4
    <3> QED
      BY <3>3, <3>5
  <2> HIDE DEF t
  <2>4. /\ j \in 0..Len(t) /\ (HasFence(t) <=> j # 0) /\ (j # 0 => t[j] = "fence")
        /\ \A k \in 1..Len(t) : (j = 0 \/ k < j) => t[k] # "fence"
        /\ restT = SubSeq(t, j + 1, Len(t))
    BY <2>3, FenceIs
  <2> HIDE DEF j, restT, rest, m
  <2>5. i # 0
    <3>1. m \in 1..m
      BY <1>1, <2>1
    <3> QED
      BY <1>2, <1>5, <3>1
  <2>6. CASE i = m
    <3>1. j = 0
      <4>1. SUFFICES ASSUME j # 0 PROVE FALSE
        OBVIOUS
      <4>2. j \in 1..m /\ t[j] = "fence"
        BY <1>1, <2>3, <2>4, <4>1
      <4>3. j < m
        BY <1>1, <2>3, <4>2
      <4> QED
        BY <1>2, <2>3, <2>6, <4>2, <4>3
    <3>2. ~(Len(rest) > 0)
      BY <1>1, <1>3, <2>6
    <3>3. ~HasFence(t) /\ ~(Len(rest) > 0)
      BY <2>4, <3>1, <3>2
    <3> QED
      BY <3>3 DEF t, rest
  <2>7. CASE i # m
    <3>1. i \in 1..m /\ i < m /\ i \in Nat
      BY <1>1, <1>2, <2>5, <2>7
    <3>2. t[i] = "fence"
      BY <1>2, <2>3, <2>5, <3>1
    <3>3. j = i
      <4>1. j # 0 /\ ~(i < j)
        BY <2>3, <2>4, <3>1, <3>2
      <4>2. j \in 1..m /\ ~(j < i)
        <5>1. j \in 1..m /\ t[j] = "fence"
          BY <1>1, <2>3, <2>4, <4>1
        <5>2. j < i => j < m /\ o[j] # "fence"
          BY <1>1, <1>2, <3>1, <5>1
        <5> QED
          BY <2>3, <5>1, <5>2
      <4> QED
        BY <1>1, <3>1, <4>1, <4>2
    <3>4. /\ restT \in Seq(S) /\ Len(restT) = m - i
          /\ \A k \in 1..(m - i) : restT[k] = t[i + k]
      <4>1. j \in 0..Len(t)
        BY <2>4
      <4> QED
        BY <2>3, <2>4, <3>3, <4>1, RestIs
    <3>5. \A k \in 1..(m - i) : k < m - i => restT[k] = rest[k]
      <4> SUFFICES ASSUME NEW k \in 1..(m - i), k < m - i PROVE restT[k] = rest[k]
        OBVIOUS
      <4>1. i + k \in 1..m /\ i + k < m
        BY <1>1, <3>1
      <4> QED
        BY <1>3, <2>3, <3>4, <4>1
    <3>6. m - i \in 1..(m - i) /\ restT[m - i] = "ticks" /\ rest[m - i] = "fence"
      <4>1. m - i \in 1..(m - i) /\ i + (m - i) = m
        BY <1>1, <3>1
      <4> QED
        BY <1>3, <1>5, <2>3, <3>4, <4>1
    <3>7. /\ c \in 0..(m - i) /\ (c # 0 => rest[c] \in {"ticks", "fence"})
          /\ \A k \in 1..(m - i) : (c = 0 \/ k < c) => rest[k] \notin {"ticks", "fence"}
      BY <1>3, CloseIs
    <3>8. /\ cT \in 0..(m - i) /\ (cT # 0 => restT[cT] \in {"ticks", "fence"})
          /\ \A k \in 1..(m - i) : (cT = 0 \/ k < cT) => restT[k] \notin {"ticks", "fence"}
      BY <3>4, CloseIs
    <3> HIDE DEF c, cT
    <3>9. \A k \in 1..(m - i) : restT[k] \in {"ticks", "fence"} <=> rest[k] \in {"ticks", "fence"}
      <4> SUFFICES ASSUME NEW k \in 1..(m - i) PROVE restT[k] \in {"ticks", "fence"} <=> rest[k] \in {"ticks", "fence"}
        OBVIOUS
      <4>1. k < m - i \/ k = m - i
        BY <1>1, <3>1
      <4> QED
        BY <3>5, <3>6, <4>1
    <3>10. c \in 1..(m - i) /\ cT = c
      <4>1. c # 0 /\ cT # 0
        BY <3>6, <3>7, <3>8
      <4>2. c \in 1..(m - i) /\ cT \in 1..(m - i)
        BY <1>1, <3>1, <3>7, <3>8, <4>1
      <4>3. ~(c < cT) /\ ~(cT < c)
        BY <3>7, <3>8, <3>9, <4>1, <4>2
      <4> QED
        BY <1>1, <3>1, <4>2, <4>3
    <3>11. Len(raw) = c - 1 /\ (c = 2 => raw[1] = rest[1])
      BY <1>3, <3>10, HeadIs
    <3>12. Len(rawT) = c - 1 /\ (c = 2 => rawT[1] = restT[1])
      <4>1. cT \in 1..Len(restT)
        BY <3>4, <3>10
      <4> QED
        BY <3>4, <3>10, <4>1, HeadIs
    <3>13. c = 2 => restT[1] = rest[1]
      <4> SUFFICES ASSUME c = 2 PROVE restT[1] = rest[1]
        OBVIOUS
      <4>1. 1 \in 1..(m - i) /\ 1 < m - i
        BY <1>1, <3>1, <3>10
      <4> QED
        BY <3>5, <4>1
    <3> HIDE DEF raw, rawT
    <3>14. \A x : Len(rawT) = 1 /\ rawT[1] = x <=> Len(raw) = 1 /\ raw[1] = x
      <4>0. c \in Nat
        BY <1>1, <3>1, <3>10
      <4>1. c - 1 = 1 => c = 2
        BY <4>0
      <4>2. Len(raw) = c - 1 /\ Len(rawT) = c - 1
        BY <3>11, <3>12
      <4> QED
        BY <3>11, <3>12, <3>13, <4>1, <4>2, Zenon
    <3>15. HasFence(t) /\ HasFence(o) /\ Len(rest) > 0
      BY <1>1, <1>2, <1>3, <2>4, <2>5, <3>1, <3>3
    <3> QED
      BY <3>10, <3>14, <3>15 DEF c, cT, raw, rawT, rest, restT, t
  <2> QED
    BY <2>6, <2>7
<1> QED
  BY <1>4, <1>5

-----------------------------------------------------------------------------
(* The block of a part *)

\* Of one opening fence, and one end of its block, there is at most one.
LEMMA OneBlock ==
  ASSUME NEW s \in Seq(Tokens), NEW P \in SUBSET DOMAIN s,
         NEW f, NEW g, NEW c, NEW d,
         FirstFence(s, P, f), FirstFence(s, P, g)
  PROVE  f = g /\ (Closes(s, P, f, c) /\ Closes(s, P, g, d) => c = d)
<1>1. \A i \in P : i \in Nat
  <2>1. DOMAIN s = 1..Len(s) /\ Len(s) \in Nat
    OBVIOUS
  <2> QED
    BY <2>1
<1>2. f = g
  <2>1. f \in P /\ g \in P /\ ~(f < g) /\ ~(g < f)
    BY DEF FirstFence
  <2> QED
    BY <1>1, <2>1
<1>3. ASSUME Closes(s, P, f, c), Closes(s, P, g, d) PROVE c = d
  <2>1. c \in P /\ d \in P /\ ~(c < d) /\ ~(d < c)
    BY <1>2, <1>3 DEF Closes
  <2> QED
    BY <1>1, <2>1
<1> QED
  BY <1>2, <1>3

\* What findActionsBlock cuts out of a part is what the reference says of its
\* positions: whether there is a fence and text after it, whether its block is
\* closed, and what the block holds.
LEMMA BlockIs ==
  ASSUME NEW s \in Seq(Tokens), NEW P \in SUBSET DOMAIN s, NEW out \in Seq(Tokens), NEW p,
         IsPick(p, s, P, out)
  PROVE  /\ HasFence(out) <=> \E f \in P : FirstFence(s, P, f)
         /\ HasFence(out) /\ Len(AfterFence(out)) > 0 <=> Opened(s, P)
         /\ HasFence(out) => LET rest == AfterFence(out) c == CloseOf(rest) IN
              /\ c \in Nat /\ (c > 0 <=> ClosedIn(s, P))
              /\ c > 0 => LET raw == SubSeq(rest, 1, c - 1) IN
                   \A x : BlockHolds(s, P, x) <=> Len(raw) = 1 /\ raw[1] = x
<1> DEFINE i == SelectInSeq(out, LAMBDA t : t = "fence")
           m == Len(out)
           rest == AfterFence(out)
           c == CloseOf(rest)
           raw == SubSeq(rest, 1, c - 1)
<1>1. /\ i \in 0..m /\ (HasFence(out) <=> i # 0) /\ (i # 0 => out[i] = "fence")
      /\ \A k \in 1..m : (i = 0 \/ k < i) => out[k] # "fence"
      /\ rest = SubSeq(out, i + 1, m)
  BY FenceIs
<1>2. m \in Nat /\ DOMAIN out = 1..m
  OBVIOUS
<1> HIDE DEF i, m
<1>3. /\ rest \in Seq(Tokens) /\ Len(rest) = m - i
      /\ \A k \in 1..(m - i) : i + k \in 1..m /\ rest[k] = out[i + k]
  BY <1>1, RestIs DEF m
<1> HIDE DEF rest
<1>4. /\ c \in 0..(m - i) /\ (c # 0 => rest[c] \in {"ticks", "fence"})
      /\ \A k \in 1..(m - i) : (c = 0 \/ k < c) => rest[k] \notin {"ticks", "fence"}
  BY <1>3, CloseIs
<1> HIDE DEF c
<1>5. /\ \A k \in 1..m : p[k] \in P /\ out[k] = s[p[k]]
      /\ \A j, k \in 1..m : j < k => p[j] < p[k]
      /\ \A j \in P : \E k \in 1..m : p[k] = j
  BY <1>2 DEF IsPick
<1>6. \A j \in P : j \in Nat
  <2>1. DOMAIN s = 1..Len(s) /\ Len(s) \in Nat
    OBVIOUS
  <2> QED
    BY <2>1
<1>7. \A j, k \in 1..m : (p[j] < p[k] <=> j < k) /\ (p[j] = p[k] <=> j = k)
  <2>1. \A k \in 1..m : p[k] \in Nat /\ k \in Nat
    BY <1>2, <1>5, <1>6
  <2> SUFFICES ASSUME NEW j \in 1..m, NEW k \in 1..m PROVE (p[j] < p[k] <=> j < k) /\ (p[j] = p[k] <=> j = k)
    OBVIOUS
  <2>2. (j < k => p[j] < p[k]) /\ (k < j => p[k] < p[j])
    BY <1>5
  <2> QED
    BY <2>1, <2>2
<1>8. ASSUME i # 0 PROVE FirstFence(s, P, p[i])
  <2>1. i \in 1..m
    BY <1>1, <1>8
  <2>2. p[i] \in P /\ s[p[i]] = "fence"
    BY <1>1, <1>5, <1>8, <2>1
  <2>3. ASSUME NEW j \in P, j < p[i] PROVE s[j] # "fence"
    <3>1. PICK k \in 1..m : p[k] = j
      BY <1>5
    <3>2. k < i
      BY <1>7, <2>1, <2>3, <3>1
    <3> QED
      BY <1>1, <1>5, <3>1, <3>2
  <2> QED
    BY <2>2, <2>3 DEF FirstFence
<1>9. ASSUME NEW f \in P, FirstFence(s, P, f) PROVE i # 0 /\ f = p[i]
  <2>1. PICK k \in 1..m : p[k] = f
    BY <1>5
  <2>2. i # 0
    BY <1>1, <1>5, <1>9, <2>1 DEF FirstFence
  <2> QED
    BY <1>8, <1>9, <2>2, OneBlock
<1>9a. HasFence(out) <=> \E f \in P : FirstFence(s, P, f)
  <2>1. i # 0 => p[i] \in P
    BY <1>8 DEF FirstFence
  <2> QED
    BY <1>1, <1>8, <1>9, <2>1
<1>10. HasFence(out) /\ Len(rest) > 0 <=> Opened(s, P)
  <2>1. ASSUME HasFence(out), Len(rest) > 0 PROVE Opened(s, P)
    <3>1. i # 0 /\ i \in 1..m /\ i + 1 \in 1..m /\ i < i + 1
      BY <1>1, <1>2, <1>3, <2>1
    <3>2. p[i] \in P /\ p[i + 1] \in P /\ p[i] < p[i + 1]
      BY <1>5, <3>1
    <3>3. p[i + 1] > p[i]
      BY <1>6, <3>2
    <3> QED
      BY <1>8, <3>1, <3>2, <3>3 DEF Opened
  <2>2. ASSUME Opened(s, P) PROVE HasFence(out) /\ Len(rest) > 0
    <3>1. PICK f \in P, j \in P : FirstFence(s, P, f) /\ j > f
      BY <2>2 DEF Opened
    <3>2. i # 0 /\ f = p[i]
      BY <1>9, <3>1
    <3>3. PICK k \in 1..m : p[k] = j
      BY <1>5
    <3>4. i \in 1..m /\ p[i] < p[k]
      BY <1>1, <1>2, <1>6, <3>1, <3>2, <3>3
    <3>5. i < k
      BY <1>7, <3>4
    <3> QED
      BY <1>1, <1>2, <1>3, <3>2, <3>4, <3>5
  <2> QED
    BY <2>1, <2>2
<1>11. c \in Nat
  BY <1>1, <1>2, <1>4
<1>12. ASSUME i # 0, c > 0 PROVE Closes(s, P, p[i], p[i + c])
  <2>1. i \in 1..m /\ i + c \in 1..m /\ i < i + c /\ c \in 1..(m - i)
    BY <1>1, <1>2, <1>4, <1>12
  <2>2. p[i + c] \in P /\ p[i + c] > p[i] /\ s[p[i + c]] \in {"ticks", "fence"}
    <3>1. rest[c] = out[i + c] /\ rest[c] \in {"ticks", "fence"}
      BY <1>3, <1>4, <2>1
    <3>2. p[i] < p[i + c]
      BY <1>5, <2>1
    <3>3. p[i] \in Nat /\ p[i + c] \in Nat
      BY <1>5, <1>6, <2>1
    <3> QED
      BY <1>5, <2>1, <3>1, <3>2, <3>3
  <2>3. ASSUME NEW j \in P, p[i] < j, j < p[i + c] PROVE s[j] \notin {"ticks", "fence"}
    <3>1. PICK k \in 1..m : p[k] = j
      BY <1>5
    <3>2. i < k /\ k < i + c
      BY <1>7, <2>1, <2>3, <3>1
    <3>3. k - i \in 1..(m - i) /\ k - i < c /\ i + (k - i) = k
      BY <1>2, <2>1, <3>2
    <3>4. rest[k - i] = out[k] /\ rest[k - i] \notin {"ticks", "fence"}
      BY <1>3, <1>4, <3>3
    <3> QED
      BY <1>5, <3>1, <3>4
  <2> QED
    BY <2>2, <2>3 DEF Closes
<1>13. ASSUME i # 0, c = 0 PROVE ~ClosedIn(s, P)
  <2> SUFFICES ASSUME NEW f \in P, NEW d \in P, FirstFence(s, P, f), Closes(s, P, f, d) PROVE FALSE
    BY DEF ClosedIn
  <2>1. f = p[i] /\ d > p[i] /\ s[d] \in {"ticks", "fence"}
    <3>1. FirstFence(s, P, p[i])
      BY <1>8, <1>13
    <3>2. f = p[i]
      BY <3>1, OneBlock
    <3> QED
      BY <3>2 DEF Closes
  <2>2. PICK k \in 1..m : p[k] = d
    BY <1>5
  <2>3. i \in 1..m /\ i < k
    <3>1. i \in 1..m
      BY <1>1, <1>13
    <3>2. p[i] < p[k]
      BY <1>5, <1>6, <2>1, <2>2, <3>1
    <3> QED
      BY <1>7, <3>1, <3>2
  <2>4. k - i \in 1..(m - i) /\ i + (k - i) = k
    BY <1>2, <2>3
  <2>5. rest[k - i] = out[k] /\ rest[k - i] \notin {"ticks", "fence"}
    BY <1>3, <1>4, <1>13, <2>4
  <2> QED
    BY <1>5, <2>1, <2>2, <2>5
<1>14. ASSUME i # 0 PROVE c > 0 <=> ClosedIn(s, P)
  <2>1. c > 0 => ClosedIn(s, P)
    <3>1. c > 0 => p[i] \in P /\ p[i + c] \in P
      BY <1>8, <1>12, <1>14 DEF FirstFence, Closes
    <3> QED
      BY <1>8, <1>12, <1>14, <3>1 DEF ClosedIn
  <2> QED
    BY <1>11, <1>13, <1>14, <2>1
<1>15. ASSUME i # 0, c > 0, NEW x PROVE BlockHolds(s, P, x) <=> Len(raw) = 1 /\ raw[1] = x
  <2> DEFINE In == {j \in P : p[i] < j /\ j < p[i + c]}
  <2>1. i \in 1..m /\ c \in 1..(m - i) /\ i + c \in 1..m
    BY <1>1, <1>2, <1>4, <1>15
  <2>2. Len(raw) = c - 1 /\ (c = 2 => raw[1] = rest[1])
    BY <1>3, <2>1, HeadIs
  <2>3. BlockHolds(s, P, x) <=> Holds(s, P, p[i], p[i + c], x)
    <3>1. FirstFence(s, P, p[i]) /\ Closes(s, P, p[i], p[i + c])
      BY <1>8, <1>12, <1>15
    <3>2. p[i] \in P /\ p[i + c] \in P
      BY <3>1 DEF FirstFence, Closes
    <3>3. \A f, d : FirstFence(s, P, f) /\ Closes(s, P, f, d) => f = p[i] /\ d = p[i + c]
      BY <3>1, OneBlock
    <3> QED
      BY <3>1, <3>2, <3>3 DEF BlockHolds
  <2>4. \A k \in 1..m : p[k] \in In <=> i < k /\ k < i + c
    BY <1>5, <1>7, <2>1
  <2>5. Holds(s, P, p[i], p[i + c], x) <=> \E k \in P : In = {k} /\ s[k] = x
    BY DEF Holds
  <2> HIDE DEF In
  <2>6. ASSUME NEW k \in P, In = {k}, s[k] = x PROVE c = 2 /\ rest[1] = x
    <3>1. PICK n \in 1..m : p[n] = k
      BY <1>5
    <3>2. i < n /\ n < i + c
      BY <2>4, <2>6, <3>1
    <3>3. ASSUME c # 2 PROVE FALSE
      <4>1. PICK l \in 1..m : l # n /\ i < l /\ l < i + c
        <5>1. c > 2 /\ i + 1 \in 1..m /\ i + 2 \in 1..m /\ i + 2 < i + c
          BY <1>2, <2>1, <3>2, <3>3
        <5>2. n = i + 1 => i + 2 # n /\ i < i + 2
          BY <1>2, <2>1
        <5>3. i < i + 1 /\ i + 1 < i + c
          BY <1>2, <2>1, <5>1
        <5> QED
          BY <5>1, <5>2, <5>3
      <4>2. p[l] \in In /\ p[n] \in In
        BY <2>4, <3>2, <4>1
      <4>3. p[l] = p[n]
        BY <2>6, <4>2
      <4> QED
        BY <1>7, <4>1, <4>3
    <3>4. n = i + 1
      BY <1>2, <2>1, <3>2, <3>3
    <3>5. 1 \in 1..(m - i) /\ rest[1] = out[i + 1]
      <4>1. 1 \in 1..(m - i)
        BY <1>2, <2>1
      <4> QED
        BY <1>3, <4>1
    <3> QED
      BY <1>5, <2>6, <3>1, <3>3, <3>4, <3>5
  <2>7. ASSUME c = 2 PROVE Holds(s, P, p[i], p[i + c], rest[1])
    <3>1. i + 1 \in 1..m /\ 1 \in 1..(m - i)
      BY <1>2, <2>1, <2>7
    <3>2. p[i + 1] \in P /\ rest[1] = s[p[i + 1]]
      BY <1>3, <1>5, <3>1
    <3>3. p[i + 1] \in In
      BY <1>2, <2>1, <2>4, <2>7, <3>1
    <3>4. ASSUME NEW j \in In PROVE j = p[i + 1]
      <4>1. PICK k \in 1..m : p[k] = j
        BY <1>5 DEF In
      <4>2. i < k /\ k < i + c
        BY <2>4, <4>1
      <4>3. k = i + 1
        BY <1>2, <2>1, <2>7, <4>2
      <4> QED
        BY <4>1, <4>3
    <3>5. In = {p[i + 1]}
      BY <3>3, <3>4
    <3> QED
      BY <2>5, <3>2, <3>5 DEF Holds, In
  <2>8. Len(raw) = 1 <=> c = 2
    BY <2>1, <2>2, <1>11
  <2> HIDE DEF raw
  <2>9. Holds(s, P, p[i], p[i + c], x) => Len(raw) = 1 /\ raw[1] = x
    BY <2>2, <2>5, <2>6, <2>8
  <2>10. Len(raw) = 1 /\ raw[1] = x => Holds(s, P, p[i], p[i + c], x)
    BY <2>2, <2>7, <2>8
  <2> QED
    BY <2>3, <2>9, <2>10
<1> QED
  BY <1>1, <1>9a, <1>10, <1>11, <1>14, <1>15 DEF c, rest

-----------------------------------------------------------------------------
(* The actions *)

\* decodeActions tells a list, null and an error apart.
LEMMA DecodeIs ==
  ASSUME NEW raw
  PROVE  /\ Decode(raw) \in Actions \cup {"nil", "error"}
         /\ \A x \in Actions : Decode(raw) = x <=> Len(raw) = 1 /\ raw[1] = x
         /\ Decode(raw) = "nil" <=> Len(raw) = 1 /\ raw[1] = "null"
<1>1. "nil" \notin Actions /\ "error" \notin Actions /\ "null" \notin Actions
  BY DEF Actions
<1> QED
  BY <1>1 DEF Decode

\* parseActions takes what the reference finds in its source, and nothing else.
LEMMA ParseIs ==
  ASSUME NEW s \in Seq(Tokens)
  PROVE  /\ ParseActions(s) \in Actions \cup {"nil", "error"}
         /\ \A x \in Actions : ParseActions(s) = x <=> BlockHolds(s, Source(s), x)
         /\ ParseActions(s) = "nil" <=> ~Opened(s, Answered(s)) \/ BlockHolds(s, Source(s), "null")
<1> DEFINE A == Answered(s)
           R == Reasoned(s)
           part == Part(s, FALSE)
           restP == AfterFence(part)
           cP == CloseOf(restP)
           rawP == SubSeq(restP, 1, cP - 1)
           post == TrimSpace(part)
           think == ExtractThinkContents(s)
           rest == AfterFence(post)
           c == CloseOf(rest)
           raw == SubSeq(rest, 1, c - 1)
           restR == AfterFence(think)
           cR == CloseOf(restR)
           rawR == SubSeq(restR, 1, cR - 1)
<1>1. A \in SUBSET DOMAIN s /\ R \in SUBSET DOMAIN s
  BY DEF Answered, Reasoned
<1>2. part \in Seq(Tokens) /\ \E p : IsPick(p, s, A, part)
  BY PartPicks DEF Chosen
<1>3. think \in Seq(Tokens) /\ \E p : IsPick(p, s, R, think)
  BY PartPicks DEF ExtractThinkContents, Chosen
<1> HIDE DEF A, R, part, think
<1>3a. /\ HasFence(part) /\ Len(restP) > 0 <=> Opened(s, A)
       /\ HasFence(part) => /\ cP \in Nat /\ (cP > 0 <=> ClosedIn(s, A))
                            /\ cP > 0 => \A x : BlockHolds(s, A, x) <=> Len(rawP) = 1 /\ rawP[1] = x
  BY <1>1, <1>2, BlockIs
<1>3b. /\ HasFence(post) <=> HasFence(part) /\ Len(restP) > 0
       /\ HasFence(post) => /\ c = cP
                            /\ cP > 0 => \A x : Len(raw) = 1 /\ raw[1] = x <=> Len(rawP) = 1 /\ rawP[1] = x
  BY <1>2, TrimBlock
<1> HIDE DEF post
<1>4. /\ HasFence(post) <=> Opened(s, A)
      /\ HasFence(post) => /\ c \in Nat /\ (c > 0 <=> ClosedIn(s, A))
                           /\ c > 0 => \A x : BlockHolds(s, A, x) <=> Len(raw) = 1 /\ raw[1] = x
  <2> HIDE DEF c, cP, raw, rawP, restP
  <2> QED
    BY <1>3a, <1>3b
<1>5. /\ HasFence(think) <=> \E f \in R : FirstFence(s, R, f)
      /\ HasFence(think) => /\ cR \in Nat /\ (cR > 0 <=> ClosedIn(s, R))
                            /\ cR > 0 => \A x : BlockHolds(s, R, x) <=> Len(rawR) = 1 /\ rawR[1] = x
  BY <1>1, <1>3, BlockIs
<1>6. \A P : \A x : BlockHolds(s, P, x) => ClosedIn(s, P) /\ Opened(s, P) /\ \E f \in P : FirstFence(s, P, f)
  BY DEF BlockHolds, ClosedIn, Opened, Closes
<1>7. ParseActions(s) = IF ~HasFence(post) THEN "nil"
                        ELSE IF c > 0 THEN Decode(raw)
                        ELSE IF FindActionsBlock(think) # {}
                          THEN Decode(CHOOSE r \in FindActionsBlock(think) : TRUE) ELSE "error"
  BY Zenon DEF ParseActions, StripThinkBlocks, post, part, think
<1>8. FindActionsBlock(think) = IF HasFence(think) /\ cR > 0 THEN {rawR} ELSE {}
  BY Zenon DEF FindActionsBlock
<1>9. Source(s) = IF Opened(s, A) /\ ~ClosedIn(s, A) THEN R ELSE A
  BY DEF Source, Truncated, A, R
<1>10. "nil" \notin Actions /\ "error" \notin Actions /\ "null" \notin Actions
  BY DEF Actions
<1> DEFINE Right(v) == /\ v \in Actions \cup {"nil", "error"}
                       /\ \A x \in Actions : v = x <=> BlockHolds(s, Source(s), x)
                       /\ v = "nil" <=> ~Opened(s, A) \/ BlockHolds(s, Source(s), "null")
<1> HIDE DEF c, cR, raw, rawR
<1>11. CASE ~HasFence(post)
  <2>1. ~Opened(s, A) /\ Source(s) = A
    BY <1>4, <1>9, <1>11
  <2>2. \A x : ~BlockHolds(s, A, x)
    BY <1>6, <2>1
  <2>3. Right("nil")
    BY <1>10, <2>1, <2>2
  <2>4. ParseActions(s) = "nil"
    BY <1>7, <1>11
  <2> QED
    BY <2>3, <2>4 DEF A
<1>12. CASE HasFence(post) /\ c > 0
  <2>1. Opened(s, A) /\ Source(s) = A
    BY <1>4, <1>9, <1>12
  <2>2. \A x : BlockHolds(s, A, x) <=> Len(raw) = 1 /\ raw[1] = x
    BY <1>4, <1>12
  <2>3. Right(Decode(raw))
    BY <2>1, <2>2, DecodeIs
  <2>4. ParseActions(s) = Decode(raw)
    BY <1>7, <1>12
  <2> HIDE DEF Right
  <2>5. Right(ParseActions(s))
    BY <2>3, <2>4
  <2> QED
    BY <2>5 DEF A, Right
<1>13. CASE HasFence(post) /\ ~(c > 0) /\ HasFence(think) /\ cR > 0
  <2>1. Opened(s, A) /\ Source(s) = R
    BY <1>4, <1>9, <1>13
  <2>2. \A x : BlockHolds(s, R, x) <=> Len(rawR) = 1 /\ rawR[1] = x
    BY <1>5, <1>13
  <2>3. Right(Decode(rawR))
    BY <2>1, <2>2, DecodeIs
  <2>4. ParseActions(s) = Decode(rawR)
    <3>1. FindActionsBlock(think) = {rawR}
      BY <1>8, <1>13
    <3>2. (CHOOSE r \in {rawR} : TRUE) = rawR
      OBVIOUS
    <3> QED
      BY <1>7, <1>13, <3>1, <3>2
  <2> HIDE DEF Right
  <2>5. Right(ParseActions(s))
    BY <2>3, <2>4
  <2> QED
    BY <2>5 DEF A, Right
<1>14. CASE HasFence(post) /\ ~(c > 0) /\ ~(HasFence(think) /\ cR > 0)
  <2>1. Opened(s, A) /\ Source(s) = R
    BY <1>4, <1>9, <1>14
  <2>2. \A x : ~BlockHolds(s, R, x)
    BY <1>5, <1>6, <1>14
  <2>3. Right("error")
    BY <1>10, <2>1, <2>2
  <2>4. ParseActions(s) = "error"
    BY <1>7, <1>8, <1>14
  <2> HIDE DEF Right
  <2>5. Right(ParseActions(s))
    BY <2>3, <2>4
  <2> QED
    BY <2>5 DEF A, Right
<1> QED
  BY <1>11, <1>12, <1>13, <1>14

-----------------------------------------------------------------------------
(* An answer that goes on *)

\* A further token leaves the positions before it where they are.
LEMMA AnsweredGrows ==
  ASSUME NEW s \in Seq(Tokens), NEW t \in Tokens
  PROVE  LET z == Append(s, t) IN
         /\ z \in Seq(Tokens)
         /\ \A i \in Answered(s) : i \in Answered(z) /\ z[i] = s[i]
         /\ \A i \in Answered(z) : i \in Answered(s) \/ i = Len(s) + 1
<1> DEFINE z == Append(s, t)
           n == Len(s)
<1>1. /\ n \in Nat /\ DOMAIN s = 1..n /\ DOMAIN z = 1..(n + 1) /\ z \in Seq(Tokens)
      /\ \A i \in 1..n : z[i] = s[i]
  OBVIOUS
<1> HIDE DEF z, n
<1>2. ASSUME NEW i \in 1..n PROVE InThink(z, i) <=> InThink(s, i)
  <2>1. \A j \in 1..(i - 1) : j \in 1..n /\ \A k \in (j + 1)..(i - 1) : k \in 1..n
    BY <1>1
  <2> QED
    BY <1>1, <2>1 DEF InThink
<1>3. \A i \in 1..n : i \in 1..(n + 1)
  BY <1>1
<1>4. \A i \in 1..(n + 1) : i \in 1..n \/ i = n + 1
  BY <1>1
<1>5. \A i \in Answered(s) : i \in Answered(z) /\ z[i] = s[i]
  BY <1>1, <1>2, <1>3 DEF Answered
<1>6. \A i \in Answered(z) : i \in Answered(s) \/ i = n + 1
  BY <1>1, <1>2, <1>4 DEF Answered
<1> QED
  BY <1>1, <1>5, <1>6 DEF z, n

\* A closed block stays the first one, with what it holds.
LEMMA BlockStays ==
  ASSUME NEW s \in Seq(Tokens), NEW t \in Tokens, ClosedIn(s, Answered(s))
  PROVE  LET z == Append(s, t) IN
         ClosedIn(z, Answered(z)) /\ \A x : BlockHolds(z, Answered(z), x) <=> BlockHolds(s, Answered(s), x)
<1> DEFINE z == Append(s, t)
           n == Len(s)
           P == Answered(s)
           Q == Answered(z)
<1>1. /\ z \in Seq(Tokens)
      /\ \A i \in P : i \in Q /\ z[i] = s[i]
      /\ \A i \in Q : i \in P \/ i = n + 1
  BY AnsweredGrows
<1>2. P \in SUBSET DOMAIN s /\ Q \in SUBSET DOMAIN z
  BY DEF Answered
<1>3. n \in Nat /\ \A i \in P : i \in Nat /\ i < n + 1
  <2>1. n \in Nat /\ DOMAIN s = 1..n
    OBVIOUS
  <2> HIDE DEF n, P
  <2> QED
    BY <1>2, <2>1
<1> HIDE DEF z, n, P, Q
<1>4. PICK f \in P, c \in P : FirstFence(s, P, f) /\ Closes(s, P, f, c)
  BY DEF ClosedIn, P
<1>5. f \in Nat /\ c \in Nat /\ f < c /\ c < n + 1
  BY <1>3, <1>4 DEF Closes
<1>6. \A i \in Q : i < c => i \in P
  BY <1>1, <1>3, <1>5
<1>7. \A i \in Q : i < f => i \in P
  BY <1>1, <1>3, <1>5
<1>8. FirstFence(z, Q, f)
  BY <1>1, <1>4, <1>7 DEF FirstFence
<1>9. Closes(z, Q, f, c)
  BY <1>1, <1>4, <1>6 DEF Closes
<1>10. {i \in Q : f < i /\ i < c} = {i \in P : f < i /\ i < c}
  BY <1>1, <1>6
<1>11. ASSUME NEW x PROVE Holds(z, Q, f, c, x) <=> Holds(s, P, f, c, x)
  <2> DEFINE In == {i \in P : f < i /\ i < c}
  <2>1. Holds(s, P, f, c, x) <=> \E k \in P : In = {k} /\ s[k] = x
    BY DEF Holds
  <2>2. Holds(z, Q, f, c, x) <=> \E k \in Q : In = {k} /\ z[k] = x
    BY <1>10 DEF Holds
  <2>3. \A k : In = {k} => k \in P
    OBVIOUS
  <2> HIDE DEF In
  <2> QED
    BY <1>1, <2>1, <2>2, <2>3
<1>12. \A g, d : FirstFence(s, P, g) /\ Closes(s, P, g, d) => g = f /\ d = c
  BY <1>2, <1>4, OneBlock
<1>13. \A g, d : FirstFence(z, Q, g) /\ Closes(z, Q, g, d) => g = f /\ d = c
  BY <1>1, <1>2, <1>8, <1>9, OneBlock
<1>14. f \in Q /\ c \in Q
  BY <1>1
<1>15. ASSUME NEW x PROVE BlockHolds(z, Q, x) <=> BlockHolds(s, P, x)
  <2>1. BlockHolds(s, P, x) <=> Holds(s, P, f, c, x)
    BY <1>4, <1>12 DEF BlockHolds
  <2>2. BlockHolds(z, Q, x) <=> Holds(z, Q, f, c, x)
    BY <1>8, <1>9, <1>13, <1>14 DEF BlockHolds
  <2> QED
    BY <1>11, <2>1, <2>2
<1>16. ClosedIn(z, Q)
  BY <1>8, <1>9, <1>14 DEF ClosedIn
<1> QED
  BY <1>15, <1>16 DEF z, P, Q

\* So the actions stay.
LEMMA ParseStays ==
  ASSUME NEW s \in Seq(Tokens), NEW t \in Tokens, ClosedIn(s, Answered(s))
  PROVE  ParseActions(Append(s, t)) = ParseActions(s)
<1> DEFINE z == Append(s, t)
<1>1. z \in Seq(Tokens)
  BY AnsweredGrows
<1>2. ClosedIn(z, Answered(z)) /\ \A x : BlockHolds(z, Answered(z), x) <=> BlockHolds(s, Answered(s), x)
  BY BlockStays
<1> HIDE DEF z
<1>3. Opened(s, Answered(s)) /\ Opened(z, Answered(z))
  BY <1>2 DEF ClosedIn, Closes, Opened
<1>4. Source(s) = Answered(s) /\ Source(z) = Answered(z)
  BY <1>2 DEF Source, Truncated
<1>5. /\ ParseActions(s) \in Actions \cup {"nil", "error"}
      /\ ParseActions(z) \in Actions \cup {"nil", "error"}
      /\ \A x \in Actions : ParseActions(s) = x <=> ParseActions(z) = x
      /\ ParseActions(s) = "nil" <=> ParseActions(z) = "nil"
  BY <1>1, <1>2, <1>3, <1>4, ParseIs
<1>6. ParseActions(z) = ParseActions(s)
  BY <1>5
<1> QED
  BY <1>6 DEF z

-----------------------------------------------------------------------------
(* What json.Unmarshal makes of a text *)

ReadStates == [at : {"start", "list", "field", "options", "end", "error"}, n : Nat]
ReadStart  == [at |-> "start", n |-> 0]

\* Each state of the decoder, and the tokens it goes on with.
LEMMA ReadIs ==
  ASSUME NEW st \in ReadStates, NEW t
  PROVE  /\ Read(st, t) \in ReadStates
         /\ st.at \in {"end", "error"} => Read(st, t).at = "error"
         /\ st.at = "list" /\ t = "{" => Read(st, t) = [at |-> "field", n |-> st.n]
         /\ st.at = "list" /\ t = "]" => Read(st, t) = [at |-> "end", n |-> st.n]
         /\ st.at = "field" /\ t = "[" => Read(st, t) = [at |-> "options", n |-> st.n]
         /\ st.at = "field" /\ t = "}" => Read(st, t) = [at |-> "list", n |-> st.n + 1]
         /\ st.at = "options" /\ t = "]" => Read(st, t) = [at |-> "field", n |-> st.n]
         /\ st.at \in {"field", "options"} /\ t \in Strings => Read(st, t) = st
         /\ st.at = "list" /\ t \notin {"{", "]"} => Read(st, t).at = "error"
         /\ t \in Strings => Read(st, t).at # "end"
         /\ st.at = "start" /\ t # "[" => Read(st, t).at = "error"
         /\ st.at = "start" /\ t = "[" => Read(st, t) = [at |-> "list", n |-> st.n]
         /\ t = "]" /\ st.at # "list" => Read(st, t).at # "end"
<1>1. /\ st \in [at : {"start", "list", "field", "options", "end", "error"}, n : Nat]
      /\ \A l : [st EXCEPT !.at = l] = [at |-> l, n |-> st.n]
  BY DEF ReadStates
<1>2. CASE st.at = "start"
  BY <1>1, <1>2 DEF Read, ReadStates, Strings
<1>3. CASE st.at = "list"
  BY <1>1, <1>3 DEF Read, ReadStates, Strings
<1>4. CASE st.at = "field"
  <2>0. st.n \in Nat /\ st.n + 1 \in Nat
    BY <1>1
  <2>1. Read(st, t) = IF t = "[" THEN [at |-> "options", n |-> st.n]
                      ELSE IF t = "}" THEN [at |-> "list", n |-> st.n + 1]
                      ELSE IF t \in Strings THEN st ELSE [at |-> "error", n |-> st.n]
    BY <1>1, <1>4 DEF Read, Strings
  <2> QED
    <3>0. "[" \notin Strings /\ "]" \notin Strings /\ "{" \notin Strings /\ "}" \notin Strings
      BY DEF Strings
    <3>1. CASE t = "["
      <4>1. Read(st, t) = [at |-> "options", n |-> st.n]
        BY <2>1, <3>1
      <4>2. [at |-> "options", n |-> st.n] \in ReadStates
        BY <2>0 DEF ReadStates
      <4> QED
        BY <1>4, <3>0, <3>1, <4>1, <4>2
    <3>2. CASE t = "}"
      <4>1. Read(st, t) = [at |-> "list", n |-> st.n + 1]
        BY <2>1, <3>2
      <4>2. [at |-> "list", n |-> st.n + 1] \in ReadStates
        BY <2>0 DEF ReadStates
      <4> QED
        BY <1>4, <3>0, <3>2, <4>1, <4>2
    <3>3. CASE t \in Strings
      <4>1. Read(st, t) = st
        BY <2>1, <3>0, <3>3
      <4> QED
        BY <1>4, <3>0, <3>3, <4>1
    <3>4. CASE t \notin {"[", "}"} /\ t \notin Strings
      <4>1. Read(st, t) = [at |-> "error", n |-> st.n]
        BY <2>1, <3>4
      <4>2. [at |-> "error", n |-> st.n] \in ReadStates
        BY <2>0 DEF ReadStates
      <4>3. Read(st, t) \in ReadStates /\ Read(st, t).at = "error"
        BY <4>1, <4>2
      <4>4. t # "[" /\ t # "}" /\ t \notin Strings
        BY <3>4
      <4> QED
        BY <1>4, <4>3, <4>4
    <3> QED
      BY <3>1, <3>2, <3>3, <3>4
<1>5. CASE st.at = "options"
  BY <1>1, <1>5 DEF Read, ReadStates, Strings
<1>6. CASE st.at \in {"end", "error"}
  BY <1>1, <1>6 DEF Read, ReadStates, Strings
<1> QED
  BY <1>1, <1>2, <1>3, <1>4, <1>5, <1>6

\* Reading goes through the states of Read.
LEMMA ReadingRuns ==
  ASSUME NEW S, NEW s \in Seq(S)
  PROVE  \E g \in [0..Len(s) -> ReadStates] :
           /\ g[0] = ReadStart /\ Reading(s) = g[Len(s)]
           /\ \A k \in 1..Len(s) : g[k] = Read(g[k - 1], s[k])
<1> DEFINE m == Len(s)
           F == [k \in 1..m |-> [st \in ReadStates |-> Read(st, s[k])]]
           Reads(g) == g = [k \in 0..m |-> IF k = 0 THEN ReadStart ELSE Read(g[k - 1], s[k])]
<1>1. m \in Nat
  OBVIOUS
<1>2. \A k \in 1..m, st \in ReadStates : F[k][st] = Read(st, s[k])
  OBVIOUS
<1>3. F \in [1..m -> [ReadStates -> ReadStates]]
  BY ReadIs
<1>4. ReadStart \in ReadStates
  BY DEF ReadStart, ReadStates
<1> HIDE DEF F, m
<1>5. PICK g : g \in [0..m -> ReadStates] /\ g[0] = ReadStart /\ \A k \in 1..m : g[k] = F[k][g[k - 1]]
  <2> HIDE DEF ReadStates, ReadStart
  <2> QED
    <3>1. IsNext(F, m, ReadStates)
      BY <1>3 DEF IsNext
    <3>2. \E g : IsRun(g, F, m, ReadStates, ReadStart)
      BY <1>1, <1>4, <3>1, RunExists
    <3> QED
      BY <3>2 DEF IsRun
<1>6. Reads(g)
  <2>0. g \in [0..m -> ReadStates]
    BY <1>5
  <2>1. \A k \in 0..m : g[k] = IF k = 0 THEN ReadStart ELSE Read(g[k - 1], s[k])
    <3> SUFFICES ASSUME NEW k \in 0..m, k # 0 PROVE g[k] = Read(g[k - 1], s[k])
      BY <1>5
    <3>1. k \in 1..m /\ k - 1 \in 0..m
      BY <1>1
    <3>2. g[k - 1] \in ReadStates
      BY <2>0, <3>1
    <3> QED
      BY <1>2, <1>5, <3>1, <3>2
  <2>2. g = [k \in 0..m |-> g[k]]
    BY <2>0
  <2> QED
    BY <2>1, <2>2
<1> DEFINE h == CHOOSE f : Reads(f)
<1>7. Reads(h)
  <2> HIDE DEF Reads
  <2> QED
    BY <1>6
<1>8. Reading(s) = h[m]
  BY Zenon DEF Reading, m, ReadStart
<1> HIDE DEF h
<1>9. \A k \in 0..m : h[k] = IF k = 0 THEN ReadStart ELSE Read(h[k - 1], s[k])
  BY <1>7
<1>10. \A k \in 1..m : h[k] = Read(h[k - 1], s[k])
  BY <1>1, <1>9
<1>11. h[0] = ReadStart
  BY <1>1, <1>9
<1>12. h \in [0..m -> ReadStates]
  <2> DEFINE I == {k \in 0..m : h[k] \in ReadStates}
  <2>1. 0 \in I
    BY <1>1, <1>4, <1>11
  <2>2. ASSUME NEW k \in 0..m, k < m, k \in I PROVE k + 1 \in I
    <3>1. k + 1 \in 1..m /\ k + 1 \in 0..m /\ (k + 1) - 1 = k
      BY <1>1, <2>2
    <3>2. h[k + 1] = Read(h[k], s[k + 1])
      BY <1>10, <3>1
    <3> QED
      BY <2>2, <3>1, <3>2, ReadIs
  <2> HIDE DEF I
  <2>3. \A k \in 0..m : k \in I
    BY <1>1, <2>1, <2>2, UpTo
  <2>4. h = [k \in 0..m |-> h[k]]
    BY <1>7
  <2> QED
    BY <2>3, <2>4 DEF I
<1> QED
  BY <1>8, <1>10, <1>11, <1>12 DEF m

\* A text that goes on is read on.
LEMMA ReadingGrows ==
  ASSUME NEW S, NEW s \in Seq(S), NEW t \in S
  PROVE  Reading(s) \in ReadStates /\ Reading(Append(s, t)) = Read(Reading(s), t)
<1> DEFINE z == Append(s, t)
           m == Len(s)
<1>1. z \in Seq(S) /\ Len(z) = m + 1 /\ m \in Nat /\ z[m + 1] = t /\ \A k \in 1..m : z[k] = s[k]
  OBVIOUS
<1> HIDE DEF z, m
<1>2. PICK g \in [0..m -> ReadStates] :
           /\ g[0] = ReadStart /\ Reading(s) = g[m]
           /\ \A k \in 1..m : g[k] = Read(g[k - 1], s[k])
  BY ReadingRuns DEF m
<1>3. PICK h \in [0..(m + 1) -> ReadStates] :
           /\ h[0] = ReadStart /\ Reading(z) = h[m + 1]
           /\ \A k \in 1..(m + 1) : h[k] = Read(h[k - 1], z[k])
  <2>1. \E h \in [0..Len(z) -> ReadStates] :
           /\ h[0] = ReadStart /\ Reading(z) = h[Len(z)]
           /\ \A k \in 1..Len(z) : h[k] = Read(h[k - 1], z[k])
    BY <1>1, ReadingRuns
  <2> QED
    BY <1>1, <2>1
<1> DEFINE I == {k \in 0..m : h[k] = g[k]}
<1>4. 0 \in I
  BY <1>1, <1>2, <1>3
<1>5. ASSUME NEW k \in 0..m, k < m, k \in I PROVE k + 1 \in I
  <2>1. k + 1 \in 1..m /\ k + 1 \in 1..(m + 1) /\ k + 1 \in 0..m /\ (k + 1) - 1 = k
    BY <1>1, <1>5
  <2>2. h[k + 1] = Read(h[k], z[k + 1])
    BY <1>3, <2>1
  <2>3. g[k + 1] = Read(g[k], s[k + 1])
    BY <1>2, <2>1
  <2> QED
    BY <1>1, <1>5, <2>1, <2>2, <2>3
<1> HIDE DEF I
<1>6. m \in I
  <2>1. \A k \in 0..m : k \in I
    BY <1>1, <1>4, <1>5, UpTo
  <2> QED
    BY <1>1, <2>1
<1>7. h[m] = g[m]
  BY <1>6 DEF I
<1>8. m + 1 \in 1..(m + 1) /\ (m + 1) - 1 = m /\ m \in 0..m
  BY <1>1
<1>9. Reading(z) = Read(g[m], t)
  BY <1>1, <1>3, <1>7, <1>8
<1> QED
  BY <1>2, <1>8, <1>9 DEF z

\* Of nothing, nothing is read, and of a pair of brackets the empty list.
LEMMA ReadingStarts ==
  /\ Reading(<<>>) = ReadStart
  /\ Reading(<<"[", "]">>) = [at |-> "end", n |-> 0]
<1> DEFINE S == {"[", "]"}
<1>1. <<>> \in Seq(S) /\ Len(<<>>) = 0 /\ <<"[">> \in Seq(S) /\ "[" \in S /\ "]" \in S
  OBVIOUS
<1>2. <<"[">> = Append(<<>>, "[") /\ <<"[", "]">> = Append(<<"[">>, "]")
  OBVIOUS
<1>3. ReadStart \in ReadStates /\ ReadStart.at = "start" /\ ReadStart.n = 0
  BY DEF ReadStart, ReadStates
<1> HIDE DEF S
<1>4. Reading(<<>>) = ReadStart
  BY <1>1, ReadingRuns
<1>5. Reading(<<"[">>) = [at |-> "list", n |-> 0]
  <2>1. Reading(<<"[">>) = Read(ReadStart, "[")
    BY <1>1, <1>2, <1>4, ReadingGrows
  <2> QED
    BY <1>3, <2>1, ReadIs
<1>6. Reading(<<"[", "]">>) = [at |-> "end", n |-> 0]
  <2>1. [at |-> "list", n |-> 0] \in ReadStates
    BY DEF ReadStates
  <2>2. Reading(<<"[", "]">>) = Read([at |-> "list", n |-> 0], "]")
    BY <1>1, <1>2, <1>5, ReadingGrows
  <2> QED
    BY <2>1, <2>2, ReadIs
<1> QED
  BY <1>4, <1>6

-----------------------------------------------------------------------------
(* The brackets of a text, and what is read from each of them on *)

Dead(st)   == st.at \in {"end", "error"}
Opens(s)   == {i \in 1..Len(s) : Opening(s[i])}
From(s, i) == Reading(SubSeq(s, i, Len(s)))
Bal(s, i)  == Depth(s, i, Len(s))
Closer(t)  == t \in {"]", "label]"}
Step(t)    == IF Closer(t) THEN 1 ELSE IF Opening(t) THEN -1 ELSE 0
ValueOf(s) == Unmarshal(ExtractJSONArray(s))

\* A further token, index by index.
LEMMA AppendIs ==
  ASSUME NEW s \in Seq(Tokens), NEW t \in Tokens
  PROVE  LET z == Append(s, t) IN
         /\ z \in Seq(Tokens) /\ Len(s) \in Nat /\ Len(z) = Len(s) + 1 /\ z[Len(s) + 1] = t
         /\ \A k \in 1..Len(s) : z[k] = s[k]
OBVIOUS

\* A set of positions has one more element when the new position is of its kind.
LEMMA CountGrows ==
  ASSUME NEW i \in Nat, NEW n \in Nat, i <= n + 1, NEW K,
         K \in SUBSET (i..n)
  PROVE  /\ Cardinality(K) \in Nat
         /\ Cardinality(K \cup {n + 1}) = Cardinality(K) + 1
<1>1. IsFiniteSet(i..n)
  BY FS_Interval
<1>2. IsFiniteSet(K)
  BY <1>1, FS_Subset
<1>3. Cardinality(K) \in Nat
  BY <1>2, FS_CardinalityType
<1>4. n + 1 \notin K
  OBVIOUS
<1> QED
  BY <1>2, <1>3, <1>4, FS_AddElement

\* A further token counts for the depth since every position before it.
LEMMA DepthGrows ==
  ASSUME NEW s \in Seq(Tokens), NEW t \in Tokens, NEW i \in 1..(Len(s) + 1)
  PROVE  /\ Bal(s, i) \in Int
         /\ Bal(Append(s, t), i) = Bal(s, i) + Step(t)
<1> DEFINE z == Append(s, t)  n == Len(s)
           C == {k \in i..n : Closer(s[k])}
           O == {k \in i..n : Opening(s[k])}
           Cz == {k \in i..(n + 1) : Closer(z[k])}
           Oz == {k \in i..(n + 1) : Opening(z[k])}
<1>1. /\ n \in Nat /\ Len(z) = n + 1 /\ z[n + 1] = t /\ \A k \in 1..n : z[k] = s[k]
  BY AppendIs
<1> HIDE DEF z, n
<1>2. i \in Nat /\ i <= n + 1 /\ n + 1 \in i..(n + 1) /\ \A k \in i..(n + 1) : (k \in i..n /\ k \in 1..n) \/ k = n + 1
  BY <1>1 DEF n
<1>3. \A k \in i..n : k \in i..(n + 1) /\ k \in 1..n
  BY <1>1, <1>2 DEF n
<1>4. Cz = IF Closer(t) THEN C \cup {n + 1} ELSE C
  BY <1>1, <1>2, <1>3
<1>5. Oz = IF Opening(t) THEN O \cup {n + 1} ELSE O
  BY <1>1, <1>2, <1>3
<1>6. C \in SUBSET (i..n) /\ O \in SUBSET (i..n)
  OBVIOUS
<1>7. Bal(s, i) = Cardinality(C) - Cardinality(O)
  BY DEF Bal, Depth, n, Closer
<1>8. Bal(z, i) = Cardinality(Cz) - Cardinality(Oz)
  BY <1>1 DEF Bal, Depth, Closer
<1> HIDE DEF C, O, Cz, Oz
<1>9. Cardinality(C) \in Nat /\ Cardinality(C \cup {n + 1}) = Cardinality(C) + 1
  BY <1>1, <1>2, <1>6, CountGrows
<1>10. Cardinality(O) \in Nat /\ Cardinality(O \cup {n + 1}) = Cardinality(O) + 1
  BY <1>1, <1>2, <1>6, CountGrows
<1>11. Closer(t) => ~Opening(t)
  BY DEF Closer, Opening
<1>12. Bal(z, i) = Bal(s, i) + Step(t) /\ Bal(s, i) \in Int
  <2>1. CASE Closer(t)
    BY <1>4, <1>5, <1>7, <1>8, <1>9, <1>10, <1>11, <2>1 DEF Step
  <2>2. CASE ~Closer(t) /\ Opening(t)
    BY <1>4, <1>5, <1>7, <1>8, <1>9, <1>10, <2>2 DEF Step
  <2>3. CASE ~Closer(t) /\ ~Opening(t)
    BY <1>4, <1>5, <1>7, <1>8, <1>9, <1>10, <2>3 DEF Step
  <2> QED
    BY <2>1, <2>2, <2>3
<1> QED
  BY <1>12 DEF z

\* The text from a position on, with a further token.
LEMMA SubSeqGrows ==
  ASSUME NEW s \in Seq(Tokens), NEW t \in Tokens, NEW i \in 1..(Len(s) + 1)
  PROVE  /\ SubSeq(s, i, Len(s)) \in Seq(Tokens)
         /\ SubSeq(Append(s, t), i, Len(s) + 1) = Append(SubSeq(s, i, Len(s)), t)
<1> DEFINE z == Append(s, t)  n == Len(s)  a == SubSeq(s, i, n)
<1>1. z \in Seq(Tokens) /\ n \in Nat /\ Len(z) = n + 1 /\ z[n + 1] = t /\ \A k \in 1..n : z[k] = s[k]
  BY AppendIs
<1>2. a \in Seq(Tokens) /\ Len(a) = n - i + 1 /\ \A k \in 1..(n - i + 1) : a[k] = s[i + k - 1]
  <2>1. i \in Int /\ n \in Int /\ \A k \in i..n : s[k] \in Tokens
    OBVIOUS
  <2>2. /\ a \in Seq(Tokens) /\ Len(a) = IF i <= n THEN n - i + 1 ELSE 0
        /\ \A k \in 1..(n - i + 1) : a[k] = s[i + k - 1]
    BY <2>1, SubSeqProperties
  <2> QED
    BY <1>1, <2>2
<1> DEFINE b == SubSeq(z, i, n + 1)  c == Append(a, t)
<1>3. b \in Seq(Tokens) /\ Len(b) = n - i + 2 /\ \A k \in 1..(n - i + 2) : b[k] = z[i + k - 1]
  <2>1. i \in Int /\ n + 1 \in Int /\ \A k \in i..(n + 1) : z[k] \in Tokens
    BY <1>1
  <2> HIDE DEF z, n
  <2>2. /\ b \in Seq(Tokens) /\ Len(b) = IF i <= n + 1 THEN (n + 1) - i + 1 ELSE 0
        /\ \A k \in 1..((n + 1) - i + 1) : b[k] = z[i + k - 1]
    BY <2>1, SubSeqProperties
  <2>3. (n + 1) - i + 1 = n - i + 2 /\ i <= n + 1
    BY <1>1 DEF n
  <2> QED
    BY <2>2, <2>3
<1>4. c \in Seq(Tokens) /\ Len(c) = n - i + 2 /\ c[n - i + 2] = t /\ \A k \in 1..(n - i + 1) : c[k] = a[k]
  <2>1. c \in Seq(Tokens) /\ Len(c) = Len(a) + 1 /\ c[Len(a) + 1] = t /\ \A k \in 1..Len(a) : c[k] = a[k]
    BY <1>2, AppendIs
  <2>2. Len(a) + 1 = n - i + 2
    BY <1>1, <1>2
  <2> HIDE DEF a, c, n
  <2> QED
    BY <1>2, <2>1, <2>2
<1>5. \A k \in 1..(n - i + 2) : b[k] = c[k]
  <2> SUFFICES ASSUME NEW k \in 1..(n - i + 2) PROVE b[k] = c[k]
    OBVIOUS
  <2>1. i \in Nat /\ n \in Nat /\ i <= n + 1 /\ i >= 1
    BY <1>1
  <2> HIDE DEF a, b, c, z, n
  <2>2. CASE k = n - i + 2
    <3>1. i + k - 1 = n + 1
      BY <2>1, <2>2
    <3> QED
      BY <1>1, <1>3, <1>4, <2>2, <3>1
  <2>3. CASE k # n - i + 2
    <3>1. k \in 1..(n - i + 1) /\ i + k - 1 \in 1..n
      BY <2>1, <2>3
    <3>2. b[k] = z[i + k - 1] /\ c[k] = a[k] /\ a[k] = s[i + k - 1] /\ z[i + k - 1] = s[i + k - 1]
      BY <1>1, <1>2, <1>3, <1>4, <3>1
    <3> QED
      BY <3>2
  <2> QED
    BY <2>2, <2>3
<1>6. b = c
  <2> HIDE DEF b, c
  <2>1. Len(b) = Len(c) /\ \A k \in 1..Len(b) : b[k] = c[k]
    BY <1>3, <1>4, <1>5
  <2> QED
    BY <1>3, <1>4, <2>1, SeqEqual
<1> QED
  BY <1>2, <1>6

\* A further token is read after every bracket.
LEMMA BracketsGrow ==
  ASSUME NEW s \in Seq(Tokens), NEW t \in Tokens
  PROVE  LET z == Append(s, t) IN
         /\ Opens(z) = IF Opening(t) THEN Opens(s) \cup {Len(s) + 1} ELSE Opens(s)
         /\ \A i \in Opens(s) : From(s, i) \in ReadStates /\ From(z, i) = Read(From(s, i), t)
         /\ \A i \in Opens(s) : Bal(s, i) \in Int /\ Bal(z, i) = Bal(s, i) + Step(t)
         /\ Opening(t) => Bal(z, Len(s) + 1) = -1
         /\ t = "[" => From(z, Len(s) + 1) = [at |-> "list", n |-> 0]
         /\ t = "[label" => Dead(From(z, Len(s) + 1))
<1> DEFINE z == Append(s, t)  n == Len(s)
<1>1. z \in Seq(Tokens) /\ n \in Nat /\ Len(z) = n + 1 /\ z[n + 1] = t /\ \A k \in 1..n : z[k] = s[k]
  BY AppendIs
<1>2. \A i \in 1..(n + 1) : From(s, i) \in ReadStates /\ From(z, i) = Read(From(s, i), t)
  <2> SUFFICES ASSUME NEW i \in 1..(n + 1) PROVE From(s, i) \in ReadStates /\ From(z, i) = Read(From(s, i), t)
    OBVIOUS
  <2>1. /\ SubSeq(s, i, n) \in Seq(Tokens)
        /\ SubSeq(z, i, n + 1) = Append(SubSeq(s, i, n), t)
    BY SubSeqGrows
  <2> HIDE DEF z, n
  <2>2. From(z, i) = Reading(Append(SubSeq(s, i, n), t))
    BY <1>1, <2>1 DEF From
  <2>3. From(s, i) = Reading(SubSeq(s, i, n))
    BY DEF From, n
  <2> QED
    BY <2>1, <2>2, <2>3, ReadingGrows
<1>3. \A i \in 1..(n + 1) : Bal(s, i) \in Int /\ Bal(z, i) = Bal(s, i) + Step(t)
  BY DepthGrows
<1>4. From(s, n + 1) = ReadStart /\ Bal(s, n + 1) = 0
  <2>1. SubSeq(s, n + 1, n) = <<>>
    BY <1>1, SubSeqEmpty
  <2>2. (n + 1)..n = {}
    BY <1>1
  <2>3. From(s, n + 1) = Reading(<<>>)
    BY <2>1 DEF From
  <2>4. Bal(s, n + 1) = Cardinality({}) - Cardinality({})
    <3>1. /\ {k \in (n + 1)..n : s[k] \in {"]", "label]"}} = {}
          /\ {k \in (n + 1)..n : Opening(s[k])} = {}
      BY <2>2
    <3> QED
      BY <3>1, Zenon DEF Bal, Depth
  <2> QED
    BY <2>3, <2>4, ReadingStarts, FS_EmptySet
<1> HIDE DEF z
<1>5. Opens(z) = IF Opening(t) THEN Opens(s) \cup {n + 1} ELSE Opens(s)
  <2> HIDE DEF n
  <2>1. \A k \in 1..(n + 1) : k \in 1..n \/ k = n + 1
    BY <1>1
  <2>2. n + 1 \in 1..(n + 1) /\ 1..n \subseteq 1..(n + 1)
    BY <1>1
  <2> QED
    BY <1>1, <2>1, <2>2 DEF Opens, n
<1>6. \A i \in Opens(s) : i \in 1..(n + 1)
  BY <1>1 DEF Opens
<1>7. Opening(t) => /\ Bal(z, n + 1) = -1 /\ (t = "[" => From(z, n + 1) = [at |-> "list", n |-> 0])
                    /\ t = "[label" => Dead(From(z, n + 1))
  <2> SUFFICES ASSUME Opening(t)
               PROVE  /\ Bal(z, n + 1) = -1 /\ (t = "[" => From(z, n + 1) = [at |-> "list", n |-> 0])
                      /\ t = "[label" => Dead(From(z, n + 1))
    OBVIOUS
  <2>1. n + 1 \in 1..(n + 1)
    BY <1>1
  <2>2. From(z, n + 1) = Read(ReadStart, t) /\ Bal(z, n + 1) = 0 + Step(t)
    BY <1>2, <1>3, <1>4, <2>1
  <2>3. ReadStart \in ReadStates /\ ReadStart.at = "start" /\ ReadStart.n = 0
    BY DEF ReadStart, ReadStates
  <2>4. Read(ReadStart, "[") = [at |-> "list", n |-> 0] /\ Read(ReadStart, "[label").at = "error"
    BY <2>3, ReadIs
  <2>5. Step(t) = -1
    BY DEF Step, Closer, Opening
  <2> QED
    BY <2>2, <2>4, <2>5 DEF Dead
<1>8. (t = "[" => Opening(t)) /\ (t = "[label" => Opening(t))
  BY DEF Opening
<1> QED
  BY <1>2, <1>3, <1>5, <1>6, <1>7, <1>8 DEF z

-----------------------------------------------------------------------------
(* Which list is decoded *)

\* The greatest number of a set.
LEMMA MaxIs ==
  ASSUME NEW m \in Nat, NEW I \in SUBSET (0..m), I # {}
  PROVE  Max(I) \in I /\ \A i \in I : Max(I) >= i
<1> DEFINE T == {m - i : i \in I}
<1>1. \A i \in I : i \in Nat /\ i <= m /\ m - i \in Nat
  OBVIOUS
<1>2. T \in SUBSET Nat /\ T # {}
  BY <1>1
<1>3. PICK x \in T : \A y \in T : x <= y
  <2> HIDE DEF T
  <2> QED
    BY <1>2, LeastNumber
<1>4. PICK d \in I : x = m - d
  BY <1>3
<1>5. \A i \in I : d >= i
  BY <1>1, <1>3, <1>4
<1>6. \E e \in I : \A i \in I : e >= i
  BY <1>5
<1> QED
  BY <1>6 DEF Max

\* MatchOf: the last opening bracket at depth 0, or 0.
LEMMA MatchIs ==
  ASSUME NEW s \in Seq(Tokens), NEW j \in 1..Len(s)
  PROVE  LET m == MatchOf(s, j) IN
         /\ m \in 0..j
         /\ m # 0 => Opening(s[m]) /\ Depth(s, m, j) = 0
         /\ \A i \in 1..j : i > m /\ Opening(s[i]) => Depth(s, i, j) # 0
<1> DEFINE Z == {i \in 1..j : Opening(s[i]) /\ Depth(s, i, j) = 0}
           I == {0} \cup Z
           m == MatchOf(s, j)
<1>1. m = Max(I)
  BY DEF MatchOf
<1>2. j \in Nat /\ I \in SUBSET (0..j) /\ I # {}
  OBVIOUS
<1>3. m \in I /\ \A i \in I : m >= i
  <2> HIDE DEF I, m
  <2> QED
    BY <1>1, <1>2, MaxIs
<1>4. \A i \in Z : m >= i
  BY <1>3
<1>5. m \in Nat /\ m <= j
  BY <1>2, <1>3
<1>6. m # 0 => m \in Z
  BY <1>3
<1> HIDE DEF m
<1>7. ASSUME NEW i \in 1..j, i > m, Opening(s[i]) PROVE Depth(s, i, j) # 0
  <2> SUFFICES ASSUME Depth(s, i, j) = 0 PROVE FALSE
    OBVIOUS
  <2>1. i \in Z
    BY <1>7
  <2> HIDE DEF Z
  <2> QED
    BY <1>4, <1>5, <1>7, <2>1
<1>8. m \in 0..j
  BY <1>5
<1> QED
  BY <1>6, <1>7, <1>8 DEF m

EndOf(s) == SelectLastInSeq(s, Closing)

\* The last closing bracket of a text, or 0.
LEMMA EndIs ==
  ASSUME NEW s \in Seq(Tokens)
  PROVE  /\ EndOf(s) \in 0..Len(s)
         /\ EndOf(s) # 0 => Closing(s[EndOf(s)])
         /\ \A k \in 1..Len(s) : k > EndOf(s) => ~Closing(s[k])
<1> DEFINE n == Len(s)
           I == {k \in 1..n : Closing(s[k])}
           e == EndOf(s)
<1>1. e = IF I # {} THEN Max(I) ELSE 0
  BY Zenon DEF EndOf, SelectLastInSeq
<1>2. n \in Nat /\ I \in SUBSET (0..n) /\ \A k \in 1..n : k \in I <=> Closing(s[k])
  OBVIOUS
<1>2a. \A k \in I : k \in 1..n
  OBVIOUS
<1> HIDE DEF I, e, n
<1>3. CASE I = {}
  BY <1>1, <1>2, <1>3 DEF e, n
<1>4. CASE I # {}
  <2>1. e \in I /\ \A k \in I : e >= k
    BY <1>1, <1>2, <1>4, MaxIs
  <2>2. e \in 1..n /\ Closing(s[e])
    BY <1>2, <1>2a, <2>1
  <2>3. \A k \in 1..n : k > e => k \notin I
    BY <2>1, <2>2
  <2> QED
    BY <1>2, <2>2, <2>3 DEF e, n
<1> QED
  BY <1>3, <1>4

\* A closing bracket becomes the last one, nothing else does.
LEMMA EndGrows ==
  ASSUME NEW s \in Seq(Tokens), NEW t \in Tokens
  PROVE  EndOf(Append(s, t)) = IF Closing(t) THEN Len(s) + 1 ELSE EndOf(s)
<1> DEFINE z == Append(s, t)  n == Len(s)  d == EndOf(s)  e == EndOf(z)
<1>1. z \in Seq(Tokens) /\ n \in Nat /\ Len(z) = n + 1 /\ z[n + 1] = t /\ \A k \in 1..n : z[k] = s[k]
  BY AppendIs
<1> HIDE DEF z
<1>2. d \in 0..n /\ (d # 0 => Closing(s[d])) /\ \A k \in 1..n : k > d => ~Closing(s[k])
  BY EndIs
<1>3. e \in 0..(n + 1) /\ (e # 0 => Closing(z[e])) /\ \A k \in 1..(n + 1) : k > e => ~Closing(z[k])
  <2>1. e \in 0..Len(z) /\ (e # 0 => Closing(z[e])) /\ \A k \in 1..Len(z) : k > e => ~Closing(z[k])
    BY <1>1, EndIs
  <2> QED
    BY <1>1, <2>1
<1> HIDE DEF n, d, e
<1>4. n + 1 \in 1..(n + 1)
  BY <1>1
<1>5. CASE Closing(t)
  <2>1. ~(n + 1 > e)
    BY <1>1, <1>3, <1>4, <1>5
  <2>2. e = n + 1
    BY <1>1, <1>3, <2>1
  <2> QED
    BY <1>5, <2>2 DEF e, z, n
<1>6. CASE ~Closing(t)
  <2>1. e # n + 1
    <3> SUFFICES ASSUME e = n + 1 PROVE FALSE
      OBVIOUS
    <3> QED
      BY <1>1, <1>3, <1>6
  <2>2. e \in 0..n
    BY <1>1, <1>3, <2>1
  <2>3. ~(e > d)
    <3> SUFFICES ASSUME e > d PROVE FALSE
      OBVIOUS
    <3>1. e \in 1..n /\ e # 0
      BY <1>1, <1>2, <2>2
    <3> QED
      BY <1>1, <1>2, <1>3, <3>1
  <2>4. ~(d > e)
    <3> SUFFICES ASSUME d > e PROVE FALSE
      OBVIOUS
    <3>1. d \in 1..n /\ d # 0 /\ d \in 1..(n + 1)
      BY <1>1, <1>2, <2>2
    <3> QED
      BY <1>1, <1>2, <1>3, <3>1
  <2>5. d = e
    BY <1>1, <1>2, <2>2, <2>3, <2>4
  <2> QED
    BY <1>6, <2>5 DEF d, e, z
<1> QED
  BY <1>5, <1>6

\* Only a closing bracket changes what is decoded.
LEMMA ValueStays ==
  ASSUME NEW s \in Seq(Tokens), NEW t \in Tokens, ~Closing(t)
  PROVE  ValueOf(Append(s, t)) = ValueOf(s)
<1> DEFINE z == Append(s, t)  n == Len(s)  e == EndOf(s)
<1>1. z \in Seq(Tokens) /\ n \in Nat /\ Len(z) = n + 1 /\ \A k \in 1..n : z[k] = s[k]
  BY AppendIs
<1>2. EndOf(z) = e
  BY EndGrows
<1>3. e \in 0..n
  BY EndIs
<1> HIDE DEF z, n, e
<1>4. ASSUME e # 0 PROVE MatchOf(z, e) = MatchOf(s, e)
  <2>1. \A i \in 1..e : z[i] = s[i] /\ \A k \in i..e : z[k] = s[k]
    BY <1>1, <1>3
  <2>2. ASSUME NEW i \in 1..e PROVE Depth(z, i, e) = Depth(s, i, e)
    <3>1. /\ {k \in i..e : z[k] \in {"]", "label]"}} = {k \in i..e : s[k] \in {"]", "label]"}}
          /\ {k \in i..e : Opening(z[k])} = {k \in i..e : Opening(s[k])}
      BY <2>1
    <3> QED
      BY <3>1, Zenon DEF Depth
  <2>3. {i \in 1..e : Opening(z[i]) /\ Depth(z, i, e) = 0} = {i \in 1..e : Opening(s[i]) /\ Depth(s, i, e) = 0}
    BY <2>1, <2>2
  <2> QED
    BY <2>3, Zenon DEF MatchOf
<1>5. ASSUME e # 0, MatchOf(s, e) # 0 PROVE SubSeq(z, MatchOf(s, e), e) = SubSeq(s, MatchOf(s, e), e)
  <2> DEFINE m == MatchOf(s, e)  a == SubSeq(s, m, e)  b == SubSeq(z, m, e)
  <2>1. e \in 1..Len(s) /\ e \in Nat
    BY <1>1, <1>3, <1>5 DEF n
  <2>2. m \in 0..e
    BY <2>1, MatchIs
  <2>3. m \in 1..e
    BY <1>5, <2>1, <2>2
  <2> HIDE DEF m
  <2>4. m \in Int /\ e \in Int /\ \A k \in m..e : k \in 1..n /\ s[k] \in Tokens /\ z[k] \in Tokens
    <3>1. \A k \in m..e : k \in 1..n
      BY <1>1, <1>3, <2>3
    <3>2. \A k \in 1..n : s[k] \in Tokens /\ z[k] \in Tokens
      BY <1>1 DEF n
    <3> QED
      BY <2>1, <2>3, <3>1, <3>2
  <2>5. a \in Seq(Tokens) /\ Len(a) = (IF m <= e THEN e - m + 1 ELSE 0) /\ \A k \in 1..(e - m + 1) : a[k] = s[m + k - 1]
    BY <2>4, SubSeqProperties
  <2>6. b \in Seq(Tokens) /\ Len(b) = (IF m <= e THEN e - m + 1 ELSE 0) /\ \A k \in 1..(e - m + 1) : b[k] = z[m + k - 1]
    BY <2>4, SubSeqProperties
  <2> HIDE DEF a, b
  <2>7. m <= e
    BY <2>3
  <2>8. \A k \in 1..(e - m + 1) : m + k - 1 \in 1..n
    BY <1>1, <1>3, <2>3
  <2>9. Len(a) = Len(b) /\ \A k \in 1..Len(a) : a[k] = b[k]
    BY <1>1, <2>5, <2>6, <2>7, <2>8
  <2>10. a = b
    BY <2>5, <2>6, <2>9, SeqEqual
  <2> QED
    BY <2>10 DEF a, b, m
<1>6. ExtractJSONArray(z) = ExtractJSONArray(s)
  <2>1. ExtractJSONArray(z) = IF e = 0 THEN <<>> ELSE IF z[e] = "label[]" THEN <<"[", "]">>
                              ELSE IF MatchOf(z, e) = 0 THEN <<>> ELSE SubSeq(z, MatchOf(z, e), e)
    BY <1>2, Zenon DEF ExtractJSONArray, EndOf
  <2>2. ExtractJSONArray(s) = IF e = 0 THEN <<>> ELSE IF s[e] = "label[]" THEN <<"[", "]">>
                              ELSE IF MatchOf(s, e) = 0 THEN <<>> ELSE SubSeq(s, MatchOf(s, e), e)
    BY Zenon DEF ExtractJSONArray, EndOf, e
  <2>2a. e # 0 => z[e] = s[e]
    BY <1>1, <1>3
  <2>3. CASE e = 0
    BY <2>1, <2>2, <2>3
  <2>3a. CASE e # 0 /\ s[e] = "label[]"
    BY <2>1, <2>2, <2>2a, <2>3a
  <2>4. CASE e # 0 /\ s[e] # "label[]" /\ MatchOf(s, e) = 0
    <3>1. MatchOf(z, e) = 0
      BY <1>4, <2>4
    <3> QED
      BY <2>1, <2>2, <2>2a, <2>4, <3>1
  <2>5. CASE e # 0 /\ s[e] # "label[]" /\ MatchOf(s, e) # 0
    <3>1. MatchOf(z, e) = MatchOf(s, e)
      BY <1>4, <2>5
    <3>2. SubSeq(z, MatchOf(s, e), e) = SubSeq(s, MatchOf(s, e), e)
      BY <1>5, <2>5
    <3> QED
      BY <2>1, <2>2, <2>2a, <2>5, <3>1, <3>2
  <2> QED
    BY <2>3, <2>3a, <2>4, <2>5
<1> QED
  BY <1>6 DEF ValueOf, z

\* After a closing bracket that is no pair's, what is decoded is the text from its match on.
LEMMA ValueCloses ==
  ASSUME NEW s \in Seq(Tokens), NEW t \in Tokens, Closer(t)
  PROVE  \E m \in 0..Len(s) :
           /\ m = 0 => ValueOf(Append(s, t)) = {}
           /\ m # 0 => LET st == Read(From(s, m), t) IN
                /\ m \in Opens(s) /\ Bal(s, m) = -1
                /\ ValueOf(Append(s, t)) = IF st.at = "end" THEN {st.n} ELSE {}
           /\ \A i \in Opens(s) : i > m => Bal(s, i) # -1
<1> DEFINE z == Append(s, t)  n == Len(s)  e == n + 1  m == MatchOf(z, e)
<1>1. z \in Seq(Tokens) /\ n \in Nat /\ Len(z) = n + 1 /\ z[n + 1] = t /\ \A k \in 1..n : z[k] = s[k]
  BY AppendIs
<1>2. EndOf(z) = e /\ z[e] # "label[]"
  <2>1. Closing(t) /\ t # "label[]"
    BY DEF Closer, Closing
  <2> QED
    BY <1>1, <2>1, EndGrows
<1>2a. ~Opening(t) /\ Step(t) = 1
  BY DEF Closer, Opening, Step
<1>3. /\ Opens(z) = Opens(s)
      /\ \A i \in Opens(s) : From(z, i) = Read(From(s, i), t)
      /\ \A i \in Opens(s) : Bal(s, i) \in Int /\ Bal(z, i) = Bal(s, i) + 1
  BY <1>2a, BracketsGrow
<1> HIDE DEF z, n
<1>4. /\ m \in 0..e
      /\ m # 0 => Opening(z[m]) /\ Depth(z, m, e) = 0
      /\ \A i \in 1..e : i > m /\ Opening(z[i]) => Depth(z, i, e) # 0
  <2>1. e \in 1..Len(z)
    BY <1>1
  <2> QED
    BY <1>1, <2>1, MatchIs
<1>5. ExtractJSONArray(z) = IF e = 0 THEN <<>> ELSE IF m = 0 THEN <<>> ELSE SubSeq(z, m, e)
  BY <1>2, Zenon DEF ExtractJSONArray, EndOf
<1> HIDE DEF m
<1>6. e # 0 /\ m # n + 1
  <2>1. e # 0
    BY <1>1
  <2>2. m # n + 1
    <3> SUFFICES ASSUME m = n + 1 PROVE FALSE
      OBVIOUS
    <3>1. m # 0
      BY <1>1
    <3> QED
      BY <1>1, <1>2a, <1>4, <3>1
  <2> QED
    BY <2>1, <2>2
<1>7. m \in 0..n
  BY <1>1, <1>4, <1>6
<1>8. ASSUME m = 0 PROVE ValueOf(z) = {}
  <2>1. ExtractJSONArray(z) = <<>>
    BY <1>5, <1>8
  <2>2. Reading(<<>>).at = "start"
    BY ReadingStarts DEF ReadStart
  <2> QED
    BY <2>1, <2>2 DEF ValueOf, Unmarshal
<1>9. ASSUME m # 0
      PROVE  /\ m \in Opens(s) /\ Bal(s, m) = -1
             /\ ValueOf(z) = IF Read(From(s, m), t).at = "end" THEN {Read(From(s, m), t).n} ELSE {}
  <2>1. m \in 1..(n + 1)
    BY <1>1, <1>7, <1>9
  <2>2. m \in Opens(s)
    BY <1>1, <1>3, <1>4, <1>9, <2>1 DEF Opens
  <2>3. Bal(z, m) = 0
    BY <1>1, <1>4, <1>9 DEF Bal
  <2>4. Bal(s, m) = -1
    BY <1>3, <2>2, <2>3
  <2>5. ExtractJSONArray(z) = SubSeq(z, m, Len(z))
    BY <1>1, <1>5, <1>6, <1>9
  <2>6. Reading(ExtractJSONArray(z)) = Read(From(s, m), t)
    BY <1>3, <2>2, <2>5 DEF From
  <2> QED
    BY <2>2, <2>4, <2>6, Zenon DEF ValueOf, Unmarshal
<1>10. ASSUME NEW i \in Opens(s), i > m PROVE Bal(s, i) # -1
  <2> SUFFICES ASSUME Bal(s, i) = -1 PROVE FALSE
    OBVIOUS
  <2>1. i \in 1..(n + 1) /\ Opening(z[i])
    BY <1>1, <1>3 DEF Opens
  <2>2. Depth(z, i, e) # 0
    BY <1>4, <1>10, <2>1
  <2>3. Bal(z, i) = 0
    BY <1>3
  <2> QED
    BY <1>1, <2>2, <2>3 DEF Bal
<1> QED
  BY <1>7, <1>8, <1>9, <1>10 DEF z, n

\* After a pair of brackets in a string, the empty list is decoded.
LEMMA PairCloses ==
  ASSUME NEW s \in Seq(Tokens), "label[]" \in Tokens
  PROVE  ValueOf(Append(s, "label[]")) = {0}
<1> DEFINE z == Append(s, "label[]")  e == Len(s) + 1
<1>1. z[e] = "label[]" /\ e # 0
  BY AppendIs
<1>2. EndOf(z) = e
  BY EndGrows DEF Closing
<1> HIDE DEF z, e
<1>3. ExtractJSONArray(z) = <<"[", "]">>
  BY <1>1, <1>2, Zenon DEF ExtractJSONArray, EndOf
<1>4. Reading(<<"[", "]">>).at = "end" /\ Reading(<<"[", "]">>).n = 0
  BY ReadingStarts
<1> QED
  BY <1>3, <1>4 DEF ValueOf, Unmarshal, z

\* Nothing is decoded when nothing read up to here ends with this bracket.
LEMMA NoneCloses ==
  ASSUME NEW s \in Seq(Tokens), NEW t \in Tokens, Closer(t),
         \A i \in Opens(s) : Read(From(s, i), t).at # "end"
  PROVE  ValueOf(Append(s, t)) = {}
<1>1. PICK m \in 0..Len(s) :
           /\ m = 0 => ValueOf(Append(s, t)) = {}
           /\ m # 0 => LET st == Read(From(s, m), t) IN
                /\ m \in Opens(s) /\ Bal(s, m) = -1
                /\ ValueOf(Append(s, t)) = IF st.at = "end" THEN {st.n} ELSE {}
           /\ \A i \in Opens(s) : i > m => Bal(s, i) # -1
  BY ValueCloses
<1> QED
  BY <1>1

\* The list that is decoded, when it is the only one that ends here.
LEMMA OneCloses ==
  ASSUME NEW s \in Seq(Tokens), NEW t \in Tokens, Closer(t), NEW L \in Opens(s),
         \A i \in Opens(s) : i # L => Read(From(s, i), t).at # "end"
  PROVE  LET matched == Bal(s, L) = -1 /\ \A i \in Opens(s) : i > L => Bal(s, i) # -1 IN
         ValueOf(Append(s, t)) = IF matched /\ Read(From(s, L), t).at = "end"
                                   THEN {Read(From(s, L), t).n} ELSE {}
<1>1. PICK m \in 0..Len(s) :
           /\ m = 0 => ValueOf(Append(s, t)) = {}
           /\ m # 0 => LET st == Read(From(s, m), t) IN
                /\ m \in Opens(s) /\ Bal(s, m) = -1
                /\ ValueOf(Append(s, t)) = IF st.at = "end" THEN {st.n} ELSE {}
           /\ \A i \in Opens(s) : i > m => Bal(s, i) # -1
  BY ValueCloses
<1>2. L \in Nat /\ L # 0
  BY DEF Opens
<1> DEFINE matched == Bal(s, L) = -1 /\ \A i \in Opens(s) : i > L => Bal(s, i) # -1
<1>3. CASE matched
  <2>1. ~(L > m)
    BY <1>1, <1>3
  <2>2. m # 0
    BY <1>2, <2>1
  <2>3. m \in Opens(s) /\ Bal(s, m) = -1
    BY <1>1, <2>2
  <2>4. m = L
    BY <1>1, <1>2, <1>3, <2>1, <2>3
  <2> QED
    BY <1>1, <1>3, <2>2, <2>4
<1>4. CASE ~matched
  <2>1. m # 0 => m # L
    BY <1>1, <1>4
  <2> QED
    BY <1>1, <1>4, <2>1
<1> QED
  BY <1>3, <1>4

-----------------------------------------------------------------------------
(* The reference reads one token more *)

FollowStates ==
  [at : {"prose", "start", "reference", "list", "field", "none", "options", "other"},
   n : Nat, last : SUBSET Nat, depth : Nat, lost : BOOLEAN]

\* What each token does to the depth of the list.
LEMMA CountIs ==
  ASSUME NEW d \in Nat, NEW t
  PROVE  /\ Count(d, t) \in Nat
         /\ d = 0 => Count(d, t) = 0
         /\ d # 0 => Count(d, t) = d - Step(t)
         /\ t \in {"word", "{", "}", "label[]"} => Count(d, t) = d
<1>1. d # 0 => d - 1 \in Nat /\ d + 1 \in Nat /\ d - 1 = d + (-1) /\ d - (-1) = d + 1 /\ d - 0 = d
  OBVIOUS
<1>2. Opening(t) <=> t \in {"[", "[label"}
  BY DEF Opening
<1>3. Step(t) = IF t \in {"]", "label]"} THEN 1 ELSE IF Opening(t) THEN -1 ELSE 0
  BY DEF Step, Closer
<1>4. Count(d, t) = IF d = 0 THEN 0 ELSE IF Opening(t) THEN d + 1 ELSE IF t \in {"]", "label]"} THEN d - 1 ELSE d
  BY DEF Count
<1> QED
  BY <1>1, <1>2, <1>3, <1>4

\* The state of the reference is a state.
LEMMA FollowType ==
  ASSUME NEW w \in FollowStates, NEW t
  PROVE  Follow(w, t) \in FollowStates
<1>1. /\ w.at \in {"prose", "start", "reference", "list", "field", "none", "options", "other"}
      /\ w.n \in Nat /\ w.last \in SUBSET Nat /\ w.depth \in Nat /\ w.lost \in BOOLEAN
      /\ {w.n} \in SUBSET Nat /\ {} \in SUBSET Nat /\ w.n + 1 \in Nat
  BY DEF FollowStates
<1>1a. Count(w.depth, t) \in Nat
  BY <1>1, CountIs
<1>2. CASE w.at = "prose"
  BY <1>1, <1>2 DEF Follow, FollowStates
<1>3. CASE w.at = "start"
  BY <1>1, <1>3 DEF Follow, FollowStates
<1>4. CASE w.at = "reference"
  BY <1>1, <1>4 DEF Follow, FollowStates
<1>5. CASE w.at = "list"
  BY <1>1, <1>5 DEF Follow, FollowStates
<1>6. CASE w.at = "field"
  BY <1>1, <1>1a, <1>6 DEF Follow, FollowStates
<1>7. CASE w.at = "none"
  BY <1>1, <1>1a, <1>7 DEF Follow, FollowStates
<1>8. CASE w.at = "options"
  BY <1>1, <1>1a, <1>8 DEF Follow, FollowStates
<1>9. CASE w.at = "other"
  BY <1>1, <1>9 DEF Follow, FollowStates
<1> QED
  BY <1>1, <1>2, <1>3, <1>4, <1>5, <1>6, <1>7, <1>8, <1>9

Keeps(w, v) == v.n = w.n /\ v.last = w.last /\ v.depth = w.depth /\ v.lost = w.lost

\* The reference before, after and between the objects of a list.
LEMMA FollowOutside ==
  ASSUME NEW w \in FollowStates, NEW t
  PROVE  LET v == Follow(w, t) IN
         /\ w.at = "other" => v.at = "other"
         /\ w.at = "prose" =>
              \/ v.at = "other" \/ (t = "word" /\ v.at = "prose" /\ Keeps(w, v))
              \/ t = "[" /\ v.at = "start" /\ v.n = 0 /\ v.last = w.last /\ v.depth = 1 /\ ~v.lost
         /\ w.at = "start" =>
              \/ v.at = "other" \/ (t = "word" /\ v.at = "reference" /\ Keeps(w, v))
              \/ t = "]" /\ v.at = "prose" /\ v.last = (IF w.depth = 1 THEN {w.n} ELSE {})
              \/ t = "{" /\ v.at = "field" /\ Keeps(w, v)
         /\ w.at = "reference" =>
              \/ v.at = "other" \/ (t = "word" /\ v.at = "reference" /\ Keeps(w, v))
              \/ t = "]" /\ v.at = "prose" /\ v.last = {}
         /\ w.at = "list" =>
              \/ v.at = "other" \/ (t = "{" /\ v.at = "field" /\ Keeps(w, v))
              \/ t = "]" /\ v.at = "prose" /\ v.last = (IF w.depth = 1 THEN {w.n} ELSE {})
<1>2. CASE w.at = "prose"
  BY <1>2 DEF Follow, FollowStates, Keeps
<1>3. CASE w.at = "start"
  BY <1>3 DEF Follow, FollowStates, Keeps
<1>4. CASE w.at = "reference"
  BY <1>4 DEF Follow, FollowStates, Keeps
<1>5. CASE w.at = "list"
  BY <1>5 DEF Follow, FollowStates, Keeps
<1>9. CASE w.at = "other"
  BY <1>9 DEF Follow, FollowStates, Keeps
<1> QED
  BY <1>2, <1>3, <1>4, <1>5, <1>9

\* What a string of an object leaves of the last list and of the last array.
Spoken(w, v, t) ==
  /\ t \in Strings /\ v.n = w.n
  /\ v.lost = (IF Closing(t) THEN t = "label[]" ELSE w.lost)
  /\ v.last = (IF Closing(t) THEN {} ELSE w.last)

\* The reference in an object of a list.
InField(w, v, t) ==
  /\ v.depth = Count(w.depth, t)
  /\ \/ v.at = "field" /\ Spoken(w, v, t)
     \/ t = "}" /\ v.at = "list" /\ v.n = w.n + 1 /\ v.last = w.last /\ v.lost = w.lost
     \/ t = "[" /\ v.at = "none" /\ v.n = w.n /\ v.last = w.last /\ v.lost = w.lost

InOptions(w, v, t) ==
  /\ v.depth = Count(w.depth, t)
  /\ \/ v.at = "options" /\ Spoken(w, v, t)
     \/ t = "]" /\ v.at = "field" /\ v.n = w.n /\ v.last = {} /\ (v.lost <=> w.at = "none")

LEMMA FollowInside ==
  ASSUME NEW w \in FollowStates, NEW t, Follow(w, t).at # "other"
  PROVE  /\ w.at = "field" => InField(w, Follow(w, t), t)
         /\ w.at \in {"none", "options"} => InOptions(w, Follow(w, t), t)
<1>1. \A r : r \in FollowStates => r.depth \in Nat /\ Count(r.depth, "}") = r.depth
  BY CountIs DEF FollowStates
<1>2. "[" \notin Strings /\ "]" \notin Strings /\ "}" \notin Strings
  BY DEF Strings
<1>6. CASE w.at = "field"
  BY <1>1, <1>2, <1>6 DEF Follow, FollowStates, Spoken, InField
<1>7. CASE w.at = "none"
  BY <1>1, <1>2, <1>7 DEF Follow, FollowStates, Spoken, InOptions
<1>8. CASE w.at = "options"
  BY <1>1, <1>2, <1>8 DEF Follow, FollowStates, Spoken, InOptions
<1> QED
  BY <1>6, <1>7, <1>8

-----------------------------------------------------------------------------
(* What the reference knows of the brackets *)

Value(w) == IF w.lost /\ w.at # "prose" THEN {0} ELSE w.last

Phase(at)  == IF at \in {"start", "list"} THEN "list" ELSE IF at = "field" THEN "field" ELSE "options"
Inside(at) == at \in {"start", "list", "field", "none", "options"}

\* L opens the list the reference is in: read from there, the text is the
\* list so far. The brackets to be matched since L are depth many, and fewer
\* since every later one; once a string closed the list's own, none can make
\* L the match of a later bracket.
InList(w, s, L) ==
  /\ L \in Opens(s) /\ From(s, L) = [at |-> Phase(w.at), n |-> w.n]
  /\ w.depth # 0 => Bal(s, L) + w.depth = 0 /\ \A i \in Opens(s) : i > L => Bal(s, i) + w.depth > 0
  /\ w.depth = 0 => Bal(s, L) >= 0 \/ \E i \in Opens(s) : i > L /\ Bal(s, i) = Bal(s, L)
  /\ \A i \in Opens(s) : i = L \/ Dead(From(s, i))
                           \/ (w.at = "none" /\ i = Len(s) /\ From(s, i) = [at |-> "list", n |-> 0])

Related(w, s) ==
  /\ ValueOf(s) = Value(w)
  /\ w.at \in {"prose", "reference"} => \A i \in Opens(s) : Dead(From(s, i))
  /\ Inside(w.at) => \E L \in Opens(s) : InList(w, s, L)
  /\ w.at = "start" => w.n = 0 /\ w.depth = 1 /\ ~w.lost
  /\ w.at = "none" => Len(s) \in Opens(s) /\ From(s, Len(s)) = [at |-> "list", n |-> 0] /\ Bal(s, Len(s)) = -1

\* A text that has ended, or is no list, has no end later on.
LEMMA DeadStays ==
  ASSUME NEW s \in Seq(Tokens), NEW t \in Tokens, NEW i \in Opens(s), Dead(From(s, i))
  PROVE  Read(From(s, i), t).at = "error" /\ Dead(From(Append(s, t), i))
<1>1. From(s, i) \in ReadStates /\ From(Append(s, t), i) = Read(From(s, i), t)
  BY BracketsGrow
<1> QED
  BY <1>1, ReadIs DEF Dead

\* The list goes on.
LEMMA ListGoesOn ==
  ASSUME NEW s \in Seq(Tokens), NEW t \in Tokens, NEW w \in FollowStates, NEW v \in FollowStates,
         NEW L, InList(w, s, L),
         Inside(w.at), v.at \in {"list", "field", "none", "options"},
         v.depth = Count(w.depth, t),
         Read([at |-> Phase(w.at), n |-> w.n], t) = [at |-> Phase(v.at), n |-> v.n],
         t = "[" <=> v.at = "none",
         w.at = "none" => t = "]" \/ t \in Strings
  PROVE  InList(v, Append(s, t), L)
<1> DEFINE z == Append(s, t)  n == Len(s)  d == w.depth  e == v.depth
<1>1. /\ Opens(z) = IF Opening(t) THEN Opens(s) \cup {n + 1} ELSE Opens(s)
      /\ \A i \in Opens(s) : From(s, i) \in ReadStates /\ From(z, i) = Read(From(s, i), t)
      /\ \A i \in Opens(s) : Bal(s, i) \in Int /\ Bal(z, i) = Bal(s, i) + Step(t)
      /\ Opening(t) => Bal(z, n + 1) = -1
      /\ t = "[" => From(z, n + 1) = [at |-> "list", n |-> 0]
      /\ t = "[label" => Dead(From(z, n + 1))
  BY BracketsGrow
<1>2. n \in Nat /\ Len(z) = n + 1 /\ \A i \in Opens(s) : i \in 1..n
  BY AppendIs DEF Opens
<1>2a. d \in Nat /\ e \in Nat /\ (d = 0 => e = 0) /\ (d # 0 => e = d - Step(t))
  BY CountIs DEF FollowStates
<1>2b. /\ Opening(t) => t \in {"[", "[label"} /\ Step(t) = -1
       /\ ~Opening(t) => Step(t) \in {0, 1}
  BY DEF Opening, Step, Closer
<1> HIDE DEF z, n, d, e
<1>3. L \in Opens(s) /\ L \in Opens(z) /\ From(s, L) = [at |-> Phase(w.at), n |-> w.n] /\ L \in 1..n
  BY <1>1, <1>2 DEF InList
<1>4. From(z, L) = [at |-> Phase(v.at), n |-> v.n]
  BY <1>1, <1>3
<1>5. /\ d # 0 => Bal(s, L) + d = 0 /\ \A i \in Opens(s) : i > L => Bal(s, i) + d > 0
      /\ d = 0 => Bal(s, L) >= 0 \/ \E i \in Opens(s) : i > L /\ Bal(s, i) = Bal(s, L)
  BY DEF InList, d
<1>6. \A i \in Opens(s) : Bal(s, i) \in Int /\ Bal(z, i) = Bal(s, i) + Step(t) /\ i \in Opens(z)
  BY <1>1
<1>7. ASSUME e # 0 PROVE Bal(z, L) + e = 0 /\ \A i \in Opens(z) : i > L => Bal(z, i) + e > 0
  <2>1. d # 0 /\ e = d - Step(t) /\ Step(t) \in Int
    BY <1>2a, <1>2b, <1>7
  <2>2. Bal(z, L) + e = 0
    BY <1>2a, <1>3, <1>5, <1>6, <2>1
  <2>3. ASSUME NEW i \in Opens(z), i > L PROVE Bal(z, i) + e > 0
    <3>1. CASE i \in Opens(s)
      <4>1. Bal(s, i) + d > 0
        BY <1>5, <2>1, <2>3, <3>1
      <4> QED
        BY <1>2a, <1>6, <2>1, <3>1, <4>1
    <3>2. CASE i \notin Opens(s)
      <4>1. Opening(t) /\ i = n + 1
        BY <1>1, <3>2
      <4>2. Bal(z, i) = -1 /\ Step(t) = -1
        BY <1>1, <1>2b, <4>1
      <4> QED
        BY <1>2a, <2>1, <4>2
    <3> QED
      BY <3>1, <3>2
  <2> QED
    BY <2>2, <2>3
<1>8. ASSUME e = 0 PROVE Bal(z, L) >= 0 \/ \E i \in Opens(z) : i > L /\ Bal(z, i) = Bal(z, L)
  <2>1. CASE d # 0
    <3>1. Step(t) = d /\ Bal(s, L) + d = 0
      BY <1>2a, <1>2b, <1>5, <1>8, <2>1
    <3>2. Bal(z, L) = 0
      BY <1>2a, <1>3, <1>6, <3>1
    <3> QED
      BY <3>2
  <2>2. CASE d = 0 /\ \E i \in Opens(s) : i > L /\ Bal(s, i) = Bal(s, L)
    BY <1>3, <1>6, <2>2
  <2>3. CASE Bal(s, L) >= 0 /\ ~Opening(t)
    BY <1>2b, <1>3, <1>6, <2>3
  <2>4. CASE Bal(s, L) >= 0 /\ Opening(t)
    <3>1. n + 1 \in Opens(z) /\ n + 1 > L /\ Bal(z, n + 1) = -1
      BY <1>1, <1>2, <1>3, <2>4
    <3>2. Bal(z, L) = Bal(s, L) - 1 /\ Bal(s, L) \in Int
      BY <1>2b, <1>3, <1>6, <2>4
    <3>3. Bal(z, L) >= 0 \/ Bal(z, L) = -1
      BY <2>4, <3>2
    <3> QED
      BY <3>1, <3>3
  <2> QED
    BY <1>5, <2>1, <2>2, <2>3, <2>4
<1>9. ASSUME NEW i \in Opens(z), i # L
      PROVE  Dead(From(z, i)) \/ (v.at = "none" /\ i = Len(z) /\ From(z, i) = [at |-> "list", n |-> 0])
  <2>1. CASE i \notin Opens(s)
    <3>1. Opening(t) /\ i = n + 1
      BY <1>1, <2>1
    <3> QED
      BY <1>1, <1>2, <1>2b, <3>1
  <2>2. CASE i \in Opens(s) /\ Dead(From(s, i))
    BY <2>2, DeadStays DEF z
  <2>3. CASE i \in Opens(s) /\ ~Dead(From(s, i))
    <3>1. w.at = "none" /\ From(s, i) = [at |-> "list", n |-> 0]
      BY <1>9, <2>3 DEF InList
    <3>2. From(s, i) \in ReadStates /\ From(s, i).at = "list"
      BY <1>1, <2>3, <3>1
    <3>3. Read(From(s, i), t).at \in {"end", "error"}
      <4>1. CASE t = "]"
        <5>1. Read(From(s, i), t) = [at |-> "end", n |-> From(s, i).n]
          BY <3>2, <4>1, ReadIs
        <5> QED
          BY <5>1
      <4>2. CASE t \in Strings
        <5>1. t # "{" /\ t # "]"
          BY <4>2 DEF Strings
        <5> QED
          BY <3>2, <5>1, ReadIs
      <4> QED
        BY <3>1, <4>1, <4>2
    <3> QED
      BY <1>1, <2>3, <3>3 DEF Dead
  <2> QED
    BY <2>1, <2>2, <2>3
<1>10. InList(v, z, L)
  BY <1>3, <1>4, <1>7, <1>8, <1>9 DEF InList, e
<1> QED
  BY <1>10 DEF z

\* So it is for all brackets of a text.
LEMMA AllDead ==
  ASSUME NEW s \in Seq(Tokens), NEW t \in Tokens, ~Opening(t), \A i \in Opens(s) : Dead(From(s, i))
  PROVE  /\ \A i \in Opens(Append(s, t)) : Dead(From(Append(s, t), i))
         /\ \A i \in Opens(s) : Read(From(s, i), t).at # "end"
<1>1. Opens(Append(s, t)) = Opens(s)
  BY BracketsGrow
<1>2. \A i \in Opens(s) : Read(From(s, i), t).at = "error" /\ Dead(From(Append(s, t), i))
  BY DeadStays
<1> QED
  BY <1>1, <1>2

\* In prose and references.
LEMMA ProseGoesOn ==
  ASSUME NEW s \in Seq(Tokens), NEW t \in Tokens, NEW w \in FollowStates,
         w.at \in {"prose", "reference"}, Related(w, s), Follow(w, t).at # "other"
  PROVE  Related(Follow(w, t), Append(s, t))
<1> DEFINE z == Append(s, t)  n == Len(s)  v == Follow(w, t)
<1>1. \A i \in Opens(s) : Dead(From(s, i))
  BY DEF Related
<1>2. ValueOf(s) = Value(w)
  BY DEF Related
<1>3. \/ t = "word" /\ v.at = w.at /\ Keeps(w, v)
      \/ w.at = "prose" /\ t = "[" /\ v.at = "start" /\ v.n = 0 /\ v.last = w.last /\ v.depth = 1 /\ ~v.lost
      \/ w.at = "reference" /\ t = "]" /\ v.at = "prose" /\ v.last = {}
  BY FollowOutside
<1> HIDE DEF v
<1>4. CASE t = "word" /\ v.at = w.at /\ Keeps(w, v)
  <2>1. ~Closing(t) /\ ~Opening(t)
    BY <1>4 DEF Closing, Opening
  <2>2. ValueOf(z) = Value(v)
    BY <1>2, <1>4, <2>1, ValueStays DEF Value, Keeps
  <2>3. \A i \in Opens(z) : Dead(From(z, i))
    BY <1>1, <2>1, AllDead
  <2> HIDE DEF z
  <2>4. Related(v, z)
    BY <1>4, <2>2, <2>3 DEF Related, Inside
  <2> QED
    BY <2>4 DEF v, z
<1>5. CASE w.at = "prose" /\ t = "[" /\ v.at = "start" /\ v.n = 0 /\ v.last = w.last /\ v.depth = 1 /\ ~v.lost
  <2>1. ~Closing(t)
    BY <1>5 DEF Closing
  <2>2. ValueOf(z) = Value(v)
    BY <1>2, <1>5, <2>1, ValueStays DEF Value
  <2>3. /\ Opens(z) = Opens(s) \cup {n + 1}
        /\ From(z, n + 1) = [at |-> "list", n |-> 0] /\ Bal(z, n + 1) = -1
    BY <1>5, BracketsGrow DEF Opening
  <2>4. \A i \in Opens(s) : i \in Nat /\ ~(i > n + 1) /\ Dead(From(z, i))
    <3>1. \A i \in Opens(s) : Dead(From(z, i))
      BY <1>1, DeadStays
    <3>2. n \in Nat /\ \A i \in Opens(s) : i \in 1..n
      BY AppendIs DEF Opens
    <3> QED
      BY <3>1, <3>2
  <2>5. n \in Nat
    BY AppendIs
  <2> HIDE DEF z, n
  <2>6. Phase(v.at) = "list"
    BY <1>5 DEF Phase
  <2>7. \A i \in Opens(z) : i > n + 1 => FALSE
    BY <2>3, <2>4, <2>5
  <2>8. InList(v, z, n + 1)
    BY <1>5, <2>3, <2>4, <2>6, <2>7 DEF InList
  <2>9. \E L \in Opens(z) : InList(v, z, L)
    BY <2>3, <2>8
  <2>10. Related(v, z)
    BY <1>5, <2>2, <2>9 DEF Related
  <2> QED
    BY <2>10 DEF v, z
<1>6. CASE w.at = "reference" /\ t = "]" /\ v.at = "prose" /\ v.last = {}
  <2>1. Closer(t) /\ ~Opening(t)
    BY <1>6 DEF Closer, Opening
  <2>2. /\ \A i \in Opens(z) : Dead(From(z, i))
        /\ \A i \in Opens(s) : Read(From(s, i), t).at # "end"
    BY <1>1, <2>1, AllDead
  <2>3. ValueOf(z) = {}
    BY <2>1, <2>2, NoneCloses
  <2> HIDE DEF z
  <2>4. Related(v, z)
    BY <1>6, <2>2, <2>3 DEF Related, Inside, Value
  <2> QED
    BY <2>4 DEF v, z
<1> QED
  BY <1>3, <1>4, <1>5, <1>6

\* The list the reference is in: nothing else ends here.
LEMMA OthersDie ==
  ASSUME NEW s \in Seq(Tokens), NEW t \in Tokens, NEW w \in FollowStates, NEW L, InList(w, s, L),
         w.at # "none"
  PROVE  \A i \in Opens(s) : i # L => Read(From(s, i), t).at = "error" /\ Dead(From(Append(s, t), i))
<1> SUFFICES ASSUME NEW i \in Opens(s), i # L
             PROVE  Read(From(s, i), t).at = "error" /\ Dead(From(Append(s, t), i))
  OBVIOUS
<1>1. Dead(From(s, i))
  BY DEF InList
<1> QED
  BY <1>1, DeadStays

\* Between the objects of a list, up to its end.
LEMMA ListEnds ==
  ASSUME NEW s \in Seq(Tokens), NEW t \in Tokens, NEW w \in FollowStates,
         w.at \in {"start", "list"}, Related(w, s), Follow(w, t).at # "other"
  PROVE  Related(Follow(w, t), Append(s, t))
<1> DEFINE z == Append(s, t)  n == Len(s)  v == Follow(w, t)
<1>1. PICK L \in Opens(s) : InList(w, s, L)
  BY DEF Related, Inside
<1>2. ValueOf(s) = Value(w) /\ (w.at = "start" => w.n = 0 /\ w.depth = 1 /\ ~w.lost)
  BY DEF Related
<1>3. \/ w.at = "start" /\ t = "word" /\ v.at = "reference" /\ Keeps(w, v)
      \/ t = "]" /\ v.at = "prose" /\ v.last = (IF w.depth = 1 THEN {w.n} ELSE {})
      \/ t = "{" /\ v.at = "field" /\ Keeps(w, v)
  <2>1. CASE w.at = "start"
    <3>1. \/ v.at = "other" \/ (t = "word" /\ v.at = "reference" /\ Keeps(w, v))
          \/ t = "]" /\ v.at = "prose" /\ v.last = (IF w.depth = 1 THEN {w.n} ELSE {})
          \/ t = "{" /\ v.at = "field" /\ Keeps(w, v)
      BY <2>1, FollowOutside, Zenon
    <3> QED
      BY <2>1, <3>1
  <2>2. CASE w.at = "list"
    BY <2>2, FollowOutside
  <2> QED
    BY <2>1, <2>2
<1>3a. v \in FollowStates
  BY FollowType
<1> HIDE DEF v
<1>4. /\ From(s, L) = [at |-> "list", n |-> w.n] /\ From(s, L) \in ReadStates /\ From(s, L).at = "list" /\ From(s, L).n = w.n
  <2>1. Phase(w.at) = "list"
    BY DEF Phase
  <2>2. \A i \in Opens(s) : From(s, i) \in ReadStates
    BY BracketsGrow
  <2>3. From(s, L) = [at |-> "list", n |-> w.n]
    BY <1>1, <2>1 DEF InList
  <2> QED
    BY <2>2, <2>3
<1>4a. (Bal(s, L) = -1 /\ \A i \in Opens(s) : i > L => Bal(s, i) # -1) <=> w.depth = 1
  <2>1. w.depth \in Nat /\ \A i \in Opens(s) : Bal(s, i) \in Int
    BY BracketsGrow DEF FollowStates
  <2>2. /\ w.depth # 0 => Bal(s, L) + w.depth = 0 /\ \A i \in Opens(s) : i > L => Bal(s, i) + w.depth > 0
        /\ w.depth = 0 => Bal(s, L) >= 0 \/ \E i \in Opens(s) : i > L /\ Bal(s, i) = Bal(s, L)
    BY <1>1 DEF InList
  <2>3. CASE w.depth = 1
    <3>1. Bal(s, L) = -1 /\ \A i \in Opens(s) : i > L => Bal(s, i) # -1
      BY <2>1, <2>2, <2>3
    <3> QED
      BY <2>3, <3>1
  <2>4. CASE w.depth # 1 /\ w.depth # 0
    <3>1. Bal(s, L) # -1
      BY <2>1, <2>2, <2>4
    <3> QED
      BY <2>4, <3>1
  <2>5. CASE w.depth = 0
    <3>1. Bal(s, L) >= 0 \/ \E i \in Opens(s) : i > L /\ Bal(s, i) = Bal(s, L)
      BY <2>2, <2>5
    <3>2. Bal(s, L) = -1 => ~(Bal(s, L) >= 0)
      BY <2>1
    <3> QED
      BY <2>5, <3>1, <3>2
  <2> QED
    BY <2>3, <2>4, <2>5
<1>5. \A i \in Opens(s) : i # L => Read(From(s, i), t).at = "error" /\ Dead(From(z, i))
  BY <1>1, OthersDie
<1>6. From(z, L) = Read(From(s, L), t)
  BY BracketsGrow
<1>7. ~Opening(t) => Opens(z) = Opens(s)
  BY BracketsGrow
<1>8. CASE w.at = "start" /\ t = "word" /\ v.at = "reference" /\ Keeps(w, v)
  <2>1. ~Closing(t) /\ ~Opening(t) /\ t # "["
    BY <1>8 DEF Closing, Opening
  <2>2. ValueOf(z) = Value(v)
    BY <1>2, <1>8, <2>1, ValueStays DEF Value, Keeps
  <2> HIDE DEF z
  <2>3. Dead(From(z, L))
    <3>1. t \notin {"{", "]"}
      BY <1>8
    <3>2. Read(From(s, L), t).at = "error"
      BY <1>4, <3>1, ReadIs
    <3> QED
      BY <1>6, <3>2 DEF Dead
  <2>4. \A i \in Opens(z) : Dead(From(z, i))
    BY <1>5, <1>7, <2>1, <2>3
  <2>5. Related(v, z)
    BY <1>8, <2>2, <2>4 DEF Related, Inside
  <2> QED
    BY <2>5 DEF v, z
<1>9. CASE t = "]" /\ v.at = "prose" /\ v.last = (IF w.depth = 1 THEN {w.n} ELSE {})
  <2>1. Closer(t) /\ ~Opening(t)
    BY <1>9 DEF Closer, Opening
  <2>2. Read(From(s, L), t) = [at |-> "end", n |-> w.n]
    BY <1>4, <1>9, ReadIs
  <2>3. ValueOf(z) = IF w.depth = 1 /\ Read(From(s, L), t).at = "end" THEN {Read(From(s, L), t).n} ELSE {}
    <3>1. \A i \in Opens(s) : i # L => Read(From(s, i), t).at # "end"
      BY <1>5
    <3> QED
      BY <1>4a, <2>1, <3>1, OneCloses
  <2>4. ValueOf(z) = Value(v)
    BY <1>9, <2>2, <2>3 DEF Value
  <2> HIDE DEF z
  <2>5. Dead(From(z, L))
    BY <1>6, <2>2 DEF Dead
  <2>6. \A i \in Opens(z) : Dead(From(z, i))
    BY <1>5, <1>7, <2>1, <2>5
  <2>7. Related(v, z)
    BY <1>9, <2>4, <2>6 DEF Related, Inside
  <2> QED
    BY <2>7 DEF v, z
<1>10. CASE t = "{" /\ v.at = "field" /\ Keeps(w, v)
  <2>1. ~Closing(t)
    BY <1>10 DEF Closing
  <2>2. ValueOf(z) = Value(v)
    BY <1>2, <1>10, <2>1, ValueStays DEF Value, Keeps
  <2>3. InList(v, z, L)
    <3>1. Inside(w.at) /\ v.at \in {"list", "field", "none", "options"}
      BY <1>10 DEF Inside
    <3>2. v.depth = Count(w.depth, t)
      BY <1>10, CountIs DEF Keeps, FollowStates
    <3>4. Read([at |-> Phase(w.at), n |-> w.n], t) = [at |-> Phase(v.at), n |-> v.n]
      <4>1. [at |-> "list", n |-> w.n] \in ReadStates
        BY DEF ReadStates, FollowStates
      <4>2. Read([at |-> "list", n |-> w.n], t) = [at |-> "field", n |-> w.n]
        BY <1>10, <4>1, ReadIs
      <4>3. Phase(w.at) = "list" /\ Phase(v.at) = "field" /\ v.n = w.n
        BY <1>10 DEF Phase, Keeps
      <4> QED
        BY <4>2, <4>3
    <3>5. t = "[" <=> v.at = "none"
      BY <1>10
    <3>6. w.at # "none"
      OBVIOUS
    <3> QED
      BY <1>1, <1>3a, <3>1, <3>2, <3>4, <3>5, <3>6, ListGoesOn
  <2> HIDE DEF z
  <2>4. Related(v, z)
    BY <1>10, <2>2, <2>3 DEF Related, Inside, InList
  <2> QED
    BY <2>4 DEF v, z
<1> QED
  BY <1>3, <1>8, <1>9, <1>10

\* The list goes on, and what is decoded is as the reference says.
LEMMA InsideGoesOn ==
  ASSUME NEW s \in Seq(Tokens), NEW t \in Tokens, NEW w \in FollowStates, NEW v \in FollowStates, NEW L,
         InList(w, s, L), ValueOf(Append(s, t)) = Value(v),
         w.at \in {"field", "none", "options"}, v.at \in {"list", "field", "none", "options"},
         v.depth = Count(w.depth, t),
         Read([at |-> Phase(w.at), n |-> w.n], t) = [at |-> Phase(v.at), n |-> v.n],
         t = "[" <=> v.at = "none",
         w.at = "none" => t = "]" \/ t \in Strings
  PROVE  Related(v, Append(s, t))
<1> DEFINE z == Append(s, t)  n == Len(s)
<1>1. InList(v, z, L)
  <2>1. Inside(w.at)
    BY DEF Inside
  <2> QED
    BY <2>1, ListGoesOn
<1>2. v.at = "none" => Len(z) \in Opens(z) /\ From(z, Len(z)) = [at |-> "list", n |-> 0] /\ Bal(z, Len(z)) = -1
  <2>1. Len(z) = n + 1
    BY AppendIs
  <2>2. t = "[" => n + 1 \in Opens(z) /\ From(z, n + 1) = [at |-> "list", n |-> 0] /\ Bal(z, n + 1) = -1
    BY BracketsGrow DEF Opening
  <2> QED
    BY <2>1, <2>2
<1> HIDE DEF z
<1>3. L \in Opens(z)
  BY <1>1 DEF InList
<1>4. Related(v, z)
  <2>1. ValueOf(z) = Value(v)
    BY DEF z
  <2> QED
    BY <1>1, <1>2, <1>3, <2>1 DEF Related
<1> QED
  BY <1>4 DEF z

\* A string of an object, with a bracket in it or not.
LEMMA StringGoesOn ==
  ASSUME NEW s \in Seq(Tokens), NEW t \in Tokens, NEW w \in FollowStates, NEW v \in FollowStates, NEW L,
         InList(w, s, L), ValueOf(s) = Value(w),
         w.at \in {"field", "none", "options"},
         v.at = IF w.at = "field" THEN "field" ELSE "options",
         v.depth = Count(w.depth, t), Spoken(w, v, t)
  PROVE  Related(v, Append(s, t))
<1>1. t \in Strings /\ v.n = w.n
  BY DEF Spoken
<1>2. ValueOf(Append(s, t)) = Value(v)
  <2>1. CASE ~Closing(t)
    <3>1. v.lost = w.lost /\ v.last = w.last /\ v.at # "prose" /\ w.at # "prose"
      BY <2>1 DEF Spoken
    <3> QED
      BY <2>1, <3>1, ValueStays DEF Value
  <2>2. CASE t = "label]"
    <3>1. Closing(t) /\ Closer(t)
      BY <2>2 DEF Closing, Closer
    <3>2. \A i \in Opens(s) : Read(From(s, i), t).at # "end"
      <4>1. \A i \in Opens(s) : From(s, i) \in ReadStates
        BY BracketsGrow
      <4> QED
        BY <1>1, <4>1, ReadIs
    <3>3. ValueOf(Append(s, t)) = {}
      BY <3>1, <3>2, NoneCloses
    <3>4. ~v.lost /\ v.last = {}
      BY <2>2, <3>1 DEF Spoken
    <3> QED
      BY <3>3, <3>4 DEF Value
  <2>3. CASE t = "label[]"
    <3>1. ValueOf(Append(s, t)) = {0}
      BY <2>3, PairCloses
    <3>2. v.lost /\ v.at # "prose"
      BY <2>3 DEF Spoken, Closing
    <3> QED
      BY <3>1, <3>2 DEF Value
  <2> QED
    BY <1>1, <2>1, <2>2, <2>3 DEF Strings, Closing
<1>3. Read([at |-> Phase(w.at), n |-> w.n], t) = [at |-> Phase(v.at), n |-> v.n]
  <2> DEFINE q == [at |-> Phase(w.at), n |-> w.n]
  <2>1. Phase(w.at) \in {"field", "options"} /\ Phase(v.at) = Phase(w.at)
    BY DEF Phase
  <2>2. q \in ReadStates /\ q.at \in {"field", "options"}
    BY <2>1 DEF ReadStates, FollowStates
  <2>3. Read(q, t) = q
    BY <1>1, <2>2, ReadIs
  <2> QED
    BY <1>1, <2>1, <2>3
<1>4. (t = "[" <=> v.at = "none") /\ v.at \in {"list", "field", "none", "options"}
  BY <1>1 DEF Strings
<1> QED
  BY <1>1, <1>2, <1>3, <1>4, InsideGoesOn

\* In an object.
LEMMA FieldGoesOn ==
  ASSUME NEW s \in Seq(Tokens), NEW t \in Tokens, NEW w \in FollowStates,
         w.at = "field", Related(w, s), Follow(w, t).at # "other"
  PROVE  Related(Follow(w, t), Append(s, t))
<1> DEFINE v == Follow(w, t)
<1>1. PICK L \in Opens(s) : InList(w, s, L)
  BY DEF Related, Inside
<1>2. ValueOf(s) = Value(w)
  BY DEF Related
<1>3. /\ v.depth = Count(w.depth, t)
      /\ \/ v.at = "field" /\ Spoken(w, v, t)
         \/ t = "}" /\ v.at = "list" /\ v.n = w.n + 1 /\ v.last = w.last /\ v.lost = w.lost
         \/ t = "[" /\ v.at = "none" /\ v.n = w.n /\ v.last = w.last /\ v.lost = w.lost
  <2>1. InField(w, v, t)
    BY FollowInside
  <2> QED
    BY <2>1 DEF InField
<1>4. v \in FollowStates
  BY FollowType
<1> HIDE DEF v
<1> DEFINE r == [at |-> "field", n |-> w.n]
<1>5. r \in ReadStates /\ r.at = "field" /\ r.n = w.n /\ r = [at |-> Phase(w.at), n |-> w.n]
  BY DEF ReadStates, FollowStates, Phase
<1> HIDE DEF r
<1>6. CASE v.at = "field" /\ Spoken(w, v, t)
  <2>1. Related(v, Append(s, t))
    BY <1>1, <1>2, <1>3, <1>4, <1>6, StringGoesOn
  <2> QED
    BY <2>1 DEF v
<1>7. CASE t = "}" /\ v.at = "list" /\ v.n = w.n + 1 /\ v.last = w.last /\ v.lost = w.lost
  <2>1. ~Closing(t)
    BY <1>7 DEF Closing
  <2>2. ValueOf(Append(s, t)) = Value(v)
    BY <1>2, <1>7, <2>1, ValueStays DEF Value
  <2>3. Read(r, t) = [at |-> Phase(v.at), n |-> v.n]
    <3>1. Read(r, t) = [at |-> "list", n |-> r.n + 1]
      BY <1>5, <1>7, ReadIs
    <3>2. Phase(v.at) = "list"
      BY <1>7 DEF Phase
    <3> QED
      BY <1>5, <1>7, <3>1, <3>2
  <2>4. (t = "[" <=> v.at = "none") /\ v.at \in {"list", "field", "none", "options"} /\ w.at # "none"
    BY <1>7
  <2>5. Related(v, Append(s, t))
    BY <1>1, <1>3, <1>4, <1>5, <2>2, <2>3, <2>4, InsideGoesOn
  <2> QED
    BY <2>5 DEF v
<1>8. CASE t = "[" /\ v.at = "none" /\ v.n = w.n /\ v.last = w.last /\ v.lost = w.lost
  <2>1. ~Closing(t)
    BY <1>8 DEF Closing
  <2>2. ValueOf(Append(s, t)) = Value(v)
    BY <1>2, <1>8, <2>1, ValueStays DEF Value
  <2>3. Read(r, t) = [at |-> Phase(v.at), n |-> v.n]
    <3>1. Read(r, t) = [at |-> "options", n |-> r.n]
      BY <1>5, <1>8, ReadIs
    <3>2. Phase(v.at) = "options"
      BY <1>8 DEF Phase
    <3> QED
      BY <1>5, <1>8, <3>1, <3>2
  <2>4. (t = "[" <=> v.at = "none") /\ v.at \in {"list", "field", "none", "options"} /\ w.at # "none"
    BY <1>8
  <2>5. Related(v, Append(s, t))
    BY <1>1, <1>3, <1>4, <1>5, <2>2, <2>3, <2>4, InsideGoesOn
  <2> QED
    BY <2>5 DEF v
<1> QED
  BY <1>3, <1>6, <1>7, <1>8

\* In the options of an object.
LEMMA OptionsGoOn ==
  ASSUME NEW s \in Seq(Tokens), NEW t \in Tokens, NEW w \in FollowStates,
         w.at \in {"none", "options"}, Related(w, s), Follow(w, t).at # "other"
  PROVE  Related(Follow(w, t), Append(s, t))
<1> DEFINE v == Follow(w, t)  n == Len(s)
<1>1. PICK L \in Opens(s) : InList(w, s, L)
  BY DEF Related, Inside
<1>2. /\ ValueOf(s) = Value(w)
      /\ w.at = "none" => n \in Opens(s) /\ From(s, n) = [at |-> "list", n |-> 0] /\ Bal(s, n) = -1
  BY DEF Related
<1>3. /\ v.depth = Count(w.depth, t)
      /\ \/ v.at = "options" /\ Spoken(w, v, t)
         \/ t = "]" /\ v.at = "field" /\ v.n = w.n /\ v.last = {} /\ (v.lost <=> w.at = "none")
  <2>1. InOptions(w, v, t)
    BY FollowInside
  <2> QED
    BY <2>1 DEF InOptions
<1>4. v \in FollowStates
  BY FollowType
<1>4a. \A i \in Opens(s) : From(s, i) \in ReadStates
  BY BracketsGrow
<1> HIDE DEF v, n
<1>5. CASE v.at = "options" /\ Spoken(w, v, t)
  <2>1. Related(v, Append(s, t))
    BY <1>1, <1>2, <1>3, <1>4, <1>5, StringGoesOn
  <2> QED
    BY <2>1 DEF v
<1>6. CASE t = "]" /\ v.at = "field" /\ v.n = w.n /\ v.last = {} /\ (v.lost <=> w.at = "none")
  <2>1. Closer(t)
    BY <1>6 DEF Closer
  <2>2. ASSUME NEW i \in Opens(s), w.at = "none" => i # n PROVE Read(From(s, i), t).at # "end"
    <3>1. From(s, i).at # "list"
      <4>1. i = L => From(s, i) = [at |-> "options", n |-> w.n]
        BY <1>1 DEF InList, Phase
      <4>2. i # L => Dead(From(s, i))
        BY <1>1, <2>2 DEF InList, n
      <4> QED
        BY <4>1, <4>2 DEF Dead
    <3> QED
      BY <1>4a, <1>6, <3>1, ReadIs
  <2>3. ValueOf(Append(s, t)) = Value(v)
    <3>1. CASE w.at = "options"
      <4>1. \A i \in Opens(s) : Read(From(s, i), t).at # "end"
        BY <2>2, <3>1
      <4>2. ValueOf(Append(s, t)) = {}
        BY <2>1, <4>1, NoneCloses
      <4> QED
        BY <1>6, <3>1, <4>2 DEF Value
    <3>2. CASE w.at = "none"
      <4>1. n \in Opens(s) /\ From(s, n) = [at |-> "list", n |-> 0] /\ Bal(s, n) = -1
        BY <1>2, <3>2
      <4>2. From(s, n) \in ReadStates /\ From(s, n).at = "list" /\ From(s, n).n = 0
        BY <1>4a, <4>1
      <4>3. Read(From(s, n), t) = [at |-> "end", n |-> 0]
        BY <1>6, <4>2, ReadIs
      <4>4. \A i \in Opens(s) : i # n => Read(From(s, i), t).at # "end"
        BY <2>2
      <4>5. Bal(s, n) = -1 /\ \A i \in Opens(s) : i > n => Bal(s, i) # -1
        <5>1. n \in Nat /\ \A i \in Opens(s) : i \in 1..n
          BY AppendIs DEF Opens, n
        <5> QED
          BY <4>1, <5>1
      <4>6. ValueOf(Append(s, t)) = IF Read(From(s, n), t).at = "end" THEN {Read(From(s, n), t).n} ELSE {}
        BY <2>1, <4>1, <4>4, <4>5, OneCloses
      <4>7. ValueOf(Append(s, t)) = {0}
        BY <4>3, <4>6
      <4> QED
        BY <1>6, <3>2, <4>7 DEF Value
    <3> QED
      BY <3>1, <3>2
  <2>4. Read([at |-> Phase(w.at), n |-> w.n], t) = [at |-> Phase(v.at), n |-> v.n]
    <3> DEFINE r == [at |-> "options", n |-> w.n]
    <3>1. r \in ReadStates /\ r.at = "options" /\ r.n = w.n
      BY DEF ReadStates, FollowStates
    <3>2. Phase(w.at) = "options" /\ Phase(v.at) = "field"
      BY <1>6 DEF Phase
    <3>3. Read(r, t) = [at |-> "field", n |-> r.n]
      BY <1>6, <3>1, ReadIs
    <3> QED
      BY <1>6, <3>1, <3>2, <3>3
  <2>5. (t = "[" <=> v.at = "none") /\ v.at \in {"list", "field", "none", "options"}
    BY <1>6
  <2>6. w.at \in {"field", "none", "options"}
    OBVIOUS
  <2>7. Related(v, Append(s, t))
    BY <1>1, <1>3, <1>4, <1>6, <2>3, <2>4, <2>5, <2>6, InsideGoesOn
  <2> QED
    BY <2>7 DEF v
<1> QED
  BY <1>3, <1>5, <1>6

-----------------------------------------------------------------------------
(* The reference and the parser, token by token *)

\* A further token of the answer.
LEMMA RelatedGrows ==
  ASSUME NEW s \in Seq(Tokens), NEW t \in Tokens, NEW w \in FollowStates,
         w.at # "other" => Related(w, s), Follow(w, t).at # "other"
  PROVE  Related(Follow(w, t), Append(s, t))
<1>1. w.at \in {"prose", "start", "reference", "list", "field", "none", "options", "other"}
  BY DEF FollowStates
<1>2. w.at # "other"
  BY FollowOutside
<1>3. CASE w.at \in {"prose", "reference"}
  BY <1>2, <1>3, ProseGoesOn
<1>4. CASE w.at \in {"start", "list"}
  BY <1>2, <1>4, ListEnds
<1>5. CASE w.at = "field"
  BY <1>2, <1>5, FieldGoesOn
<1>6. CASE w.at \in {"none", "options"}
  BY <1>2, <1>6, OptionsGoOn
<1> QED
  BY <1>1, <1>2, <1>3, <1>4, <1>5, <1>6

FollowStart == [at |-> "prose", n |-> 0, last |-> {}, depth |-> 0, lost |-> FALSE]

\* The empty answer.
LEMMA RelatedStarts == FollowStart \in FollowStates /\ Related(FollowStart, <<>>)
<1>1. FollowStart \in FollowStates
  BY DEF FollowStart, FollowStates
<1>2. <<>> \in Seq(Tokens) /\ Len(<<>>) = 0
  OBVIOUS
<1>3. EndOf(<<>>) = 0
  <2>1. EndOf(<<>>) \in 0..Len(<<>>)
    BY <1>2, EndIs
  <2> QED
    BY <1>2, <2>1
<1>4. ExtractJSONArray(<<>>) = <<>>
  BY <1>3, Zenon DEF ExtractJSONArray, EndOf
<1>5. ValueOf(<<>>) = {}
  BY <1>4, ReadingStarts DEF ValueOf, Unmarshal, ReadStart
<1>6. Opens(<<>>) = {}
  BY DEF Opens
<1>7. FollowStart.at = "prose" /\ FollowStart.last = {}
  BY DEF FollowStart
<1>8. Value(FollowStart) = {}
  BY <1>7 DEF Value
<1> HIDE DEF FollowStart
<1> QED
  BY <1>1, <1>5, <1>6, <1>7, <1>8 DEF Related, Inside

\* The reference reads the answered tokens one by one.
LEMMA FollowingRuns ==
  ASSUME NEW s \in Seq(Tokens)
  PROVE  LET f == Following(s)
             m == Len(s) IN
         /\ f[0] = FollowStart
         /\ \A k \in 0..m : k < m =>
              f[k + 1] = IF k + 1 \in Answered(s) THEN Follow(f[k], s[k + 1]) ELSE f[k]
<1> DEFINE m == Len(s)
           P == Answered(s)
           F == [k \in 1..m |-> [st \in FollowStates |-> IF k \in P THEN Follow(st, s[k]) ELSE st]]
           Follows(g) == g = [k \in 0..m |-> IF k = 0 THEN FollowStart
                                            ELSE IF k \in P THEN Follow(g[k - 1], s[k]) ELSE g[k - 1]]
<1>1. m \in Nat
  OBVIOUS
<1>2. \A k \in 1..m, st \in FollowStates : F[k][st] = IF k \in P THEN Follow(st, s[k]) ELSE st
  OBVIOUS
<1>3. F \in [1..m -> [FollowStates -> FollowStates]]
  BY FollowType
<1>4. FollowStart \in FollowStates
  BY RelatedStarts
<1> HIDE DEF F, m, P
<1>5. PICK g : g \in [0..m -> FollowStates] /\ g[0] = FollowStart /\ \A k \in 1..m : g[k] = F[k][g[k - 1]]
  <2> HIDE DEF FollowStates, FollowStart
  <2>1. IsNext(F, m, FollowStates)
    BY <1>3 DEF IsNext
  <2>2. \E g : IsRun(g, F, m, FollowStates, FollowStart)
    BY <1>1, <1>4, <2>1, RunExists
  <2> QED
    BY <2>2 DEF IsRun
<1>6. Follows(g)
  <2>0. g \in [0..m -> FollowStates]
    BY <1>5
  <2>1. \A k \in 0..m : g[k] = IF k = 0 THEN FollowStart
                               ELSE IF k \in P THEN Follow(g[k - 1], s[k]) ELSE g[k - 1]
    <3> SUFFICES ASSUME NEW k \in 0..m, k # 0
                 PROVE g[k] = IF k \in P THEN Follow(g[k - 1], s[k]) ELSE g[k - 1]
      BY <1>5
    <3>1. k \in 1..m /\ k - 1 \in 0..m
      BY <1>1
    <3>2. g[k - 1] \in FollowStates
      BY <2>0, <3>1
    <3> QED
      BY <1>2, <1>5, <3>1, <3>2
  <2>2. g = [k \in 0..m |-> g[k]]
    BY <2>0
  <2> HIDE DEF FollowStart
  <2> QED
    BY <2>1, <2>2
<1> DEFINE h == CHOOSE f : Follows(f)
<1>7. Follows(h)
  <2> HIDE DEF Follows
  <2> QED
    BY <1>6
<1>8. Following(s) = h
  BY Zenon DEF Following, m, P, FollowStart
<1> HIDE DEF h, FollowStart
<1>9. \A k \in 0..m : h[k] = IF k = 0 THEN FollowStart
                             ELSE IF k \in P THEN Follow(h[k - 1], s[k]) ELSE h[k - 1]
  BY <1>7
<1>10. h[0] = FollowStart
  BY <1>1, <1>9
<1>11. ASSUME NEW k \in 0..m, k < m PROVE h[k + 1] = IF k + 1 \in P THEN Follow(h[k], s[k + 1]) ELSE h[k]
  <2>1. k + 1 \in 0..m /\ k + 1 # 0 /\ (k + 1) - 1 = k
    BY <1>1, <1>11
  <2> QED
    BY <1>9, <2>1
<1> QED
  BY <1>8, <1>10, <1>11 DEF m, P

-----------------------------------------------------------------------------
(* The fields of the list *)

\* A fence is not in the form that was asked for.
LEMMA NoFence ==
  ASSUME NEW w \in FollowStates, NEW t, Follow(w, t).at # "other"
  PROVE  t # "fence" /\ w.at # "other"
<1>1. w.at \in {"prose", "start", "reference", "list", "field", "none", "options", "other"}
  BY DEF FollowStates
<1>2. "fence" \notin Strings
  BY DEF Strings
<1>3. CASE w.at \in {"prose", "start", "reference", "list", "other"}
  BY <1>3, FollowOutside
<1>4. CASE w.at \in {"field", "none", "options"}
  <2>1. CASE w.at = "field"
    <3>1. InField(w, Follow(w, t), t)
      BY <2>1, FollowInside
    <3>2. t \in Strings \/ t = "}" \/ t = "["
      BY <3>1 DEF InField, Spoken
    <3> QED
      BY <1>2, <1>4, <3>2
  <2>2. CASE w.at \in {"none", "options"}
    <3>1. InOptions(w, Follow(w, t), t)
      BY <2>2, FollowInside
    <3>2. t \in Strings \/ t = "]"
      BY <3>1 DEF InOptions, Spoken
    <3> QED
      BY <1>2, <1>4, <3>2
  <2> QED
    BY <1>4, <2>1, <2>2
<1> QED
  BY <1>1, <1>3, <1>4

\* While the answer has the form that was asked for, what the reference knows
\* of the answer holds of what stripThinkBlocks leaves of it.
LEMMA FieldsFollow ==
  ASSUME NEW s \in Seq(Tokens), Following(s)[Len(s)].at # "other"
  PROVE  Related(Following(s)[Len(s)], StripThinkBlocks(s))
<1> DEFINE g == Scan(s, FALSE)
           f == Following(s)
           m == Len(s)
           C == Answered(s)
           Quiet(o) == \A k \in 1..Len(o) : o[k] # "fence"
           I == {n \in 0..m : /\ f[n] \in FollowStates
                              /\ f[n].at # "other" => Related(f[n], g[n].out) /\ Quiet(g[n].out)}
<1>1. m \in Nat /\ \A n \in 1..m : s[n] \in Tokens
  OBVIOUS
<1>2. /\ g[0] = Start
      /\ \A n \in 0..m : g[n] \in ScanStates
      /\ \A n \in 0..m : n < m => g[n + 1].out = IF n + 1 \in C THEN Append(g[n].out, s[n + 1]) ELSE g[n].out
  <2>1. C = Chosen(s, FALSE)
    BY DEF Chosen
  <2> HIDE DEF C
  <2> QED
    BY <2>1, ScanFollows
<1>3. /\ f[0] = FollowStart
      /\ \A n \in 0..m : n < m => f[n + 1] = IF n + 1 \in C THEN Follow(f[n], s[n + 1]) ELSE f[n]
  BY FollowingRuns
<1> HIDE DEF g, f, m, C
<1>4. 0 \in I
  <2>1. g[0].out = <<>> /\ 0 \in 0..m
    BY <1>1, <1>2 DEF Start
  <2>2. Quiet(<<>>)
    OBVIOUS
  <2> QED
    BY <1>3, <2>1, <2>2, RelatedStarts
<1>5. ASSUME NEW n \in 0..m, n < m, n \in I PROVE n + 1 \in I
  <2>1. n + 1 \in 1..m /\ n + 1 \in 0..m
    BY <1>1, <1>5
  <2>2. /\ f[n] \in FollowStates
        /\ f[n].at # "other" => Related(f[n], g[n].out) /\ Quiet(g[n].out)
    BY <1>5
  <2>3. CASE n + 1 \in C
    <3>1. f[n + 1] = Follow(f[n], s[n + 1]) /\ g[n + 1].out = Append(g[n].out, s[n + 1])
      BY <1>2, <1>3, <1>5, <2>3
    <3>2. g[n].out \in Seq(Tokens) /\ s[n + 1] \in Tokens
      BY <1>1, <1>2, <2>1 DEF ScanStates
    <3>3. f[n + 1] \in FollowStates
      BY <2>2, <3>1, FollowType
    <3>4. f[n + 1].at # "other" => Related(f[n + 1], g[n + 1].out)
      BY <2>2, <3>1, <3>2, RelatedGrows
    <3>5. f[n + 1].at # "other" => Quiet(g[n + 1].out)
      <4> SUFFICES ASSUME f[n + 1].at # "other" PROVE Quiet(g[n + 1].out)
        OBVIOUS
      <4>1. s[n + 1] # "fence" /\ f[n].at # "other"
        BY <2>2, <3>1, NoFence
      <4>2. Quiet(g[n].out)
        BY <2>2, <4>1
      <4> QED
        BY <3>1, <3>2, <4>1, <4>2, AppendIs
    <3> HIDE DEF Quiet
    <3> QED
      BY <2>1, <3>3, <3>4, <3>5
  <2>4. CASE n + 1 \notin C
    <3>1. f[n + 1] = f[n] /\ g[n + 1].out = g[n].out
      BY <1>2, <1>3, <1>5, <2>4
    <3> HIDE DEF Quiet
    <3> QED
      BY <2>1, <2>2, <3>1
  <2> QED
    BY <2>3, <2>4
<1> HIDE DEF I
<1>6. m \in I
  <2>1. \A n \in 0..m : n \in I
    BY <1>1, <1>4, <1>5, UpTo
  <2> QED
    BY <1>1, <2>1
<1>7. f[m].at # "other"
  BY DEF f, m
<1>8. Related(f[m], g[m].out) /\ Quiet(g[m].out)
  BY <1>6, <1>7 DEF I
<1>9. TrimSpace(g[m].out) = g[m].out
  <2> DEFINE o == g[m].out
  <2>1. o \in Seq(Tokens)
    BY <1>1, <1>2 DEF ScanStates
  <2> HIDE DEF o
  <2>2. o # <<>> => Len(o) \in 1..Len(o)
    BY <2>1
  <2>3. o # <<>> => o[Len(o)] # "fence"
    BY <1>8, <2>2 DEF o
  <2>4. TrimSpace(o) = o
    BY <2>3 DEF TrimSpace
  <2> QED
    BY <2>4 DEF o
<1>10. StripThinkBlocks(s) = g[m].out
  BY <1>9 DEF StripThinkBlocks, Part, g, m
<1> QED
  BY <1>8, <1>10 DEF f, m

-----------------------------------------------------------------------------
(* Theorems *)

IsAnswer == output \in Seq(Tokens)

\* Every answer is a sequence of tokens.
LEMMA Answers == Spec => []IsAnswer
<1>1. Init => IsAnswer
  BY DEF Init, IsAnswer
<1>2. IsAnswer /\ [Next]_output => IsAnswer'
  BY DEF Next, Receive, IsAnswer
<1> QED
  BY <1>1, <1>2, PTL DEF Spec

\* parseActions takes the list of the first fenced block outside reasoning, from
\* the reasoning only for an answer that was cut inside its block, and none when
\* the answer has no block, ends with the fence of its first one, or holds null
\* (BUG-09-028), for answers of any length.
THEOREM ActionsAreTheAnswers == Spec => []ActionsFromTheRightPlace
<1>1. IsAnswer => ActionsFromTheRightPlace
  BY ParseIs DEF ActionsFromTheRightPlace, IsAnswer
<1> QED
  BY <1>1, Answers, PTL

\* Once the block of an answer is closed, parseActions returns the same whatever
\* the model adds to the answer.
THEOREM ClosedIsClosed == Spec => ClosedBlockIsFinal
<1>1. IsAnswer /\ [Next]_output
        => [ClosedIn(output, Answered(output)) => ParseActions(output') = ParseActions(output)]_output
  <2> SUFFICES ASSUME output \in Seq(Tokens), Next, ClosedIn(output, Answered(output))
               PROVE  ParseActions(output') = ParseActions(output)
    BY DEF IsAnswer
  <2>1. PICK t \in Tokens : output' = Append(output, t)
    BY DEF Next, Receive
  <2>2. ParseActions(Append(output, t)) = ParseActions(output)
    BY ParseStays
  <2> QED
    BY <2>1, <2>2
<1> QED
  BY <1>1, Answers, PTL DEF Spec, ClosedBlockIsFinal


\* parseIntakeFields takes the fields of the last list of an intake answer when
\* the brackets in its strings pair up and nothing in brackets follows it, and
\* refuses the answer otherwise, but for the one cut after an array of no options
\* or a "[]" in a string, for answers of any length (extractJSONArray).
THEOREM FieldsAreTheLastList == Spec => []FieldsOfTheLastList
<1>1. IsAnswer => FieldsOfTheLastList
  <2> SUFFICES ASSUME output \in Seq(Tokens), Written.at # "other"
               PROVE  ParseIntakeFields(output) = IF Written.lost /\ Written.at # "prose"
                                                    THEN {0} ELSE Written.last
    BY DEF IsAnswer, FieldsOfTheLastList
  <2>1. Related(Written, StripThinkBlocks(output))
    BY FieldsFollow DEF Written
  <2>2. ParseIntakeFields(output) = ValueOf(StripThinkBlocks(output))
    BY DEF ParseIntakeFields, ValueOf
  <2> QED
    BY <2>1, <2>2 DEF Related, Value
<1> QED
  BY <1>1, Answers, PTL

\* The answers of the run that has intakes among them are answers.
LEMMA IntakeIsSpec == IntakeSpec => Spec
<1>1. [IntakeNext]_output => [Next]_output
  BY DEF IntakeNext, Next
<1> QED
  BY <1>1, PTL DEF IntakeSpec, Spec
==============================================================================
