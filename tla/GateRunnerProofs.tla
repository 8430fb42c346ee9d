-------------------------- MODULE GateRunnerProofs --------------------------
(***************************************************************************)
(* For any catalog of modules, any policy and any selection: what the      *)
(* order of the steps of a command, and the bracketing of its resources,   *)
(* say of the command's end.                                               *)
(***************************************************************************)
EXTENDS GateRunner, NaturalsInduction, WellFoundedInduction, TLAPS

-----------------------------------------------------------------------------
(* Sequences.                                                              *)

\* Induction on the natural numbers, for a set.
LEMMA Induct ==
  ASSUME NEW S \in SUBSET Nat, 0 \in S, \A n \in S : n + 1 \in S
  PROVE  S = Nat
  <1> SUFFICES ASSUME Nat \ S # {} PROVE FALSE
    OBVIOUS
  <1> DEFINE R == OpToRel(<, Nat)
  <1>1. IsWellFoundedOn(R, Nat)
    BY NatLessThanWellFounded
  <1>2. PICK x \in Nat \ S : \A y \in Nat \ S : ~ (<<y, x>> \in R)
    <2> HIDE DEF R
    <2> QED BY <1>1, WFMin
  <1>3. x # 0 /\ x - 1 \in Nat /\ x - 1 < x
    OBVIOUS
  <1>4. <<x - 1, x>> \in R
    BY <1>3, Zenon DEF OpToRel
  <1>5. x - 1 \in S
    BY <1>2, <1>3, <1>4
  <1> QED BY <1>5, <1>3

\* The partial results of FlattenSeq.
Flattening(seqs, n, f) ==
    f = [i \in 1..n |-> IF i = 1 THEN seqs[i] ELSE f[i-1] \o seqs[i]]

\* A partial result follows from the one before it.
LEMMA FlatteningAt ==
  ASSUME NEW seqs, NEW n \in Nat, NEW f, Flattening(seqs, n, f), NEW i \in 1..n
  PROVE  f[i] = IF i = 1 THEN seqs[i] ELSE f[i-1] \o seqs[i]
  <1> DEFINE e(k) == IF k = 1 THEN seqs[k] ELSE f[k-1] \o seqs[k]
  <1>1. f = [k \in 1..n |-> e(k)]
    BY DEF Flattening
  <1> HIDE DEF e
  <1>2. f[i] = e(i)
    BY <1>1
  <1> QED BY <1>2 DEF e

\* A function with that equation exists, so the recursion has its meaning.
LEMMA FlatteningExists ==
  ASSUME NEW seqs, NEW n \in Nat
  PROVE  \E f : Flattening(seqs, n, f)
  <1> DEFINE S == {k \in Nat : \E f : Flattening(seqs, k, f)}
  <1>1. 0 \in S
    <2> DEFINE g == [i \in 1..0 |-> IF i = 1 THEN seqs[i] ELSE seqs[i]]
    <2>1. Flattening(seqs, 0, g) BY DEF Flattening
    <2> QED BY <2>1
  <1>2. ASSUME NEW k \in S PROVE k + 1 \in S
    <2>1. PICK f : Flattening(seqs, k, f) OBVIOUS
    <2> DEFINE g == [i \in 1..(k + 1) |-> IF i = 1 THEN seqs[i] ELSE f[i-1] \o seqs[i]]
    <2>2. \A i \in 1..k : g[i] = f[i]
      BY <2>1, FlatteningAt
    <2>3. \A i \in 1..(k + 1) : i # 1 => i - 1 \in 1..k
      OBVIOUS
    <2>4. Flattening(seqs, k + 1, g)
      BY <2>2, <2>3 DEF Flattening
    <2> QED BY <2>4
  <1> HIDE DEF S
  <1>3. S = Nat BY <1>1, <1>2, Induct DEF S
  <1> QED BY <1>3 DEF S

\* FlattenSeq is the last of its partial results.
LEMMA FlattenIsLast ==
  ASSUME NEW seqs, NEW n \in Nat \ {0}, Len(seqs) = n
  PROVE  \E f : /\ FlattenSeq(seqs) = f[n]
                /\ f[1] = seqs[1]
                /\ \A i \in 2..n : f[i] = f[i-1] \o seqs[i]
  <1> DEFINE f == CHOOSE f : Flattening(seqs, n, f)
  <1>1. Flattening(seqs, n, f)
    BY FlatteningExists
  <1>2. FlattenSeq(seqs) = f[n]
    BY DEF FlattenSeq, Flattening
  <1> HIDE DEF f
  <1> DEFINE e(k) == IF k = 1 THEN seqs[k] ELSE f[k-1] \o seqs[k]
  <1>3. f = [k \in 1..n |-> e(k)]
    BY <1>1 DEF Flattening
  <1>4. 1 \in 1..n /\ \A k \in 2..n : k \in 1..n /\ k # 1
    OBVIOUS
  <1>5. e(1) = seqs[1] /\ \A k \in 2..n : e(k) = f[k-1] \o seqs[k]
    BY <1>4, Zenon
  <1> HIDE DEF e
  <1>6. \A k \in 1..n : f[k] = e(k)
    BY <1>3
  <1> QED BY <1>2, <1>4, <1>5, <1>6

\* What a set that is closed under concatenation has of the parts, it has of the whole.
LEMMA FlattenStays ==
  ASSUME NEW Q, <<>> \in Q, \A a, b \in Q : a \o b \in Q,
         NEW seqs \in Seq(Q)
  PROVE  FlattenSeq(seqs) \in Q
  <1>1. CASE Len(seqs) = 0
    <2>1. seqs = <<>> BY <1>1
    <2> QED BY <1>1, <2>1 DEF FlattenSeq
  <1>2. CASE Len(seqs) # 0
    <2> DEFINE n == Len(seqs)
    <2>1. n \in Nat \ {0} /\ \A i \in 1..n : seqs[i] \in Q BY <1>2
    <2> HIDE DEF n
    <2>2. PICK f : /\ FlattenSeq(seqs) = f[n]
                   /\ f[1] = seqs[1]
                   /\ \A i \in 2..n : f[i] = f[i-1] \o seqs[i]
      BY <2>1, FlattenIsLast DEF n
    <2> DEFINE S == {k \in Nat : k + 1 <= n => f[k + 1] \in Q}
    <2>3. 0 \in S
      BY <2>1, <2>2
    <2>4. ASSUME NEW k \in S PROVE k + 1 \in S
      <3>1. SUFFICES ASSUME k + 2 <= n PROVE f[k + 2] \in Q OBVIOUS
      <3>2. k + 2 \in 2..n /\ k + 2 \in 1..n /\ (k + 2) - 1 = k + 1 /\ k + 1 <= n
        BY <2>1, <3>1
      <3>3. f[k + 2] = f[k + 1] \o seqs[k + 2]
        BY <2>2, <3>2
      <3>4. f[k + 1] \in Q BY <3>2
      <3> QED BY <3>3, <3>4, <3>2, <2>1
    <2>5. S = Nat
      <3> HIDE DEF S
      <3>1. S \in SUBSET Nat BY DEF S
      <3> QED BY <2>3, <2>4, <3>1, Induct
    <2>6. n - 1 \in S /\ (n - 1) + 1 = n
      <3> HIDE DEF S
      <3> QED BY <2>1, <2>5
    <2>7. f[n] \in Q
      BY <2>6, <2>1
    <2> QED BY <2>2, <2>7
  <1> QED BY <1>1, <1>2

\* An element of a part is an element of the whole.
LEMMA FlattenKeeps ==
  ASSUME NEW K, NEW seqs \in Seq(Seq(K)), NEW x, NEW j \in 1..Len(seqs),
         \E i \in 1..Len(seqs[j]) : seqs[j][i] = x
  PROVE  \E i \in 1..Len(FlattenSeq(seqs)) : FlattenSeq(seqs)[i] = x
  <1> DEFINE n == Len(seqs)
             Has(s) == \E i \in 1..Len(s) : s[i] = x
  <1>0. \A a, b \in Seq(K) : a \o b \in Seq(K) /\ (Has(a) \/ Has(b) => Has(a \o b))
    <2> SUFFICES ASSUME NEW a \in Seq(K), NEW b \in Seq(K)
                 PROVE  a \o b \in Seq(K) /\ (Has(a) \/ Has(b) => Has(a \o b))
      OBVIOUS
    <2>1. a \o b \in Seq(K) /\ Len(a \o b) = Len(a) + Len(b) OBVIOUS
    <2>2. ASSUME Has(a) PROVE Has(a \o b)
      <3>1. PICK i \in 1..Len(a) : a[i] = x BY <2>2
      <3>2. i \in 1..Len(a \o b) /\ (a \o b)[i] = x BY <2>1, <3>1
      <3> QED BY <3>2
    <2>3. ASSUME Has(b) PROVE Has(a \o b)
      <3>1. PICK i \in 1..Len(b) : b[i] = x BY <2>3
      <3>2. Len(a) + i \in 1..Len(a \o b) /\ (a \o b)[Len(a) + i] = x BY <2>1, <3>1
      <3> QED BY <3>2
    <2> QED BY <2>1, <2>2, <2>3
  <1>1. n \in Nat \ {0} /\ (\A i \in 1..n : seqs[i] \in Seq(K)) /\ j \in 1..n /\ Has(seqs[j])
    OBVIOUS
  <1> HIDE DEF n, Has
  <1>2. PICK f : /\ FlattenSeq(seqs) = f[n]
                 /\ f[1] = seqs[1]
                 /\ \A i \in 2..n : f[i] = f[i-1] \o seqs[i]
    BY <1>1, FlattenIsLast DEF n
  <1> DEFINE S == {k \in Nat : k + 1 <= n => f[k + 1] \in Seq(K) /\ (j <= k + 1 => Has(f[k + 1]))}
  <1>3. 0 \in S
    BY <1>1, <1>2
  <1>4. ASSUME NEW k \in S PROVE k + 1 \in S
    <2>1. SUFFICES ASSUME k + 2 <= n
                   PROVE  f[k + 2] \in Seq(K) /\ (j <= k + 2 => Has(f[k + 2]))
      OBVIOUS
    <2>2. k + 2 \in 2..n /\ k + 2 \in 1..n /\ (k + 2) - 1 = k + 1 /\ k + 1 <= n
      BY <1>1, <2>1
    <2>3. f[k + 2] = f[k + 1] \o seqs[k + 2]
      BY <1>2, <2>2
    <2>4. f[k + 1] \in Seq(K) /\ (j <= k + 1 => Has(f[k + 1])) BY <2>2
    <2>5. j <= k + 2 => j <= k + 1 \/ j = k + 2 BY <1>1
    <2>6. seqs[k + 2] \in Seq(K) BY <1>1, <2>2
    <2> QED BY <2>3, <2>4, <2>5, <2>6, <1>1, <1>0
  <1>5. S = Nat
    <2> HIDE DEF S
    <2>1. S \in SUBSET Nat BY DEF S
    <2> QED BY <1>3, <1>4, <2>1, Induct
  <1>6. n - 1 \in S /\ (n - 1) + 1 = n
    <2> HIDE DEF S
    <2> QED BY <1>1, <1>5
  <1>7. Has(f[n])
    BY <1>6, <1>1
  <1> QED BY <1>2, <1>7 DEF Has

-----------------------------------------------------------------------------
(* Steps and open resources.                                               *)

Kinds == {"check", "scan", "code", "advise", "open", "close", "publish", "build", "release",
          "diff", "bind"}
ElementsOf(s) == {s[i] : i \in 1..Len(s)}
Sequence(s) == s \in Seq(ElementsOf(s))
Tools == {"gosec", "golib-analysis", "staticcheck"}

ResourceOf(step) == [name |-> step.gate, module |-> step.module]
NamesIn(stack) == {stack[i].name : i \in 1..Len(stack)}
InScanPass(stack) == "compiler tools" \in NamesIn(stack)

\* A stack of scopes: below everything the workspace, no name twice, and no tool
\* of its own beside the scan pass, which keeps them.
Stacked(stack) ==
    /\ Sequence(stack)
    /\ \A i, j \in 1..Len(stack) : stack[i].name = stack[j].name => i = j
    /\ \A i \in 1..Len(stack) : stack[i].name = "workspace" <=> i = 1
    /\ InScanPass(stack) => NamesIn(stack) \cap Tools = {}

\* What a step that passes does to the open scopes.
Turns(step, below, above) ==
    LET opens == above = Append(below, ResourceOf(step)) /\ Stacked(above)
        closes == below = Append(above, ResourceOf(step))
    IN  /\ step.do = "open" => opens /\ step.gate \notin Tools
        /\ step.do = "build" =>
              /\ step.gate \in Tools
              /\ IF InScanPass(below) THEN above = below ELSE opens
        /\ step.do = "close" => closes /\ step.gate # "baseline snapshot"
        /\ step.do = "publish" => closes /\ step.gate = "baseline snapshot"
        /\ step.do = "release" =>
              /\ step.gate \in Tools
              /\ IF InScanPass(below) THEN above = below ELSE closes
        /\ step.do \notin {"open", "close", "publish", "build", "release"} => above = below

\* The scopes after each step of a sequence that begins and ends on the same stack.
Scopes(s, base, scopes) ==
    /\ \A i \in 0..Len(s) : Sequence(scopes[i])
    /\ scopes[0] = base /\ scopes[Len(s)] = base
    /\ \A i \in 1..Len(s) : Turns(s[i], scopes[i - 1], scopes[i])

Nests(s, base) == \E scopes : Scopes(s, base, scopes)

On(base, names) == Stacked(base) /\ base # <<>> /\ NamesIn(base) \subseteq names

\* A sequence of these kinds of steps that nests wherever no more than these names
\* are open.
Fits(s, kinds, names) ==
    /\ Sequence(s)
    /\ \A i \in 1..Len(s) : s[i].do \in kinds
    /\ \A base : On(base, names) => Nests(s, base)

\* A sequence over any set is one over its own elements.
LEMMA Sequences ==
  ASSUME NEW K, NEW s \in Seq(K)
  PROVE  Sequence(s) /\ ElementsOf(s) \subseteq K /\ Len(s) \in Nat
  <1>1. Len(s) \in Nat /\ s = [i \in 1..Len(s) |-> s[i]] /\ \A i \in 1..Len(s) : s[i] \in K
    OBVIOUS
  <1>2. [i \in 1..Len(s) |-> s[i]] \in Seq(ElementsOf(s)) BY <1>1 DEF ElementsOf
  <1> QED BY <1>1, <1>2 DEF Sequence, ElementsOf

\* A sequence over its own elements is one over every set that has them.
LEMMA SequenceIn ==
  ASSUME NEW s, Sequence(s), NEW K, ElementsOf(s) \subseteq K
  PROVE  s \in Seq(K)
  <1> DEFINE E == ElementsOf(s)
  <1>1. s \in Seq(E) /\ E \subseteq K BY DEF Sequence
  <1> HIDE DEF E
  <1>2. Len(s) \in Nat /\ s = [i \in 1..Len(s) |-> s[i]] /\ \A i \in 1..Len(s) : s[i] \in K
    BY <1>1
  <1>3. [i \in 1..Len(s) |-> s[i]] \in Seq(K) BY <1>2
  <1> QED BY <1>2, <1>3

\* No steps leave every stack as it is.
LEMMA NestsEmpty == ASSUME NEW base, Sequence(base) PROVE Nests(<<>>, base)
  <1> DEFINE scopes == [i \in 0..0 |-> base]
  <1>1. Scopes(<<>>, base, scopes) BY DEF Scopes
  <1> QED BY <1>1 DEF Nests

\* Two sequences that nest on a stack do so one after the other.
LEMMA NestsConcat ==
  ASSUME NEW K, NEW a \in Seq(K), NEW b \in Seq(K), NEW base, Nests(a, base), Nests(b, base)
  PROVE  Nests(a \o b, base)
  <1>1. PICK x : Scopes(a, base, x) BY DEF Nests
  <1>2. PICK y : Scopes(b, base, y) BY DEF Nests
  <1> DEFINE n == Len(a)
             m == Len(b)
             s == a \o b
             z == [i \in 0..(n + m) |-> IF i <= n THEN x[i] ELSE y[i - n]]
  <1>3. /\ n \in Nat /\ m \in Nat /\ Len(s) = n + m
        /\ \A i \in 1..n : s[i] = a[i]
        /\ \A i \in 1..(n + m) : i > n => i - n \in 1..m /\ s[i] = b[i - n]
    OBVIOUS
  <1>4. /\ (\A i \in 0..n : Sequence(x[i])) /\ x[0] = base /\ x[n] = base
        /\ \A i \in 1..n : Turns(a[i], x[i - 1], x[i])
    BY <1>1 DEF Scopes
  <1>5. /\ (\A i \in 0..m : Sequence(y[i])) /\ y[0] = base /\ y[m] = base
        /\ \A i \in 1..m : Turns(b[i], y[i - 1], y[i])
    BY <1>2 DEF Scopes
  <1> HIDE DEF n, m, s
  <1>6. \A i \in 0..(n + m) : /\ i <= n => i \in 0..n /\ z[i] = x[i]
                              /\ i > n => i - n \in 0..m /\ z[i] = y[i - n]
    BY <1>3
  <1>7. \A i \in 0..(n + m) : Sequence(z[i])
    BY <1>3, <1>4, <1>5, <1>6
  <1>8. z[0] = base /\ z[n + m] = base
    <2>1. 0 \in 0..(n + m) /\ 0 <= n /\ n + m \in 0..(n + m) /\ (n + m) - n = m BY <1>3
    <2>2. n + m <= n => n + m = n BY <1>3
    <2> QED BY <2>1, <2>2, <1>6, <1>4, <1>5, <1>3
  <1>9. ASSUME NEW i \in 1..(n + m) PROVE Turns(s[i], z[i - 1], z[i])
    <2> HIDE DEF z
    <2>1. i \in 0..(n + m) /\ i - 1 \in 0..(n + m) BY <1>3
    <2>2. CASE i <= n
      <3>1. i \in 1..n /\ i - 1 <= n BY <2>2, <1>3
      <3> QED BY <2>1, <2>2, <3>1, <1>3, <1>4, <1>6
    <2>3. CASE i > n
      <3>1. i - n \in 1..m /\ s[i] = b[i - n] BY <2>3, <1>3
      <3>2. z[i] = y[i - n] BY <2>1, <2>3, <1>6
      <3>3. z[i - 1] = y[(i - n) - 1]
        <4>1. CASE i - 1 > n
          <5>1. (i - 1) - n = (i - n) - 1 BY <1>3
          <5> QED BY <4>1, <5>1, <2>1, <1>6
        <4>2. CASE ~(i - 1 > n)
          <5>1. i - 1 = n /\ (i - n) - 1 = 0 /\ i - 1 <= n BY <2>3, <4>2, <1>3
          <5> QED BY <5>1, <2>1, <1>6, <1>4, <1>5
        <4> QED BY <4>1, <4>2
      <3> QED BY <3>1, <3>2, <3>3, <1>5
    <2> QED BY <2>2, <2>3, <1>3
  <1>10. Scopes(s, base, z)
    <2> HIDE DEF z
    <2> QED BY <1>3, <1>7, <1>8, <1>9 DEF Scopes
  <1> QED BY <1>10 DEF Nests, s

\* One step between two others that undo each other.
LEMMA NestsBracket ==
  ASSUME NEW K, NEW s \in Seq(K), NEW first \in K, NEW last \in K, NEW base, Sequence(base), NEW top,
         Turns(first, base, top), Turns(last, top, base), Nests(s, top)
  PROVE  Nests(<<first>> \o s \o <<last>>, base)
  <1>1. PICK x : Scopes(s, top, x) BY DEF Nests
  <1> DEFINE n == Len(s)
             t == <<first>> \o s \o <<last>>
             z == [i \in 0..(n + 2) |-> IF i = 0 \/ i = n + 2 THEN base ELSE x[i - 1]]
  <1>2. /\ n \in Nat /\ Len(t) = n + 2
        /\ t[1] = first /\ t[n + 2] = last
        /\ \A i \in 2..(n + 1) : i - 1 \in 1..n /\ t[i] = s[i - 1]
    <2>1. <<first>> \o s \in Seq(K) /\ Len(<<first>> \o s) = n + 1
      OBVIOUS
    <2>2. n \in Nat /\ Len(t) = n + 2 /\ t[n + 2] = last
      BY <2>1
    <2>3. t[1] = (<<first>> \o s)[1] /\ \A i \in 2..(n + 1) : t[i] = (<<first>> \o s)[i]
      BY <2>1
    <2> QED BY <2>1, <2>2, <2>3
  <1>3. /\ (\A i \in 0..n : Sequence(x[i])) /\ x[0] = top /\ x[n] = top
        /\ \A i \in 1..n : Turns(s[i], x[i - 1], x[i])
    BY <1>1 DEF Scopes
  <1> HIDE DEF n, t
  <1>4. /\ z[0] = base /\ z[n + 2] = base
        /\ \A i \in 1..(n + 1) : i - 1 \in 0..n /\ z[i] = x[i - 1]
    BY <1>2
  <1>5. \A i \in 0..(n + 2) : Sequence(z[i])
    BY <1>2, <1>3
  <1>6. ASSUME NEW i \in 1..(n + 2) PROVE Turns(t[i], z[i - 1], z[i])
    <2> HIDE DEF z
    <2>1. CASE i = 1
      <3>1. 1 \in 1..(n + 1) /\ z[1] = x[0] BY <1>2, <1>4
      <3> QED BY <2>1, <3>1, <1>2, <1>3, <1>4
    <2>2. CASE i = n + 2
      <3>1. n + 1 \in 1..(n + 1) /\ (n + 1) - 1 = n /\ (n + 2) - 1 = n + 1 BY <1>2
      <3>2. z[i - 1] = top BY <2>2, <3>1, <1>4, <1>3
      <3> QED BY <2>2, <3>2, <1>2, <1>4
    <2>3. CASE i # 1 /\ i # n + 2
      <3>1. i \in 2..(n + 1) /\ i \in 1..(n + 1) /\ i - 1 \in 1..(n + 1) /\ i - 1 \in 1..n BY <2>3, <1>2
      <3>2. z[i] = x[i - 1] /\ z[i - 1] = x[(i - 1) - 1] BY <3>1, <1>4
      <3> QED BY <3>1, <3>2, <1>2, <1>3
    <2> QED BY <2>1, <2>2, <2>3
  <1>7. Scopes(t, base, z)
    <2> HIDE DEF z
    <2> QED BY <1>2, <1>4, <1>5, <1>6 DEF Scopes
  <1> QED BY <1>7 DEF Nests, t

\* More may be open below, and more kinds be allowed.
LEMMA FitsWeaken ==
  ASSUME NEW s, NEW kinds, NEW names, Fits(s, kinds, names),
         NEW more, kinds \subseteq more, NEW less, less \subseteq names
  PROVE  Fits(s, more, less)
  <1>1. \A base : On(base, less) => On(base, names) BY DEF On
  <1> QED BY <1>1 DEF Fits

\* No steps fit anywhere.
LEMMA FitsEmpty == ASSUME NEW kinds, NEW names PROVE Fits(<<>>, kinds, names)
  <1>1. \A base : On(base, names) => Sequence(base) BY DEF On, Stacked
  <1>2. <<>> \in Seq({}) /\ Len(<<>>) = 0 OBVIOUS
  <1>3. Sequence(<<>>) BY <1>2, Sequences
  <1> QED BY <1>1, <1>2, <1>3, NestsEmpty DEF Fits

\* Sequences that fit may follow each other.
LEMMA FitsConcat ==
  ASSUME NEW kinds, NEW names, NEW a, NEW b, Fits(a, kinds, names), Fits(b, kinds, names)
  PROVE  Fits(a \o b, kinds, names)
  <1> DEFINE K == ElementsOf(a) \cup ElementsOf(b)
  <1>1. a \in Seq(K) /\ b \in Seq(K)
    <2>1. Sequence(a) /\ Sequence(b) BY DEF Fits
    <2> QED BY <2>1, SequenceIn
  <1> HIDE DEF K
  <1>2. a \o b \in Seq(K) BY <1>1
  <1>3. Sequence(a \o b) BY <1>2, Sequences
  <1>4. ASSUME NEW i \in 1..Len(a \o b) PROVE (a \o b)[i].do \in kinds
    <2>1. /\ i \in 1..Len(a) => (a \o b)[i] = a[i]
          /\ i \notin 1..Len(a) => i - Len(a) \in 1..Len(b) /\ (a \o b)[i] = b[i - Len(a)]
      BY <1>1
    <2> QED BY <2>1 DEF Fits
  <1>5. \A base : On(base, names) => Nests(a, base) /\ Nests(b, base) BY DEF Fits
  <1> QED BY <1>1, <1>3, <1>4, <1>5, NestsConcat DEF Fits

\* Steps that are taken under a condition.
LEMMA FitsIf ==
  ASSUME NEW kinds, NEW names, NEW s, NEW condition \in BOOLEAN,
         condition => Fits(s, kinds, names)
  PROVE  Fits(If(condition, s), kinds, names)
  BY FitsEmpty DEF If

\* A step that opens and closes nothing.
Plain == {"check", "scan", "code", "advise", "diff", "bind"}

\* One step that opens and closes nothing.
LEMMA FitsDo ==
  ASSUME NEW kinds, NEW names, NEW kind \in kinds \cap Plain, NEW gate, NEW module
  PROVE  Fits(Do(kind, gate, module), kinds, names)
  <1> DEFINE step == [do |-> kind, gate |-> gate, module |-> module]
  <1>1. Do(kind, gate, module) = <<step>> BY DEF Do
  <1>2. step.do = kind OBVIOUS
  <1> HIDE DEF step
  <1>3. ASSUME NEW base, On(base, names) PROVE Nests(<<step>>, base)
    <2> DEFINE scopes == [i \in 0..1 |-> base]
    <2>1. Sequence(base) BY <1>3 DEF On, Stacked
    <2>2. Turns(step, base, base) BY <1>2 DEF Turns, Plain
    <2>3. Scopes(<<step>>, base, scopes)
      <3>1. /\ \A i \in 0..1 : scopes[i] = base
            /\ Len(<<step>>) = 1 /\ <<step>>[1] = step
        OBVIOUS
      <3>2. \A i \in 1..1 : i = 1 /\ i - 1 = 0 /\ 0 \in 0..1 /\ 1 \in 0..1 OBVIOUS
      <3> HIDE DEF scopes
      <3> QED BY <2>1, <2>2, <3>1, <3>2 DEF Scopes
    <2> QED BY <2>3 DEF Nests
  <1>4. <<step>> \in Seq({step}) /\ Len(<<step>>) = 1 /\ <<step>>[1] = step
    OBVIOUS
  <1>5. Sequence(<<step>>) BY <1>4, Sequences
  <1>6. \A i \in 1..Len(<<step>>) : <<step>>[i].do \in kinds BY <1>2, <1>4
  <1> QED BY <1>1, <1>3, <1>5, <1>6 DEF Fits

\* A list of checks.
LEMMA FitsChecks ==
  ASSUME NEW kinds, "check" \in kinds, NEW names, NEW gates, NEW n \in Nat, Len(gates) = n, NEW module
  PROVE  Fits(Checks(gates, module), kinds, names)
  <1> DEFINE e(i) == [do |-> "check", gate |-> gates[i], module |-> module]
             s == Checks(gates, module)
             K == {e(i) : i \in 1..n}
  <1>1. s = [i \in 1..n |-> e(i)] /\ \A i \in 1..n : e(i) \in K /\ e(i).do = "check"
    BY DEF Checks
  <1> HIDE DEF e, s, K
  <1>2. s \in Seq(K) /\ Len(s) = n /\ \A i \in 1..n : s[i] = e(i)
    BY <1>1
  <1>3. ASSUME NEW base, On(base, names) PROVE Nests(s, base)
    <2> DEFINE scopes == [i \in 0..n |-> base]
    <2>1. Sequence(base) BY <1>3 DEF On, Stacked
    <2>2. ASSUME NEW i \in 1..n PROVE Turns(s[i], base, base)
      <3>1. s[i].do = "check" BY <1>1, <1>2
      <3> QED BY <3>1 DEF Turns
    <2>3. /\ \A i \in 0..n : scopes[i] = base
          /\ 0 \in 0..n /\ n \in 0..n /\ \A i \in 1..n : i \in 0..n /\ i - 1 \in 0..n
      OBVIOUS
    <2> HIDE DEF scopes
    <2>4. Scopes(s, base, scopes) BY <1>2, <2>1, <2>2, <2>3 DEF Scopes
    <2> QED BY <2>4 DEF Nests
  <1>4. Sequence(s) BY <1>2, Sequences
  <1>5. \A i \in 1..Len(s) : s[i].do \in kinds BY <1>1, <1>2
  <1>6. Fits(s, kinds, names) BY <1>3, <1>4, <1>5 DEF Fits
  <1> QED BY <1>6 DEF s

\* One more resource on a stack.
LEMMA StackGrows ==
  ASSUME NEW base, NEW names, On(base, names), NEW r,
         r.name \notin names \cup {"workspace"},
         r.name \in Tools => ~InScanPass(base),
         r.name = "compiler tools" => names \cap Tools = {}
  PROVE  /\ Sequence(base) /\ Sequence(Append(base, r))
         /\ Stacked(Append(base, r)) /\ On(Append(base, r), names \cup {r.name})
  <1> DEFINE n == Len(base)
             top == Append(base, r)
  <1>1. /\ Sequence(base) /\ base # <<>> /\ NamesIn(base) \subseteq names
        /\ \A i, j \in 1..n : base[i].name = base[j].name => i = j
        /\ \A i \in 1..n : base[i].name = "workspace" <=> i = 1
        /\ InScanPass(base) => NamesIn(base) \cap Tools = {}
        /\ \A i \in 1..n : base[i].name \in names
    BY DEF On, Stacked, NamesIn
  <1>2. /\ n \in Nat /\ n # 0 /\ Sequence(top) /\ Len(top) = n + 1 /\ top[n + 1] = r
        /\ \A i \in 1..n : top[i] = base[i]
    <2> DEFINE H == ElementsOf(base) \cup {r}
    <2>1. base \in Seq(H) /\ r \in H /\ base # <<>> BY <1>1, SequenceIn
    <2> HIDE DEF H
    <2>2. top \in Seq(H) BY ONLY <2>1
    <2>3. Sequence(top) BY <2>2, Sequences
    <2> QED BY ONLY <2>1, <2>3
  <1> HIDE DEF n, top
  <1>3. \A i \in 1..(n + 1) : i \in 1..n \/ i = n + 1
    BY ONLY <1>2
  <1>4. NamesIn(top) = NamesIn(base) \cup {r.name}
    <2>1. n + 1 \in 1..(n + 1) /\ \A i \in 1..n : i \in 1..(n + 1) BY ONLY <1>2
    <2> QED BY <1>2, <1>3, <2>1 DEF NamesIn, n
  <1>a. \A i \in 1..n : base[i].name # r.name
    BY <1>1
  <1>b. r.name # "workspace"
    OBVIOUS
  <1>5. \A i, j \in 1..(n + 1) : top[i].name = top[j].name => i = j
    BY ONLY <1>1, <1>2, <1>3, <1>a
  <1>6. \A i \in 1..(n + 1) : top[i].name = "workspace" <=> i = 1
    BY ONLY <1>1, <1>2, <1>3, <1>b
  <1>7. InScanPass(top) => NamesIn(top) \cap Tools = {}
    <2>1. "compiler tools" \notin Tools BY DEF Tools
    <2>2. CASE r.name = "compiler tools"
      <3>1. NamesIn(base) \cap Tools = {} BY <1>1, <2>2
      <3> QED BY <1>4, <2>1, <2>2, <3>1
    <2>3. CASE r.name # "compiler tools"
      <3>1. InScanPass(top) => InScanPass(base) BY <1>4, <2>3 DEF InScanPass
      <3> QED BY <1>1, <1>4, <3>1
    <2> QED BY <2>2, <2>3
  <1>8. top # <<>>
    <2>1. Len(<<>>) = 0 OBVIOUS
    <2> QED BY ONLY <1>2, <2>1
  <1> QED BY <1>1, <1>2, <1>4, <1>5, <1>6, <1>7, <1>8 DEF On, Stacked, top

\* What opens a scope and closes it fits around steps that fit below it.
LEMMA FitsBracket ==
  ASSUME NEW kinds, NEW names, NEW s, NEW inner, Fits(s, kinds, inner),
         NEW first, NEW last, first.do \in kinds, last.do \in kinds,
         \A base : On(base, names) =>
             \E top : Turns(first, base, top) /\ Turns(last, top, base) /\ On(top, inner)
  PROVE  Fits(<<first>> \o s \o <<last>>, kinds, names)
  <1> DEFINE K == ElementsOf(s) \cup {first, last}
             t == <<first>> \o s \o <<last>>
  <1>1. Sequence(s) /\ \A base : On(base, inner) => Nests(s, base)
    BY DEF Fits
  <1>2. s \in Seq(K) /\ first \in K /\ last \in K BY <1>1, SequenceIn
  <1>3. \A x \in K : x.do \in kinds BY DEF Fits, ElementsOf
  <1> HIDE DEF K
  <1>4. t \in Seq(K) BY <1>2
  <1>5. \A base : On(base, names) => Nests(t, base)
    <2> SUFFICES ASSUME NEW base, On(base, names) PROVE Nests(t, base)
      OBVIOUS
    <2>1. PICK top : Turns(first, base, top) /\ Turns(last, top, base) /\ On(top, inner)
      OBVIOUS
    <2>2. Sequence(base) BY DEF On, Stacked
    <2> QED BY <1>1, <1>2, <2>1, <2>2, NestsBracket
  <1> HIDE DEF t
  <1>6. Sequence(t) /\ \A i \in 1..Len(t) : t[i] \in K
    BY <1>4, Sequences
  <1>7. Fits(t, kinds, names) BY <1>3, <1>5, <1>6 DEF Fits
  <1> QED BY <1>7 DEF t

\* What opens and closes a resource around steps that fit under it.
LEMMA FitsWith ==
  ASSUME NEW kinds, "open" \in kinds, "close" \in kinds, NEW names, NEW name,
         name \notin names \cup Tools \cup {"workspace", "baseline snapshot"},
         name = "compiler tools" => names \cap Tools = {},
         NEW module, NEW s, Fits(s, kinds, names \cup {name})
  PROVE  Fits(With(name, module, s), kinds, names)
  <1> DEFINE first == [do |-> "open", gate |-> name, module |-> module]
             last == [do |-> "close", gate |-> name, module |-> module]
             r == [name |-> name, module |-> module]
  <1>1. With(name, module, s) = <<first>> \o s \o <<last>> BY DEF With, Do
  <1>2. ResourceOf(first) = r /\ ResourceOf(last) = r /\ r.name = name
    BY DEF ResourceOf
  <1>3. first.do = "open" /\ first.gate = name /\ last.do = "close" /\ last.gate = name
    OBVIOUS
  <1> HIDE DEF first, last, r
  <1>4. ASSUME NEW base, On(base, names)
        PROVE  \E top : Turns(first, base, top) /\ Turns(last, top, base) /\ On(top, names \cup {name})
    <2> DEFINE top == Append(base, r)
    <2>1. Stacked(top) /\ On(top, names \cup {name})
      BY <1>2, <1>4, StackGrows
    <2> HIDE DEF top
    <2>2. Turns(first, base, top)
      BY <1>2, <1>3, <2>1 DEF Turns, top
    <2>3. Turns(last, top, base)
      BY <1>2, <1>3 DEF Turns, top
    <2> QED BY <2>1, <2>2, <2>3
  <1> QED BY <1>1, <1>3, <1>4, FitsBracket

\* What uses a compiler tool, of its own or kept by the scan pass.
LEMMA FitsTool ==
  ASSUME NEW kinds, "build" \in kinds, "release" \in kinds, NEW names,
         NEW tool \in Tools, tool \notin names,
         NEW module, NEW s, Fits(s, kinds, names \cup {tool})
  PROVE  Fits(CompilerTool(tool, module, s), kinds, names)
  <1> DEFINE first == [do |-> "build", gate |-> tool, module |-> module]
             last == [do |-> "release", gate |-> tool, module |-> module]
             r == [name |-> tool, module |-> module]
  <1>0. tool # "workspace" /\ tool # "compiler tools" BY DEF Tools
  <1>1. CompilerTool(tool, module, s) = <<first>> \o s \o <<last>> BY DEF CompilerTool, Do
  <1>2. ResourceOf(first) = r /\ ResourceOf(last) = r /\ r.name = tool
    BY DEF ResourceOf
  <1>3. first.do = "build" /\ first.gate = tool /\ last.do = "release" /\ last.gate = tool
    OBVIOUS
  <1> HIDE DEF first, last, r
  <1>4. ASSUME NEW base, On(base, names)
        PROVE  \E top : Turns(first, base, top) /\ Turns(last, top, base) /\ On(top, names \cup {tool})
    <2>1. CASE InScanPass(base)
      <3>1. On(base, names \cup {tool}) BY <1>4 DEF On
      <3>2. Turns(first, base, base) /\ Turns(last, base, base)
        BY <1>3, <2>1 DEF Turns
      <3> QED BY <3>1, <3>2
    <2>2. CASE ~InScanPass(base)
      <3> DEFINE top == Append(base, r)
      <3>1. Sequence(base) /\ Stacked(top) /\ On(top, names \cup {tool})
        BY <1>0, <1>2, <1>4, <2>2, StackGrows
      <3>2. tool \in NamesIn(top)
        <4> DEFINE H == ElementsOf(base) \cup {r}
        <4>1. base \in Seq(H) /\ r \in H BY <3>1, SequenceIn
        <4> HIDE DEF H
        <4>2. Len(top) \in 1..Len(top) /\ top[Len(top)] = r BY ONLY <4>1
        <4> QED BY <1>2, <4>2 DEF NamesIn
      <3> HIDE DEF top
      <3>3. Turns(first, base, top)
        BY <1>2, <1>3, <2>2, <3>1 DEF Turns, top
      <3>4. ~InScanPass(top)
        BY <3>1, <3>2 DEF Stacked
      <3>5. Turns(last, top, base)
        BY <1>2, <1>3, <3>4 DEF Turns, top
      <3> QED BY <3>1, <3>3, <3>5
    <2> QED BY <2>1, <2>2
  <1> QED BY <1>1, <1>3, <1>4, FitsBracket

\* Loops over modules, in the catalog's order.
LEMMA FitsEach ==
  ASSUME NEW kinds, NEW names, NEW D, NEW steps, DOMAIN steps = D,
         \A m \in D : Fits(steps[m], kinds, names)
  PROVE  Fits(Each(steps), kinds, names)
  <1> DEFINE K == UNION {ElementsOf(steps[m]) : m \in D}
             Q == {s \in Seq(K) : Fits(s, kinds, names)}
             seqs == [i \in 1..Len(Modules) |-> If(Modules[i] \in DOMAIN steps, steps[Modules[i]])]
  <1>1. ASSUME NEW m \in D PROVE steps[m] \in Q
    <2>1. Sequence(steps[m]) /\ ElementsOf(steps[m]) \subseteq K BY DEF Fits
    <2> HIDE DEF K
    <2> QED BY <2>1, SequenceIn
  <1>2. <<>> \in Q BY FitsEmpty
  <1>3. ASSUME NEW a \in Q, NEW b \in Q PROVE a \o b \in Q
    <2> HIDE DEF K
    <2>1. a \o b \in Seq(K) OBVIOUS
    <2>2. Fits(a \o b, kinds, names) BY FitsConcat
    <2> QED BY <2>1, <2>2
  <1> HIDE DEF Q
  <1>4. \A i \in 1..Len(Modules) : If(Modules[i] \in DOMAIN steps, steps[Modules[i]]) \in Q
    BY <1>1, <1>2 DEF If
  <1>5. seqs \in Seq(Q)
    <2>1. Len(Modules) \in Nat BY GateAssumption
    <2> QED BY <1>4, <2>1
  <1>6. Each(steps) = FlattenSeq(seqs) BY DEF Each
  <1> HIDE DEF seqs
  <1>7. Each(steps) \in Q
    BY <1>2, <1>3, <1>5, <1>6, FlattenStays
  <1> QED BY <1>7 DEF Q

-----------------------------------------------------------------------------
(* What a sequence of steps completes.                                     *)

Does(s, gate, module) ==
    \E i \in 1..Len(s) : /\ s[i].do \in {"check", "scan", "code"}
                         /\ s[i].gate = gate /\ s[i].module = module

\* The elements of a concatenation.
LEMMA ConcatIs ==
  ASSUME NEW a, NEW b, Sequence(a), Sequence(b)
  PROVE  /\ Sequence(a \o b)
         /\ Len(a) \in Nat /\ Len(b) \in Nat /\ Len(a \o b) = Len(a) + Len(b)
         /\ \A i \in 1..Len(a) : (a \o b)[i] = a[i]
         /\ \A i \in 1..Len(b) : (a \o b)[Len(a) + i] = b[i]
  <1> DEFINE K == ElementsOf(a) \cup ElementsOf(b)
  <1>1. a \in Seq(K) /\ b \in Seq(K) BY SequenceIn
  <1> HIDE DEF K
  <1>2. a \o b \in Seq(K) BY <1>1
  <1>3. Sequence(a \o b) BY <1>2, Sequences
  <1> QED BY <1>1, <1>3

\* A concatenation completes what its parts complete.
LEMMA DoesConcat ==
  ASSUME NEW a, NEW b, Sequence(a), Sequence(b), NEW gate, NEW module,
         Does(a, gate, module) \/ Does(b, gate, module)
  PROVE  Does(a \o b, gate, module)
  <1>1. CASE Does(a, gate, module)
    <2>1. PICK i \in 1..Len(a) : /\ a[i].do \in {"check", "scan", "code"}
                                 /\ a[i].gate = gate /\ a[i].module = module
      BY <1>1 DEF Does
    <2>2. i \in 1..Len(a \o b) /\ (a \o b)[i] = a[i] BY ConcatIs
    <2> QED BY <2>1, <2>2 DEF Does
  <1>2. CASE Does(b, gate, module)
    <2>1. PICK i \in 1..Len(b) : /\ b[i].do \in {"check", "scan", "code"}
                                 /\ b[i].gate = gate /\ b[i].module = module
      BY <1>2 DEF Does
    <2>2. Len(a) + i \in 1..Len(a \o b) /\ (a \o b)[Len(a) + i] = b[i] BY ConcatIs
    <2> QED BY <2>1, <2>2 DEF Does
  <1> QED BY <1>1, <1>2

\* A step completes its gate.
LEMMA DoesDo ==
  ASSUME NEW kind \in {"check", "scan", "code"}, NEW gate, NEW module
  PROVE  Does(Do(kind, gate, module), gate, module)
  <1> DEFINE step == [do |-> kind, gate |-> gate, module |-> module]
  <1>1. step.do = kind /\ step.gate = gate /\ step.module = module OBVIOUS
  <1> HIDE DEF step
  <1>2. 1 \in 1..Len(<<step>>) /\ <<step>>[1] = step OBVIOUS
  <1>3. Does(<<step>>, gate, module) BY <1>1, <1>2 DEF Does
  <1> QED BY <1>3 DEF Do, step

\* A list of checks completes each of them.
LEMMA DoesChecks ==
  ASSUME NEW gates, NEW n \in Nat, Len(gates) = n, NEW i \in 1..n, NEW module
  PROVE  Does(Checks(gates, module), gates[i], module)
  <1> DEFINE e(j) == [do |-> "check", gate |-> gates[j], module |-> module]
             s == Checks(gates, module)
  <1>1. s = [j \in 1..n |-> e(j)] BY DEF Checks
  <1>2. e(i).do = "check" /\ e(i).gate = gates[i] /\ e(i).module = module OBVIOUS
  <1> HIDE DEF e, s
  <1>3. Len(s) = n /\ s[i] = e(i) BY <1>1
  <1>4. Does(s, gates[i], module) BY <1>2, <1>3 DEF Does
  <1> QED BY <1>4 DEF s

\* One step is a sequence.
LEMMA DoIs ==
  ASSUME NEW kind, NEW gate, NEW module
  PROVE  Sequence(Do(kind, gate, module))
  <1> DEFINE step == [do |-> kind, gate |-> gate, module |-> module]
  <1> HIDE DEF step
  <1>1. <<step>> \in Seq({step}) OBVIOUS
  <1>2. Sequence(<<step>>) BY <1>1, Sequences
  <1> QED BY <1>2 DEF Do, step

\* So do steps in a scope.
LEMMA DoesBracket ==
  ASSUME NEW s, Sequence(s), NEW gate, NEW module, Does(s, gate, module),
         NEW name, NEW of
  PROVE  /\ Does(With(name, of, s), gate, module)
         /\ Does(CompilerTool(name, of, s), gate, module)
  <1>1. \A kind : Sequence(Do(kind, name, of)) BY DoIs
  <1>2. ASSUME NEW first, NEW last, Sequence(first), Sequence(last)
        PROVE  Does(first \o s \o last, gate, module)
    <2>1. Sequence(first \o s) BY <1>2, ConcatIs
    <2>2. Does(first \o s, gate, module) BY <1>2, DoesConcat
    <2> QED BY <1>2, <2>1, <2>2, DoesConcat
  <1> QED BY <1>1, <1>2 DEF With, CompilerTool

\* What the steps of one module complete, the loop over the modules completes.
LEMMA DoesEach ==
  ASSUME NEW D, NEW steps, DOMAIN steps = D, \A m \in D : Sequence(steps[m]),
         NEW m \in D, m \in Directories, NEW gate, NEW module, Does(steps[m], gate, module)
  PROVE  Does(Each(steps), gate, module)
  <1> DEFINE K == UNION {ElementsOf(steps[d]) : d \in D}
             part(i) == If(Modules[i] \in DOMAIN steps, steps[Modules[i]])
             seqs == [i \in 1..Len(Modules) |-> part(i)]
  <1>1. ASSUME NEW d \in D PROVE steps[d] \in Seq(K)
    <2>1. Sequence(steps[d]) /\ ElementsOf(steps[d]) \subseteq K OBVIOUS
    <2> HIDE DEF K
    <2> QED BY <2>1, SequenceIn
  <1> HIDE DEF K
  <1>2. <<>> \in Seq(K) OBVIOUS
  <1>3. \A i \in 1..Len(Modules) : part(i) \in Seq(K) BY <1>1, <1>2 DEF If
  <1>4. PICK j \in 1..Len(Modules) : Modules[j] = m BY DEF Directories
  <1>5. part(j) = steps[m] BY <1>4 DEF If
  <1>6. PICK i \in 1..Len(steps[m]) : /\ steps[m][i].do \in {"check", "scan", "code"}
                                      /\ steps[m][i].gate = gate /\ steps[m][i].module = module
    BY DEF Does
  <1>7. Len(Modules) \in Nat BY GateAssumption
  <1> HIDE DEF part
  <1>8. seqs \in Seq(Seq(K)) /\ Len(seqs) = Len(Modules) /\ seqs[j] = steps[m]
    BY <1>3, <1>5, <1>7
  <1>9. Each(steps) = FlattenSeq(seqs) BY DEF Each, part
  <1> HIDE DEF seqs
  <1> DEFINE x == steps[m][i]
  <1>10. \E k \in 1..Len(seqs[j]) : seqs[j][k] = x BY <1>6, <1>8
  <1> HIDE DEF x
  <1>11. \E k \in 1..Len(FlattenSeq(seqs)) : FlattenSeq(seqs)[k] = x
    BY <1>8, <1>10, FlattenKeeps
  <1> QED BY <1>6, <1>9, <1>11 DEF Does, x

-----------------------------------------------------------------------------
(* The parts of the programs.                                              *)

\* Before repository code has run, and after the last scan.
NoCode == Kinds \ {"code", "diff", "bind"}
NoScan == Kinds \ {"scan", "diff", "bind"}

\* What may be open around the scans, and around the gates of a module.
AroundScans == {"workspace", "compiler tools"}
AroundGates == {"workspace", "fuzz scratch", "services"}

\* The kinds that most gates are made of.
LEMMA KindsAre ==
  /\ \A kind \in {"check", "advise", "open", "close", "publish", "build", "release"} :
        kind \in NoCode /\ kind \in NoScan
  /\ "scan" \in NoCode /\ "code" \in NoScan
  /\ "code" \notin NoCode /\ "scan" \notin NoScan
  /\ \A kind \in {"diff", "bind"} : kind \notin NoCode /\ kind \notin NoScan
  BY DEF NoCode, NoScan, Kinds

\* The single steps that gates are made of.
LEMMA Atoms ==
  ASSUME NEW names, NEW gate, NEW module
  PROVE  /\ Fits(Check(gate, module), NoCode, names) /\ Fits(Check(gate, module), NoScan, names)
         /\ Fits(Scan(gate, module), NoCode, names) /\ Fits(Code(gate, module), NoScan, names)
         /\ Fits(Do("advise", gate, module), NoScan, names)
         /\ Does(Check(gate, module), gate, module)
         /\ Does(Scan(gate, module), gate, module)
         /\ Does(Code(gate, module), gate, module)
  <1>1. /\ "check" \in NoCode \cap Plain /\ "check" \in NoScan \cap Plain
        /\ "scan" \in NoCode \cap Plain /\ "code" \in NoScan \cap Plain
        /\ "advise" \in NoScan \cap Plain
    BY DEF NoCode, NoScan, Kinds, Plain
  <1>2. /\ Fits(Check(gate, module), NoCode, names) /\ Fits(Check(gate, module), NoScan, names)
        /\ Fits(Scan(gate, module), NoCode, names) /\ Fits(Code(gate, module), NoScan, names)
        /\ Fits(Do("advise", gate, module), NoScan, names)
    BY <1>1, FitsDo DEF Check, Scan, Code
  <1>3. /\ Does(Check(gate, module), gate, module)
        /\ Does(Scan(gate, module), gate, module)
        /\ Does(Code(gate, module), gate, module)
    BY DoesDo DEF Check, Scan, Code
  <1> QED BY <1>2, <1>3

Listed(gates, module, names) ==
    Fits(Checks(gates, module), NoCode, names) /\ Fits(Checks(gates, module), NoScan, names)

\* Lists of checks of any length, and of those that the model has.
LEMMA CheckLists ==
  ASSUME NEW names, NEW gates, NEW n \in Nat, Len(gates) = n, NEW module
  PROVE  Listed(gates, module, names) /\ \A i \in 1..n : Does(Checks(gates, module), gates[i], module)
  <1>1. "check" \in NoCode /\ "check" \in NoScan BY KindsAre
  <1> QED BY <1>1, FitsChecks, DoesChecks DEF Listed

LEMMA TwoChecks ==
  ASSUME NEW a, NEW b, NEW names, NEW module
  PROVE  Listed(<<a, b>>, module, names) /\ \A gate \in {a, b} : Does(Checks(<<a, b>>, module), gate, module)
  <1>1. Len(<<a, b>>) = 2 /\ 2 \in Nat OBVIOUS
  <1>2. <<a, b>>[1] = a /\ <<a, b>>[2] = b OBVIOUS
  <1>3. 1 \in 1..2 /\ 2 \in 1..2 OBVIOUS
  <1> QED BY <1>1, <1>2, <1>3, CheckLists

LEMMA ThreeChecks ==
  ASSUME NEW a, NEW b, NEW c, NEW names, NEW module
  PROVE  Listed(<<a, b, c>>, module, names) /\ \A gate \in {a, b, c} : Does(Checks(<<a, b, c>>, module), gate, module)
  <1>1. Len(<<a, b, c>>) = 3 /\ 3 \in Nat OBVIOUS
  <1>2. <<a, b, c>>[1] = a /\ <<a, b, c>>[2] = b /\ <<a, b, c>>[3] = c OBVIOUS
  <1>3. 1 \in 1..3 /\ 2 \in 1..3 /\ 3 \in 1..3 OBVIOUS
  <1> QED BY <1>1, <1>2, <1>3, CheckLists

LEMMA FourChecks ==
  ASSUME NEW a, NEW b, NEW c, NEW d, NEW names, NEW module
  PROVE  Listed(<<a, b, c, d>>, module, names) /\ \A gate \in {a, b, c, d} : Does(Checks(<<a, b, c, d>>, module), gate, module)
  <1>1. Len(<<a, b, c, d>>) = 4 /\ 4 \in Nat OBVIOUS
  <1>2. <<a, b, c, d>>[1] = a /\ <<a, b, c, d>>[2] = b /\ <<a, b, c, d>>[3] = c /\ <<a, b, c, d>>[4] = d OBVIOUS
  <1>3. 1 \in 1..4 /\ 2 \in 1..4 /\ 3 \in 1..4 /\ 4 \in 1..4 OBVIOUS
  <1> QED BY <1>1, <1>2, <1>3, CheckLists

LEMMA FiveChecks ==
  ASSUME NEW a, NEW b, NEW c, NEW d, NEW e, NEW names, NEW module
  PROVE  Listed(<<a, b, c, d, e>>, module, names) /\ \A gate \in {a, b, c, d, e} : Does(Checks(<<a, b, c, d, e>>, module), gate, module)
  <1>1. Len(<<a, b, c, d, e>>) = 5 /\ 5 \in Nat OBVIOUS
  <1>2. <<a, b, c, d, e>>[1] = a /\ <<a, b, c, d, e>>[2] = b /\ <<a, b, c, d, e>>[3] = c /\ <<a, b, c, d, e>>[4] = d /\ <<a, b, c, d, e>>[5] = e OBVIOUS
  <1>3. 1 \in 1..5 /\ 2 \in 1..5 /\ 3 \in 1..5 /\ 4 \in 1..5 /\ 5 \in 1..5 OBVIOUS
  <1> QED BY <1>1, <1>2, <1>3, CheckLists

LEMMA SixChecks ==
  ASSUME NEW a, NEW b, NEW c, NEW d, NEW e, NEW f, NEW names, NEW module
  PROVE  Listed(<<a, b, c, d, e, f>>, module, names) /\ \A gate \in {a, b, c, d, e, f} : Does(Checks(<<a, b, c, d, e, f>>, module), gate, module)
  <1>1. Len(<<a, b, c, d, e, f>>) = 6 /\ 6 \in Nat OBVIOUS
  <1>2. <<a, b, c, d, e, f>>[1] = a /\ <<a, b, c, d, e, f>>[2] = b /\ <<a, b, c, d, e, f>>[3] = c /\ <<a, b, c, d, e, f>>[4] = d /\ <<a, b, c, d, e, f>>[5] = e /\ <<a, b, c, d, e, f>>[6] = f OBVIOUS
  <1>3. 1 \in 1..6 /\ 2 \in 1..6 /\ 3 \in 1..6 /\ 4 \in 1..6 /\ 5 \in 1..6 /\ 6 \in 1..6 OBVIOUS
  <1> QED BY <1>1, <1>2, <1>3, CheckLists

LEMMA SevenChecks ==
  ASSUME NEW a, NEW b, NEW c, NEW d, NEW e, NEW f, NEW g, NEW names, NEW module
  PROVE  Listed(<<a, b, c, d, e, f, g>>, module, names) /\ \A gate \in {a, b, c, d, e, f, g} : Does(Checks(<<a, b, c, d, e, f, g>>, module), gate, module)
  <1>1. Len(<<a, b, c, d, e, f, g>>) = 7 /\ 7 \in Nat OBVIOUS
  <1>2. <<a, b, c, d, e, f, g>>[1] = a /\ <<a, b, c, d, e, f, g>>[2] = b /\ <<a, b, c, d, e, f, g>>[3] = c /\ <<a, b, c, d, e, f, g>>[4] = d /\ <<a, b, c, d, e, f, g>>[5] = e /\ <<a, b, c, d, e, f, g>>[6] = f /\ <<a, b, c, d, e, f, g>>[7] = g OBVIOUS
  <1>3. 1 \in 1..7 /\ 2 \in 1..7 /\ 3 \in 1..7 /\ 4 \in 1..7 /\ 5 \in 1..7 /\ 6 \in 1..7 /\ 7 \in 1..7 OBVIOUS
  <1> QED BY <1>1, <1>2, <1>3, CheckLists

\* What fits is a sequence.
LEMMA AreSequences ==
  ASSUME NEW s, NEW kinds, NEW names, Fits(s, kinds, names) PROVE Sequence(s)
  BY DEF Fits

\* Secrets: the source once, then its history and its tree.
LEMMA SecretsFit ==
  ASSUME NEW changed \in BOOLEAN
  PROVE  /\ Fits(RepositorySecrets(changed), NoCode, AroundScans)
         /\ \A gate \in {"secrets-history", "secrets-current-tree"} :
               Does(RepositorySecrets(changed), gate, Root)
  <1>0. "open" \in NoCode /\ "close" \in NoCode BY KindsAre
  <1> DEFINE N1 == AroundScans \cup {"gitleaks config"}
             N2 == N1 \cup {"gitleaks sources"}
             N3 == N2 \cup {"gitleaks metadata"}
  <1>1. ASSUME NEW gate
        PROVE  Fits(SecretScan(gate), NoCode, N2) /\ Does(SecretScan(gate), gate, Root)
    <2>1. Fits(Scan(gate, Root), NoCode, N3) /\ Does(Scan(gate, Root), gate, Root)
      BY Atoms
    <2>2. "gitleaks metadata" \notin N2 \cup Tools \cup {"workspace", "baseline snapshot"}
      BY DEF AroundScans, Tools
    <2> HIDE DEF N2
    <2>3. Fits(SecretScan(gate), NoCode, N2)
      BY <1>0, <2>1, <2>2, FitsWith DEF SecretScan
    <2> QED BY <2>1, <2>3, DoesBracket, AreSequences DEF SecretScan
  <1>2. Fits(SourceSnapshot(changed), NoCode, N2)
    <2>1. /\ Fits(Checks(<<"ignore root", "bundle", "init", "fetch">>, Root), NoCode, N2)
          /\ Fits(Checks(<<"base commit", "head commit">>, Root), NoCode, N2)
          /\ Fits(Checks(<<"snapshot directory", "tree entries", "copy">>, Root), NoCode, N2)
          /\ Fits(TreeLimits, NoCode, N2)
      BY TwoChecks, ThreeChecks, FourChecks DEF TreeLimits, Listed
    <2>2. Fits(<<>>, NoCode, N2) BY FitsEmpty
    <2> HIDE DEF N2
    <2> QED BY <2>1, <2>2, FitsConcat DEF SourceSnapshot, If, CopyTree
  <1>3. Fits(GitleaksIgnore, NoCode, N1) /\ Fits(HistoryLimits, NoCode, N1) /\ Fits(TreeLimits, NoCode, N1)
    BY Atoms, TwoChecks DEF GitleaksIgnore, HistoryLimits, TreeLimits, Listed
  <1> DEFINE inner == SourceSnapshot(changed)
                      \o SecretScan("secrets-history") \o SecretScan("secrets-current-tree")
             outer == GitleaksIgnore \o HistoryLimits \o TreeLimits \o With("gitleaks sources", Root, inner)
  <1>4. Fits(inner, NoCode, N2)
    <2> HIDE DEF N2
    <2> QED BY <1>1, <1>2, FitsConcat
  <1>5. \A gate \in {"secrets-history", "secrets-current-tree"} : Does(inner, gate, Root)
    <2> HIDE DEF N2
    <2> QED BY <1>1, <1>2, DoesConcat, ConcatIs, AreSequences
  <1> HIDE DEF inner
  <1>6. Fits(With("gitleaks sources", Root, inner), NoCode, N1)
    <2>1. "gitleaks sources" \notin N1 \cup Tools \cup {"workspace", "baseline snapshot"}
      BY DEF AroundScans, Tools
    <2> HIDE DEF N1
    <2> QED BY <1>0, <1>4, <2>1, FitsWith
  <1>7. Fits(outer, NoCode, N1)
    <2> HIDE DEF N1
    <2> QED BY <1>3, <1>6, FitsConcat
  <1>8. \A gate \in {"secrets-history", "secrets-current-tree"} : Does(outer, gate, Root)
    <2>1. \A gate \in {"secrets-history", "secrets-current-tree"} :
             Does(With("gitleaks sources", Root, inner), gate, Root)
      BY <1>4, <1>5, DoesBracket, AreSequences
    <2>2. /\ Sequence(GitleaksIgnore) /\ Sequence(HistoryLimits) /\ Sequence(TreeLimits)
          /\ Sequence(With("gitleaks sources", Root, inner))
      BY <1>3, <1>6, AreSequences
    <2> QED BY <2>1, <2>2, DoesConcat, ConcatIs
  <1>9. RepositorySecrets(changed) = With("gitleaks config", Root, outer)
    BY DEF RepositorySecrets, inner
  <1> HIDE DEF outer
  <1>10. Fits(RepositorySecrets(changed), NoCode, AroundScans)
    <2>1. "gitleaks config" \notin AroundScans \cup Tools \cup {"workspace", "baseline snapshot"}
      BY DEF AroundScans, Tools
    <2>2. Fits(With("gitleaks config", Root, outer), NoCode, AroundScans)
      BY <1>0, <1>7, <2>1, FitsWith
    <2> QED BY <1>9, <2>2
  <1> QED BY <1>7, <1>8, <1>9, <1>10, DoesBracket, AreSequences

\* The checks that come before the scans of a command.
LEMMA PreflightFits ==
  ASSUME NEW policy, NEW modules, NEW names
  PROVE  /\ Fits(Preflight(policy, modules), NoCode, names)
         /\ \A m \in modules \cap Directories :
               Gated(policy, m, "security") => Does(Preflight(policy, modules), "security-suppressions", m)
  <1> DEFINE secured == Having(policy, modules, "security")
             steps == [m \in secured |-> Suppressions(m)]
  <1>1. \A m : Fits(Suppressions(m), NoCode, names) /\ Does(Suppressions(m), "security-suppressions", m)
    BY ThreeChecks DEF Suppressions, Listed
  <1>2. DOMAIN steps = secured /\ \A m \in secured : steps[m] = Suppressions(m)
    OBVIOUS
  <1>3. Preflight(policy, modules) = If(secured # {}, GitleaksIgnore) \o Each(steps)
    BY DEF Preflight
  <1> HIDE DEF secured, steps
  <1>4. Fits(Each(steps), NoCode, names)
    BY <1>1, <1>2, FitsEach
  <1>5. Fits(If(secured # {}, GitleaksIgnore), NoCode, names)
    BY Atoms, FitsEmpty DEF If, GitleaksIgnore
  <1>6. ASSUME NEW m \in modules \cap Directories, Gated(policy, m, "security")
        PROVE  Does(Preflight(policy, modules), "security-suppressions", m)
    <2>1. m \in secured BY <1>6 DEF secured, Having
    <2>2. \A d \in secured : Sequence(steps[d]) BY <1>1, <1>2, AreSequences
    <2>3. Does(Each(steps), "security-suppressions", m)
      BY <1>1, <1>2, <1>6, <2>1, <2>2, DoesEach
    <2> QED BY <1>3, <1>4, <1>5, <2>3, DoesConcat, AreSequences
  <1> QED BY <1>3, <1>4, <1>5, <1>6, FitsConcat

SecurityGates == {"vulnerability", "gosec", "owned-security-analysis", "licenses"}

\* The scans of a module, with the tools that it compiles.
LEMMA ScansFit ==
  ASSUME NEW module
  PROVE  /\ Fits(SecurityScans(module), NoCode, AroundScans)
         /\ \A gate \in SecurityGates : Does(SecurityScans(module), gate, module)
  <1>0. "open" \in NoCode /\ "close" \in NoCode /\ "build" \in NoCode /\ "release" \in NoCode BY KindsAre
  <1> DEFINE vulnerability == Scan("vulnerability", module)
             packages == GosecPackages(module)
             gosec == CompilerTool("gosec", module, Scan("gosec", module))
             analysis == CompilerTool("golib-analysis", module, Scan("owned-security-analysis", module))
             owned == With("analysis config", module, analysis)
             licenses == Scan("licenses", module)
  <1>1. /\ Fits(vulnerability, NoCode, AroundScans) /\ Does(vulnerability, "vulnerability", module)
        /\ Fits(licenses, NoCode, AroundScans) /\ Does(licenses, "licenses", module)
        /\ Fits(packages, NoCode, AroundScans)
    BY Atoms, TwoChecks DEF GosecPackages, Listed
  <1>2. Fits(gosec, NoCode, AroundScans) /\ Does(gosec, "gosec", module)
    <2>1. "gosec" \in Tools /\ "gosec" \notin AroundScans BY DEF Tools, AroundScans
    <2>2. Fits(Scan("gosec", module), NoCode, AroundScans \cup {"gosec"}) BY Atoms
    <2>3. Does(Scan("gosec", module), "gosec", module) BY Atoms
    <2>4. Fits(gosec, NoCode, AroundScans) BY <1>0, <2>1, <2>2, FitsTool
    <2> QED BY <2>2, <2>3, <2>4, DoesBracket, AreSequences
  <1> DEFINE N == AroundScans \cup {"analysis config"}
  <1>3. Fits(analysis, NoCode, N) /\ Does(analysis, "owned-security-analysis", module)
    <2>1. "golib-analysis" \in Tools /\ "golib-analysis" \notin N BY DEF Tools, AroundScans
    <2> HIDE DEF N
    <2>2. Fits(Scan("owned-security-analysis", module), NoCode, N \cup {"golib-analysis"}) BY Atoms
    <2>3. Does(Scan("owned-security-analysis", module), "owned-security-analysis", module) BY Atoms
    <2>4. Fits(analysis, NoCode, N) BY <1>0, <2>1, <2>2, FitsTool
    <2> QED BY <2>2, <2>3, <2>4, DoesBracket, AreSequences
  <1> HIDE DEF analysis
  <1>4. Fits(owned, NoCode, AroundScans) /\ Does(owned, "owned-security-analysis", module)
    <2>1. "analysis config" \notin AroundScans \cup Tools \cup {"workspace", "baseline snapshot"}
      BY DEF AroundScans, Tools
    <2>2. Fits(owned, NoCode, AroundScans) BY <1>0, <1>3, <2>1, FitsWith
    <2> QED BY <1>3, <2>2, DoesBracket, AreSequences
  <1>5. SecurityScans(module) = vulnerability \o packages \o gosec \o owned \o licenses
    BY DEF SecurityScans, analysis
  <1> HIDE DEF vulnerability, packages, gosec, owned, licenses
  <1>6. Fits(SecurityScans(module), NoCode, AroundScans)
    BY <1>1, <1>2, <1>4, <1>5, FitsConcat
  <1>7. /\ Sequence(vulnerability) /\ Sequence(packages) /\ Sequence(gosec) /\ Sequence(owned)
        /\ Sequence(licenses)
    BY <1>1, <1>2, <1>4, AreSequences
  <1>8. \A gate : Does(vulnerability, gate, module) \/ Does(gosec, gate, module)
                  \/ Does(owned, gate, module) \/ Does(licenses, gate, module)
                  => Does(SecurityScans(module), gate, module)
    BY <1>5, <1>7, DoesConcat, ConcatIs
  <1> QED BY <1>1, <1>2, <1>4, <1>6, <1>8 DEF SecurityGates

\* The scan pass: nothing of it runs repository code.
LEMMA PassFits ==
  ASSUME NEW policy, NEW modules, NEW scanned \in BOOLEAN, NEW sbom \in BOOLEAN
  PROVE  /\ Fits(SecurityPass(policy, modules, scanned, sbom), NoCode, {"workspace"})
         /\ \A m \in modules \cap Directories :
               Gated(policy, m, "security") =>
                  /\ \A gate \in SecurityGates : Does(SecurityPass(policy, modules, scanned, sbom), gate, m)
                  /\ sbom => Does(SecurityPass(policy, modules, scanned, sbom), "SBOM", m)
                  /\ ~scanned => \A gate \in {"secrets-history", "secrets-current-tree"} :
                                    Does(SecurityPass(policy, modules, scanned, sbom), gate, Root)
  <1>0. "open" \in NoCode /\ "close" \in NoCode BY KindsAre
  <1> DEFINE secured == Having(policy, modules, "security")
             scans(m) == SecurityScans(m) \o If(sbom, Bom(m))
             steps == [m \in secured |-> scans(m)]
             secrets == If(secured # {} /\ ~scanned, RepositorySecrets(FALSE))
             inner == secrets \o Each(steps)
  <1>1. ASSUME NEW m
        PROVE  /\ Fits(scans(m), NoCode, AroundScans)
               /\ \A gate \in SecurityGates : Does(scans(m), gate, m)
               /\ sbom => Does(scans(m), "SBOM", m)
    <2>1. Fits(Bom(m), NoCode, AroundScans) /\ Does(Bom(m), "SBOM", m)
      <3>1. /\ Fits(Scan("SBOM", m), NoCode, AroundScans) /\ Does(Scan("SBOM", m), "SBOM", m)
            /\ Fits(Check("SBOM document", m), NoCode, AroundScans)
        BY Atoms
      <3> QED BY <3>1, FitsConcat, DoesConcat, AreSequences DEF Bom
    <2>2. Fits(If(sbom, Bom(m)), NoCode, AroundScans) /\ (sbom => Does(If(sbom, Bom(m)), "SBOM", m))
      BY <2>1, FitsEmpty DEF If
    <2> QED BY <2>2, ScansFit, FitsConcat, DoesConcat, AreSequences
  <1>2. Fits(secrets, NoCode, AroundScans)
    BY SecretsFit, FitsEmpty DEF If
  <1>3. secured # {} /\ ~scanned =>
           \A gate \in {"secrets-history", "secrets-current-tree"} : Does(secrets, gate, Root)
    BY SecretsFit DEF If
  <1>4. SecurityPass(policy, modules, scanned, sbom) = With("compiler tools", Root, inner)
    BY DEF SecurityPass
  <1> HIDE DEF scans
  <1>5. DOMAIN steps = secured /\ \A m \in secured : steps[m] = scans(m)
    OBVIOUS
  <1> HIDE DEF steps, secrets
  <1>6. Fits(Each(steps), NoCode, AroundScans)
    BY <1>1, <1>5, FitsEach
  <1>7. Fits(inner, NoCode, AroundScans)
    BY <1>2, <1>6, FitsConcat
  <1>8. Fits(With("compiler tools", Root, inner), NoCode, {"workspace"})
    <2>1. /\ "compiler tools" \notin {"workspace"} \cup Tools \cup {"workspace", "baseline snapshot"}
          /\ {"workspace"} \cap Tools = {}
          /\ AroundScans = {"workspace"} \cup {"compiler tools"}
      BY DEF AroundScans, Tools
    <2> HIDE DEF inner
    <2> QED BY <1>0, <1>7, <2>1, FitsWith
  <1>9. ASSUME NEW gate, NEW module, Does(secrets, gate, module) \/ Does(Each(steps), gate, module)
        PROVE  Does(SecurityPass(policy, modules, scanned, sbom), gate, module)
    <2>1. Does(inner, gate, module) BY <1>2, <1>6, <1>9, DoesConcat, AreSequences
    <2> HIDE DEF inner
    <2> QED BY <1>4, <1>7, <2>1, DoesBracket, AreSequences
  <1>10. ASSUME NEW m \in modules \cap Directories, Gated(policy, m, "security")
         PROVE  /\ \A gate \in SecurityGates : Does(SecurityPass(policy, modules, scanned, sbom), gate, m)
                /\ sbom => Does(SecurityPass(policy, modules, scanned, sbom), "SBOM", m)
                /\ ~scanned => \A gate \in {"secrets-history", "secrets-current-tree"} :
                                  Does(SecurityPass(policy, modules, scanned, sbom), gate, Root)
    <2>1. m \in secured /\ secured # {} BY <1>10 DEF Having
    <2>2. \A d \in secured : Sequence(steps[d]) BY <1>1, <1>5, AreSequences
    <2> HIDE DEF secured
    <2>3. \A gate : Does(scans(m), gate, m) => Does(Each(steps), gate, m)
      BY <1>5, <1>10, <2>1, <2>2, DoesEach
    <2> QED BY <1>1, <1>3, <1>9, <2>1, <2>3
  <1> QED BY <1>4, <1>8, <1>10

\* Around the operations of a module, its services.
LEMMA ServicesFit ==
  ASSUME NEW policy, NEW module, NEW s, Fits(s, NoScan, AroundGates)
  PROVE  /\ Fits(Services(policy, module, s), NoScan, {"workspace", "fuzz scratch"})
         /\ \A gate, of : Does(s, gate, of) => Does(Services(policy, module, s), gate, of)
  <1>0. "open" \in NoScan /\ "close" \in NoScan BY KindsAre
  <1>1. /\ "services" \notin {"workspace", "fuzz scratch"} \cup Tools \cup {"workspace", "baseline snapshot"}
        /\ AroundGates = {"workspace", "fuzz scratch"} \cup {"services"}
        /\ NoScan \subseteq NoScan /\ {"workspace", "fuzz scratch"} \subseteq AroundGates
    BY DEF AroundGates, Tools
  <1>2. Fits(With("services", module, s), NoScan, {"workspace", "fuzz scratch"})
    BY <1>0, <1>1, FitsWith
  <1>3. Fits(s, NoScan, {"workspace", "fuzz scratch"})
    BY <1>1, FitsWeaken
  <1>4. \A gate, of : Does(s, gate, of) => Does(With("services", module, s), gate, of)
    BY DoesBracket, AreSequences
  <1> QED BY <1>2, <1>3, <1>4 DEF Services

\* The gates of one module, one by one: what they fit into and what they complete.
LEMMA CoverageFits ==
  ASSUME NEW module
  PROVE  Fits(Coverage(module), NoScan, AroundGates) /\ Does(Coverage(module), "coverage", module)
  <1>0. "open" \in NoScan /\ "close" \in NoScan BY KindsAre
  <1> DEFINE inner == Code("coverage test", module) \o Check("coverage", module)
             N == AroundGates \cup {"coverage profile"}
  <1>1. /\ Fits(Code("coverage test", module), NoScan, N) /\ Fits(Check("coverage", module), NoScan, N)
        /\ Does(Check("coverage", module), "coverage", module)
    BY Atoms
  <1>2. Fits(inner, NoScan, N) /\ Does(inner, "coverage", module)
    <2> HIDE DEF N
    <2> QED BY <1>1, FitsConcat, DoesConcat, AreSequences
  <1>3. "coverage profile" \notin AroundGates \cup Tools \cup {"workspace", "baseline snapshot"}
    BY DEF AroundGates, Tools
  <1>4. Coverage(module) = With("coverage profile", module, inner) BY DEF Coverage
  <1> HIDE DEF inner
  <1>5. Fits(With("coverage profile", module, inner), NoScan, AroundGates)
    BY <1>0, <1>2, <1>3, FitsWith
  <1>6. Does(With("coverage profile", module, inner), "coverage", module)
    BY <1>2, DoesBracket, AreSequences
  <1> QED BY <1>4, <1>5, <1>6

LEMMA LocalTestsFit ==
  ASSUME NEW policy, NEW module
  PROVE  Fits(LocalTests(policy, module), NoScan, AroundGates)
  <1>1. /\ Fits(Check("local-test budget", module), NoScan, AroundGates)
        /\ Fits(Code("local-test list", module), NoScan, AroundGates)
        /\ Fits(Code("local-test", module), NoScan, AroundGates)
        /\ Fits(<<>>, NoScan, AroundGates)
    BY Atoms, FitsEmpty
  <1> QED BY <1>1, FitsConcat DEF LocalTests, If

LEMMA StaticAnalysisFits ==
  ASSUME NEW policy, NEW module
  PROVE  /\ Fits(StaticAnalysis(policy, module), NoScan, AroundGates)
         /\ Gated(policy, module, "lint") =>
               \A gate \in {"lint", "staticcheck"} : Does(StaticAnalysis(policy, module), gate, module)
  <1>0. "build" \in NoScan /\ "release" \in NoScan BY KindsAre
  <1> DEFINE tool == CompilerTool("staticcheck", module, Check("staticcheck", module))
             lint == Check("lint", module)
  <1>1. /\ Fits(Check("staticcheck", module), NoScan, AroundGates \cup {"staticcheck"})
        /\ Does(Check("staticcheck", module), "staticcheck", module)
        /\ Fits(lint, NoScan, AroundGates) /\ Does(lint, "lint", module)
        /\ Fits(<<>>, NoScan, AroundGates)
    BY Atoms, FitsEmpty
  <1>2. "staticcheck" \in Tools /\ "staticcheck" \notin AroundGates BY DEF Tools, AroundGates
  <1>3. Fits(tool, NoScan, AroundGates) BY <1>0, <1>1, <1>2, FitsTool
  <1>4. Does(tool, "staticcheck", module) BY <1>1, DoesBracket, AreSequences
  <1>5. StaticAnalysis(policy, module) = If(Gated(policy, module, "lint"), lint \o tool)
    BY DEF StaticAnalysis
  <1> HIDE DEF tool, lint
  <1>6. Fits(lint \o tool, NoScan, AroundGates) BY <1>1, <1>3, FitsConcat
  <1>7. \A gate \in {"lint", "staticcheck"} : Does(lint \o tool, gate, module)
    BY <1>1, <1>3, <1>4, DoesConcat, AreSequences
  <1> QED BY <1>1, <1>5, <1>6, <1>7 DEF If

\* What the gate of the documentation owes.
Documents(module) == IF module = Root THEN {"markdown", "spelling", "links"} ELSE {"docs"}

LEMMA DocumentationFits ==
  ASSUME NEW policy, NEW module
  PROVE  /\ Fits(Documentation(policy, module), NoScan, AroundGates)
         /\ \A gate \in Documents(module) : Does(Documentation(policy, module), gate, module)
  <1>1. /\ Fits(Code("docs", module), NoScan, AroundGates) /\ Does(Code("docs", module), "docs", module)
        /\ Fits(Check("markdown", module), NoScan, AroundGates)
        /\ Does(Check("markdown", module), "markdown", module)
        /\ Fits(<<>>, NoScan, AroundGates)
    BY Atoms, FitsEmpty
  <1>2. /\ Fits(Spelling(module), NoScan, AroundGates) /\ Does(Spelling(module), "spelling", module)
        /\ Fits(Links(module), NoScan, AroundGates) /\ Does(Links(module), "links", module)
    BY SixChecks DEF Spelling, Links, Listed
  <1> DEFINE examples == If(Operates(policy, module, "docs"), Code("docs", module))
             root == Check("markdown", module) \o Spelling(module) \o Links(module) \o examples
  <1>3. Fits(examples, NoScan, AroundGates) BY <1>1 DEF If
  <1>4. Documentation(policy, module) = IF module # Root THEN Code("docs", module) ELSE root
    BY DEF Documentation
  <1> HIDE DEF examples
  <1>5. Fits(root, NoScan, AroundGates) BY <1>1, <1>2, <1>3, FitsConcat
  <1>6. \A gate \in {"markdown", "spelling", "links"} : Does(root, gate, module)
    <2>1. /\ Sequence(Check("markdown", module)) /\ Sequence(Spelling(module)) /\ Sequence(Links(module))
          /\ Sequence(examples)
      BY <1>1, <1>2, <1>3, AreSequences
    <2> QED BY <1>1, <1>2, <2>1, DoesConcat, ConcatIs
  <1> HIDE DEF root
  <1> QED BY <1>1, <1>4, <1>5, <1>6 DEF Documents

LEMMA BaselineFits ==
  ASSUME NEW policy, NEW module, NEW update \in BOOLEAN
  PROVE  /\ Fits(Baseline(policy, module, update), NoScan, AroundGates)
         /\ ~update => Does(Baseline(policy, module, update), "api", module)
  <1>0. "open" \in NoScan /\ "close" \in NoScan /\ "publish" \in NoScan BY KindsAre
  <1> DEFINE snapshot == Snapshot(policy, module) \o Check("snapshot written", module)
             N1 == AroundGates \cup {"api snapshot"}
             N2 == AroundGates \cup {"baseline snapshot"}
             compared == With("api snapshot", module, snapshot \o Check("api", module))
             first == [do |-> "open", gate |-> "baseline snapshot", module |-> module]
             last == [do |-> "publish", gate |-> "baseline snapshot", module |-> module]
             replaced == Do("open", "baseline snapshot", module) \o snapshot
                         \o Do("publish", "baseline snapshot", module)
             r == [name |-> "baseline snapshot", module |-> module]
  <1>1. ASSUME NEW names PROVE Fits(snapshot, NoScan, names)
    <2>1. /\ Fits(Checks(<<"go doc", "documentation size", "write", "close">>, module), NoScan, names)
          /\ Fits(Checks(<<"close", "apidiff -w">>, module), NoScan, names)
          /\ Fits(Check("snapshot written", module), NoScan, names) /\ Fits(<<>>, NoScan, names)
      BY Atoms, TwoChecks, FourChecks, FitsEmpty DEF Listed
    <2>2. Fits(Snapshot(policy, module), NoScan, names) BY <2>1, FitsConcat DEF Snapshot, If
    <2> QED BY <2>1, <2>2, FitsConcat
  <1>2. /\ Fits(Check("baseline", module), NoScan, AroundGates)
        /\ Fits(BaselineDirectory(module), NoScan, AroundGates)
        /\ Fits(Check("api", module), NoScan, N1) /\ Does(Check("api", module), "api", module)
    BY Atoms DEF BaselineDirectory
  <1>3. Baseline(policy, module, update) =
            IF update THEN BaselineDirectory(module) \o replaced
            ELSE Check("baseline", module) \o BaselineDirectory(module) \o compared
    BY DEF Baseline
  <1>4. replaced = <<first>> \o snapshot \o <<last>> BY DEF Do
  <1> HIDE DEF snapshot, replaced
  <1>5. Fits(compared, NoScan, AroundGates) /\ Does(compared, "api", module)
    <2> DEFINE inner == snapshot \o Check("api", module)
    <2>1. Fits(inner, NoScan, N1) /\ Does(inner, "api", module)
      <3> HIDE DEF N1
      <3> QED BY <1>1, <1>2, FitsConcat, DoesConcat, AreSequences
    <2>2. "api snapshot" \notin AroundGates \cup Tools \cup {"workspace", "baseline snapshot"}
      BY DEF AroundGates, Tools
    <2> HIDE DEF inner
    <2>3. Fits(With("api snapshot", module, inner), NoScan, AroundGates) BY <1>0, <2>1, <2>2, FitsWith
    <2>4. Does(With("api snapshot", module, inner), "api", module) BY <2>1, DoesBracket, AreSequences
    <2> QED BY <2>3, <2>4 DEF inner
  <1> HIDE DEF compared
  <1>6. /\ ResourceOf(first) = r /\ ResourceOf(last) = r /\ r.name = "baseline snapshot"
        /\ first.do = "open" /\ first.gate = "baseline snapshot" /\ last.do = "publish"
        /\ last.gate = "baseline snapshot"
    BY DEF ResourceOf
  <1> HIDE DEF first, last, r
  <1>7. ASSUME NEW base, On(base, AroundGates)
        PROVE  \E top : Turns(first, base, top) /\ Turns(last, top, base) /\ On(top, N2)
    <2> DEFINE top == Append(base, r)
    <2>1. "baseline snapshot" \notin AroundGates \cup {"workspace"} /\ "baseline snapshot" \notin Tools
          /\ "baseline snapshot" # "compiler tools"
      BY DEF AroundGates, Tools
    <2>2. Stacked(top) /\ On(top, N2)
      BY <1>6, <1>7, <2>1, StackGrows
    <2> HIDE DEF top
    <2>3. Turns(first, base, top)
      BY <1>6, <2>1, <2>2 DEF Turns, top
    <2>4. Turns(last, top, base)
      BY <1>6 DEF Turns, top
    <2> QED BY <2>2, <2>3, <2>4
  <1>8. Fits(replaced, NoScan, AroundGates)
    <2>1. Fits(snapshot, NoScan, N2) BY <1>1
    <2> HIDE DEF N2
    <2> QED BY <1>0, <1>4, <1>6, <1>7, <2>1, FitsBracket
  <1>9. Fits(BaselineDirectory(module) \o replaced, NoScan, AroundGates)
    BY <1>2, <1>8, FitsConcat
  <1>10. /\ Fits(Check("baseline", module) \o BaselineDirectory(module) \o compared, NoScan, AroundGates)
         /\ Does(Check("baseline", module) \o BaselineDirectory(module) \o compared, "api", module)
    BY <1>2, <1>5, FitsConcat, DoesConcat, AreSequences
  <1> QED BY <1>3, <1>9, <1>10

\* What every kind of check owes of a module, and what the gates add.
Always == {"format-check", "tidy-check", "safety"}

LEMMA BasicsFit ==
  ASSUME NEW policy, NEW module
  PROVE  /\ Fits(Basics(policy, module), NoScan, AroundGates)
         /\ \A gate \in Always : Does(Basics(policy, module), gate, module)
         /\ Gated(policy, module, "lint") => Does(Basics(policy, module), "vet", module)
         /\ Gated(policy, module, "tests") => Does(Basics(policy, module), "test", module)
  <1> DEFINE a == Formatting(module)
             b == Check("tidy-check", module)
             c == Safety(module)
             d == If(Gated(policy, module, "lint"), Check("vet", module))
             e == If(Gated(policy, module, "tests"), Code("test", module))
  <1>1. /\ Fits(a, NoScan, AroundGates) /\ Does(a, "format-check", module)
        /\ Fits(b, NoScan, AroundGates) /\ Does(b, "tidy-check", module)
        /\ Fits(c, NoScan, AroundGates) /\ Does(c, "safety", module)
    BY Atoms, TwoChecks DEF Formatting, Safety, Listed
  <1>2. Fits(d, NoScan, AroundGates) /\ (Gated(policy, module, "lint") => Does(d, "vet", module))
    BY Atoms, FitsEmpty DEF If
  <1>3. Fits(e, NoScan, AroundGates) /\ (Gated(policy, module, "tests") => Does(e, "test", module))
    BY Atoms, FitsEmpty DEF If
  <1>4. Basics(policy, module) = a \o b \o c \o d \o e BY DEF Basics
  <1> HIDE DEF a, b, c, d, e
  <1>5. Fits(Basics(policy, module), NoScan, AroundGates)
    BY <1>1, <1>2, <1>3, <1>4, FitsConcat
  <1>6. Sequence(a) /\ Sequence(b) /\ Sequence(c) /\ Sequence(d) /\ Sequence(e)
    BY <1>1, <1>2, <1>3, AreSequences
  <1>7. \A gate : Does(a, gate, module) \/ Does(b, gate, module) \/ Does(c, gate, module)
                  \/ Does(d, gate, module) \/ Does(e, gate, module)
                  => Does(Basics(policy, module), gate, module)
    BY <1>4, <1>6, DoesConcat, ConcatIs
  <1> QED BY <1>1, <1>2, <1>3, <1>5, <1>7 DEF Always

\* The gates of a module that golib check adds to them.
FullGates(policy, module) ==
    Always
    \cup {gate \in {"vet", "lint", "staticcheck"} : Gated(policy, module, "lint")}
    \cup {gate \in {"test"} : Gated(policy, module, "tests")}
    \cup {gate \in {"race"} : Gated(policy, module, "race")}
    \cup {gate \in {"coverage"} : Gated(policy, module, "coverage")}
    \cup {gate \in {"mutation"} : Gated(policy, module, "mutation")}
    \cup {gate \in {"mutation-import"} : Gated(policy, module, "mutation") /\ policy[module].imports}
    \cup {gate \in Documents(module) : Gated(policy, module, "documentation")}
    \cup {gate \in {"api"} : Gated(policy, module, "api_compatibility")}

LEMMA MutationFits ==
  ASSUME NEW policy, NEW module
  PROVE  /\ Fits(Mutation(policy, module), NoScan, AroundGates)
         /\ Does(Mutation(policy, module), "mutation", module)
         /\ policy[module].imports => Does(Mutation(policy, module), "mutation-import", module)
  <1> DEFINE a == If(policy[module].imports, Check("mutation-import", module))
             b == Code("mutation", module)
  <1>1. Fits(a, NoScan, AroundGates) /\ (policy[module].imports => Does(a, "mutation-import", module))
    BY Atoms, FitsEmpty DEF If
  <1>2. Fits(b, NoScan, AroundGates) /\ Does(b, "mutation", module)
    BY Atoms
  <1>3. Mutation(policy, module) = a \o b BY DEF Mutation
  <1> HIDE DEF a, b
  <1> QED BY <1>1, <1>2, <1>3, FitsConcat, DoesConcat, AreSequences

LEMMA InterfaceFits ==
  ASSUME NEW policy, NEW module
  PROVE  Fits(Interface(policy, module), NoScan, AroundGates) /\ Does(Interface(policy, module), "api", module)
  BY Atoms, BaselineFits DEF Interface

\* All gates of one module, as golib check runs them.
LEMMA CheckModuleFits ==
  ASSUME NEW policy, NEW module
  PROVE  /\ Fits(CheckModule(policy, module), NoScan, AroundGates)
         /\ \A gate \in FullGates(policy, module) : Does(CheckModule(policy, module), gate, module)
  <1> DEFINE operation(gate) == If(Operates(policy, module, gate), Code(gate, module))
             a == Basics(policy, module)
             b == If(Gated(policy, module, "tests") /\ Operates(policy, module, "test"),
                     Code("test operation", module))
             c == LocalTests(policy, module)
             d == If(Gated(policy, module, "race"), Code("race", module))
             e == If(Gated(policy, module, "coverage"), Coverage(module))
             f == If(Gated(policy, module, "mutation"), Mutation(policy, module))
             g == StaticAnalysis(policy, module)
             h == operation("fuzz")
             i == If(Gated(policy, module, "documentation"), Documentation(policy, module))
             j == If(Gated(policy, module, "api_compatibility"), Interface(policy, module))
             k == If(Gated(policy, module, "lint"), Do("advise", "nilaway", module))
  <1>1. CheckModule(policy, module) = a \o b \o c \o d \o e \o f \o g \o h \o i \o j \o k
                                      \o operation("conformance") \o operation("interoperability")
                                      \o operation("benchmark")
    BY DEF CheckModule
  <1>2. \A gate : Fits(operation(gate), NoScan, AroundGates)
    BY Atoms, FitsEmpty DEF If
  <1>3. Fits(a, NoScan, AroundGates) /\ Fits(c, NoScan, AroundGates) /\ Fits(g, NoScan, AroundGates)
    BY BasicsFit, LocalTestsFit, StaticAnalysisFits
  <1>4. Fits(b, NoScan, AroundGates) /\ Fits(h, NoScan, AroundGates) /\ Fits(k, NoScan, AroundGates)
    BY <1>2, Atoms, FitsEmpty DEF If
  <1>5. Fits(d, NoScan, AroundGates) /\ (Gated(policy, module, "race") => Does(d, "race", module))
    BY Atoms, FitsEmpty DEF If
  <1>6. Fits(e, NoScan, AroundGates) /\ (Gated(policy, module, "coverage") => Does(e, "coverage", module))
    BY CoverageFits, FitsEmpty DEF If
  <1>7. /\ Fits(f, NoScan, AroundGates)
        /\ Gated(policy, module, "mutation") => Does(f, "mutation", module)
        /\ Gated(policy, module, "mutation") /\ policy[module].imports => Does(f, "mutation-import", module)
    BY MutationFits, FitsEmpty DEF If
  <1>8. /\ Fits(i, NoScan, AroundGates)
        /\ Gated(policy, module, "documentation") => \A gate \in Documents(module) : Does(i, gate, module)
    BY DocumentationFits, FitsEmpty DEF If
  <1>9. Fits(j, NoScan, AroundGates) /\ (Gated(policy, module, "api_compatibility") => Does(j, "api", module))
    BY InterfaceFits, FitsEmpty DEF If
  <1>10. /\ \A gate \in Always : Does(a, gate, module)
         /\ Gated(policy, module, "lint") => Does(a, "vet", module)
         /\ Gated(policy, module, "tests") => Does(a, "test", module)
         /\ Gated(policy, module, "lint") => \A gate \in {"lint", "staticcheck"} : Does(g, gate, module)
    BY BasicsFit, StaticAnalysisFits
  <1> HIDE DEF operation, a, b, c, d, e, f, g, h, i, j, k
  <1>11. Fits(CheckModule(policy, module), NoScan, AroundGates)
    BY <1>1, <1>2, <1>3, <1>4, <1>5, <1>6, <1>7, <1>8, <1>9, FitsConcat
  <1>12. /\ Sequence(a) /\ Sequence(b) /\ Sequence(c) /\ Sequence(d) /\ Sequence(e) /\ Sequence(f)
         /\ Sequence(g) /\ Sequence(h) /\ Sequence(i) /\ Sequence(j) /\ Sequence(k)
         /\ \A gate : Sequence(operation(gate))
    BY <1>2, <1>3, <1>4, <1>5, <1>6, <1>7, <1>8, <1>9, AreSequences
  <1>13. \A gate : Does(a, gate, module) \/ Does(d, gate, module) \/ Does(e, gate, module)
                   \/ Does(f, gate, module) \/ Does(g, gate, module) \/ Does(i, gate, module)
                   \/ Does(j, gate, module)
                   => Does(CheckModule(policy, module), gate, module)
    BY <1>1, <1>12, DoesConcat, ConcatIs
  <1>14. ASSUME NEW gate \in FullGates(policy, module) PROVE Does(CheckModule(policy, module), gate, module)
    BY <1>5, <1>6, <1>7, <1>8, <1>9, <1>10, <1>13 DEF FullGates
  <1> QED BY <1>11, <1>14

LocalGates(policy, module) ==
    Always
    \cup {gate \in {"vet", "lint", "staticcheck"} : Gated(policy, module, "lint")}
    \cup {gate \in {"test"} : Gated(policy, module, "tests")}
    \cup {gate \in {"docs-local"} : Gated(policy, module, "documentation")}
    \cup {gate \in {"api"} : Gated(policy, module, "api_compatibility")}

\* All gates of one module, as golib local runs them.
LEMMA CheckModuleLocalFits ==
  ASSUME NEW policy, NEW module
  PROVE  /\ Fits(CheckModuleLocal(policy, module), NoScan, AroundGates)
         /\ \A gate \in LocalGates(policy, module) : Does(CheckModuleLocal(policy, module), gate, module)
  <1> DEFINE a == Basics(policy, module)
             b == LocalTests(policy, module)
             c == StaticAnalysis(policy, module)
             d == If(Gated(policy, module, "documentation"), Check("docs-local", module))
             e == If(Gated(policy, module, "api_compatibility"), Baseline(policy, module, FALSE))
  <1>1. CheckModuleLocal(policy, module) = a \o b \o c \o d \o e
    BY DEF CheckModuleLocal
  <1>2. Fits(a, NoScan, AroundGates) /\ Fits(b, NoScan, AroundGates) /\ Fits(c, NoScan, AroundGates)
    BY BasicsFit, LocalTestsFit, StaticAnalysisFits
  <1>3. Fits(d, NoScan, AroundGates) /\ (Gated(policy, module, "documentation") => Does(d, "docs-local", module))
    BY Atoms, FitsEmpty DEF If
  <1>4. Fits(e, NoScan, AroundGates) /\ (Gated(policy, module, "api_compatibility") => Does(e, "api", module))
    BY BaselineFits, FitsEmpty DEF If
  <1>5. /\ \A gate \in Always : Does(a, gate, module)
        /\ Gated(policy, module, "lint") => Does(a, "vet", module)
        /\ Gated(policy, module, "tests") => Does(a, "test", module)
        /\ Gated(policy, module, "lint") => \A gate \in {"lint", "staticcheck"} : Does(c, gate, module)
    BY BasicsFit, StaticAnalysisFits
  <1> HIDE DEF a, b, c, d, e
  <1>6. Fits(CheckModuleLocal(policy, module), NoScan, AroundGates)
    BY <1>1, <1>2, <1>3, <1>4, FitsConcat
  <1>7. Sequence(a) /\ Sequence(b) /\ Sequence(c) /\ Sequence(d) /\ Sequence(e)
    BY <1>2, <1>3, <1>4, AreSequences
  <1>8. \A gate : Does(a, gate, module) \/ Does(c, gate, module) \/ Does(d, gate, module) \/ Does(e, gate, module)
                  => Does(CheckModuleLocal(policy, module), gate, module)
    BY <1>1, <1>7, DoesConcat, ConcatIs
  <1>9. ASSUME NEW gate \in LocalGates(policy, module) PROVE Does(CheckModuleLocal(policy, module), gate, module)
    BY <1>3, <1>4, <1>5, <1>8 DEF LocalGates
  <1> QED BY <1>6, <1>9

-----------------------------------------------------------------------------
(* The commands: what an executor does in its workspace.                   *)

\* No scan after the first step that runs repository code.
ScansFirst(s) ==
    \A i, j \in 1..Len(s) : i < j /\ s[i].do = "code" => s[j].do # "scan"

Ordinary == Kinds \ {"diff", "bind"}
Ready(s) == Fits(s, Ordinary, {"workspace"}) /\ ScansFirst(s)
Scanning(s) == Fits(s, NoCode, {"workspace"})
Testing(s) == Fits(s, NoScan, {"workspace"})

\* Programs without code, and without scans, have ordinary steps only.
LEMMA OrdinaryKinds == NoCode \subseteq Ordinary /\ NoScan \subseteq Ordinary
  BY DEF NoCode, NoScan, Ordinary

\* Steps without code, or without scans, are ready as they fit.
LEMMA ReadyParts ==
  ASSUME NEW s
  PROVE  /\ Scanning(s) => Ready(s)
         /\ Testing(s) => Ready(s)
  <1>1. {"workspace"} \subseteq {"workspace"} OBVIOUS
  <1>2. Scanning(s) => Ready(s)
    <2> SUFFICES ASSUME Scanning(s) PROVE Ready(s) OBVIOUS
    <2>1. Fits(s, Ordinary, {"workspace"}) BY <1>1, OrdinaryKinds, FitsWeaken DEF Scanning
    <2>2. \A i \in 1..Len(s) : s[i].do # "code" BY KindsAre DEF Scanning, Fits
    <2> QED BY <2>1, <2>2 DEF Ready, ScansFirst
  <1>3. Testing(s) => Ready(s)
    <2> SUFFICES ASSUME Testing(s) PROVE Ready(s) OBVIOUS
    <2>1. Fits(s, Ordinary, {"workspace"}) BY <1>1, OrdinaryKinds, FitsWeaken DEF Testing
    <2>2. \A i \in 1..Len(s) : s[i].do # "scan" BY KindsAre DEF Testing, Fits
    <2> QED BY <2>1, <2>2 DEF Ready, ScansFirst
  <1> QED BY <1>2, <1>3

\* Scans come first if no code is before those of the second part.
LEMMA ScansFirstConcat ==
  ASSUME NEW a, NEW b, Sequence(a), Sequence(b), ScansFirst(a), ScansFirst(b),
         (\A i \in 1..Len(a) : a[i].do # "code") \/ (\A i \in 1..Len(b) : b[i].do # "scan")
  PROVE  ScansFirst(a \o b)
  <1>1. /\ Len(a) \in Nat /\ Len(b) \in Nat /\ Len(a \o b) = Len(a) + Len(b)
        /\ \A i \in 1..Len(a) : (a \o b)[i] = a[i]
        /\ \A i \in 1..Len(b) : (a \o b)[Len(a) + i] = b[i]
    BY ConcatIs
  <1>5. ASSUME NEW i \in 1..Len(a \o b), NEW j \in 1..Len(a \o b), i < j, (a \o b)[i].do = "code"
        PROVE  (a \o b)[j].do # "scan"
    <2>1. \A k \in 1..Len(a \o b) : k \notin 1..Len(a) => k - Len(a) \in 1..Len(b) /\ (a \o b)[k] = b[k - Len(a)]
      <3> SUFFICES ASSUME NEW k \in 1..Len(a \o b), k \notin 1..Len(a)
                   PROVE  k - Len(a) \in 1..Len(b) /\ (a \o b)[k] = b[k - Len(a)]
        OBVIOUS
      <3>1. k - Len(a) \in 1..Len(b) /\ Len(a) + (k - Len(a)) = k BY <1>1
      <3> QED BY <1>1, <3>1
    <2>2. CASE j \in 1..Len(a)
      <3>1. i \in 1..Len(a) BY <1>1, <1>5, <2>2
      <3> QED BY <1>1, <1>5, <2>2, <3>1 DEF ScansFirst
    <2>3. CASE j \notin 1..Len(a) /\ i \in 1..Len(a)
      BY <1>1, <1>5, <2>1, <2>3
    <2>4. CASE j \notin 1..Len(a) /\ i \notin 1..Len(a)
      <3>1. i - Len(a) \in 1..Len(b) /\ j - Len(a) \in 1..Len(b) /\ i - Len(a) < j - Len(a)
        BY <1>1, <1>5, <2>1, <2>4
      <3> QED BY <1>5, <2>1, <2>4, <3>1 DEF ScansFirst
    <2> QED BY <2>2, <2>3, <2>4
  <1> QED BY <1>5 DEF ScansFirst

\* Steps without code before any others.
LEMMA ReadyConcat ==
  ASSUME NEW a, NEW b, Ready(a), Ready(b), Scanning(a) \/ Testing(b)
  PROVE  Ready(a \o b)
  <1>1. Fits(a \o b, Ordinary, {"workspace"}) BY FitsConcat DEF Ready
  <1>2. Sequence(a) /\ Sequence(b) BY AreSequences DEF Ready
  <1>3. (\A i \in 1..Len(a) : a[i].do # "code") \/ (\A i \in 1..Len(b) : b[i].do # "scan")
    BY KindsAre DEF Scanning, Testing, Fits
  <1>4. ScansFirst(a \o b) BY <1>2, <1>3, ScansFirstConcat DEF Ready
  <1> QED BY <1>1, <1>4 DEF Ready

\* One loop over modules with their services.
LEMMA LoopFits ==
  ASSUME NEW policy, NEW D, NEW steps, DOMAIN steps = D, NEW body,
         \A m \in D : steps[m] = Services(policy, m, body[m]) /\ Fits(body[m], NoScan, AroundGates)
  PROVE  /\ Fits(Each(steps), NoScan, {"workspace", "fuzz scratch"})
         /\ Testing(Each(steps))
         /\ \A m \in D \cap Directories : \A gate : Does(body[m], gate, m) => Does(Each(steps), gate, m)
  <1>2. ASSUME NEW m \in D
        PROVE  /\ Fits(steps[m], NoScan, {"workspace", "fuzz scratch"})
               /\ Sequence(steps[m])
               /\ \A gate : Does(body[m], gate, m) => Does(steps[m], gate, m)
    BY ServicesFit, AreSequences
  <1>3. Fits(Each(steps), NoScan, {"workspace", "fuzz scratch"}) BY <1>2, FitsEach
  <1>4. Testing(Each(steps))
    <2>1. NoScan \subseteq NoScan /\ {"workspace"} \subseteq {"workspace", "fuzz scratch"} OBVIOUS
    <2> QED BY <1>3, <2>1, FitsWeaken DEF Testing
  <1>5. \A m \in D \cap Directories : \A gate : Does(body[m], gate, m) => Does(Each(steps), gate, m)
    BY <1>2, DoesEach
  <1> QED BY <1>3, <1>4, <1>5

\* golib check.
LEMMA CheckAllFits ==
  ASSUME NEW policy, NEW modules
  PROVE  LET all == CheckAll(policy, modules)
         IN  /\ Ready(all)
             /\ \A m \in modules \cap Directories :
                   /\ \A gate \in FullGates(policy, m) : Does(all, gate, m)
                   /\ Gated(policy, m, "security") =>
                         /\ \A gate \in SecurityGates \cup {"security-suppressions", "SBOM"} : Does(all, gate, m)
                         /\ \A gate \in {"secrets-history", "secrets-current-tree"} : Does(all, gate, Root)
  <1> DEFINE a == Preflight(policy, modules)
             b == SecurityPass(policy, modules, FALSE, TRUE)
             body == [m \in modules |-> CheckModule(policy, m)]
             steps == [m \in modules |-> Services(policy, m, CheckModule(policy, m))]
             c == Each(steps)
  <1>1. CheckAll(policy, modules) = a \o b \o c BY DEF CheckAll
  <1>2. /\ Scanning(a)
        /\ \A m \in modules \cap Directories :
              Gated(policy, m, "security") => Does(a, "security-suppressions", m)
    BY PreflightFits DEF Scanning
  <1>3. /\ Scanning(b)
        /\ \A m \in modules \cap Directories :
              Gated(policy, m, "security") =>
                 /\ \A gate \in SecurityGates \cup {"SBOM"} : Does(b, gate, m)
                 /\ \A gate \in {"secrets-history", "secrets-current-tree"} : Does(b, gate, Root)
    BY PassFits DEF Scanning
  <1>4. /\ DOMAIN steps = modules
        /\ \A m \in modules : steps[m] = Services(policy, m, body[m]) /\ body[m] = CheckModule(policy, m)
    OBVIOUS
  <1> HIDE DEF steps, body
  <1>5. /\ Testing(c)
        /\ \A m \in modules \cap Directories : \A gate \in FullGates(policy, m) : Does(c, gate, m)
    <2>1. /\ \A m \in modules : steps[m] = Services(policy, m, body[m]) /\ Fits(body[m], NoScan, AroundGates)
          /\ \A m \in modules : \A gate \in FullGates(policy, m) : Does(body[m], gate, m)
      BY <1>4, CheckModuleFits
    <2>2. /\ Testing(c)
          /\ \A m \in modules \cap Directories : \A gate : Does(body[m], gate, m) => Does(c, gate, m)
      BY <1>4, <2>1, LoopFits
    <2> QED BY <2>1, <2>2
  <1> HIDE DEF a, b, c
  <1>6. Scanning(a \o b) BY <1>2, <1>3, FitsConcat DEF Scanning
  <1>7. Ready(a \o b \o c) BY <1>5, <1>6, ReadyParts, ReadyConcat
  <1>8. Sequence(a) /\ Sequence(b) /\ Sequence(c)
    BY <1>2, <1>3, <1>5, AreSequences DEF Scanning, Testing
  <1>9. \A gate, m : Does(a, gate, m) \/ Does(b, gate, m) \/ Does(c, gate, m) => Does(a \o b \o c, gate, m)
    BY <1>8, DoesConcat, ConcatIs
  <1> QED BY <1>1, <1>2, <1>3, <1>5, <1>7, <1>9

\* golib check --local, alone or after the scan of the changed range.
LEMMA LocalFits ==
  ASSUME NEW policy, NEW modules, NEW scanned \in BOOLEAN
  PROVE  LET all == Local(policy, modules, scanned)
         IN  /\ Ready(all)
             /\ \A m \in modules \cap Directories :
                   /\ \A gate \in LocalGates(policy, m) : Does(all, gate, m)
                   /\ Gated(policy, m, "security") =>
                         /\ \A gate \in SecurityGates \cup {"security-suppressions"} : Does(all, gate, m)
                         /\ ~scanned => \A gate \in {"secrets-history", "secrets-current-tree"} :
                                           Does(all, gate, Root)
  <1> DEFINE budgets == If(\E m \in modules : Operates(policy, m, "local-test"), Check("local-test budgets", Root))
             a == Preflight(policy, modules)
             b == SecurityPass(policy, modules, scanned, FALSE)
             body == [m \in modules |-> CheckModuleLocal(policy, m)]
             steps == [m \in modules |-> Services(policy, m, CheckModuleLocal(policy, m))]
             c == Each(steps)
  <1>1. Local(policy, modules, scanned) = budgets \o a \o b \o c BY DEF Local
  <1>2. /\ Scanning(a)
        /\ \A m \in modules \cap Directories :
              Gated(policy, m, "security") => Does(a, "security-suppressions", m)
    BY PreflightFits DEF Scanning
  <1>3. /\ Scanning(b)
        /\ \A m \in modules \cap Directories :
              Gated(policy, m, "security") =>
                 /\ \A gate \in SecurityGates : Does(b, gate, m)
                 /\ ~scanned => \A gate \in {"secrets-history", "secrets-current-tree"} : Does(b, gate, Root)
    BY PassFits DEF Scanning
  <1>4. /\ DOMAIN steps = modules
        /\ \A m \in modules : steps[m] = Services(policy, m, body[m]) /\ body[m] = CheckModuleLocal(policy, m)
    OBVIOUS
  <1> HIDE DEF steps, body
  <1>5. /\ Testing(c)
        /\ \A m \in modules \cap Directories : \A gate \in LocalGates(policy, m) : Does(c, gate, m)
    <2>1. /\ \A m \in modules : steps[m] = Services(policy, m, body[m]) /\ Fits(body[m], NoScan, AroundGates)
          /\ \A m \in modules : \A gate \in LocalGates(policy, m) : Does(body[m], gate, m)
      BY <1>4, CheckModuleLocalFits
    <2>2. /\ Testing(c)
          /\ \A m \in modules \cap Directories : \A gate : Does(body[m], gate, m) => Does(c, gate, m)
      BY <1>4, <2>1, LoopFits
    <2> QED BY <2>1, <2>2
  <1>0. Scanning(budgets) BY Atoms, FitsEmpty DEF If, Scanning
  <1> HIDE DEF a, b, c, budgets
  <1>6. Scanning(budgets \o a \o b) BY <1>0, <1>2, <1>3, FitsConcat DEF Scanning
  <1>7. Ready(budgets \o a \o b \o c) BY <1>5, <1>6, ReadyParts, ReadyConcat
  <1>8. Sequence(budgets) /\ Sequence(a) /\ Sequence(b) /\ Sequence(c)
    BY <1>0, <1>2, <1>3, <1>5, AreSequences DEF Scanning, Testing
  <1>9. \A gate, m : Does(a, gate, m) \/ Does(b, gate, m) \/ Does(c, gate, m) =>
                     Does(budgets \o a \o b \o c, gate, m)
    BY <1>8, DoesConcat, ConcatIs
  <1> QED BY <1>1, <1>2, <1>3, <1>5, <1>7, <1>9

\* The fuzz targets that a change affects.
LEMMA FuzzSmokeFits ==
  ASSUME NEW policy, NEW modules, NEW changes
  PROVE  /\ Testing(FuzzSmoke(policy, modules, changes))
         /\ \A m \in modules \cap Directories :
               Operates(policy, m, "fuzz") /\ FuzzAffects(m, changes) =>
                  Does(FuzzSmoke(policy, modules, changes), "fuzz-smoke", m)
  <1>0. "open" \in NoScan /\ "close" \in NoScan BY KindsAre
  <1> DEFINE N == {"workspace", "fuzz scratch"}
             campaigns == {m \in modules : Operates(policy, m, "fuzz")}
             targets == {m \in campaigns : FuzzAffects(m, changes)}
             candidates == [m \in campaigns |-> Check("fuzz candidates", m) \o FuzzGraph(m) \o Check("fuzz targets", m)]
             prepared == [m \in targets |-> PrepareFuzz(m)]
             steps == [m \in targets |-> Services(policy, m, FuzzStep(m))]
             body == [m \in targets |-> FuzzStep(m)]
             inner == Each(prepared) \o Check("preparation budget", Root) \o Each(steps)
                      \o Check("execution budget", Root)
             scratch == With("fuzz scratch", Root, inner)
  <1>1. FuzzSmoke(policy, modules, changes) = FuzzPolicy(changes) \o Each(candidates) \o If(targets # {}, scratch)
    BY DEF FuzzSmoke
  <1>2. /\ DOMAIN candidates = campaigns /\ DOMAIN prepared = targets /\ DOMAIN steps = targets
        /\ \A m \in campaigns : candidates[m] = Check("fuzz candidates", m) \o FuzzGraph(m) \o Check("fuzz targets", m)
        /\ \A m \in targets : /\ prepared[m] = PrepareFuzz(m)
                              /\ steps[m] = Services(policy, m, body[m]) /\ body[m] = FuzzStep(m)
    OBVIOUS
  <1>3. \A m \in modules : Operates(policy, m, "fuzz") /\ FuzzAffects(m, changes) => m \in targets
    OBVIOUS
  <1> HIDE DEF campaigns, targets, candidates, prepared, steps, body
  <1>4. Testing(FuzzPolicy(changes))
    BY FiveChecks, FitsEmpty DEF FuzzPolicy, If, Listed, Testing
  <1>5. Testing(Each(candidates))
    <2>1. \A m : Fits(Check("fuzz candidates", m) \o FuzzGraph(m) \o Check("fuzz targets", m), NoScan, {"workspace"})
      BY Atoms, TwoChecks, FitsConcat DEF FuzzGraph, Listed
    <2> QED BY <1>2, <2>1, FitsEach DEF Testing
  <1>6. Fits(Each(prepared), NoScan, N)
    <2>1. \A m : Fits(PrepareFuzz(m), NoScan, N)
      BY FourChecks DEF PrepareFuzz, Listed
    <2> HIDE DEF N
    <2> QED BY <1>2, <2>1, FitsEach
  <1>7. /\ Fits(Each(steps), NoScan, N)
        /\ \A m \in targets \cap Directories : Does(Each(steps), "fuzz-smoke", m)
    <2>1. \A m : Fits(FuzzStep(m), NoScan, AroundGates) /\ Does(FuzzStep(m), "fuzz-smoke", m)
      <3> SUFFICES ASSUME NEW m PROVE Fits(FuzzStep(m), NoScan, AroundGates) /\ Does(FuzzStep(m), "fuzz-smoke", m)
        OBVIOUS
      <3> DEFINE a == Code("fuzz list", m)
                 b == Check("fuzz selector", m)
                 c == Code("fuzz-smoke", m)
      <3>1. /\ Fits(a, NoScan, AroundGates) /\ Fits(b, NoScan, AroundGates) /\ Fits(c, NoScan, AroundGates)
            /\ Does(c, "fuzz-smoke", m)
        BY Atoms
      <3>2. FuzzStep(m) = a \o b \o c BY DEF FuzzStep
      <3> HIDE DEF a, b, c
      <3>3. Sequence(a) /\ Sequence(b) /\ Sequence(c) BY <3>1, AreSequences
      <3> QED BY <3>1, <3>2, <3>3, FitsConcat, DoesConcat, ConcatIs
    <2>2. /\ \A m \in targets : steps[m] = Services(policy, m, body[m]) /\ Fits(body[m], NoScan, AroundGates)
          /\ \A m \in targets : Does(body[m], "fuzz-smoke", m)
      BY <1>2, <2>1
    <2>3. /\ Fits(Each(steps), NoScan, {"workspace", "fuzz scratch"})
          /\ \A m \in targets \cap Directories : \A gate : Does(body[m], gate, m) => Does(Each(steps), gate, m)
      <3>1. DOMAIN steps = targets BY <1>2
      <3> QED BY ONLY <2>2, <3>1, LoopFits
    <2> QED BY <2>2, <2>3
  <1>8. Fits(inner, NoScan, N) /\ \A m \in targets \cap Directories : Does(inner, "fuzz-smoke", m)
    <2> DEFINE a == Each(prepared)
               b == Check("preparation budget", Root)
               c == Each(steps)
               d == Check("execution budget", Root)
    <2>1. Fits(a, NoScan, N) /\ Fits(b, NoScan, N) /\ Fits(c, NoScan, N) /\ Fits(d, NoScan, N)
      BY <1>6, <1>7, Atoms
    <2>2. \A m \in targets \cap Directories : Does(c, "fuzz-smoke", m) BY <1>7
    <2> HIDE DEF a, b, c, d, N
    <2>3. Sequence(a) /\ Sequence(b) /\ Sequence(c) /\ Sequence(d) BY <2>1, AreSequences
    <2>4. Fits(a \o b \o c \o d, NoScan, N) BY <2>1, FitsConcat
    <2>5. \A m \in targets \cap Directories : Does(a \o b \o c \o d, "fuzz-smoke", m)
      BY <2>2, <2>3, DoesConcat, ConcatIs
    <2> QED BY <2>4, <2>5 DEF a, b, c, d
  <1> HIDE DEF inner
  <1>9. Fits(scratch, NoScan, {"workspace"}) /\ \A m \in targets \cap Directories : Does(scratch, "fuzz-smoke", m)
    <2>1. /\ "fuzz scratch" \notin {"workspace"} \cup Tools \cup {"workspace", "baseline snapshot"}
          /\ N = {"workspace"} \cup {"fuzz scratch"}
      BY DEF Tools
    <2> QED BY <1>0, <1>8, <2>1, FitsWith, DoesBracket, AreSequences
  <1> HIDE DEF scratch
  <1> DEFINE last == If(targets # {}, scratch)
  <1>10. /\ Testing(last)
         /\ \A m \in targets \cap Directories : Does(last, "fuzz-smoke", m)
    BY <1>9, FitsEmpty DEF If, Testing
  <1> HIDE DEF last
  <1> DEFINE a == FuzzPolicy(changes)
             b == Each(candidates)
  <1>11. Testing(a) /\ Testing(b) /\ FuzzSmoke(policy, modules, changes) = a \o b \o last
    BY <1>1, <1>4, <1>5 DEF last
  <1> HIDE DEF a, b
  <1>12. Testing(a \o b \o last) BY <1>10, <1>11, FitsConcat DEF Testing
  <1>13. Sequence(a) /\ Sequence(b) /\ Sequence(last) BY <1>10, <1>11, AreSequences DEF Testing
  <1>14. \A m \in targets \cap Directories : Does(a \o b \o last, "fuzz-smoke", m)
    BY <1>10, <1>13, DoesConcat, ConcatIs
  <1> QED BY <1>3, <1>11, <1>12, <1>14

\* One loop over modules that starts no services.
LEMMA PlainLoopFits ==
  ASSUME NEW D, NEW steps, DOMAIN steps = D, \A m \in D : Fits(steps[m], NoScan, AroundGates)
  PROVE  /\ Testing(Each(steps))
         /\ \A m \in D \cap Directories : \A gate : Does(steps[m], gate, m) => Does(Each(steps), gate, m)
  <1>1. NoScan \subseteq NoScan /\ {"workspace"} \subseteq AroundGates BY DEF AroundGates
  <1>2. ASSUME NEW m \in D PROVE Fits(steps[m], NoScan, {"workspace"}) /\ Sequence(steps[m])
    BY <1>1, FitsWeaken, AreSequences
  <1>3. Testing(Each(steps)) BY <1>2, FitsEach DEF Testing
  <1>4. \A m \in D \cap Directories : \A gate : Does(steps[m], gate, m) => Does(Each(steps), gate, m)
    BY <1>2, DoesEach
  <1> QED BY <1>3, <1>4

\* The commands that run one gate, one by one.
LEMMA CoverageGateFits ==
  ASSUME NEW policy, NEW modules
  PROVE  /\ Testing(CoverageGate(policy, modules))
         /\ \A m \in modules \cap Directories :
               Gated(policy, m, "coverage") => Does(CoverageGate(policy, modules), "coverage", m)
  <1> DEFINE D == Having(policy, modules, "coverage")
             body == [m \in D |-> Coverage(m)]
             steps == [m \in D |-> Services(policy, m, Coverage(m))]
  <1>1. DOMAIN steps = D /\ \A m \in D : steps[m] = Services(policy, m, body[m]) /\ body[m] = Coverage(m)
    OBVIOUS
  <1>2. \A m \in modules : Gated(policy, m, "coverage") => m \in D BY DEF Having
  <1>3. CoverageGate(policy, modules) = Each(steps) BY DEF CoverageGate
  <1> HIDE DEF D, body, steps
  <1>4. \A m \in D : steps[m] = Services(policy, m, body[m]) /\ Fits(body[m], NoScan, AroundGates)
    BY <1>1, CoverageFits
  <1>5. \A m \in D : Does(body[m], "coverage", m) BY <1>1, CoverageFits
  <1>6. /\ Testing(Each(steps))
        /\ \A m \in D \cap Directories : \A gate : Does(body[m], gate, m) => Does(Each(steps), gate, m)
    BY <1>1, <1>4, LoopFits
  <1> QED BY <1>2, <1>3, <1>5, <1>6

LEMMA MutationGateFits ==
  ASSUME NEW policy, NEW modules
  PROVE  /\ Testing(MutationGate(policy, modules))
         /\ \A m \in modules \cap Directories :
               Gated(policy, m, "mutation") =>
                  /\ Does(MutationGate(policy, modules), "mutation", m)
                  /\ policy[m].imports => Does(MutationGate(policy, modules), "mutation-import", m)
  <1> DEFINE D == Having(policy, modules, "mutation")
             body == [m \in D |-> Mutation(policy, m)]
             steps == [m \in D |-> Services(policy, m, Mutation(policy, m))]
  <1>1. DOMAIN steps = D /\ \A m \in D : steps[m] = Services(policy, m, body[m]) /\ body[m] = Mutation(policy, m)
    OBVIOUS
  <1>2. \A m \in modules : Gated(policy, m, "mutation") => m \in D BY DEF Having
  <1>3. MutationGate(policy, modules) = Each(steps) BY DEF MutationGate
  <1> HIDE DEF D, body, steps
  <1>4. \A m \in D : steps[m] = Services(policy, m, body[m]) /\ Fits(body[m], NoScan, AroundGates)
    BY <1>1, MutationFits
  <1>5. \A m \in D : /\ Does(body[m], "mutation", m)
                     /\ policy[m].imports => Does(body[m], "mutation-import", m)
    BY <1>1, MutationFits
  <1>6. /\ Testing(Each(steps))
        /\ \A m \in D \cap Directories : \A gate : Does(body[m], gate, m) => Does(Each(steps), gate, m)
    BY <1>1, <1>4, LoopFits
  <1> QED BY <1>2, <1>3, <1>5, <1>6

LEMMA MutationPackageFits ==
  ASSUME NEW policy, NEW modules
  PROVE  /\ Testing(MutationPackage(policy, modules))
         /\ \A m \in modules \cap Directories : Does(MutationPackage(policy, modules), "mutation", m)
  <1> DEFINE a(m) == Checks(<<"module", "package">>, m)
             b(m) == Services(policy, m, Code("mutation", m))
             steps == [m \in modules |-> a(m) \o b(m)]
  <1>1. DOMAIN steps = modules /\ \A m \in modules : steps[m] = a(m) \o b(m)
    OBVIOUS
  <1>2. MutationPackage(policy, modules) = Each(steps) BY DEF MutationPackage
  <1>3. \A m : Fits(a(m), NoScan, {"workspace"}) BY TwoChecks DEF Listed
  <1>4. ASSUME NEW m PROVE Fits(b(m), NoScan, {"workspace"}) /\ Does(b(m), "mutation", m)
    <2>1. Fits(Code("mutation", m), NoScan, AroundGates) /\ Does(Code("mutation", m), "mutation", m)
      BY Atoms
    <2>2. Fits(b(m), NoScan, {"workspace", "fuzz scratch"}) /\ Does(b(m), "mutation", m)
      BY <2>1, ServicesFit
    <2>3. NoScan \subseteq NoScan /\ {"workspace"} \subseteq {"workspace", "fuzz scratch"} OBVIOUS
    <2> HIDE DEF b
    <2> QED BY <2>2, <2>3, FitsWeaken
  <1> HIDE DEF a, b, steps
  <1>5. ASSUME NEW m \in modules
        PROVE  Fits(steps[m], NoScan, {"workspace"}) /\ Sequence(steps[m]) /\ Does(steps[m], "mutation", m)
    <2>1. Sequence(a(m)) /\ Sequence(b(m)) BY <1>3, <1>4, AreSequences
    <2>2. Sequence(a(m) \o b(m)) BY <2>1, ConcatIs
    <2> QED BY <1>1, <1>3, <1>4, <2>1, <2>2, FitsConcat, DoesConcat
  <1>6. Testing(Each(steps)) BY <1>1, <1>5, FitsEach DEF Testing
  <1>7. \A m \in modules \cap Directories : Does(Each(steps), "mutation", m)
    BY <1>1, <1>5, DoesEach
  <1> QED BY <1>2, <1>6, <1>7

LEMMA DocsFit ==
  ASSUME NEW policy, NEW modules
  PROVE  /\ Testing(Docs(policy, modules))
         /\ \A m \in modules \cap Directories :
               Gated(policy, m, "documentation") =>
                  \A gate \in Documents(m) : Does(Docs(policy, modules), gate, m)
  <1> DEFINE D == Having(policy, modules, "documentation")
             steps == [m \in D |-> Documentation(policy, m)]
  <1>1. DOMAIN steps = D /\ \A m \in D : steps[m] = Documentation(policy, m)
    OBVIOUS
  <1>2. \A m \in modules : Gated(policy, m, "documentation") => m \in D BY DEF Having
  <1>3. Docs(policy, modules) = Each(steps) BY DEF Docs
  <1> HIDE DEF D, steps
  <1>4. \A m \in D : Fits(steps[m], NoScan, AroundGates) BY <1>1, DocumentationFits
  <1>5. \A m \in D : \A gate \in Documents(m) : Does(steps[m], gate, m)
    BY <1>1, DocumentationFits
  <1>6. /\ Testing(Each(steps))
        /\ \A m \in D \cap Directories : \A gate : Does(steps[m], gate, m) => Does(Each(steps), gate, m)
    BY <1>1, <1>4, PlainLoopFits
  <1> QED BY <1>2, <1>3, <1>5, <1>6

LEMMA APIFits ==
  ASSUME NEW policy, NEW modules, NEW update \in BOOLEAN
  PROVE  /\ Testing(API(policy, modules, update))
         /\ \A m \in modules \cap Directories :
               Gated(policy, m, "api_compatibility") /\ ~update => Does(API(policy, modules, update), "api", m)
  <1> DEFINE D == Having(policy, modules, "api_compatibility")
             steps == [m \in D |-> Baseline(policy, m, update)]
  <1>1. DOMAIN steps = D /\ \A m \in D : steps[m] = Baseline(policy, m, update)
    OBVIOUS
  <1>2. \A m \in modules : Gated(policy, m, "api_compatibility") => m \in D BY DEF Having
  <1>3. API(policy, modules, update) = Each(steps) BY DEF API
  <1> HIDE DEF D, steps
  <1>4. \A m \in D : Fits(steps[m], NoScan, AroundGates) BY <1>1, BaselineFits
  <1>5. \A m \in D : ~update => Does(steps[m], "api", m) BY <1>1, BaselineFits
  <1>6. /\ Testing(Each(steps))
        /\ \A m \in D \cap Directories : \A gate : Does(steps[m], gate, m) => Does(Each(steps), gate, m)
    BY <1>1, <1>4, PlainLoopFits
  <1> QED BY <1>2, <1>3, <1>5, <1>6

LEMMA ServiceCycleFits ==
  ASSUME NEW policy, NEW modules
  PROVE  Testing(ServiceCycle(policy, modules))
  <1> DEFINE body == [m \in modules |-> <<>>]
             steps == [m \in modules |-> Services(policy, m, <<>>)]
  <1>1. DOMAIN steps = modules /\ \A m \in modules : steps[m] = Services(policy, m, body[m]) /\ body[m] = <<>>
    OBVIOUS
  <1>2. ServiceCycle(policy, modules) = Each(steps) BY DEF ServiceCycle
  <1> HIDE DEF body, steps
  <1>3. \A m \in modules : steps[m] = Services(policy, m, body[m]) /\ Fits(body[m], NoScan, AroundGates)
    BY <1>1, FitsEmpty
  <1>4. Testing(Each(steps)) BY <1>1, <1>3, LoopFits
  <1> QED BY <1>2, <1>4

\* golib release --dry-run only reads.
LEMMA ReleaseFits ==
  ASSUME NEW policy, NEW modules
  PROVE  LET all == ReleaseDryRun(policy, modules)
         IN  /\ Scanning(all)
             /\ \A m \in modules \cap Directories :
                   /\ \A gate \in {"release tag", "archive", "consume"} : Does(all, gate, m)
                   /\ Gated(policy, m, "security") =>
                         /\ \A gate \in SecurityGates \cup {"security-suppressions", "SBOM"} : Does(all, gate, m)
                         /\ \A gate \in {"secrets-history", "secrets-current-tree"} : Does(all, gate, Root)
  <1> DEFINE a == Preflight(policy, modules)
             b == SecurityPass(policy, modules, FALSE, TRUE)
             tags == [m \in modules |-> Check("release tag", m)]
             proxy == Check("release proxy", Root)
             proxies == [m \in modules |-> ReleaseProxy(m)]
             consumed == [m \in modules |-> Check("consume", m)]
             c == Each(tags)
             d == Each(proxies)
             e == Each(consumed)
  <1>1. ReleaseDryRun(policy, modules) = a \o b \o c \o proxy \o d \o e BY DEF ReleaseDryRun
  <1>2. /\ Scanning(a)
        /\ \A m \in modules \cap Directories :
              Gated(policy, m, "security") => Does(a, "security-suppressions", m)
    BY PreflightFits DEF Scanning
  <1>3. /\ Scanning(b)
        /\ \A m \in modules \cap Directories :
              Gated(policy, m, "security") =>
                 /\ \A gate \in SecurityGates \cup {"SBOM"} : Does(b, gate, m)
                 /\ \A gate \in {"secrets-history", "secrets-current-tree"} : Does(b, gate, Root)
    BY PassFits DEF Scanning
  <1>4. ASSUME NEW steps, DOMAIN steps = modules, NEW gate,
               \A m \in modules : Scanning(steps[m]) /\ Does(steps[m], gate, m)
        PROVE  Scanning(Each(steps)) /\ \A m \in modules \cap Directories : Does(Each(steps), gate, m)
    <2>1. \A m \in modules : Fits(steps[m], NoCode, {"workspace"}) /\ Sequence(steps[m])
      BY <1>4, AreSequences DEF Scanning
    <2>2. Scanning(Each(steps)) BY <1>4, <2>1, FitsEach DEF Scanning
    <2> QED BY <1>4, <2>1, <2>2, DoesEach
  <1>5. /\ DOMAIN tags = modules /\ DOMAIN proxies = modules /\ DOMAIN consumed = modules
        /\ \A m \in modules : /\ tags[m] = Check("release tag", m) /\ proxies[m] = ReleaseProxy(m)
                              /\ consumed[m] = Check("consume", m)
    OBVIOUS
  <1>6. \A m : /\ Scanning(ReleaseProxy(m)) /\ Does(ReleaseProxy(m), "archive", m)
               /\ Scanning(Check("release tag", m)) /\ Does(Check("release tag", m), "release tag", m)
               /\ Scanning(Check("consume", m)) /\ Does(Check("consume", m), "consume", m)
               /\ Scanning(proxy)
    BY Atoms, SevenChecks DEF ReleaseProxy, Scanning, Listed
  <1> HIDE DEF a, b, tags, proxies, consumed, proxy
  <1>7. Scanning(c) /\ \A m \in modules \cap Directories : Does(c, "release tag", m)
    BY <1>4, <1>5, <1>6
  <1>8. Scanning(d) /\ \A m \in modules \cap Directories : Does(d, "archive", m)
    BY <1>4, <1>5, <1>6
  <1>9. Scanning(e) /\ \A m \in modules \cap Directories : Does(e, "consume", m)
    BY <1>4, <1>5, <1>6
  <1> HIDE DEF c, d, e
  <1>10. Scanning(a \o b \o c \o proxy \o d \o e)
    BY <1>2, <1>3, <1>6, <1>7, <1>8, <1>9, FitsConcat DEF Scanning
  <1>11. Sequence(a) /\ Sequence(b) /\ Sequence(c) /\ Sequence(d) /\ Sequence(e) /\ Sequence(proxy)
    BY <1>2, <1>3, <1>6, <1>7, <1>8, <1>9, AreSequences DEF Scanning
  <1>12. \A gate, m : Does(a, gate, m) \/ Does(b, gate, m) \/ Does(c, gate, m) \/ Does(d, gate, m)
                      \/ Does(e, gate, m) => Does(a \o b \o c \o proxy \o d \o e, gate, m)
    BY <1>11, DoesConcat, ConcatIs
  <1> QED BY <1>1, <1>2, <1>3, <1>7, <1>8, <1>9, <1>10, <1>12

\* The commands that act on the changes since a base.
Ranged == {"local-changes", "secrets-changes"}

\* What follows the reading of the range.
AfterRange(command, policy, modules, changes) ==
    IF command = "local-changes"
    THEN RepositorySecrets(TRUE) \o Local(policy, modules, TRUE)
         \o If(changes # {}, FuzzSmoke(policy, modules, changes))
    ELSE RepositorySecrets(TRUE)

\* The scan of the repository runs no code.
LEMMA SecretsScan ==
  ASSUME NEW changed \in BOOLEAN
  PROVE  Scanning(RepositorySecrets(changed))
  <1>1. NoCode \subseteq NoCode /\ {"workspace"} \subseteq AroundScans BY DEF AroundScans
  <1>2. Fits(RepositorySecrets(changed), NoCode, AroundScans) BY SecretsFit
  <1> QED BY <1>1, <1>2, FitsWeaken DEF Scanning

\* The rest of a command that reads a range.
LEMMA AfterRangeFits ==
  ASSUME NEW command \in Ranged, NEW policy, NEW modules, NEW changes
  PROVE  LET all == AfterRange(command, policy, modules, changes)
         IN  /\ Ready(all)
             /\ \A gate \in {"secrets-history", "secrets-current-tree"} : Does(all, gate, Root)
             /\ command = "local-changes" =>
                   \A m \in modules \cap Directories :
                      /\ \A gate \in LocalGates(policy, m) : Does(all, gate, m)
                      /\ Gated(policy, m, "security") =>
                            \A gate \in SecurityGates \cup {"security-suppressions"} : Does(all, gate, m)
                      /\ Operates(policy, m, "fuzz") /\ FuzzAffects(m, changes) => Does(all, "fuzz-smoke", m)
  <1> DEFINE a == RepositorySecrets(TRUE)
             b == Local(policy, modules, TRUE)
             c == If(changes # {}, FuzzSmoke(policy, modules, changes))
  <1>1. Scanning(a) /\ \A gate \in {"secrets-history", "secrets-current-tree"} : Does(a, gate, Root)
    BY SecretsFit, SecretsScan
  <1>2. /\ Ready(b)
        /\ \A m \in modules \cap Directories :
              /\ \A gate \in LocalGates(policy, m) : Does(b, gate, m)
              /\ Gated(policy, m, "security") =>
                    \A gate \in SecurityGates \cup {"security-suppressions"} : Does(b, gate, m)
    BY LocalFits
  <1>3. /\ Testing(c)
        /\ \A m \in modules \cap Directories :
              Operates(policy, m, "fuzz") /\ FuzzAffects(m, changes) => Does(c, "fuzz-smoke", m)
    <2>1. \A m : FuzzAffects(m, changes) => changes # {} BY DEF FuzzAffects
    <2>2. Testing(<<>>) BY FitsEmpty DEF Testing
    <2> QED BY <2>1, <2>2, FuzzSmokeFits DEF If
  <1>4. AfterRange(command, policy, modules, changes) = IF command = "local-changes" THEN a \o b \o c ELSE a
    BY DEF AfterRange
  <1> HIDE DEF a, b, c
  <1>5. Ready(a) /\ Ready(a \o b) BY <1>1, <1>2, ReadyParts, ReadyConcat
  <1>6. Ready(a \o b \o c) BY <1>3, <1>5, ReadyParts, ReadyConcat
  <1>7. Sequence(a) /\ Sequence(b) /\ Sequence(c) BY <1>2, <1>3, <1>5, AreSequences DEF Ready, Testing
  <1>8. \A gate, m : Does(a, gate, m) \/ Does(b, gate, m) \/ Does(c, gate, m) => Does(a \o b \o c, gate, m)
    BY <1>7, DoesConcat, ConcatIs
  <1> QED BY <1>1, <1>2, <1>3, <1>4, <1>5, <1>6, <1>8

\* The work of each command.
LEMMA WorkIs ==
  ASSUME NEW policy, NEW modules, NEW changes
  PROVE  /\ Work("check", policy, modules, changes) = CheckAll(policy, modules)
         /\ Work("local", policy, modules, changes) = Local(policy, modules, FALSE)
         /\ Work("services", policy, modules, changes) = ServiceCycle(policy, modules)
         /\ Work("release", policy, modules, changes) = ReleaseDryRun(policy, modules)
         /\ Work("secrets", policy, modules, changes) = RepositorySecrets(FALSE)
         /\ Work("workflows", policy, modules, changes) = Workflows
         /\ Work("coverage", policy, modules, changes) = CoverageGate(policy, modules)
         /\ Work("docs", policy, modules, changes) = Docs(policy, modules)
         /\ Work("mutation", policy, modules, changes) = MutationGate(policy, modules)
         /\ Work("mutation-package", policy, modules, changes) = MutationPackage(policy, modules)
         /\ Work("api-check", policy, modules, changes) = API(policy, modules, FALSE)
         /\ Work("api-update", policy, modules, changes) = API(policy, modules, TRUE)
         /\ \A command \in Ranged :
               Work(command, policy, modules, changes)
                  = ChangeRange \o SecretRange \o AfterRange(command, policy, modules, changes)
  BY DEF Work, Ranged, AfterRange, LocalChanges

\* Without a range, nothing depends on what changed.
LEMMA WorkIsReady ==
  ASSUME NEW command \in Commands \ Ranged, NEW policy, NEW modules, NEW changes
  PROVE  /\ Ready(Work(command, policy, modules, changes))
         /\ \A other : Work(command, policy, modules, changes) = Work(command, policy, modules, other)
  <1>1. /\ Ready(CheckAll(policy, modules)) /\ Ready(Local(policy, modules, FALSE))
        /\ Ready(ReleaseDryRun(policy, modules)) /\ Ready(RepositorySecrets(FALSE))
    BY CheckAllFits, LocalFits, ReleaseFits, SecretsScan, ReadyParts
  <1>2. /\ Ready(ServiceCycle(policy, modules)) /\ Ready(CoverageGate(policy, modules))
        /\ Ready(Docs(policy, modules)) /\ Ready(MutationGate(policy, modules))
        /\ Ready(MutationPackage(policy, modules))
        /\ Ready(API(policy, modules, FALSE)) /\ Ready(API(policy, modules, TRUE))
    BY ServiceCycleFits, CoverageGateFits, DocsFit, MutationGateFits, MutationPackageFits, APIFits, ReadyParts
  <1>3. Ready(Workflows)
    BY TwoChecks, ReadyParts DEF Workflows, Listed, Testing
  <1>4. command \in {"check", "local", "coverage", "docs", "services", "api-check", "api-update",
                     "mutation", "mutation-package", "release", "secrets", "workflows"}
    BY DEF Commands, Ranged
  <1>5. Ready(Work(command, policy, modules, changes))
    BY <1>1, <1>2, <1>3, <1>4 DEF Work
  <1>6. \A other : Work(command, policy, modules, changes) = Work(command, policy, modules, other)
    BY <1>4 DEF Work
  <1> QED BY <1>5, <1>6

\* What an executor runs in its workspace nests there.
LEMMA WorkFits ==
  ASSUME NEW command \in Commands, NEW policy, NEW modules, NEW changes
  PROVE  LET work == Work(command, policy, modules, changes)
         IN  Fits(work, Kinds, {"workspace"}) /\ ScansFirst(work)
  <1> DEFINE work == Work(command, policy, modules, changes)
  <1>0. Ordinary \subseteq Kinds /\ {"workspace"} \subseteq {"workspace"} BY DEF Ordinary
  <1>1. CASE command \notin Ranged
    <2>1. Ready(work) BY <1>1, WorkIsReady
    <2> QED BY <1>0, <2>1, FitsWeaken DEF Ready
  <1>2. CASE command \in Ranged
    <2> DEFINE rest == AfterRange(command, policy, modules, changes)
               range == ChangeRange \o SecretRange
    <2>1. Ready(rest) BY <1>2, AfterRangeFits
    <2>2. work = range \o rest BY <1>2, WorkIs
    <2> HIDE DEF rest, work
    <2>3. Fits(rest, Kinds, {"workspace"}) BY <1>0, <2>1, FitsWeaken DEF Ready
    <2>4. "diff" \in Kinds \cap Plain /\ "bind" \in Kinds \cap Plain BY DEF Kinds, Plain
    <2>5. Fits(ChangeRange, Kinds, {"workspace"}) /\ Fits(SecretRange, Kinds, {"workspace"})
      BY <2>4, FitsDo DEF ChangeRange, SecretRange
    <2>6. Fits(range, Kinds, {"workspace"}) BY <2>5, FitsConcat
    <2>7. Len(range) = 2 /\ range[1].do = "diff" /\ range[2].do = "bind"
      <3> DEFINE r1 == [do |-> "diff", gate |-> "changes", module |-> Root]
                 r2 == [do |-> "bind", gate |-> "change range", module |-> Root]
      <3>1. range = <<r1>> \o <<r2>> BY DEF ChangeRange, SecretRange, Do
      <3>2. r1.do = "diff" /\ r2.do = "bind" OBVIOUS
      <3> HIDE DEF r1, r2, range
      <3> QED BY <3>1, <3>2
    <2> HIDE DEF range
    <2>8. \A i \in 1..Len(range) : range[i].do # "code" BY <2>7
    <2>9. ScansFirst(range) BY <2>8 DEF ScansFirst
    <2>10. ScansFirst(work)
      BY <2>1, <2>2, <2>3, <2>6, <2>8, <2>9, ScansFirstConcat, AreSequences DEF Ready
    <2>11. Fits(work, Kinds, {"workspace"}) BY <2>2, <2>3, <2>6, FitsConcat
    <2> QED BY <2>10, <2>11 DEF work
  <1> QED BY <1>1, <1>2

-----------------------------------------------------------------------------
(* The programs.                                                           *)

\* Checks nest on every stack.
LEMMA PlainNests ==
  ASSUME NEW s, Sequence(s), \A i \in 1..Len(s) : s[i].do \in Plain, NEW base, Sequence(base)
  PROVE  Nests(s, base)
  <1> DEFINE n == Len(s)
             scopes == [i \in 0..n |-> base]
  <1>1. n \in Nat BY Sequences DEF Sequence
  <1>2. \A i \in 1..n : Turns(s[i], base, base) BY DEF Turns, Plain
  <1> HIDE DEF n
  <1>3. /\ \A i \in 0..n : scopes[i] = base
        /\ 0 \in 0..n /\ n \in 0..n /\ \A i \in 1..n : i \in 0..n /\ i - 1 \in 0..n
    BY <1>1
  <1> HIDE DEF scopes
  <1>4. Scopes(s, base, scopes) BY <1>1, <1>2, <1>3 DEF Scopes, n
  <1> QED BY <1>4 DEF Nests

\* The admission of a command, before it has a workspace.
Before(command) ==
    Admission \o If(command = "release", Checks(<<"release contract", "repository contract">>, Root))

\* What is before the workspace: the checks of the admission.
LEMMA BeforeIs ==
  ASSUME NEW command
  PROVE  /\ Sequence(Before(command))
         /\ \A i \in 1..Len(Before(command)) : Before(command)[i].do = "check"
         /\ command # "release" => Len(Before(command)) = 4
         /\ \A i \in 1..4 : i \in 1..Len(Before(command)) /\ Before(command)[i] = Admission[i]
  <1> DEFINE a == Admission
             b == If(command = "release", Checks(<<"release contract", "repository contract">>, Root))
  <1>1. Len(a) = 4 BY DEF Admission, Checks
  <1>2. Fits(a, {"check"}, {}) /\ Fits(b, {"check"}, {})
    <2>1. Len(<<"root", "configuration", "tool version", "inventory">>) = 4
          /\ Len(<<"release contract", "repository contract">>) = 2
      OBVIOUS
    <2>2. "check" \in {"check"} /\ 4 \in Nat /\ 2 \in Nat OBVIOUS
    <2>3. Fits(a, {"check"}, {}) BY <2>1, <2>2, FitsChecks DEF Admission
    <2>4. Fits(Checks(<<"release contract", "repository contract">>, Root), {"check"}, {})
      BY <2>1, <2>2, FitsChecks
    <2> QED BY <2>3, <2>4, FitsEmpty DEF If
  <1>3. command # "release" => b = <<>> BY DEF If
  <1>4. Before(command) = a \o b BY DEF Before
  <1> HIDE DEF a, b
  <1>5. Fits(a \o b, {"check"}, {}) BY <1>2, FitsConcat
  <1>6. Sequence(a) /\ Sequence(b) /\ Sequence(a \o b) BY <1>2, <1>5, AreSequences
  <1>7. \A i \in 1..Len(a \o b) : (a \o b)[i].do = "check" BY <1>5 DEF Fits
  <1>8. Len(<<>>) = 0 OBVIOUS
  <1>9. Sequence(Before(command)) /\ \A i \in 1..Len(Before(command)) : Before(command)[i].do = "check"
    BY <1>4, <1>6, <1>7
  <1>10. /\ Len(a) = 4 /\ Len(b) \in Nat /\ Len(a \o b) = Len(a) + Len(b)
         /\ \A i \in 1..Len(a) : (a \o b)[i] = a[i]
    BY <1>1, <1>6, ConcatIs
  <1>11. command # "release" => Len(Before(command)) = 4
    BY <1>3, <1>4, <1>8, <1>10
  <1>12. \A i \in 1..4 : i \in 1..Len(Before(command)) /\ Before(command)[i] = a[i]
    BY <1>4, <1>10
  <1> QED BY <1>9, <1>11, <1>12 DEF a

\* Every program brackets its resources, and its scans come first.
LEMMA ProgramFits ==
  ASSUME NEW command \in Commands, NEW policy, NEW modules, NEW changes
  PROVE  LET p == Program(command, policy, modules, changes)
             work == Work(command, policy, modules, changes)
         IN  /\ Sequence(p) /\ Nests(p, <<>>) /\ ScansFirst(p)
             /\ \A i \in 1..Len(p) : p[i].do \in Kinds
             /\ \A gate, m : Does(work, gate, m) => Does(p, gate, m)
  <1> DEFINE p == Program(command, policy, modules, changes)
             work == Work(command, policy, modules, changes)
             a == Before(command)
             first == [do |-> "open", gate |-> "workspace", module |-> Root]
             last == [do |-> "close", gate |-> "workspace", module |-> Root]
             ws == [name |-> "workspace", module |-> Root]
             inside == <<first>> \o work \o <<last>>
  <1>1. p = a \o inside BY DEF Program, Before, With, Do
  <1>2. /\ Sequence(a) /\ \A i \in 1..Len(a) : a[i].do = "check"
    BY BeforeIs
  <1>3. Fits(work, Kinds, {"workspace"}) /\ ScansFirst(work) BY WorkFits
  <1>4. /\ first.do = "open" /\ first.gate = "workspace" /\ ResourceOf(first) = ws
        /\ last.do = "close" /\ last.gate = "workspace" /\ ResourceOf(last) = ws
        /\ ws.name = "workspace"
    BY DEF ResourceOf
  <1>5. \A gate, m : Does(work, gate, m) => Does(With("workspace", Root, work), gate, m)
    BY <1>3, DoesBracket, AreSequences
  <1>6. With("workspace", Root, work) = inside BY DEF With, Do
  <1> HIDE DEF a, first, last, ws, work
  <1>7. Sequence(<<>>) /\ Append(<<>>, ws) = <<ws>>
    <2>1. <<>> \in Seq({}) OBVIOUS
    <2>2. Sequence(<<>>) BY <2>1, Sequences
    <2> QED BY <2>2
  <1>8. Stacked(<<ws>>) /\ <<ws>> # <<>> /\ NamesIn(<<ws>>) \subseteq {"workspace"}
    <2>1. <<ws>> \in Seq({ws}) /\ Len(<<ws>>) = 1 /\ <<ws>>[1] = ws /\ \A i \in 1..1 : i = 1 OBVIOUS
    <2>2. Sequence(<<ws>>) BY <2>1, Sequences
    <2>3. NamesIn(<<ws>>) = {"workspace"} BY <1>4, <2>1 DEF NamesIn
    <2>4. ~InScanPass(<<ws>>) BY <2>3 DEF InScanPass
    <2> QED BY <1>4, <2>1, <2>2, <2>3, <2>4 DEF Stacked
  <1>9. Turns(first, <<>>, <<ws>>) /\ Turns(last, <<ws>>, <<>>)
    <2>1. "workspace" \notin Tools BY DEF Tools
    <2> QED BY <1>4, <1>7, <1>8, <2>1 DEF Turns
  <1>10. Nests(work, <<ws>>) BY <1>3, <1>8 DEF Fits, On
  <1> DEFINE K == ElementsOf(work) \cup {first, last}
  <1>11. work \in Seq(K) /\ first \in K /\ last \in K BY <1>3, SequenceIn, AreSequences
  <1> HIDE DEF K
  <1>12. Nests(inside, <<>>) /\ Sequence(inside)
    <2>1. inside \in Seq(K) BY <1>11
    <2>2. Sequence(inside) BY <2>1, Sequences
    <2>3. Nests(inside, <<>>) BY <1>7, <1>9, <1>10, <1>11, NestsBracket
    <2> QED BY <2>2, <2>3
  <1>13. /\ Sequence(<<first>>) /\ Sequence(<<last>>) /\ Sequence(work) /\ Sequence(<<first>> \o work)
         /\ \A i \in 1..Len(<<first>>) : <<first>>[i] = first
         /\ \A i \in 1..Len(<<last>>) : <<last>>[i] = last
    <2>1. <<first>> \in Seq(K) /\ <<last>> \in Seq(K) /\ <<first>> \o work \in Seq(K) BY <1>11
    <2>2. Sequence(<<first>>) BY <2>1, Sequences
    <2>3. Sequence(<<last>>) BY <2>1, Sequences
    <2>4. Sequence(work) BY <1>11, Sequences
    <2>5. Sequence(<<first>> \o work) BY <2>1, Sequences
    <2>6. /\ \A i \in 1..Len(<<first>>) : <<first>>[i] = first
          /\ \A i \in 1..Len(<<last>>) : <<last>>[i] = last
      <3>1. Len(<<first>>) = 1 /\ <<first>>[1] = first /\ Len(<<last>>) = 1 /\ <<last>>[1] = last
        OBVIOUS
      <3>2. \A i \in 1..1 : i = 1 OBVIOUS
      <3> QED BY <3>1, <3>2
    <2> QED BY <2>2, <2>3, <2>4, <2>5, <2>6
  <1>14. ScansFirst(<<first>>) /\ ScansFirst(<<last>>) /\ ScansFirst(a)
    BY <1>2, <1>4, <1>13 DEF ScansFirst
  <1>15. ScansFirst(<<first>> \o work)
    BY <1>3, <1>4, <1>13, <1>14, ScansFirstConcat
  <1>16. ScansFirst(inside)
    BY <1>4, <1>13, <1>14, <1>15, ScansFirstConcat
  <1>17. \A i \in 1..Len(inside) : inside[i].do \in Kinds
    <2>1. \A i \in 1..Len(inside) : inside[i] \in K
      <3>1. inside \in Seq(K) BY <1>11
      <3> QED BY <3>1
    <2>2. \A x \in K : x.do \in Kinds
      BY <1>3, <1>4 DEF K, ElementsOf, Fits, Kinds
    <2> QED BY <2>1, <2>2
  <1> HIDE DEF inside, p
  <1>18. Sequence(p) BY <1>1, <1>2, <1>12, ConcatIs
  <1>19. Nests(p, <<>>)
    <2>1. Nests(a, <<>>) BY <1>2, <1>7, PlainNests DEF Plain
    <2> DEFINE H == ElementsOf(a) \cup ElementsOf(inside)
    <2>2. a \in Seq(H) /\ inside \in Seq(H) BY <1>2, <1>12, SequenceIn
    <2> HIDE DEF H
    <2> QED BY <1>1, <1>12, <2>1, <2>2, NestsConcat
  <1>20. ScansFirst(p) BY <1>1, <1>2, <1>12, <1>14, <1>16, ScansFirstConcat
  <1>21. ASSUME NEW i \in 1..Len(p) PROVE p[i].do \in Kinds
    <2>1. /\ Len(a) \in Nat /\ Len(inside) \in Nat /\ Len(p) = Len(a) + Len(inside)
          /\ \A k \in 1..Len(a) : p[k] = a[k]
          /\ \A k \in 1..Len(inside) : p[Len(a) + k] = inside[k]
      BY <1>1, <1>2, <1>12, ConcatIs
    <2>2. CASE i \in 1..Len(a) BY <1>2, <2>1, <2>2 DEF Kinds
    <2>3. CASE i \notin 1..Len(a)
      <3>1. i - Len(a) \in 1..Len(inside) /\ Len(a) + (i - Len(a)) = i BY <2>1, <2>3
      <3> QED BY <1>17, <2>1, <3>1
    <2> QED BY <2>2, <2>3
  <1>22. \A gate, m : Does(work, gate, m) => Does(p, gate, m)
    BY <1>1, <1>2, <1>5, <1>6, <1>12, DoesConcat
  <1> QED BY <1>18, <1>19, <1>20, <1>21, <1>22 DEF p, work

\* Where a program reads its range: after its admission and its workspace, before
\* anything that depends on it.
RangedShape(p) ==
    /\ Len(p) \in Nat /\ Len(p) >= 8
    /\ \A i \in 1..4 : p[i] = Admission[i]
    /\ p[5] = [do |-> "open", gate |-> "workspace", module |-> Root]
    /\ p[6] = [do |-> "diff", gate |-> "changes", module |-> Root]
    /\ p[7] = [do |-> "bind", gate |-> "change range", module |-> Root]
    /\ \A i \in 1..Len(p) : p[i].do = "diff" => i = 6
    /\ \A i \in 1..Len(p) : p[i].do = "bind" => i = 7

\* The two commands that read a range have that shape, whatever changed.
LEMMA RangedProgram ==
  ASSUME NEW command \in Ranged, NEW policy, NEW modules, NEW changes
  PROVE  RangedShape(Program(command, policy, modules, changes))
  <1> DEFINE p == Program(command, policy, modules, changes)
             rest == AfterRange(command, policy, modules, changes)
             a == Before(command)
             s5 == [do |-> "open", gate |-> "workspace", module |-> Root]
             s6 == [do |-> "diff", gate |-> "changes", module |-> Root]
             s7 == [do |-> "bind", gate |-> "change range", module |-> Root]
             last == [do |-> "close", gate |-> "workspace", module |-> Root]
  <1>1. p = a \o (<<s5>> \o (<<s6>> \o <<s7>> \o rest) \o <<last>>)
    <2>1. Work(command, policy, modules, changes) = ChangeRange \o SecretRange \o rest
      BY WorkIs
    <2> HIDE DEF rest
    <2> QED BY <2>1 DEF Program, Before, With, Do, ChangeRange, SecretRange
  <1>2. /\ Sequence(a) /\ Len(a) = 4
        /\ \A i \in 1..4 : a[i] = Admission[i] /\ a[i].do = "check"
    <2>1. command # "release" BY DEF Ranged
    <2> QED BY <2>1, BeforeIs
  <1>3. Sequence(rest) /\ \A i \in 1..Len(rest) : rest[i].do \notin {"diff", "bind"}
    <2>1. Fits(rest, Ordinary, {"workspace"}) BY AfterRangeFits DEF Ready
    <2> QED BY <2>1 DEF Fits, Ordinary
  <1>4. /\ s5.do = "open" /\ s6.do = "diff" /\ s7.do = "bind" /\ last.do = "close"
    OBVIOUS
  <1> HIDE DEF p, rest, a, s5, s6, s7, last
  <1> DEFINE H == ElementsOf(rest) \cup ElementsOf(a) \cup {s5, s6, s7, last}
             n == Len(rest)
             r == <<s6>> \o <<s7>> \o rest
             inside == <<s5>> \o r \o <<last>>
  <1>5. rest \in Seq(H) /\ a \in Seq(H) /\ {s5, s6, s7, last} \subseteq H
    BY <1>2, <1>3, SequenceIn
  <1> HIDE DEF H
  <1>6. /\ r \in Seq(H) /\ n \in Nat /\ Len(r) = n + 2 /\ r[1] = s6 /\ r[2] = s7
        /\ \A i \in 1..n : r[i + 2] = rest[i]
    <2> DEFINE h == <<s6>> \o <<s7>>
    <2>1. h \in Seq(H) /\ Len(h) = 2 /\ h[1] = s6 /\ h[2] = s7 BY <1>5
    <2> HIDE DEF h
    <2> QED BY <1>5, <2>1 DEF h
  <1> HIDE DEF n, r
  <1>7. /\ inside \in Seq(H) /\ Len(inside) = n + 4 /\ inside[1] = s5 /\ inside[n + 4] = last
        /\ \A i \in 1..(n + 2) : inside[i + 1] = r[i]
    <2> DEFINE h == <<s5>> \o r
    <2>1. /\ h \in Seq(H) /\ Len(h) = n + 3 /\ h[1] = s5
          /\ \A i \in 1..(n + 2) : h[i + 1] = r[i]
      BY <1>5, <1>6
    <2> HIDE DEF h
    <2> QED BY <1>5, <1>6, <2>1 DEF h
  <1> HIDE DEF inside
  <1>8. /\ Len(p) = n + 8
        /\ \A i \in 1..4 : p[i] = a[i]
        /\ \A i \in 1..(n + 4) : p[i + 4] = inside[i]
    <2>1. p = a \o inside BY <1>1 DEF inside, r
    <2>2. Sequence(inside) BY <1>7, Sequences
    <2>3. /\ Len(p) = Len(a) + Len(inside)
          /\ \A i \in 1..Len(a) : p[i] = a[i]
          /\ \A i \in 1..Len(inside) : p[Len(a) + i] = inside[i]
      <3>1. Sequence(a) BY <1>2
      <3> QED BY ONLY <2>1, <2>2, <3>1, ConcatIs
    <2>4. 4 + (n + 4) = n + 8 /\ \A i \in 1..(n + 4) : 4 + i = i + 4 BY <1>6
    <2> QED BY <1>2, <1>7, <2>3, <2>4
  <1>9. p[5] = s5 /\ p[6] = s6 /\ p[7] = s7 /\ p[n + 8] = last
    <2>1. /\ 1 \in 1..(n + 4) /\ 1 + 4 = 5 /\ 2 \in 1..(n + 4) /\ 2 + 4 = 6 /\ 3 \in 1..(n + 4) /\ 3 + 4 = 7
          /\ n + 4 \in 1..(n + 4) /\ (n + 4) + 4 = n + 8
          /\ 1 \in 1..(n + 2) /\ 1 + 1 = 2 /\ 2 \in 1..(n + 2) /\ 2 + 1 = 3
      BY <1>6
    <2>2. p[1 + 4] = s5 /\ p[2 + 4] = inside[2] /\ p[3 + 4] = inside[3] /\ p[(n + 4) + 4] = last
      BY <1>7, <1>8, <2>1
    <2>3. inside[1 + 1] = s6 /\ inside[2 + 1] = s7
      BY <1>6, <1>7, <2>1
    <2> QED BY <2>1, <2>2, <2>3
  <1>10. \A i \in 8..(n + 7) : i - 7 \in 1..n /\ p[i] = rest[i - 7]
    <2> SUFFICES ASSUME NEW i \in 8..(n + 7) PROVE i - 7 \in 1..n /\ p[i] = rest[i - 7]
      OBVIOUS
    <2>1. /\ i - 7 \in 1..n /\ (i - 7) + 2 = i - 5 /\ i - 5 \in 1..(n + 2) /\ (i - 5) + 1 = i - 4
          /\ i - 4 \in 1..(n + 4) /\ (i - 4) + 4 = i
      BY <1>6
    <2>2. p[i] = inside[i - 4] BY <1>8, <2>1
    <2>3. inside[i - 4] = r[i - 5] BY <1>7, <2>1
    <2>4. r[i - 5] = rest[i - 7] BY <1>6, <2>1
    <2> QED BY <2>1, <2>2, <2>3, <2>4
  <1>11. ASSUME NEW i \in 1..Len(p) PROVE (p[i].do = "diff" => i = 6) /\ (p[i].do = "bind" => i = 7)
    <2>1. i \in 1..4 \/ i = 5 \/ i = 6 \/ i = 7 \/ i \in 8..(n + 7) \/ i = n + 8
      BY <1>6, <1>8
    <2>2. CASE i \in 1..4 BY <1>2, <1>8, <2>2
    <2>3. CASE i = 5 BY <1>4, <1>9, <2>3
    <2>4. CASE i = 6 BY <1>4, <1>9, <2>4
    <2>5. CASE i = 7 BY <1>4, <1>9, <2>5
    <2>6. CASE i \in 8..(n + 7) BY <1>3, <1>10, <2>6 DEF n
    <2>7. CASE i = n + 8 BY <1>4, <1>9, <2>7
    <2> QED BY <2>1, <2>2, <2>3, <2>4, <2>5, <2>6, <2>7
  <1>12. Len(p) \in Nat /\ Len(p) >= 8 BY <1>6, <1>8
  <1>13. RangedShape(p)
    BY <1>2, <1>8, <1>9, <1>11, <1>12 DEF RangedShape, s5, s6, s7
  <1> QED BY <1>13 DEF p

\* The other programs neither have a range nor depend on one.
LEMMA OtherProgram ==
  ASSUME NEW command \in Commands \ Ranged, NEW policy, NEW modules, NEW changes
  PROVE  /\ \A i \in 1..Len(Program(command, policy, modules, changes)) :
               Program(command, policy, modules, changes)[i].do \notin {"diff", "bind"}
         /\ \A other : Program(command, policy, modules, changes) = Program(command, policy, modules, other)
  <1> DEFINE p == Program(command, policy, modules, changes)
             work == Work(command, policy, modules, changes)
             a == Before(command)
             first == [do |-> "open", gate |-> "workspace", module |-> Root]
             last == [do |-> "close", gate |-> "workspace", module |-> Root]
             inside == <<first>> \o work \o <<last>>
  <1>1. p = a \o inside BY DEF Program, Before, With, Do
  <1>2. /\ Sequence(a) /\ \A i \in 1..Len(a) : a[i].do = "check"
    BY BeforeIs
  <1>3. Sequence(work) /\ \A i \in 1..Len(work) : work[i].do \notin {"diff", "bind"}
    <2>1. Ready(work) BY WorkIsReady
    <2> HIDE DEF work
    <2>2. Fits(work, Ordinary, {"workspace"}) BY <2>1 DEF Ready
    <2> QED BY <2>2 DEF Fits, Ordinary
  <1>4. \A other : p = Program(command, policy, modules, other)
    <2>1. \A other : work = Work(command, policy, modules, other) BY WorkIsReady
    <2> HIDE DEF work
    <2> QED BY <2>1 DEF Program, work
  <1>5. first.do = "open" /\ last.do = "close" OBVIOUS
  <1> HIDE DEF p, work, a, first, last
  <1> DEFINE K == ElementsOf(work) \cup {first, last}
  <1>6. work \in Seq(K) /\ first \in K /\ last \in K /\ \A x \in K : x.do \notin {"diff", "bind"}
    BY <1>3, <1>5, SequenceIn DEF ElementsOf
  <1> HIDE DEF K
  <1>7. inside \in Seq(K) BY <1>6
  <1> HIDE DEF inside
  <1>8. Sequence(inside) /\ \A i \in 1..Len(inside) : inside[i].do \notin {"diff", "bind"}
    BY <1>6, <1>7, Sequences
  <1>9. ASSUME NEW i \in 1..Len(p) PROVE p[i].do \notin {"diff", "bind"}
    <2>1. /\ Len(a) \in Nat /\ Len(inside) \in Nat /\ Len(p) = Len(a) + Len(inside)
          /\ \A k \in 1..Len(a) : p[k] = a[k]
          /\ \A k \in 1..Len(inside) : p[Len(a) + k] = inside[k]
      BY <1>1, <1>2, <1>8, ConcatIs
    <2>2. CASE i \in 1..Len(a) BY <1>2, <2>1, <2>2
    <2>3. CASE i \notin 1..Len(a)
      <3>1. i - Len(a) \in 1..Len(inside) /\ Len(a) + (i - Len(a)) = i BY <2>1, <2>3
      <3> QED BY <1>8, <2>1, <3>1
    <2> QED BY <2>2, <2>3
  <1> QED BY <1>4, <1>9 DEF p

-----------------------------------------------------------------------------
(* What is owed is what the program does.                                  *)

\* The promises of a command, by the parts of its program.
LEMMA PromiseIs ==
  ASSUME NEW command \in Commands, NEW policy, invocation.policy = policy, NEW m,
         NEW flag, Gated(policy, m, flag), NEW gate \in Promise(command, m, flag)
  PROVE  /\ command = "check" =>
               \/ gate \in FullGates(policy, m)
               \/ Gated(policy, m, "security") /\ gate \in SecurityGates \cup {"security-suppressions", "SBOM"}
         /\ command \in {"local", "local-changes"} =>
               \/ gate \in LocalGates(policy, m)
               \/ Gated(policy, m, "security") /\ gate \in SecurityGates \cup {"security-suppressions"}
         /\ command = "release" =>
               Gated(policy, m, "security") /\ gate \in SecurityGates \cup {"security-suppressions", "SBOM"}
         /\ command = "coverage" => Gated(policy, m, "coverage") /\ gate = "coverage"
         /\ command = "docs" => Gated(policy, m, "documentation") /\ gate \in Documents(m)
         /\ command = "api-check" => Gated(policy, m, "api_compatibility") /\ gate = "api"
         /\ command = "mutation" =>
               /\ Gated(policy, m, "mutation")
               /\ gate = "mutation" \/ (gate = "mutation-import" /\ policy[m].imports)
         /\ command = "mutation-package" => gate = "mutation"
         /\ command \notin {"services", "api-update", "secrets", "secrets-changes", "workflows"}
  <1>1. flag \in {"security", "lint", "tests", "race", "coverage", "mutation", "documentation", "api_compatibility"}
    BY DEF Promise
  <1>2. CASE flag = "security"
    BY <1>2 DEF Promise, SecurityGates, FullGates, LocalGates
  <1>3. CASE flag = "lint"
    BY <1>3 DEF Promise, FullGates, LocalGates
  <1>4. CASE flag = "tests"
    BY <1>4 DEF Promise, FullGates, LocalGates
  <1>5. CASE flag = "race"
    BY <1>5 DEF Promise, FullGates, LocalGates
  <1>6. CASE flag = "coverage"
    BY <1>6 DEF Promise, FullGates, LocalGates
  <1>7. CASE flag = "mutation"
    BY <1>7 DEF Promise, FullGates, LocalGates
  <1>8. CASE flag = "documentation"
    BY <1>8 DEF Promise, FullGates, LocalGates, Documents
  <1>9. CASE flag = "api_compatibility"
    BY <1>9 DEF Promise, FullGates, LocalGates
  <1> QED BY <1>1, <1>2, <1>3, <1>4, <1>5, <1>6, <1>7, <1>8, <1>9

\* What comes after the range is a part of the program.
LEMMA AfterRangeDoes ==
  ASSUME NEW command \in Ranged, NEW policy, NEW modules, NEW changes, NEW gate, NEW m,
         Does(AfterRange(command, policy, modules, changes), gate, m)
  PROVE  Does(Work(command, policy, modules, changes), gate, m)
  <1> DEFINE rest == AfterRange(command, policy, modules, changes)
             range == ChangeRange \o SecretRange
  <1>1. Work(command, policy, modules, changes) = range \o rest BY WorkIs
  <1>2. Sequence(rest) BY AfterRangeFits, AreSequences DEF Ready
  <1>3. Sequence(range) BY DoIs, ConcatIs DEF ChangeRange, SecretRange
  <1>4. Does(rest, gate, m) OBVIOUS
  <1> HIDE DEF rest, range
  <1> QED BY <1>1, <1>2, <1>3, <1>4, DoesConcat

\* What a command owes, part by part.
Promised(m) == UNION {Promise(invocation.command, m, flag) : flag \in invocation.policy[m].gates}
Smoked(m) ==
    IF /\ invocation.command = "local-changes" /\ Operates(invocation.policy, m, "fuzz")
       /\ FuzzAffects(m, runner.range)
    THEN {"fuzz-smoke"} ELSE {}
OwedOf(m) == Unconditional(invocation.command) \cup Promised(m) \cup Smoked(m)
Secrets == {"secrets-history", "secrets-current-tree"}
OwedSecrets ==
    IF \/ invocation.command \in {"secrets", "secrets-changes", "local-changes"}
       \/ invocation.command \in {"check", "local", "release"}
          /\ \E m \in invocation.selection : Gated(invocation.policy, m, "security")
    THEN Secrets \X {Root} ELSE {}

\* Owed, by its parts.
LEMMA OwedIs == Owed = (UNION {OwedOf(m) \X {m} : m \in invocation.selection}) \cup OwedSecrets
  BY DEF Owed, OwedOf, Promised, Smoked, OwedSecrets, Secrets

\* Every gate that a command owes is a step of its program.
LEMMA OwedIsDone ==
  ASSUME NEW command \in Commands, NEW policy, NEW modules, modules \subseteq Directories, NEW changes,
         invocation.command = command, invocation.selection = modules, invocation.policy = policy,
         command = "local-changes" => runner.range = changes,
         NEW task \in Owed
  PROVE  Does(Program(command, policy, modules, changes), task[1], task[2])
  <1> DEFINE work == Work(command, policy, modules, changes)
  <1> SUFFICES Does(work, task[1], task[2])
    <2> HIDE DEF work
    <2>1. \A gate, m : Does(work, gate, m) => Does(Program(command, policy, modules, changes), gate, m)
      BY ProgramFits DEF work
    <2> QED BY <2>1
  <1>1. \/ \E m \in modules : task \in OwedOf(m) \X {m}
        \/ /\ task \in Secrets \X {Root}
           /\ \/ command \in {"secrets", "secrets-changes", "local-changes"}
              \/ /\ command \in {"check", "local", "release"}
                 /\ \E m \in modules : Gated(policy, m, "security")
    <2>1. task \in UNION {OwedOf(m) \X {m} : m \in modules} \/ task \in OwedSecrets BY OwedIs
    <2>2. task \in UNION {OwedOf(m) \X {m} : m \in modules} => \E m \in modules : task \in OwedOf(m) \X {m}
      OBVIOUS
    <2> QED BY <2>1, <2>2 DEF OwedSecrets
  <1>2. ASSUME NEW m \in modules, task \in OwedOf(m) \X {m} PROVE Does(work, task[1], task[2])
    <2>1. task[1] \in OwedOf(m) /\ task[2] = m BY <1>2
    <2>2. m \in modules \cap Directories OBVIOUS
    <2>3. CASE task[1] \in Unconditional(command)
      <3>1. \/ command \in {"check", "local", "local-changes"} /\ task[1] \in Always
            \/ command = "release" /\ task[1] \in {"release tag", "archive", "consume"}
        BY <2>3 DEF Unconditional, Always
      <3>2. \A gate \in Always : gate \in FullGates(policy, m) /\ gate \in LocalGates(policy, m)
        BY DEF FullGates, LocalGates
      <3>3. CASE command = "check" BY <2>1, <2>2, <3>1, <3>2, <3>3, CheckAllFits DEF Work
      <3>4. CASE command = "local" BY <2>1, <2>2, <3>1, <3>2, <3>4, LocalFits DEF Work
      <3>5. CASE command = "local-changes"
        BY <2>1, <2>2, <3>1, <3>2, <3>5, AfterRangeFits, AfterRangeDoes DEF Ranged
      <3>6. CASE command = "release" BY <2>1, <2>2, <3>1, <3>6, ReleaseFits DEF Work
      <3> QED BY <3>1, <3>3, <3>4, <3>5, <3>6
    <2>4. CASE \E flag \in policy[m].gates : task[1] \in Promise(command, m, flag)
      <3>1. PICK flag : Gated(policy, m, flag) /\ task[1] \in Promise(command, m, flag)
        BY <2>4 DEF Gated
      <3> DEFINE gate == task[1]
      <3>2. /\ command = "check" =>
                  \/ gate \in FullGates(policy, m)
                  \/ Gated(policy, m, "security") /\ gate \in SecurityGates \cup {"security-suppressions", "SBOM"}
            /\ command \in {"local", "local-changes"} =>
                  \/ gate \in LocalGates(policy, m)
                  \/ Gated(policy, m, "security") /\ gate \in SecurityGates \cup {"security-suppressions"}
            /\ command = "release" =>
                  Gated(policy, m, "security") /\ gate \in SecurityGates \cup {"security-suppressions", "SBOM"}
            /\ command = "coverage" => Gated(policy, m, "coverage") /\ gate = "coverage"
            /\ command = "docs" => Gated(policy, m, "documentation") /\ gate \in Documents(m)
            /\ command = "api-check" => Gated(policy, m, "api_compatibility") /\ gate = "api"
            /\ command = "mutation" =>
                  /\ Gated(policy, m, "mutation")
                  /\ gate = "mutation" \/ (gate = "mutation-import" /\ policy[m].imports)
            /\ command = "mutation-package" => gate = "mutation"
            /\ command \notin {"services", "api-update", "secrets", "secrets-changes", "workflows"}
        BY <3>1, PromiseIs
      <3>3. CASE command = "check" BY <2>1, <2>2, <3>2, <3>3, CheckAllFits DEF Work
      <3>4. CASE command = "local" BY <2>1, <2>2, <3>2, <3>4, LocalFits DEF Work
      <3>5. CASE command = "local-changes"
        BY <2>1, <2>2, <3>2, <3>5, AfterRangeFits, AfterRangeDoes DEF Ranged
      <3>6. CASE command = "release" BY <2>1, <2>2, <3>2, <3>6, ReleaseFits DEF Work
      <3>7. CASE command = "coverage" BY <2>1, <2>2, <3>2, <3>7, CoverageGateFits DEF Work
      <3>8. CASE command = "docs" BY <2>1, <2>2, <3>2, <3>8, DocsFit DEF Work
      <3>9. CASE command = "api-check"
        <4>1. work = API(policy, modules, FALSE) BY <3>9, WorkIs
        <4>2. Gated(policy, m, "api_compatibility") /\ task[1] = "api" BY <3>2, <3>9
        <4>3. Does(API(policy, modules, FALSE), "api", m) BY <2>2, <4>2, APIFits
        <4> QED BY <2>1, <4>1, <4>2, <4>3
      <3>10. CASE command = "mutation" BY <2>1, <2>2, <3>2, <3>10, MutationGateFits DEF Work
      <3>11. CASE command = "mutation-package" BY <2>1, <2>2, <3>2, <3>11, MutationPackageFits DEF Work
      <3> QED BY <3>2, <3>3, <3>4, <3>5, <3>6, <3>7, <3>8, <3>9, <3>10, <3>11 DEF Commands
    <2>5. CASE /\ command = "local-changes" /\ Operates(policy, m, "fuzz")
               /\ FuzzAffects(m, runner.range) /\ task[1] = "fuzz-smoke"
      BY <2>1, <2>2, <2>5, AfterRangeFits, AfterRangeDoes DEF Ranged
    <2>6. task[1] \in Unconditional(command) \/ task[1] \in Promised(m) \/ task[1] \in Smoked(m)
      BY <2>1 DEF OwedOf
    <2>7. task[1] \in Promised(m) => \E flag \in policy[m].gates : task[1] \in Promise(command, m, flag)
      BY DEF Promised
    <2>8. task[1] \in Smoked(m) => /\ command = "local-changes" /\ Operates(policy, m, "fuzz")
                                   /\ FuzzAffects(m, runner.range) /\ task[1] = "fuzz-smoke"
      BY DEF Smoked
    <2> HIDE DEF work
    <2> QED BY <2>3, <2>4, <2>5, <2>6, <2>7, <2>8
  <1>3. CASE /\ task \in Secrets \X {Root}
             /\ \/ command \in {"secrets", "secrets-changes", "local-changes"}
                \/ /\ command \in {"check", "local", "release"}
                   /\ \E m \in modules : Gated(policy, m, "security")
    <2>1. task[1] \in Secrets /\ task[2] = Root BY <1>3
    <2>2. CASE command \in Ranged
      BY <2>1, <2>2, AfterRangeFits, AfterRangeDoes DEF Secrets
    <2>3. CASE command = "secrets"
      BY <2>1, <2>3, SecretsFit DEF Work, Secrets
    <2>4. CASE command \in {"check", "local", "release"}
      <3>1. PICK m \in modules \cap Directories : Gated(policy, m, "security")
        BY <1>3, <2>4
      <3>2. CASE command = "check" BY <2>1, <3>1, <3>2, CheckAllFits DEF Work, Secrets
      <3>3. CASE command = "local" BY <2>1, <3>1, <3>3, LocalFits DEF Work, Secrets
      <3>4. CASE command = "release" BY <2>1, <3>1, <3>4, ReleaseFits DEF Work, Secrets
      <3> QED BY <2>4, <3>2, <3>3, <3>4
    <2> QED BY <1>3, <2>2, <2>3, <2>4 DEF Ranged
  <1> HIDE DEF work
  <1> QED BY <1>1, <1>2, <1>3

\* What is owed is a gate of a module.
LEMMA OwedIsPairs == ASSUME NEW task \in Owed PROVE task = <<task[1], task[2]>>
  <1>1. \/ \E m \in invocation.selection : task \in OwedOf(m) \X {m}
        \/ task \in Secrets \X {Root}
    <2>1. task \in UNION {OwedOf(m) \X {m} : m \in invocation.selection} \/ task \in OwedSecrets BY OwedIs
    <2> QED BY <2>1 DEF OwedSecrets
  <1> QED BY <1>1

-----------------------------------------------------------------------------
(* The invariant of the process.                                           *)

IsRunner(r) ==
    r = [at |-> r.at, phase |-> r.phase, scopes |-> r.scopes, retained |-> r.retained,
         changes |-> r.changes, range |-> r.range, problems |-> r.problems, exit |-> r.exit]

Shapes ==
    /\ invocation.command \in Commands /\ invocation.selection \subseteq Directories
    /\ IsRunner(runner)
    /\ runner.at \in Nat
    /\ repository = [head |-> repository.head, edited |-> repository.edited]
    /\ history = [passed |-> history.passed, late |-> history.late]

\* Where the process is, and what it will return.
Phases ==
    /\ runner.at \in 1..(Len(Steps) + 1)
    /\ runner.phase \in {"running", "unwinding", "exited"}
    /\ runner.problems \subseteq {"step", "cleanup"}
    /\ runner.phase = "running" => runner.problems = {} /\ runner.exit = "none"
    /\ runner.phase = "unwinding" => runner.problems # {} /\ runner.exit = "none"
    /\ runner.phase = "exited" =>
          /\ runner.scopes = <<>>
          /\ runner.exit = "0" => runner.problems = {} /\ runner.at = Len(Steps) + 1

\* No scope is open twice, and the workspace is below every other.
Distinct(stack) ==
    /\ Sequence(stack)
    /\ \A i, j \in 1..Len(stack) : stack[i].name = stack[j].name => i = j
    /\ \A i \in 1..Len(stack) : stack[i].name = "workspace" <=> i = 1

\* While the program goes on, the open scopes are those that its steps left open.
Bracketed ==
    /\ Distinct(runner.scopes)
    /\ runner.phase = "running" =>
          /\ Stacked(runner.scopes)
          /\ \E scopes : Scopes(Steps, <<>>, scopes) /\ runner.scopes = scopes[runner.at - 1]

\* Who removes a file: its scope, the scan pass that keeps a tool, the workspace it
\* is in; or it is a snapshot whose publication failed.
Accounted(file) ==
    \/ \E i \in 1..Len(runner.scopes) : file \in Stored(runner.scopes[i])
    \/ file \in runner.retained
    \/ file.name \in {"coverage profile", "api snapshot"} /\ runner.scopes # <<>>
    \/ file.name = "baseline snapshot" /\ runner.problems # {}

Disk ==
    /\ \A i \in 1..Len(runner.scopes) : Stored(runner.scopes[i]) \subseteq files
    /\ runner.retained \subseteq files
    /\ \A tool \in runner.retained : tool.name \in Tools /\ tool.name \notin NamesIn(runner.scopes)
    /\ runner.retained # {} => InScanPass(runner.scopes)
    /\ "cleanup" \in runner.problems \/ \A file \in files : Accounted(file)

\* What has passed, up to where the program is.
Completes(step) == step.do \in {"check", "scan", "code"}
Progress ==
    /\ repository.edited => \E i \in 1..Len(Steps) : i < runner.at /\ Steps[i].do = "code"
    /\ \A i \in 1..Len(Steps) :
          i < runner.at /\ Completes(Steps[i]) => <<Steps[i].gate, Steps[i].module>> \in history.passed
    /\ history.late = {}

\* Once bound, the range that is scanned is the one that was compared.
Bound == invocation.command \in Ranged /\ runner.at >= 8 => runner.range = runner.changes

Invariant == Shapes /\ Phases /\ Bracketed /\ Disk /\ Progress /\ Bound

\* The program of the process, in any of its states.
LEMMA StepsAre ==
  ASSUME Shapes
  PROVE  /\ Sequence(Steps) /\ Len(Steps) \in Nat /\ Nests(Steps, <<>>) /\ ScansFirst(Steps)
         /\ \A i \in 1..Len(Steps) : Steps[i].do \in Kinds
         /\ invocation.command \in Ranged => RangedShape(Steps)
         /\ invocation.command \notin Ranged => \A i \in 1..Len(Steps) : Steps[i].do \notin {"diff", "bind"}
  <1>1. invocation.command \in Commands BY DEF Shapes
  <1>2. Sequence(Steps) /\ Nests(Steps, <<>>) /\ ScansFirst(Steps) /\ \A i \in 1..Len(Steps) : Steps[i].do \in Kinds
    BY <1>1, ProgramFits DEF Steps
  <1>3. invocation.command \in Ranged => RangedShape(Steps)
    BY RangedProgram DEF Steps
  <1>4. invocation.command \notin Ranged => \A i \in 1..Len(Steps) : Steps[i].do \notin {"diff", "bind"}
    BY <1>1, OtherProgram DEF Steps
  <1>5. Len(Steps) \in Nat BY <1>2, Sequences DEF Sequence
  <1> QED BY <1>2, <1>3, <1>4, <1>5

\* The program changes only with the range that it reads.
LEMMA StepsStay ==
  ASSUME UNCHANGED invocation, runner'.changes = runner.changes
  PROVE  Steps' = Steps
  BY DEF Steps

\* The next step, and the scopes after it.
LEMMA Ahead ==
  ASSUME Invariant, Running
  PROVE  \E scopes : /\ Scopes(Steps, <<>>, scopes) /\ runner.scopes = scopes[runner.at - 1]
                     /\ Sequence(scopes[runner.at]) /\ Turns(Current, runner.scopes, scopes[runner.at])
  <1>1. PICK x : Scopes(Steps, <<>>, x) /\ runner.scopes = x[runner.at - 1]
    BY DEF Invariant, Bracketed, Running
  <1>2. runner.at \in 1..Len(Steps) /\ runner.at \in 0..Len(Steps)
    BY StepsAre DEF Invariant, Phases, Running
  <1>3. Sequence(x[runner.at]) /\ Turns(Steps[runner.at], x[runner.at - 1], x[runner.at])
    BY <1>1, <1>2 DEF Scopes
  <1> QED BY <1>1, <1>3 DEF Current

\* The fields of the process after a step.
Becomes(at, phase, scopes, retained, problems) ==
    /\ IsRunner(runner')
    /\ runner'.at = at /\ runner'.phase = phase
    /\ runner'.scopes = scopes /\ runner'.retained = retained
    /\ runner'.problems = problems /\ runner'.exit = runner.exit
Ranges(changes, range) == runner'.changes = changes /\ runner'.range = range

\* The process after each of the updates that its actions make.
LEMMA ProceedIs ==
  ASSUME IsRunner(runner)
  PROVE  /\ Proceed(runner) =>
               /\ Becomes(runner.at + 1, runner.phase, runner.scopes, runner.retained, runner.problems)
               /\ Ranges(runner.changes, runner.range)
         /\ \A s : Proceed([runner EXCEPT !.scopes = s]) =>
               /\ Becomes(runner.at + 1, runner.phase, s, runner.retained, runner.problems)
               /\ Ranges(runner.changes, runner.range)
         /\ \A s : Proceed([runner EXCEPT !.retained = s]) =>
               /\ Becomes(runner.at + 1, runner.phase, runner.scopes, s, runner.problems)
               /\ Ranges(runner.changes, runner.range)
         /\ \A s : Proceed([runner EXCEPT !.changes = s]) =>
               /\ Becomes(runner.at + 1, runner.phase, runner.scopes, runner.retained, runner.problems)
               /\ Ranges(s, runner.range)
         /\ \A s : Proceed([runner EXCEPT !.range = s]) =>
               /\ Becomes(runner.at + 1, runner.phase, runner.scopes, runner.retained, runner.problems)
               /\ Ranges(runner.changes, s)
  BY DEF IsRunner, Proceed, Becomes, Ranges

LEMMA StopIs ==
  ASSUME IsRunner(runner)
  PROVE  /\ runner' = [runner EXCEPT !.phase = "unwinding", !.problems = @ \cup {"step"}] =>
               /\ Becomes(runner.at, "unwinding", runner.scopes, runner.retained, runner.problems \cup {"step"})
               /\ Ranges(runner.changes, runner.range)
         /\ \A s : runner' = [runner EXCEPT !.phase = "unwinding", !.problems = @ \cup {"step"}, !.scopes = s] =>
               /\ Becomes(runner.at, "unwinding", s, runner.retained, runner.problems \cup {"step"})
               /\ Ranges(runner.changes, runner.range)
  BY DEF IsRunner, Becomes, Ranges

LEMMA PopIs ==
  ASSUME IsRunner(runner)
  PROVE  LET kept == IF Innermost.name = "compiler tools" THEN {} ELSE runner.retained
         IN  /\ Pop(runner) =>
                   /\ Becomes(IF runner.phase = "running" THEN runner.at + 1 ELSE runner.at,
                              runner.phase, Front(runner.scopes), kept, runner.problems)
                   /\ Ranges(runner.changes, runner.range)
             /\ Pop([runner EXCEPT !.phase = "unwinding", !.problems = @ \cup {"cleanup"}]) =>
                   /\ Becomes(runner.at, "unwinding", Front(runner.scopes), kept, runner.problems \cup {"cleanup"})
                   /\ Ranges(runner.changes, runner.range)
  BY DEF IsRunner, Pop, Proceed, Becomes, Ranges

-----------------------------------------------------------------------------
(* Scopes that are popped.                                                 *)

\* A stack without its innermost scope.
LEMMA FrontIs ==
  ASSUME NEW s, Sequence(s), s # <<>>
  PROVE  /\ Sequence(Front(s)) /\ Len(s) \in Nat /\ Len(s) >= 1 /\ Len(Front(s)) = Len(s) - 1
         /\ \A i \in 1..(Len(s) - 1) : Front(s)[i] = s[i]
  <1> DEFINE E == ElementsOf(s)
             n == Len(s)
  <1>1. s \in Seq(E) BY DEF Sequence
  <1> HIDE DEF E
  <1>2. n \in Nat /\ n >= 1 /\ \A i \in 1..n : s[i] \in E BY <1>1
  <1>3. Front(s) = [i \in 1..(n - 1) |-> s[i]]
    <2>1. (n - 1) - 1 + 1 = n - 1 /\ \A i \in 1..(n - 1) : 1 + i - 1 = i BY <1>2
    <2>2. Front(s) = SubSeq(s, 1, n - 1) BY DEF Front
    <2>3. SubSeq(s, 1, n - 1) = [i \in 1..(n - 1) |-> s[i]] BY <1>1, <1>2
    <2> QED BY <2>2, <2>3
  <1> HIDE DEF n
  <1>4. [i \in 1..(n - 1) |-> s[i]] \in Seq(E) BY <1>2
  <1>5. /\ Sequence(Front(s)) /\ Len(Front(s)) = n - 1 /\ \A i \in 1..(n - 1) : Front(s)[i] = s[i]
    BY <1>2, <1>3, <1>4, Sequences
  <1> QED BY <1>2, <1>5 DEF n

\* Front undoes Append.
LEMMA FrontOfAppend ==
  ASSUME NEW s, Sequence(s), NEW r
  PROVE  /\ Sequence(Append(s, r)) /\ Front(Append(s, r)) = s /\ Append(s, r) # <<>>
         /\ Len(Append(s, r)) = Len(s) + 1 /\ Len(s) \in Nat
         /\ Append(s, r)[Len(s) + 1] = r
         /\ \A i \in 1..Len(s) : Append(s, r)[i] = s[i]
         /\ NamesIn(Append(s, r)) = NamesIn(s) \cup {r.name}
  <1> DEFINE H == ElementsOf(s) \cup {r}
             t == Append(s, r)
             n == Len(s)
  <1>1. s \in Seq(H) /\ r \in H BY SequenceIn
  <1> HIDE DEF H
  <1>2. /\ t \in Seq(H) /\ n \in Nat /\ Len(t) = n + 1 /\ t[n + 1] = r
        /\ \A i \in 1..n : t[i] = s[i]
    BY <1>1
  <1> HIDE DEF t
  <1>3. Sequence(t) /\ t # <<>>
    <2>1. Len(<<>>) = 0 OBVIOUS
    <2> QED BY <1>2, <2>1, Sequences
  <1>4. Front(t) = s
    <2> DEFINE u == Front(t)
    <2>1. Sequence(u) /\ Len(u) = n /\ \A i \in 1..n : u[i] = s[i]
      <3>1. Sequence(u) /\ Len(u) = Len(t) - 1 /\ \A i \in 1..(Len(t) - 1) : u[i] = t[i]
        BY <1>3, FrontIs
      <3> HIDE DEF u, n
      <3>2. n \in Nat /\ Len(t) = n + 1 /\ \A i \in 1..n : t[i] = s[i] BY <1>2
      <3>3. Len(t) - 1 = n BY ONLY <3>2
      <3> QED BY ONLY <3>1, <3>2, <3>3
    <2> DEFINE J == H \cup ElementsOf(u)
    <2>2. u \in Seq(J) /\ s \in Seq(J) BY <2>1, SequenceIn
    <2> HIDE DEF u, J
    <2>3. u = s BY <1>2, <2>1, <2>2 DEF n
    <2> QED BY <2>3 DEF u
  <1>5. NamesIn(t) = NamesIn(s) \cup {r.name}
    <2>1. \A i \in 1..(n + 1) : i \in 1..n \/ i = n + 1 BY <1>2
    <2>2. n + 1 \in 1..(n + 1) /\ \A i \in 1..n : i \in 1..(n + 1) BY <1>2
    <2> QED BY <1>2, <2>1, <2>2 DEF NamesIn
  <1> QED BY <1>2, <1>3, <1>4, <1>5 DEF t

\* What is left of a stack is one, with the other names.
LEMMA Popped ==
  ASSUME NEW s, Distinct(s), s # <<>>
  PROVE  /\ Distinct(Front(s)) /\ NamesIn(Front(s)) \subseteq NamesIn(s)
         /\ \A name \in NamesIn(s) : name # s[Len(s)].name => name \in NamesIn(Front(s))
         /\ Stacked(s) => Stacked(Front(s))
  <1> DEFINE t == Front(s)
             n == Len(s)
  <1>1. /\ Sequence(t) /\ n \in Nat /\ n >= 1 /\ Len(t) = n - 1
        /\ \A i \in 1..(n - 1) : t[i] = s[i] /\ i \in 1..n
    BY FrontIs DEF Distinct
  <1> HIDE DEF t, n
  <1>2. /\ \A i, j \in 1..n : s[i].name = s[j].name => i = j
        /\ \A i \in 1..n : s[i].name = "workspace" <=> i = 1
    BY DEF Distinct, n
  <1>3. Distinct(t) BY <1>1, <1>2 DEF Distinct
  <1>4. NamesIn(t) \subseteq NamesIn(s) BY <1>1 DEF NamesIn, n
  <1>5. ASSUME NEW name \in NamesIn(s), name # s[n].name PROVE name \in NamesIn(t)
    <2>1. PICK i \in 1..n : s[i].name = name BY DEF NamesIn, n
    <2>2. i \in 1..(n - 1) BY <1>1, <1>5, <2>1
    <2> QED BY <1>1, <2>1, <2>2 DEF NamesIn
  <1>6. Stacked(s) => Stacked(t)
    <2>1. InScanPass(t) => InScanPass(s) BY <1>4 DEF InScanPass
    <2> QED BY <1>3, <1>4, <2>1 DEF Stacked, Distinct
  <1> QED BY <1>3, <1>4, <1>5, <1>6 DEF t, n

LEMMA StackedDistinct == ASSUME NEW s, Stacked(s) PROVE Distinct(s)
  BY DEF Stacked, Distinct

\* The kinds of the first steps of a program that reads a range.
LEMMA RangeSteps ==
  ASSUME NEW p, RangedShape(p)
  PROVE  /\ Len(p) \in Nat /\ Len(p) >= 8
         /\ p[5].do = "open" /\ p[6].do = "diff" /\ p[7].do = "bind"
         /\ \A i \in 1..Len(p) : (p[i].do = "diff" => i = 6) /\ (p[i].do = "bind" => i = 7)
  <1>1. /\ p[5] = [do |-> "open", gate |-> "workspace", module |-> Root]
        /\ p[6] = [do |-> "diff", gate |-> "changes", module |-> Root]
        /\ p[7] = [do |-> "bind", gate |-> "change range", module |-> Root]
    BY DEF RangedShape
  <1>2. p[5].do = "open"
    <2>1. [do |-> "open", gate |-> "workspace", module |-> Root].do = "open" OBVIOUS
    <2> QED BY <1>1, <2>1, Zenon
  <1>3. p[6].do = "diff"
    <2>1. [do |-> "diff", gate |-> "changes", module |-> Root].do = "diff" OBVIOUS
    <2> QED BY <1>1, <2>1, Zenon
  <1>4. p[7].do = "bind"
    <2>1. [do |-> "bind", gate |-> "change range", module |-> Root].do = "bind" OBVIOUS
    <2> QED BY <1>1, <2>1, Zenon
  <1>5. Len(p) \in Nat /\ Len(p) >= 8 BY DEF RangedShape
  <1>6. ASSUME NEW i \in 1..Len(p) PROVE (p[i].do = "diff" => i = 6) /\ (p[i].do = "bind" => i = 7)
    BY Zenon DEF RangedShape
  <1> QED BY <1>2, <1>3, <1>4, <1>5, <1>6

LEMMA InPassIs == InPass <=> InScanPass(runner.scopes)
  BY DEF InPass, InScanPass, NamesIn

-----------------------------------------------------------------------------
(* Parts of the invariant, by what a step does to the process.             *)

\* A step that ends in failure.
LEMMA Unwinds ==
  ASSUME Invariant, runner.phase \in {"running", "unwinding"},
         NEW s, Distinct(s), NEW kept, NEW problems \in SUBSET {"step", "cleanup"}, problems # {},
         Becomes(runner.at, "unwinding", s, kept, problems), Ranges(runner.changes, runner.range),
         UNCHANGED <<invocation, repository, history>>
  PROVE  Shapes' /\ Phases' /\ Bracketed' /\ Progress' /\ Bound'
  <1>1. Steps' = Steps BY StepsStay DEF Ranges
  <1>2. Shapes' BY DEF Invariant, Shapes, Becomes
  <1>3. runner'.exit = "none" BY DEF Invariant, Phases, Becomes
  <1>4. Phases' BY <1>1, <1>3 DEF Invariant, Phases, Becomes
  <1>5. Bracketed' BY DEF Bracketed, Becomes
  <1>6. Progress' BY <1>1 DEF Invariant, Progress, Becomes
  <1>7. Bound' BY DEF Invariant, Bound, Becomes, Ranges
  <1> QED BY <1>2, <1>4, <1>5, <1>6, <1>7

\* A step that passes.
LEMMA Advances ==
  ASSUME Invariant, Running, Current.do # "diff",
         NEW s, Stacked(s),
         \A above : Sequence(above) /\ Turns(Current, runner.scopes, above) => above = s,
         NEW kept, Becomes(runner.at + 1, runner.phase, s, kept, runner.problems),
         runner'.changes = runner.changes,
         Current.do # "bind" => runner'.range = runner.range,
         Current.do = "bind" => runner'.range = runner.changes,
         UNCHANGED invocation,
         repository' = [head |-> repository'.head, edited |-> repository'.edited],
         repository'.edited => repository.edited \/ Current.do = "code",
         history' = [passed |-> history'.passed, late |-> history'.late],
         history.passed \subseteq history'.passed,
         Completes(Current) => <<Current.gate, Current.module>> \in history'.passed,
         history'.late = {}
  PROVE  Shapes' /\ Phases' /\ Bracketed' /\ Progress' /\ Bound'
  <1>1. Steps' = Steps BY StepsStay
  <1>2. runner.at \in Nat /\ Len(Steps) \in Nat /\ runner.at \in 1..Len(Steps) /\ Current = Steps[runner.at]
        /\ runner.phase = "running"
    BY StepsAre DEF Invariant, Phases, Running, Current
  <1>3. Shapes' BY <1>2 DEF Invariant, Shapes, Becomes
  <1>4. Phases' BY <1>1, <1>2 DEF Invariant, Phases, Becomes
  <1>5. Bracketed'
    <2>1. PICK x : /\ Scopes(Steps, <<>>, x) /\ Sequence(x[runner.at])
                   /\ Turns(Current, runner.scopes, x[runner.at])
      BY Ahead
    <2>2. x[runner.at] = s BY <2>1
    <2>3. runner'.at - 1 = runner.at /\ runner'.scopes = s BY <1>2 DEF Becomes
    <2>4. Distinct(s) BY StackedDistinct
    <2> QED BY <1>1, <2>1, <2>2, <2>3, <2>4 DEF Bracketed
  <1>6. Progress'
    <2>1. runner'.at = runner.at + 1 BY DEF Becomes
    <2>2. repository'.edited => \E i \in 1..Len(Steps) : i < runner.at + 1 /\ Steps[i].do = "code"
      <3>1. repository.edited => \E i \in 1..Len(Steps) : i < runner.at /\ Steps[i].do = "code"
        BY DEF Invariant, Progress
      <3> QED BY <1>2, <3>1
    <2>3. ASSUME NEW i \in 1..Len(Steps), i < runner.at + 1, Completes(Steps[i])
          PROVE  <<Steps[i].gate, Steps[i].module>> \in history'.passed
      <3>1. i < runner.at \/ i = runner.at BY <1>2, <2>3
      <3> QED BY <1>2, <2>3, <3>1 DEF Invariant, Progress
    <2> QED BY <1>1, <2>1, <2>2, <2>3 DEF Progress
  <1>7. Bound'
    <2> SUFFICES ASSUME invocation.command \in Ranged, runner.at + 1 >= 8 PROVE runner'.range = runner'.changes
      BY DEF Bound, Becomes
    <2>1. CASE Current.do = "bind" BY <2>1
    <2>2. CASE Current.do # "bind"
      <3>1. runner.at # 7
        <4>1. RangedShape(Steps) BY StepsAre DEF Invariant
        <4>2. Steps[7].do = "bind" BY <4>1, RangeSteps
        <4> QED BY <1>2, <2>2, <4>2
      <3>2. runner.at >= 8 BY <1>2, <3>1
      <3> QED BY <2>2, <3>2 DEF Invariant, Bound
    <2> QED BY <2>1, <2>2
  <1> QED BY <1>3, <1>4, <1>5, <1>6, <1>7

\* The disk, when no scope opens or closes.
LEMMA DiskStays ==
  ASSUME Disk, UNCHANGED files, NEW at, NEW phase, NEW problems, runner.problems \subseteq problems,
         Becomes(at, phase, runner.scopes, runner.retained, problems)
  PROVE  Disk'
  <1>1. ASSUME NEW file \in files, Accounted(file) PROVE Accounted(file)'
    BY <1>1 DEF Accounted, Becomes, Stored
  <1> QED BY <1>1 DEF Disk, Becomes, Stored

\* The disk, when a scope opens.
LEMMA DiskOpens ==
  ASSUME Disk, Sequence(runner.scopes), NEW r,
         \A tool \in runner.retained : tool.name # r.name,
         files' = files \cup Stored(r),
         NEW at, NEW phase, NEW problems, runner.problems \subseteq problems,
         Becomes(at, phase, Append(runner.scopes, r), runner.retained, problems)
  PROVE  Disk'
  <1> DEFINE s == runner.scopes
             t == Append(s, r)
             n == Len(s)
  <1>1. /\ n \in Nat /\ Len(t) = n + 1 /\ t[n + 1] = r /\ t # <<>>
        /\ \A i \in 1..n : t[i] = s[i]
        /\ NamesIn(t) = NamesIn(s) \cup {r.name}
    <2>1. Sequence(s) OBVIOUS
    <2> HIDE DEF s
    <2> QED BY <2>1, FrontOfAppend
  <1>2. runner'.scopes = t /\ runner'.retained = runner.retained /\ runner'.problems = problems
    BY DEF Becomes
  <1>3. /\ \A i \in 1..n : Stored(s[i]) \subseteq files
        /\ runner.retained \subseteq files
        /\ \A tool \in runner.retained : tool.name \in Tools /\ tool.name \notin NamesIn(s)
        /\ runner.retained # {} => InScanPass(s)
        /\ "cleanup" \in runner.problems \/ \A file \in files : Accounted(file)
    BY DEF Disk
  <1> HIDE DEF s, t, n
  <1>4. \A i \in 1..(n + 1) : i \in 1..n \/ i = n + 1 BY <1>1
  <1>5. \A i \in 1..(n + 1) : Stored(t[i]) \subseteq files' BY <1>1, <1>3, <1>4
  <1>6. InScanPass(s) => InScanPass(t) BY <1>1 DEF InScanPass
  <1>7. ASSUME NEW file \in files', \A f \in files : Accounted(f) PROVE Accounted(file)'
    <2>1. CASE file \in Stored(r)
      <3>1. n + 1 \in 1..(n + 1) BY <1>1
      <3> QED BY <1>1, <1>2, <2>1, <3>1 DEF Accounted, Stored
    <2>2. CASE file \in files
      <3>1. Accounted(file) BY <1>7, <2>2
      <3>2. \A i \in 1..n : i \in 1..(n + 1) BY <1>1
      <3>3. (\E i \in 1..n : file \in Stored(s[i])) => \E i \in 1..(n + 1) : file \in Stored(t[i])
        BY <1>1, <3>2
      <3>4. runner.problems # {} => problems # {} OBVIOUS
      <3> QED BY <1>1, <1>2, <3>1, <3>3, <3>4 DEF Accounted, s, n, Stored
    <2> QED BY <2>1, <2>2
  <1> QED BY <1>1, <1>2, <1>3, <1>5, <1>6, <1>7 DEF Disk, Stored

\* A tool that the scan pass keeps.
LEMMA DiskKeeps ==
  ASSUME Disk, InScanPass(runner.scopes), NEW r, r.name \in Tools, r.name \notin NamesIn(runner.scopes),
         files' = files \cup {r},
         NEW at, NEW phase,
         Becomes(at, phase, runner.scopes, runner.retained \cup {r}, runner.problems)
  PROVE  Disk'
  <1>1. ASSUME NEW file \in files', \A f \in files : Accounted(f) PROVE Accounted(file)'
    <2>1. CASE file = r BY <2>1 DEF Accounted, Becomes
    <2>2. CASE file \in files
      <3>1. Accounted(file) BY <1>1, <2>2
      <3> QED BY <3>1 DEF Accounted, Becomes, Stored
    <2> QED BY <2>1, <2>2
  <1> QED BY <1>1 DEF Disk, Becomes, Stored

\* The innermost scope, closed: what cannot be removed of it is reported, or is one
\* of the resources whose removal is not checked.
LEMMA DiskCloses ==
  ASSUME Disk, Distinct(runner.scopes), runner.scopes # <<>>,
         files \ Owned \subseteq files', files' \subseteq files,
         NEW at, NEW phase, NEW problems, runner.problems \subseteq problems,
         Becomes(at, phase, Front(runner.scopes),
                 IF Innermost.name = "compiler tools" THEN {} ELSE runner.retained, problems),
         \/ "cleanup" \in problems
         \/ \A file \in files' : file \in Owned =>
               /\ file = Innermost /\ Silent(Innermost)
               /\ Innermost.name = "baseline snapshot" => problems # {}
  PROVE  Disk'
  <1> DEFINE s == runner.scopes
             t == Front(s)
             n == Len(s)
             top == s[n]
             kept == IF top.name = "compiler tools" THEN {} ELSE runner.retained
  <1>1. /\ n \in Nat /\ n >= 1 /\ Len(t) = n - 1
        /\ \A i \in 1..(n - 1) : t[i] = s[i] /\ i \in 1..n
    <2>1. Sequence(s) /\ s # <<>> BY DEF Distinct
    <2> HIDE DEF s
    <2>2. /\ Sequence(t) /\ n \in Nat /\ n >= 1 /\ Len(t) = n - 1
          /\ \A i \in 1..(n - 1) : t[i] = s[i]
      BY <2>1, FrontIs
    <2> HIDE DEF t, n
    <2>3. \A i \in 1..(n - 1) : i \in 1..n BY ONLY <2>2
    <2> QED BY ONLY <2>2, <2>3
  <1>2. runner'.scopes = t /\ runner'.retained = kept /\ runner'.problems = problems /\ Innermost = top
    BY DEF Becomes, Innermost
  <1>3. /\ \A i \in 1..n : Stored(s[i]) \subseteq files
        /\ runner.retained \subseteq files
        /\ \A tool \in runner.retained : tool.name \in Tools /\ tool.name \notin NamesIn(s)
        /\ runner.retained # {} => InScanPass(s)
        /\ "cleanup" \in runner.problems \/ \A file \in files : Accounted(file)
    BY DEF Disk
  <1>4. /\ \A i, j \in 1..n : s[i].name = s[j].name => i = j
        /\ \A i \in 1..n : s[i].name = "workspace" <=> i = 1
        /\ n \in 1..n
    <2>1. Distinct(s) OBVIOUS
    <2>2. n \in Nat /\ n >= 1 BY <1>1
    <2> HIDE DEF s
    <2>3. /\ \A i, j \in 1..n : s[i].name = s[j].name => i = j
          /\ \A i \in 1..n : s[i].name = "workspace" <=> i = 1
      BY <2>1 DEF Distinct
    <2> HIDE DEF n
    <2>4. n \in 1..n BY ONLY <2>2
    <2> QED BY ONLY <2>3, <2>4
  <1>5. /\ NamesIn(t) \subseteq NamesIn(s)
        /\ \A name \in NamesIn(s) : name # top.name => name \in NamesIn(t)
    BY Popped
  <1>6. /\ top.name = "compiler tools" => Owned = runner.retained
        /\ top.name = "workspace" => Owned = {file \in files : InWorkspace(file)} \cup {top}
        /\ top.name \notin {"compiler tools", "workspace"} => Owned = {top}
    BY <1>2 DEF Owned
  <1>7. \A i \in 1..n : s[i].name \in NamesIn(s) BY DEF NamesIn
  <1> HIDE DEF s, t, n, top
  <1>8. top.name = "workspace" <=> n = 1 BY <1>4 DEF top
  <1>9. n = 1 => runner.retained = {}
    <2> SUFFICES ASSUME n = 1, runner.retained # {} PROVE FALSE OBVIOUS
    <2>1. InScanPass(s) BY <1>3
    <2>2. PICK i \in 1..n : s[i].name = "compiler tools" BY <2>1 DEF InScanPass, NamesIn, n
    <2>3. i = 1 BY ONLY i \in 1..n, n = 1
    <2>4. s[i].name = "workspace" BY <1>4, <2>3, Zenon
    <2>5. "workspace" # "compiler tools" OBVIOUS
    <2> QED BY <2>2, <2>4, <2>5, Zenon
  <1>10. ASSUME NEW i \in 1..(n - 1) PROVE Stored(t[i]) \subseteq files'
    <2> SUFFICES ASSUME NEW file \in Stored(s[i]) PROVE file \in files' BY <1>1, <1>10
    <2>1. file = s[i] /\ file \in files /\ i \in 1..n /\ i # n /\ n # 1
      <3>1. file = s[i] BY DEF Stored
      <3>2. i \in 1..n /\ i # n /\ n # 1 BY ONLY <1>1, i \in 1..(n - 1)
      <3> QED BY <1>3, <3>1, <3>2
    <2>2. file # top BY <1>4, <2>1 DEF top
    <2>3. file \notin runner.retained BY <1>3, <1>7, <2>1
    <2>4. file \notin Owned BY <1>6, <1>8, <2>1, <2>2, <2>3
    <2> QED BY <2>1, <2>4
  <1>11. kept \subseteq files'
    <2> SUFFICES ASSUME NEW tool \in runner.retained, top.name # "compiler tools" PROVE tool \in files'
      OBVIOUS
    <2>1. tool \in files /\ tool.name \notin NamesIn(s) /\ n # 1 BY <1>3, <1>9
    <2>2. top.name \in NamesIn(s) BY <1>4, <1>7 DEF top
    <2>3. tool # top /\ Owned = {top} BY <1>6, <1>8, <2>1, <2>2
    <2> QED BY <2>1, <2>3
  <1>12. kept # {} => InScanPass(t)
    <2> SUFFICES ASSUME runner.retained # {}, top.name # "compiler tools" PROVE InScanPass(t)
      OBVIOUS
    <2> QED BY <1>3, <1>5 DEF InScanPass
  <1>13. n # 1 => t # <<>>
    <2>1. Len(<<>>) = 0 OBVIOUS
    <2> QED BY ONLY <1>1, <2>1
  <1>14. ASSUME "cleanup" \notin problems, NEW file \in files' PROVE Accounted(file)'
    <2>1. Accounted(file) BY <1>3, <1>14
    <2>2. runner.problems # {} => problems # {} OBVIOUS
    <2>3. CASE file \in Owned
      <3>1. /\ file = top /\ Silent(top) /\ (top.name = "baseline snapshot" => problems # {})
        BY <1>2, <1>14, <2>3
      <3>2. /\ top.name \in {"coverage profile", "api snapshot", "baseline snapshot"}
        BY <3>1 DEF Silent
      <3>3. n # 1 BY <1>8, <3>2
      <3> QED BY <1>2, <1>13, <3>1, <3>2, <3>3 DEF Accounted
    <2>4. CASE file \notin Owned
      <3>1. CASE \E i \in 1..n : file \in Stored(s[i])
        <4>1. PICK i \in 1..n : file \in Stored(s[i]) BY <3>1
        <4>2. file = s[i] /\ file.name # "compiler tools" BY <4>1 DEF Stored
        <4>3. i # n BY <1>6, <2>4, <4>2 DEF top
        <4>4. i \in 1..(n - 1) /\ t[i] = s[i] BY ONLY <1>1, <4>3, i \in 1..n
        <4> QED BY <1>1, <1>2, <4>1, <4>4 DEF Accounted, Stored
      <3>2. CASE file \in runner.retained
        <4>1. file \in kept BY <1>6, <2>4, <3>2
        <4> QED BY <1>2, <4>1 DEF Accounted
      <3>3. CASE file.name \in {"coverage profile", "api snapshot"}
        <4>1. InWorkspace(file) BY <3>3 DEF InWorkspace
        <4>2. n # 1 BY <1>6, <1>8, <1>14, <2>4, <4>1
        <4> QED BY <1>2, <1>13, <3>3, <4>2 DEF Accounted
      <3>4. CASE file.name = "baseline snapshot" /\ runner.problems # {}
        BY <1>2, <2>2, <3>4 DEF Accounted
      <3> QED BY <2>1, <3>1, <3>2, <3>3, <3>4 DEF Accounted, s, n
    <2> QED BY <2>3, <2>4
  <1>15. \A tool \in kept : tool.name \in Tools /\ tool.name \notin NamesIn(t)
    BY <1>3, <1>5
  <1> HIDE DEF kept
  <1> QED BY <1>1, <1>2, <1>10, <1>11, <1>12, <1>14, <1>15 DEF Disk, Stored

-----------------------------------------------------------------------------
(* Every action preserves the invariant.                                   *)

\* What the steps below use of the invariant.
LEMMA Whole ==
  ASSUME Invariant
  PROVE  /\ Shapes /\ Disk /\ Progress /\ IsRunner(runner)
         /\ Distinct(runner.scopes) /\ Sequence(runner.scopes)
         /\ runner.problems \in SUBSET {"step", "cleanup"}
         /\ repository = [head |-> repository.head, edited |-> repository.edited]
         /\ history = [passed |-> history.passed, late |-> history.late] /\ history.late = {}
         /\ runner.phase = "unwinding" => runner.problems # {}
         /\ Running => Stacked(runner.scopes) /\ runner.phase = "running"
  <1>1. Shapes /\ Disk /\ Progress /\ IsRunner(runner) /\ Distinct(runner.scopes)
    BY DEF Invariant, Shapes, Bracketed
  <1>2. Sequence(runner.scopes) BY <1>1 DEF Distinct
  <1>3. /\ runner.problems \in SUBSET {"step", "cleanup"}
        /\ runner.phase = "unwinding" => runner.problems # {}
    BY DEF Invariant, Phases
  <1>4. /\ repository = [head |-> repository.head, edited |-> repository.edited]
        /\ history = [passed |-> history.passed, late |-> history.late] /\ history.late = {}
    BY <1>1 DEF Shapes, Progress
  <1>5. Running => Stacked(runner.scopes) /\ runner.phase = "running"
    BY DEF Invariant, Bracketed, Running
  <1> QED BY <1>1, <1>2, <1>3, <1>4, <1>5

\* The history after a gate has passed.
LEMMA PassedIs ==
  ASSUME history = [passed |-> history.passed, late |-> history.late], Passed
  PROVE  /\ history' = [passed |-> history'.passed, late |-> history'.late]
         /\ history'.passed = history.passed \cup {<<Current.gate, Current.module>>}
         /\ history'.late = history.late
  BY DEF Passed

\* A step that opens or closes nothing.
LEMMA Quiet ==
  ASSUME NEW below, NEW above, NEW step, Turns(step, below, above),
         step.do \in {"check", "scan", "code", "advise", "diff", "bind"}
  PROVE  above = below
  <1>1. step.do \notin {"open", "close", "publish", "build", "release"} OBVIOUS
  <1> QED BY <1>1 DEF Turns

LEMMA StepFailsKeeps == ASSUME Invariant, StepFails PROVE Invariant'
  <1> DEFINE problems == runner.problems \cup {"step"}
  <1>1. /\ runner.phase = "running" /\ UNCHANGED <<invocation, files, repository, history>>
        /\ runner' = [runner EXCEPT !.phase = "unwinding", !.problems = @ \cup {"step"}]
    BY DEF StepFails, Running
  <1>2. /\ Becomes(runner.at, "unwinding", runner.scopes, runner.retained, problems)
        /\ Ranges(runner.changes, runner.range)
    BY <1>1, Whole, StopIs
  <1>3. problems \in SUBSET {"step", "cleanup"} /\ problems # {} /\ runner.problems \subseteq problems
    BY Whole
  <1> HIDE DEF problems
  <1>4. Shapes' /\ Phases' /\ Bracketed' /\ Progress' /\ Bound'
    BY <1>1, <1>2, <1>3, Whole, Unwinds
  <1>5. Disk' BY <1>1, <1>2, <1>3, Whole, DiskStays
  <1> QED BY <1>4, <1>5 DEF Invariant

LEMMA CheckPassesKeeps == ASSUME Invariant, CheckPasses PROVE Invariant'
  <1>1. /\ Running /\ Current.do \in {"check", "advise"} /\ Proceed(runner) /\ Passed
        /\ UNCHANGED <<invocation, files, repository>>
    BY DEF CheckPasses
  <1>2. /\ Becomes(runner.at + 1, runner.phase, runner.scopes, runner.retained, runner.problems)
        /\ Ranges(runner.changes, runner.range)
    BY <1>1, Whole, ProceedIs
  <1>3. \A above : Sequence(above) /\ Turns(Current, runner.scopes, above) => above = runner.scopes
    BY <1>1, Quiet
  <1>4. Current.do # "diff" /\ Current.do # "bind" BY <1>1
  <1>5. Shapes' /\ Phases' /\ Bracketed' /\ Progress' /\ Bound'
    <2>1. /\ history' = [passed |-> history'.passed, late |-> history'.late]
          /\ history.passed \subseteq history'.passed /\ history'.late = {}
          /\ <<Current.gate, Current.module>> \in history'.passed
      BY <1>1, Whole, PassedIs
    <2>2. /\ repository' = [head |-> repository'.head, edited |-> repository'.edited]
          /\ repository'.edited => repository.edited
      BY <1>1, Whole
    <2> QED BY <1>1, <1>2, <1>3, <1>4, <2>1, <2>2, Whole, Advances DEF Ranges
  <1>6. Disk' BY <1>1, <1>2, Whole, DiskStays
  <1> QED BY <1>5, <1>6 DEF Invariant

\* No scan is late: the repository's code runs after every scan of its program.
LEMMA ScanIsEarly ==
  ASSUME Invariant, Running, Current.do = "scan"
  PROVE  ~repository.edited
  <1> SUFFICES ASSUME repository.edited PROVE FALSE OBVIOUS
  <1>1. PICK i \in 1..Len(Steps) : i < runner.at /\ Steps[i].do = "code"
    BY DEF Invariant, Progress
  <1>2. runner.at \in 1..Len(Steps) /\ Steps[runner.at].do = "scan"
    BY StepsAre DEF Invariant, Phases, Running, Current
  <1>3. ScansFirst(Steps) BY StepsAre DEF Invariant
  <1> QED BY <1>1, <1>2, <1>3 DEF ScansFirst

LEMMA ScanPassesKeeps == ASSUME Invariant, ScanPasses PROVE Invariant'
  <1>1. /\ Running /\ Current.do = "scan" /\ Proceed(runner)
        /\ UNCHANGED <<invocation, files, repository>>
        /\ history' = [passed |-> history.passed \cup {<<Current.gate, Current.module>>},
                       late |-> IF repository.edited
                                THEN history.late \cup {<<Current.gate, Current.module>>}
                                ELSE history.late]
    BY DEF ScanPasses
  <1>2. /\ Becomes(runner.at + 1, runner.phase, runner.scopes, runner.retained, runner.problems)
        /\ Ranges(runner.changes, runner.range)
    BY <1>1, Whole, ProceedIs
  <1>3. \A above : Sequence(above) /\ Turns(Current, runner.scopes, above) => above = runner.scopes
    BY <1>1, Quiet
  <1>4. Shapes' /\ Phases' /\ Bracketed' /\ Progress' /\ Bound'
    <2>1. /\ history' = [passed |-> history'.passed, late |-> history'.late]
          /\ history.passed \subseteq history'.passed
          /\ <<Current.gate, Current.module>> \in history'.passed
      BY <1>1
    <2>2. history'.late = {} BY <1>1, ScanIsEarly, Whole
    <2>3. /\ repository' = [head |-> repository'.head, edited |-> repository'.edited]
          /\ repository'.edited => repository.edited
      BY <1>1, Whole
    <2>4. Current.do # "diff" /\ Current.do # "bind" BY <1>1
    <2> QED BY <1>1, <1>2, <1>3, <2>1, <2>2, <2>3, <2>4, Whole, Advances DEF Ranges
  <1>5. Disk' BY <1>1, <1>2, Whole, DiskStays
  <1> QED BY <1>4, <1>5 DEF Invariant

LEMMA CodePassesKeeps == ASSUME Invariant, CodePasses PROVE Invariant'
  <1>1. /\ Running /\ Current.do = "code" /\ Proceed(runner) /\ Passed
        /\ UNCHANGED <<invocation, files>>
        /\ repository' = [repository EXCEPT !.edited = TRUE]
    BY DEF CodePasses
  <1>2. /\ Becomes(runner.at + 1, runner.phase, runner.scopes, runner.retained, runner.problems)
        /\ Ranges(runner.changes, runner.range)
    BY <1>1, Whole, ProceedIs
  <1>3. \A above : Sequence(above) /\ Turns(Current, runner.scopes, above) => above = runner.scopes
    BY <1>1, Quiet
  <1>4. Shapes' /\ Phases' /\ Bracketed' /\ Progress' /\ Bound'
    <2>1. /\ history' = [passed |-> history'.passed, late |-> history'.late]
          /\ history.passed \subseteq history'.passed /\ history'.late = {}
          /\ <<Current.gate, Current.module>> \in history'.passed
      BY <1>1, Whole, PassedIs
    <2>2. repository' = [head |-> repository'.head, edited |-> repository'.edited]
      BY <1>1, Whole
    <2>3. Current.do # "diff" /\ Current.do # "bind" BY <1>1
    <2> QED BY <1>1, <1>2, <1>3, <2>1, <2>2, <2>3, Whole, Advances DEF Ranges
  <1>5. Disk' BY <1>1, <1>2, Whole, DiskStays
  <1> QED BY <1>4, <1>5 DEF Invariant

LEMMA BindRangeKeeps == ASSUME Invariant, BindRange PROVE Invariant'
  <1>1. Running /\ Current.do = "bind" /\ UNCHANGED <<invocation, files, repository, history>>
    BY DEF BindRange
  <1>2. CASE Diff[repository.head] = runner.changes
    <2>1. Proceed([runner EXCEPT !.range = Diff[repository.head]]) BY <1>2 DEF BindRange
    <2>2. /\ Becomes(runner.at + 1, runner.phase, runner.scopes, runner.retained, runner.problems)
          /\ Ranges(runner.changes, runner.changes)
      BY <1>2, <2>1, Whole, ProceedIs
    <2>3. \A above : Sequence(above) /\ Turns(Current, runner.scopes, above) => above = runner.scopes
      BY <1>1, Quiet
    <2>4. Shapes' /\ Phases' /\ Bracketed' /\ Progress' /\ Bound'
      <3>1. /\ history' = [passed |-> history'.passed, late |-> history'.late]
            /\ history.passed \subseteq history'.passed /\ history'.late = {}
            /\ repository' = [head |-> repository'.head, edited |-> repository'.edited]
            /\ repository'.edited => repository.edited
        BY <1>1, Whole
      <3>2. Current.do # "diff" /\ ~Completes(Current) BY <1>1 DEF Completes
      <3> QED BY <1>1, <2>2, <2>3, <3>1, <3>2, Whole, Advances DEF Ranges
    <2>5. Disk' BY <1>1, <2>2, Whole, DiskStays
    <2> QED BY <2>4, <2>5 DEF Invariant
  <1>3. CASE Diff[repository.head] # runner.changes
    <2> DEFINE problems == runner.problems \cup {"step"}
    <2>1. runner' = [runner EXCEPT !.phase = "unwinding", !.problems = @ \cup {"step"}]
      BY <1>3 DEF BindRange
    <2>2. /\ Becomes(runner.at, "unwinding", runner.scopes, runner.retained, problems)
          /\ Ranges(runner.changes, runner.range)
      BY <2>1, Whole, StopIs
    <2>3. problems \in SUBSET {"step", "cleanup"} /\ problems # {} /\ runner.problems \subseteq problems
      BY Whole
    <2> HIDE DEF problems
    <2>4. Shapes' /\ Phases' /\ Bracketed' /\ Progress' /\ Bound'
      BY <1>1, <2>2, <2>3, Whole, Unwinds
    <2>5. Disk' BY <1>1, <2>2, <2>3, Whole, DiskStays
    <2> QED BY <2>4, <2>5 DEF Invariant
  <1> QED BY <1>2, <1>3

\* A scope that the next step opens.
LEMMA Opens ==
  ASSUME Invariant, Running, Current.do \in {"open", "build"},
         Current.do = "build" => ~InPass
  PROVE  LET s == Append(runner.scopes, Resource)
         IN  /\ Stacked(s)
             /\ \A above : Sequence(above) /\ Turns(Current, runner.scopes, above) => above = s
             /\ Current.do = "open" => Current.gate \notin Tools
             /\ Current.do = "build" => Current.gate \in Tools
  <1>1. Resource = ResourceOf(Current) BY DEF Resource, ResourceOf
  <1>2. PICK x : Sequence(x[runner.at]) /\ Turns(Current, runner.scopes, x[runner.at])
    BY Ahead
  <1>3. ASSUME NEW above, Turns(Current, runner.scopes, above)
        PROVE  /\ above = Append(runner.scopes, Resource) /\ Stacked(above)
               /\ Current.do = "open" => Current.gate \notin Tools
               /\ Current.do = "build" => Current.gate \in Tools
    <2>1. CASE Current.do = "open" BY <1>1, <1>3, <2>1 DEF Turns
    <2>2. CASE Current.do = "build"
      <3>1. ~InScanPass(runner.scopes) BY <2>2, InPassIs
      <3> QED BY <1>1, <1>3, <2>2, <3>1 DEF Turns
    <2> QED BY <2>1, <2>2
  <1> QED BY <1>2, <1>3

\* A tool that is built or used within the scan pass has no scope.
LEMMA Tooled ==
  ASSUME Invariant, Running, Current.do \in {"build", "release"}
  PROVE  /\ Current.gate \in Tools
         /\ InPass => /\ \A above : Turns(Current, runner.scopes, above) => above = runner.scopes
                      /\ Current.gate \notin NamesIn(runner.scopes)
  <1>1. PICK x : Sequence(x[runner.at]) /\ Turns(Current, runner.scopes, x[runner.at])
    BY Ahead
  <1>2. Current.gate \in Tools BY <1>1 DEF Turns
  <1>3. ASSUME InPass, NEW above, Turns(Current, runner.scopes, above) PROVE above = runner.scopes
    <2>1. InScanPass(runner.scopes) BY <1>3, InPassIs
    <2>2. CASE Current.do = "build" BY <1>3, <2>1, <2>2 DEF Turns
    <2>3. CASE Current.do = "release" BY <1>3, <2>1, <2>3 DEF Turns
    <2> QED BY <2>2, <2>3
  <1>4. InPass => Current.gate \notin NamesIn(runner.scopes)
    BY <1>2, Whole, InPassIs DEF Stacked
  <1> QED BY <1>2, <1>3, <1>4

\* The resource of a step is stored unless it is the scan pass.
LEMMA ResourceIs ==
  /\ Resource.name = Current.gate
  /\ Resource.name # "compiler tools" => Stored(Resource) = {Resource}
  BY DEF Resource, Stored

\* What Advances asks of a step that changes neither the repository nor the history.
LEMMA NothingPasses ==
  ASSUME Invariant, UNCHANGED <<repository, history>>
  PROVE  /\ history' = [passed |-> history'.passed, late |-> history'.late]
         /\ history.passed \subseteq history'.passed /\ history'.late = {}
         /\ repository' = [head |-> repository'.head, edited |-> repository'.edited]
         /\ repository'.edited => repository.edited
  BY Whole

LEMMA OpenResourceKeeps == ASSUME Invariant, OpenResource PROVE Invariant'
  <1> DEFINE s == Append(runner.scopes, Resource)
  <1>1. /\ Running /\ Current.do = "open" /\ Proceed([runner EXCEPT !.scopes = s])
        /\ files' = files \cup Stored(Resource)
        /\ UNCHANGED <<invocation, repository, history>>
    BY DEF OpenResource
  <1>2. /\ Becomes(runner.at + 1, runner.phase, s, runner.retained, runner.problems)
        /\ Ranges(runner.changes, runner.range)
    BY <1>1, Whole, ProceedIs
  <1>3. /\ Stacked(s) /\ Current.gate \notin Tools
        /\ \A above : Sequence(above) /\ Turns(Current, runner.scopes, above) => above = s
    BY <1>1, Opens
  <1> HIDE DEF s
  <1>4. Shapes' /\ Phases' /\ Bracketed' /\ Progress' /\ Bound'
    <2>1. Current.do # "diff" /\ Current.do # "bind" /\ ~Completes(Current) BY <1>1 DEF Completes
    <2> QED BY <1>1, <1>2, <1>3, <2>1, Whole, NothingPasses, Advances DEF Ranges
  <1>5. Disk'
    <2>1. \A tool \in runner.retained : tool.name # Resource.name
      BY <1>3, Whole, ResourceIs DEF Disk
    <2> QED BY <1>1, <1>2, <2>1, Whole, DiskOpens DEF s
  <1> QED BY <1>4, <1>5 DEF Invariant

\* A tool is kept only while the scan pass lasts.
LEMMA ReuseKeeps == ASSUME Invariant, Reuse PROVE Invariant'
  <1>1. /\ Running /\ Current.do = "build" /\ Proceed(runner) /\ runner.retained # {}
        /\ UNCHANGED <<invocation, files, repository, history>>
    BY DEF Reuse
  <1>2. /\ Becomes(runner.at + 1, runner.phase, runner.scopes, runner.retained, runner.problems)
        /\ Ranges(runner.changes, runner.range)
    BY <1>1, Whole, ProceedIs
  <1>3. InPass BY <1>1, Whole, InPassIs DEF Disk
  <1>4. \A above : Sequence(above) /\ Turns(Current, runner.scopes, above) => above = runner.scopes
    BY <1>1, <1>3, Tooled
  <1>5. Shapes' /\ Phases' /\ Bracketed' /\ Progress' /\ Bound'
    <2>1. Current.do # "diff" /\ Current.do # "bind" /\ ~Completes(Current) BY <1>1 DEF Completes
    <2> QED BY <1>1, <1>2, <1>4, <2>1, Whole, NothingPasses, Advances DEF Ranges
  <1>6. Disk' BY <1>1, <1>2, Whole, DiskStays
  <1> QED BY <1>5, <1>6 DEF Invariant

LEMMA KeepToolKeeps == ASSUME Invariant, KeepTool PROVE Invariant'
  <1>1. /\ Running /\ Current.do = "release" /\ InPass /\ Proceed(runner)
        /\ UNCHANGED <<invocation, files, repository, history>>
    BY DEF KeepTool
  <1>2. /\ Becomes(runner.at + 1, runner.phase, runner.scopes, runner.retained, runner.problems)
        /\ Ranges(runner.changes, runner.range)
    BY <1>1, Whole, ProceedIs
  <1>3. \A above : Sequence(above) /\ Turns(Current, runner.scopes, above) => above = runner.scopes
    BY <1>1, Tooled
  <1>4. Shapes' /\ Phases' /\ Bracketed' /\ Progress' /\ Bound'
    <2>1. Current.do # "diff" /\ Current.do # "bind" /\ ~Completes(Current) BY <1>1 DEF Completes
    <2> QED BY <1>1, <1>2, <1>3, <2>1, Whole, NothingPasses, Advances DEF Ranges
  <1>5. Disk' BY <1>1, <1>2, Whole, DiskStays
  <1> QED BY <1>4, <1>5 DEF Invariant

LEMMA BuildKeeps == ASSUME Invariant, Build PROVE Invariant'
  <1>1. /\ Running /\ Current.do = "build" /\ files' = files \cup {Resource}
        /\ \A tool \in runner.retained : tool.name # Current.gate
        /\ UNCHANGED <<invocation, repository, history>>
    BY DEF Build
  <1>2. Current.do # "diff" /\ Current.do # "bind" /\ ~Completes(Current) BY <1>1 DEF Completes
  <1>3. Current.gate \in Tools /\ Stored(Resource) = {Resource}
    BY <1>1, Tooled, ResourceIs DEF Tools
  <1>4. CASE InPass
    <2> DEFINE kept == runner.retained \cup {Resource}
    <2>1. Proceed([runner EXCEPT !.retained = kept]) BY <1>4 DEF Build
    <2>2. /\ Becomes(runner.at + 1, runner.phase, runner.scopes, kept, runner.problems)
          /\ Ranges(runner.changes, runner.range)
      BY <2>1, Whole, ProceedIs
    <2> HIDE DEF kept
    <2>3. \A above : Sequence(above) /\ Turns(Current, runner.scopes, above) => above = runner.scopes
      BY <1>1, <1>4, Tooled
    <2>4. Shapes' /\ Phases' /\ Bracketed' /\ Progress' /\ Bound'
      BY <1>1, <1>2, <2>2, <2>3, Whole, NothingPasses, Advances DEF Ranges
    <2>5. Disk'
      <3>1. Resource.name \in Tools /\ Resource.name \notin NamesIn(runner.scopes)
        BY <1>1, <1>3, <1>4, Tooled, ResourceIs
      <3> QED BY <1>1, <1>4, <2>2, <3>1, Whole, InPassIs, DiskKeeps DEF kept
    <2> QED BY <2>4, <2>5 DEF Invariant
  <1>5. CASE ~InPass
    <2> DEFINE s == Append(runner.scopes, Resource)
    <2>1. Proceed([runner EXCEPT !.scopes = s]) BY <1>5 DEF Build
    <2>2. /\ Becomes(runner.at + 1, runner.phase, s, runner.retained, runner.problems)
          /\ Ranges(runner.changes, runner.range)
      BY <2>1, Whole, ProceedIs
    <2>3. /\ Stacked(s)
          /\ \A above : Sequence(above) /\ Turns(Current, runner.scopes, above) => above = s
      BY <1>1, <1>5, Opens
    <2> HIDE DEF s
    <2>4. Shapes' /\ Phases' /\ Bracketed' /\ Progress' /\ Bound'
      BY <1>1, <1>2, <2>2, <2>3, Whole, NothingPasses, Advances DEF Ranges
    <2>5. Disk'
      <3>1. \A tool \in runner.retained : tool.name # Resource.name BY <1>1, ResourceIs
      <3> QED BY <1>1, <1>3, <2>2, <3>1, Whole, DiskOpens DEF s
    <2> QED BY <2>4, <2>5 DEF Invariant
  <1> QED BY <1>4, <1>5

\* A name that is not open yet.
LEMMA AppendDistinct ==
  ASSUME NEW s, Distinct(s), s # <<>>, NEW r, r.name \notin NamesIn(s), r.name # "workspace"
  PROVE  Distinct(Append(s, r))
  <1> DEFINE t == Append(s, r)
             n == Len(s)
  <1>1. /\ Sequence(t) /\ Len(t) = n + 1 /\ n \in Nat /\ t[n + 1] = r
        /\ \A i \in 1..n : t[i] = s[i]
    BY FrontOfAppend DEF Distinct
  <1>2. n >= 1 BY FrontIs DEF Distinct
  <1>3. /\ \A i, j \in 1..n : s[i].name = s[j].name => i = j
        /\ \A i \in 1..n : s[i].name = "workspace" <=> i = 1
        /\ \A i \in 1..n : s[i].name # r.name
    BY DEF Distinct, NamesIn
  <1> HIDE DEF t, n
  <1>4. \A i \in 1..(n + 1) : i \in 1..n \/ i = n + 1 BY ONLY <1>1
  <1>5. n + 1 # 1 BY ONLY <1>1, <1>2
  <1>6. \A i, j \in 1..(n + 1) : t[i].name = t[j].name => i = j
    BY <1>1, <1>3, <1>4
  <1>7. \A i \in 1..(n + 1) : t[i].name = "workspace" <=> i = 1
    BY <1>1, <1>3, <1>4, <1>5
  <1> QED BY <1>1, <1>6, <1>7 DEF Distinct, t

\* A tool that is not built leaves its directory to its scope, in the scan pass too.
LEMMA BuildFailsKeeps == ASSUME Invariant, BuildFails PROVE Invariant'
  <1> DEFINE s == Append(runner.scopes, Resource)
             problems == runner.problems \cup {"step"}
  <1>1. /\ Running /\ Current.do = "build" /\ files' = files \cup {Resource}
        /\ \A tool \in runner.retained : tool.name # Current.gate
        /\ UNCHANGED <<invocation, repository, history>>
        /\ runner' = [runner EXCEPT !.phase = "unwinding", !.problems = @ \cup {"step"}, !.scopes = s]
    BY DEF BuildFails
  <1>2. /\ Becomes(runner.at, "unwinding", s, runner.retained, problems)
        /\ Ranges(runner.changes, runner.range)
    BY <1>1, Whole, StopIs
  <1>3. Current.gate \in Tools /\ Stored(Resource) = {Resource}
    BY <1>1, Tooled, ResourceIs DEF Tools
  <1>4. Distinct(s)
    <2>1. CASE ~InPass BY <1>1, <2>1, Opens, StackedDistinct
    <2>2. CASE InPass
      <3>1. Resource.name \notin NamesIn(runner.scopes) /\ Resource.name # "workspace"
        BY <1>1, <1>3, <2>2, Tooled, ResourceIs DEF Tools
      <3>2. runner.scopes # <<>>
        <4>1. PICK i \in 1..Len(runner.scopes) : TRUE BY <2>2 DEF InPass
        <4>2. Len(<<>>) = 0 /\ \A k \in 1..0 : FALSE OBVIOUS
        <4> QED BY <4>1, <4>2, Zenon
      <3> QED BY <3>1, <3>2, Whole, AppendDistinct
    <2> QED BY <2>1, <2>2
  <1>5. problems \in SUBSET {"step", "cleanup"} /\ problems # {} /\ runner.problems \subseteq problems
    BY Whole
  <1> HIDE DEF s, problems
  <1>6. Shapes' /\ Phases' /\ Bracketed' /\ Progress' /\ Bound'
    BY <1>1, <1>2, <1>4, <1>5, Whole, Unwinds
  <1>7. Disk'
    <2>1. \A tool \in runner.retained : tool.name # Resource.name BY <1>1, ResourceIs
    <2> QED BY <1>1, <1>2, <1>3, <1>5, <2>1, Whole, DiskOpens DEF s
  <1> QED BY <1>6, <1>7 DEF Invariant

\* The scope that the next step closes.
LEMMA Closes ==
  ASSUME Invariant, Running, Current.do \in {"close", "publish", "release"},
         Current.do = "release" => ~InPass
  PROVE  /\ runner.scopes # <<>> /\ Stacked(Front(runner.scopes))
         /\ \A above : Sequence(above) /\ Turns(Current, runner.scopes, above) => above = Front(runner.scopes)
         /\ Innermost.name = Current.gate
         /\ Current.gate = "baseline snapshot" <=> Current.do = "publish"
  <1>1. PICK x : Sequence(x[runner.at]) /\ Turns(Current, runner.scopes, x[runner.at])
    BY Ahead
  <1> DEFINE r == ResourceOf(Current)
  <1>2. ASSUME NEW above, Turns(Current, runner.scopes, above)
        PROVE  /\ runner.scopes = Append(above, r)
               /\ Current.gate = "baseline snapshot" <=> Current.do = "publish"
    <2>1. CASE Current.do = "close" BY <1>2, <2>1 DEF Turns
    <2>2. CASE Current.do = "publish" BY <1>2, <2>2 DEF Turns
    <2>3. CASE Current.do = "release"
      <3>1. ~InScanPass(runner.scopes) BY <2>3, InPassIs
      <3> QED BY <1>2, <2>3, <3>1 DEF Turns, Tools
    <2> QED BY <2>1, <2>2, <2>3
  <1>3. r.name = Current.gate BY DEF ResourceOf
  <1> HIDE DEF r
  <1>4. ASSUME NEW above, Sequence(above), runner.scopes = Append(above, r)
        PROVE  /\ runner.scopes # <<>> /\ above = Front(runner.scopes) /\ Innermost = r
    <2> DEFINE t == Append(above, r)
    <2>1. t # <<>> /\ Front(t) = above /\ Len(t) = Len(above) + 1 /\ t[Len(above) + 1] = r
      BY <1>4, FrontOfAppend
    <2>2. runner.scopes = t BY <1>4
    <2> HIDE DEF t
    <2> QED BY <2>1, <2>2, Zenon DEF Innermost
  <1>5. runner.scopes # <<>> /\ Innermost = r BY <1>1, <1>2, <1>4
  <1>6. Stacked(Front(runner.scopes)) BY <1>5, Whole, Popped
  <1>7. Current.gate = "baseline snapshot" <=> Current.do = "publish" BY <1>1, <1>2
  <1> QED BY <1>2, <1>3, <1>4, <1>5, <1>6, <1>7

\* Closing, whether the program goes on or returns an error.
LEMMA ClosingIs ==
  ASSUME Invariant, Closing
  PROVE  /\ runner.scopes # <<>> /\ Distinct(Front(runner.scopes))
         /\ runner.phase \in {"running", "unwinding"}
         /\ runner.phase = "running" =>
               /\ Running /\ Current.do \in {"close", "release"} /\ (Current.do = "release" => ~InPass)
         /\ Innermost.name = "baseline snapshot" => runner.problems # {}
  <1>1. runner.scopes # <<>> BY DEF Closing
  <1>2. Distinct(Front(runner.scopes)) BY <1>1, Whole, Popped
  <1>3. CASE runner.phase = "unwinding"
    <2>1. runner.problems # {} BY <1>3, Whole
    <2> QED BY <1>1, <1>2, <1>3, <2>1
  <1>4. CASE runner.phase # "unwinding"
    <2>1. Running /\ Current.do \in {"close", "release"} /\ (Current.do = "release" => ~InPass)
      BY <1>4 DEF Closing
    <2>2. runner.phase = "running" BY <2>1, Whole
    <2>3. Innermost.name # "baseline snapshot" BY <2>1, Closes
    <2> QED BY <1>1, <1>2, <2>1, <2>2, <2>3
  <1> QED BY <1>3, <1>4

\* What Pop leaves of the process, without an error of its own.
LEMMA PopKeeps ==
  ASSUME Invariant, Closing, Pop(runner), UNCHANGED <<invocation, repository, history>>
  PROVE  /\ Shapes' /\ Phases' /\ Bracketed' /\ Progress' /\ Bound'
         /\ \E at : Becomes(at, runner.phase, Front(runner.scopes),
                            IF Innermost.name = "compiler tools" THEN {} ELSE runner.retained,
                            runner.problems)
  <1> DEFINE s == Front(runner.scopes)
             kept == IF Innermost.name = "compiler tools" THEN {} ELSE runner.retained
             at == IF runner.phase = "running" THEN runner.at + 1 ELSE runner.at
  <1>1. Becomes(at, runner.phase, s, kept, runner.problems) /\ Ranges(runner.changes, runner.range)
    BY Whole, PopIs
  <1> HIDE DEF s, kept
  <1>2. Shapes' /\ Phases' /\ Bracketed' /\ Progress' /\ Bound'
    <2>1. CASE runner.phase = "running"
      <3>1. Running /\ Current.do \in {"close", "release"} /\ (Current.do = "release" => ~InPass)
        BY <2>1, ClosingIs
      <3>2. /\ Stacked(s)
            /\ \A above : Sequence(above) /\ Turns(Current, runner.scopes, above) => above = s
        BY <3>1, Closes DEF s
      <3>3. Current.do # "diff" /\ Current.do # "bind" /\ ~Completes(Current) BY <3>1 DEF Completes
      <3>4. Becomes(runner.at + 1, runner.phase, s, kept, runner.problems) BY <1>1, <2>1
      <3> QED BY <1>1, <3>1, <3>2, <3>3, <3>4, Whole, NothingPasses, Advances DEF Ranges
    <2>2. CASE runner.phase = "unwinding"
      <3>1. Becomes(runner.at, "unwinding", s, kept, runner.problems) BY <1>1, <2>2
      <3>2. Distinct(s) BY ClosingIs DEF s
      <3> QED BY <1>1, <2>2, <3>1, <3>2, Whole, Unwinds
    <2> QED BY <2>1, <2>2, ClosingIs
  <1> HIDE DEF at
  <1> QED BY <1>1, <1>2 DEF s, kept

LEMMA CloseScopeKeeps == ASSUME Invariant, CloseScope PROVE Invariant'
  <1>1. Closing /\ Pop(runner) /\ files' = files \ Owned /\ UNCHANGED <<invocation, repository, history>>
    BY DEF CloseScope
  <1>2. PICK at : Becomes(at, runner.phase, Front(runner.scopes),
                          IF Innermost.name = "compiler tools" THEN {} ELSE runner.retained,
                          runner.problems)
    BY <1>1, PopKeeps
  <1>3. Disk'
    <2>1. /\ files \ Owned \subseteq files' /\ files' \subseteq files
          /\ \A file \in files' : file \notin Owned
      BY <1>1
    <2> QED BY <1>1, <1>2, <2>1, Whole, ClosingIs, DiskCloses
  <1> QED BY <1>1, <1>3, PopKeeps DEF Invariant

\* What cannot be removed is reported, or is one of the silent removals.
LEMMA CloseFailsKeeps == ASSUME Invariant, CloseFails PROVE Invariant'
  <1>1. /\ Closing /\ UNCHANGED <<invocation, repository, history>>
        /\ files \ Owned \subseteq files' /\ files' \subseteq files
    BY DEF CloseFails
  <1>2. CASE Silent(Innermost)
    <2>1. Pop(runner) BY <1>2 DEF CloseFails
    <2>2. PICK at : Becomes(at, runner.phase, Front(runner.scopes),
                            IF Innermost.name = "compiler tools" THEN {} ELSE runner.retained,
                            runner.problems)
      BY <1>1, <2>1, PopKeeps
    <2>3. Owned = {Innermost} BY <1>2 DEF Silent, Owned
    <2>4. \A file \in files' : file \in Owned =>
             /\ file = Innermost /\ Silent(Innermost)
             /\ Innermost.name = "baseline snapshot" => runner.problems # {}
      BY <1>1, <1>2, <2>3, ClosingIs
    <2>5. Disk' BY <1>1, <2>2, <2>4, Whole, ClosingIs, DiskCloses
    <2> QED BY <1>1, <2>1, <2>5, PopKeeps DEF Invariant
  <1>3. CASE ~Silent(Innermost)
    <2> DEFINE s == Front(runner.scopes)
               kept == IF Innermost.name = "compiler tools" THEN {} ELSE runner.retained
               problems == runner.problems \cup {"cleanup"}
    <2>1. Pop([runner EXCEPT !.phase = "unwinding", !.problems = @ \cup {"cleanup"}])
      BY <1>3 DEF CloseFails
    <2>2. /\ Becomes(runner.at, "unwinding", s, kept, problems)
          /\ Ranges(runner.changes, runner.range)
      BY <2>1, Whole, PopIs
    <2>3. /\ problems \in SUBSET {"step", "cleanup"} /\ problems # {} /\ runner.problems \subseteq problems
          /\ "cleanup" \in problems
      BY Whole
    <2> HIDE DEF problems
    <2>4. Shapes' /\ Phases' /\ Bracketed' /\ Progress' /\ Bound'
      <3> HIDE DEF kept
      <3> QED BY <1>1, <2>2, <2>3, Whole, ClosingIs, Unwinds
    <2>5. Disk' BY <1>1, <2>2, <2>3, Whole, ClosingIs, DiskCloses
    <2> QED BY <2>4, <2>5 DEF Invariant
  <1> QED BY <1>2, <1>3

\* The snapshot that becomes the baseline is no longer the process's.
LEMMA PublishKeeps == ASSUME Invariant, Publish PROVE Invariant'
  <1> DEFINE s == Front(runner.scopes)
  <1>1. /\ Running /\ Current.do = "publish" /\ Proceed([runner EXCEPT !.scopes = s])
        /\ files' = files \ {Innermost} /\ Passed /\ UNCHANGED <<invocation, repository>>
    BY DEF Publish
  <1>2. /\ Becomes(runner.at + 1, runner.phase, s, runner.retained, runner.problems)
        /\ Ranges(runner.changes, runner.range)
    BY <1>1, Whole, ProceedIs
  <1>3. /\ runner.scopes # <<>> /\ Stacked(s) /\ Innermost.name = "baseline snapshot"
        /\ \A above : Sequence(above) /\ Turns(Current, runner.scopes, above) => above = s
    BY <1>1, Closes
  <1>4. Shapes' /\ Phases' /\ Bracketed' /\ Progress' /\ Bound'
    <2> HIDE DEF s
    <2>1. /\ history' = [passed |-> history'.passed, late |-> history'.late]
          /\ history.passed \subseteq history'.passed /\ history'.late = {}
      BY <1>1, Whole, PassedIs
    <2>2. /\ repository' = [head |-> repository'.head, edited |-> repository'.edited]
          /\ repository'.edited => repository.edited
      BY <1>1, Whole
    <2>3. Current.do # "diff" /\ Current.do # "bind" /\ ~Completes(Current) BY <1>1 DEF Completes
    <2> QED BY <1>1, <1>2, <1>3, <2>1, <2>2, <2>3, Whole, Advances DEF Ranges
  <1>5. Disk'
    <2>1. Owned = {Innermost} BY <1>3 DEF Owned
    <2>2. /\ files \ Owned \subseteq files' /\ files' \subseteq files
          /\ \A file \in files' : file \notin Owned
      BY <1>1, <2>1
    <2>3. Becomes(runner.at + 1, runner.phase, Front(runner.scopes),
                  IF Innermost.name = "compiler tools" THEN {} ELSE runner.retained, runner.problems)
      BY <1>2, <1>3
    <2> QED BY <1>3, <2>2, <2>3, Whole, DiskCloses
  <1> QED BY <1>4, <1>5 DEF Invariant

LEMMA HeadMovesKeeps == ASSUME Invariant, HeadMoves PROVE Invariant'
  <1>1. /\ UNCHANGED <<invocation, runner, files, history>>
        /\ \E head : repository' = [repository EXCEPT !.head = head]
    BY DEF HeadMoves
  <1>2. /\ repository' = [head |-> repository'.head, edited |-> repository'.edited]
        /\ repository'.edited = repository.edited
    BY <1>1, Whole
  <1>3. Steps' = Steps BY <1>1 DEF Steps
  <1>4. Shapes' BY <1>1, <1>2 DEF Invariant, Shapes, IsRunner
  <1>5. Phases' BY <1>1, <1>3 DEF Invariant, Phases
  <1>6. Bracketed' BY <1>1, <1>3 DEF Invariant, Bracketed
  <1>7. Disk' BY <1>1 DEF Invariant, Disk, Accounted, Stored
  <1>8. Progress' BY <1>1, <1>2, <1>3 DEF Invariant, Progress
  <1>9. Bound' BY <1>1 DEF Invariant, Bound
  <1> QED BY <1>4, <1>5, <1>6, <1>7, <1>8, <1>9 DEF Invariant

\* The first steps of a program with a range do not depend on the range.
LEMMA RangedAlike ==
  ASSUME NEW p, NEW q, RangedShape(p), RangedShape(q)
  PROVE  \A i \in 1..7 : p[i] = q[i]
  <1>1. \A i \in 1..4 : p[i] = q[i] BY DEF RangedShape
  <1>2. p[5] = q[5] /\ p[6] = q[6] /\ p[7] = q[7]
    <2> DEFINE s5 == [do |-> "open", gate |-> "workspace", module |-> Root]
               s6 == [do |-> "diff", gate |-> "changes", module |-> Root]
               s7 == [do |-> "bind", gate |-> "change range", module |-> Root]
    <2>1. p[5] = s5 /\ p[6] = s6 /\ p[7] = s7 BY DEF RangedShape
    <2>2. q[5] = s5 /\ q[6] = s6 /\ q[7] = s7 BY DEF RangedShape
    <2> HIDE DEF s5, s6, s7
    <2> QED BY <2>1, <2>2, Zenon
  <1>3. \A i \in 1..7 : i \in 1..4 \/ i = 5 \/ i = 6 \/ i = 7 BY ONLY TRUE
  <1> QED BY <1>1, <1>2, <1>3, Zenon

\* They begin with the admission.
LEMMA RangedChecks == ASSUME NEW p, RangedShape(p) PROVE \A i \in 1..4 : p[i].do = "check"
  <1> DEFINE a == Before("secrets")
  <1>1. \A i \in 1..4 : i \in 1..Len(a) /\ a[i] = Admission[i] BY BeforeIs
  <1>2. \A i \in 1..Len(a) : a[i].do = "check" BY BeforeIs
  <1> HIDE DEF a
  <1>3. \A i \in 1..4 : p[i] = Admission[i] BY DEF RangedShape
  <1> QED BY <1>1, <1>2, <1>3, Zenon

\* What is open when the range is read: the workspace.
LEMMA RangedScopes ==
  ASSUME NEW p, RangedShape(p), NEW x, Scopes(p, <<>>, x)
  PROVE  x[5] = <<ResourceOf(p[5])>> /\ x[6] = <<ResourceOf(p[5])>>
  <1>1. Len(p) \in Nat /\ Len(p) >= 8 /\ p[5].do = "open" /\ p[6].do = "diff" BY RangeSteps
  <1>2. \A i \in 1..4 : p[i].do = "check" BY RangedChecks
  <1>3. x[0] = <<>> /\ \A i \in 1..6 : Turns(p[i], x[i - 1], x[i])
    <2>1. \A i \in 1..6 : i \in 1..Len(p) BY ONLY <1>1
    <2> QED BY <2>1 DEF Scopes
  <1>4. \A i \in 1..4 : x[i] = x[i - 1]
    <2>1. \A i \in 1..4 : i \in 1..6 BY ONLY TRUE
    <2> QED BY <1>2, <1>3, <2>1, Quiet
  <1>5. x[4] = <<>>
    <2>1. x[1] = x[1 - 1] /\ x[2] = x[2 - 1] /\ x[3] = x[3 - 1] /\ x[4] = x[4 - 1] BY <1>4
    <2> QED BY <2>1, <1>3
  <1>6. Turns(p[5], x[4], x[5]) /\ Turns(p[6], x[5], x[6])
    <2>1. Turns(p[5], x[5 - 1], x[5]) /\ Turns(p[6], x[6 - 1], x[6]) BY <1>3
    <2>2. 5 - 1 = 4 /\ 6 - 1 = 5 BY ONLY TRUE
    <2> QED BY <2>1, <2>2
  <1>7. x[5] = Append(x[4], ResourceOf(p[5])) BY <1>1, <1>6 DEF Turns
  <1>8. x[6] = x[5] BY <1>1, <1>6, Quiet
  <1>9. \A r : Append(<<>>, r) = <<r>> OBVIOUS
  <1> QED BY <1>5, <1>7, <1>8, <1>9

\* The range that is read may change the steps ahead, not those behind.
LEMMA ReadChangesKeeps == ASSUME Invariant, ReadChanges PROVE Invariant'
  <1> DEFINE paths == Diff[repository.head]
  <1>1. /\ Running /\ Current.do = "diff" /\ Proceed([runner EXCEPT !.changes = paths])
        /\ UNCHANGED <<invocation, files, repository, history>>
    BY DEF ReadChanges
  <1>2. /\ Becomes(runner.at + 1, runner.phase, runner.scopes, runner.retained, runner.problems)
        /\ Ranges(paths, runner.range)
    BY <1>1, Whole, ProceedIs
  <1> HIDE DEF paths
  <1>3. runner.at \in 1..Len(Steps) /\ Steps[runner.at].do = "diff"
    BY <1>1, StepsAre DEF Invariant, Phases, Running, Current
  <1>4. invocation.command \in Ranged /\ RangedShape(Steps) BY <1>3, StepsAre DEF Invariant
  <1>5. runner.at = 6 BY <1>3, <1>4, RangeSteps
  <1>6. Shapes'
    <2>1. runner'.at \in Nat BY <1>2, <1>5 DEF Becomes
    <2> QED BY <1>1, <1>2, <2>1 DEF Invariant, Shapes, Becomes
  <1> DEFINE p == Steps
             q == Program(invocation.command, invocation.policy, invocation.selection, paths)
  <1>7. Steps' = q /\ RangedShape(q) /\ Nests(q, <<>>)
    <2>1. invocation.command \in Commands BY DEF Invariant, Shapes
    <2>2. RangedShape(q) /\ Nests(q, <<>>) BY <1>4, <2>1, RangedProgram, ProgramFits
    <2> HIDE DEF q
    <2>3. Steps' = q BY <1>1, <1>2 DEF Steps, q, Ranges
    <2> QED BY <2>2, <2>3
  <1>8. RangedShape(p) BY <1>4
  <1> HIDE DEF p, q
  <1>9. /\ Len(p) \in Nat /\ Len(p) >= 8 /\ Len(q) \in Nat /\ Len(q) >= 8
        /\ \A i \in 1..7 : q[i] = p[i]
    BY <1>7, <1>8, RangeSteps, RangedAlike
  <1>10. /\ runner.phase = "running" /\ runner'.phase = "running" /\ runner'.at = 7
         /\ runner'.scopes = runner.scopes
    BY <1>1, <1>2, <1>5, Whole DEF Becomes
  <1>11. Phases'
    <2>1. 7 \in 1..(Len(q) + 1) BY ONLY <1>9
    <2>2. /\ runner.problems = {} /\ runner.exit = "none"
          /\ runner'.problems = runner.problems /\ runner'.exit = runner.exit
      BY <1>2, <1>10 DEF Invariant, Phases, Becomes
    <2> QED BY <1>7, <1>10, <2>1, <2>2 DEF Phases
  <1>12. Bracketed'
    <2>1. Distinct(runner.scopes) /\ Stacked(runner.scopes) BY <1>1, Whole
    <2>2. PICK x : Scopes(p, <<>>, x) /\ runner.scopes = x[5]
      <3>1. PICK x : Scopes(p, <<>>, x) /\ runner.scopes = x[runner.at - 1]
        BY <1>10 DEF Invariant, Bracketed, p
      <3>2. runner.at - 1 = 5 BY ONLY <1>5
      <3> QED BY <3>1, <3>2
    <2>3. runner.scopes = <<ResourceOf(p[5])>> BY <1>8, <2>2, RangedScopes
    <2>4. PICK y : Scopes(q, <<>>, y) BY <1>7 DEF Nests
    <2>5. y[6] = <<ResourceOf(q[5])>> BY <1>7, <2>4, RangedScopes
    <2>6. q[5] = p[5] BY <1>9
    <2>7. runner'.at - 1 = 6 BY ONLY <1>10
    <2>8. runner'.scopes = y[runner'.at - 1] BY <1>10, <2>3, <2>5, <2>6, <2>7, Zenon
    <2> QED BY <1>7, <1>10, <2>1, <2>4, <2>8 DEF Bracketed
  <1>13. Progress'
    <2>1. ~repository.edited
      <3> SUFFICES ASSUME repository.edited PROVE FALSE OBVIOUS
      <3>1. PICK i \in 1..Len(p) : i < 6 /\ p[i].do = "code" BY <1>5 DEF Invariant, Progress, p
      <3>2. i \in 1..4 \/ i = 5 BY ONLY <3>1, <1>9, i \in 1..Len(p)
      <3> QED BY <1>8, <3>1, <3>2, RangedChecks, RangeSteps
    <2>2. ASSUME NEW i \in 1..Len(q), i < 7, Completes(q[i])
          PROVE  <<q[i].gate, q[i].module>> \in history.passed
      <3>1. i \in 1..7 /\ i \in 1..Len(p) BY ONLY <1>9, i < 7, i \in 1..Len(q)
      <3>2. q[i] = p[i] BY <1>9, <3>1
      <3>3. i < 6
        <4>1. p[6].do = "diff" BY <1>8, RangeSteps
        <4>2. i # 6 BY <2>2, <3>2, <4>1 DEF Completes
        <4> QED BY ONLY <3>1, <4>2, i < 7
      <3>4. <<p[i].gate, p[i].module>> \in history.passed
        BY <1>5, <2>2, <3>1, <3>2, <3>3 DEF Invariant, Progress, p
      <3> QED BY <3>2, <3>4
    <2>3. history' = history /\ repository' = repository /\ history.late = {} BY <1>1, Whole
    <2> QED BY <1>7, <1>10, <2>1, <2>2, <2>3 DEF Progress, Completes
  <1>14. Disk' BY <1>1, <1>2, Whole, DiskStays
  <1>15. Bound' BY <1>10 DEF Bound
  <1> QED BY <1>6, <1>11, <1>12, <1>13, <1>14, <1>15 DEF Invariant

\* Exit 0 is only after the last step.
LEMMA ExitKeeps == ASSUME Invariant, Exit PROVE Invariant'
  <1>1. /\ runner.scopes = <<>> /\ runner.phase # "exited"
        /\ runner.phase = "unwinding" \/ runner.at > Len(Steps)
        /\ runner' = [runner EXCEPT !.phase = "exited",
                                    !.exit = IF runner.problems = {} THEN "0" ELSE "1"]
        /\ UNCHANGED <<invocation, files, repository, history>>
    BY DEF Exit
  <1>2. /\ IsRunner(runner')
        /\ runner'.at = runner.at /\ runner'.scopes = runner.scopes /\ runner'.retained = runner.retained
        /\ runner'.changes = runner.changes /\ runner'.range = runner.range
        /\ runner'.problems = runner.problems /\ runner'.phase = "exited"
        /\ runner'.exit = IF runner.problems = {} THEN "0" ELSE "1"
    BY <1>1, Whole DEF IsRunner
  <1>3. Steps' = Steps BY <1>1, <1>2, StepsStay
  <1>4. Shapes' BY <1>1, <1>2 DEF Invariant, Shapes
  <1>5. Phases'
    <2>1. runner.problems = {} => runner.at = Len(Steps) + 1
      <3>1. runner.problems = {} => runner.at > Len(Steps) BY <1>1, Whole
      <3>2. runner.at \in 1..(Len(Steps) + 1) /\ Len(Steps) \in Nat
        BY StepsAre DEF Invariant, Phases
      <3> QED BY <3>1, <3>2
    <2>2. runner'.exit = "0" => runner.problems = {} BY <1>2
    <2> QED BY <1>1, <1>2, <1>3, <2>1, <2>2 DEF Invariant, Phases
  <1>6. Bracketed' BY <1>2 DEF Invariant, Bracketed
  <1>7. Disk' BY <1>1, <1>2 DEF Invariant, Disk, Accounted, Stored
  <1>8. Progress' BY <1>1, <1>2, <1>3 DEF Invariant, Progress
  <1>9. Bound' BY <1>1, <1>2 DEF Invariant, Bound
  <1> QED BY <1>4, <1>5, <1>6, <1>7, <1>8, <1>9 DEF Invariant

-----------------------------------------------------------------------------
(* Theorems.                                                               *)

LEMMA Starts == Init => Invariant
  <1> SUFFICES ASSUME Init PROVE Invariant OBVIOUS
  <1>1. /\ files = {} /\ history = [passed |-> {}, late |-> {}]
        /\ runner = [at |-> 1, phase |-> "running", scopes |-> <<>>, retained |-> {},
                     changes |-> {}, range |-> {}, problems |-> {}, exit |-> "none"]
        /\ \E head : repository = [head |-> head, edited |-> FALSE]
    BY DEF Init
  <1>2. invocation.command \in Commands /\ invocation.selection \subseteq Directories
    <2>1. PICK command \in Commands, selection \in SUBSET Directories, policy \in Policies :
             invocation = [command |-> command, selection |-> selection, policy |-> policy]
      BY DEF Init
    <2> QED BY <2>1
  <1>3. /\ IsRunner(runner) /\ runner.at = 1 /\ runner.phase = "running" /\ runner.scopes = <<>>
        /\ runner.retained = {} /\ runner.problems = {} /\ runner.exit = "none"
    BY <1>1 DEF IsRunner
  <1>4. Shapes
    <2>1. repository = [head |-> repository.head, edited |-> repository.edited]
          /\ history = [passed |-> history.passed, late |-> history.late]
      BY <1>1
    <2> QED BY <1>2, <1>3, <2>1 DEF Shapes
  <1>5. Len(Steps) \in Nat /\ Nests(Steps, <<>>) BY <1>4, StepsAre
  <1>6. Phases
    <2>1. 1 \in 1..(Len(Steps) + 1) BY ONLY <1>5
    <2> QED BY <1>3, <2>1 DEF Phases
  <1>7. Sequence(<<>>) /\ Len(<<>>) = 0 /\ NamesIn(<<>>) = {}
    <2>1. <<>> \in Seq({}) /\ Len(<<>>) = 0 /\ 1..0 = {} OBVIOUS
    <2>2. Sequence(<<>>) BY <2>1, Sequences
    <2> QED BY <2>1, <2>2 DEF NamesIn
  <1>8. Bracketed
    <2>1. Distinct(<<>>) /\ Stacked(<<>>)
      <3>1. \A i \in 1..0 : FALSE OBVIOUS
      <3> QED BY <1>7, <3>1 DEF Distinct, Stacked, InScanPass
    <2>2. PICK x : Scopes(Steps, <<>>, x) BY <1>5 DEF Nests
    <2>3. x[0] = <<>> BY <2>2 DEF Scopes
    <2>4. runner.at - 1 = 0 BY ONLY <1>3
    <2> QED BY <1>3, <2>1, <2>2, <2>3, <2>4 DEF Bracketed
  <1>9. Disk
    <2>1. \A i \in 1..0 : FALSE OBVIOUS
    <2> QED BY <1>1, <1>3, <1>7, <2>1 DEF Disk
  <1>10. Progress
    <2>1. ~repository.edited /\ history.late = {} BY <1>1
    <2>2. \A i \in 1..Len(Steps) : ~(i < 1) BY ONLY <1>5
    <2> QED BY <1>3, <2>1, <2>2 DEF Progress
  <1>11. Bound
    <2>1. ~(runner.at >= 8) BY ONLY <1>3
    <2> QED BY <2>1 DEF Bound
  <1> QED BY <1>4, <1>6, <1>8, <1>9, <1>10, <1>11 DEF Invariant

LEMMA Stutters == ASSUME Invariant, UNCHANGED vars PROVE Invariant'
  <1>1. UNCHANGED <<invocation, runner, files, repository, history>> BY DEF vars
  <1>2. Steps' = Steps BY <1>1 DEF Steps
  <1>3. Shapes' BY <1>1 DEF Invariant, Shapes, IsRunner
  <1>4. Phases' BY <1>1, <1>2 DEF Invariant, Phases
  <1>5. Bracketed' BY <1>1, <1>2 DEF Invariant, Bracketed
  <1>6. Disk' BY <1>1 DEF Invariant, Disk, Accounted, Stored
  <1>7. Progress' BY <1>1, <1>2 DEF Invariant, Progress
  <1>8. Bound' BY <1>1 DEF Invariant, Bound
  <1> QED BY <1>3, <1>4, <1>5, <1>6, <1>7, <1>8 DEF Invariant

\* Of every command, every policy and every failure: the process is where its
\* program's steps put it, with their scopes open and their gates passed.
THEOREM InvariantHolds == Spec => []Invariant
  <1>1. ASSUME Invariant, [Next]_vars PROVE Invariant'
    <2>1. CASE Next
      BY <1>1, <2>1, StepFailsKeeps, OpenResourceKeeps, CheckPassesKeeps, ScanPassesKeeps,
         CodePassesKeeps, ReuseKeeps, BuildKeeps, BuildFailsKeeps, KeepToolKeeps, CloseScopeKeeps,
         CloseFailsKeeps, HeadMovesKeeps, ReadChangesKeeps, BindRangeKeeps, PublishKeeps, ExitKeeps
         DEF Next
    <2>2. CASE UNCHANGED vars BY <1>1, <2>2, Stutters
    <2> QED BY <1>1, <2>1, <2>2
  <1> QED BY <1>1, Starts, PTL DEF Spec

\* Neither a tool that the scan pass would use again nor the resource of an open
\* scope is removed behind the process (withCompilerTool, createOwnedPolicy).
THEOREM MemoryMatchesDisk == Spec => []GateInv
  <1>1. Invariant => GateInv BY DEF Invariant, Phases, Disk, GateInv
  <1> QED BY <1>1, InvariantHolds, PTL

\* Whatever was selected and however its policy reads, a command that exits 0 has
\* completed every gate that it promises (Check, Local, LocalChanges,
\* ReleaseDryRun, Coverage, Docs, API).
THEOREM PassedMeansComplete == Spec => []PassedRanEverything
  <1>1. ASSUME Invariant PROVE PassedRanEverything
    <2> SUFFICES ASSUME Exited, runner.exit = "0", NEW task \in Owed PROVE task \in history.passed
      BY DEF PassedRanEverything
    <2>1. runner.at = Len(Steps) + 1 BY <1>1 DEF Invariant, Phases, Exited
    <2>2. Len(Steps) \in Nat /\ invocation.command \in Commands /\ invocation.selection \subseteq Directories
      BY <1>1, StepsAre DEF Invariant, Shapes
    <2>3. invocation.command = "local-changes" => runner.range = runner.changes
      <3> SUFFICES ASSUME invocation.command = "local-changes" PROVE runner.range = runner.changes OBVIOUS
      <3>1. invocation.command \in Ranged BY DEF Ranged
      <3>2. RangedShape(Steps) BY <1>1, <3>1, StepsAre DEF Invariant
      <3>3. Len(Steps) >= 8 BY <3>2, RangeSteps
      <3>4. runner.at >= 8 BY ONLY <2>1, <2>2, <3>3
      <3> QED BY <1>1, <3>1, <3>4 DEF Invariant, Bound
    <2>4. Does(Steps, task[1], task[2]) BY <2>2, <2>3, OwedIsDone DEF Steps
    <2>5. PICK i \in 1..Len(Steps) :
             Completes(Steps[i]) /\ Steps[i].gate = task[1] /\ Steps[i].module = task[2]
      BY <2>4 DEF Does, Completes
    <2>6. i < runner.at BY ONLY <2>1, <2>2, i \in 1..Len(Steps)
    <2>7. <<task[1], task[2]>> \in history.passed BY <1>1, <2>5, <2>6 DEF Invariant, Progress
    <2>8. task = <<task[1], task[2]>> BY OwedIsPairs
    <2> QED BY <2>7, <2>8
  <1> QED BY <1>1, InvariantHolds, PTL

\* In every program, no scan reads a tree in which code of some module has run
\* (scanSelectedSecurity, LocalChanges).
THEOREM ScansComeFirst == Spec => []ScansReadUntouched
  <1>1. Invariant => ScansReadUntouched BY DEF Invariant, Progress, ScansReadUntouched
  <1> QED BY <1>1, InvariantHolds, PTL

\* However its steps and its removals fail, a command that leaves something behind
\* says so, but for the snapshot of a baseline (withExecutor, withModuleServices,
\* createOwnedPolicy, runRepositorySecrets, scanSelectedSecurity).
THEOREM NothingLeftSilently == Spec => []LeftoversReported
  <1>1. ASSUME Invariant PROVE LeftoversReported
    <2> SUFFICES ASSUME Exited
                 PROVE  /\ runner.exit = "0" => files = {}
                        /\ "cleanup" \in runner.problems
                           \/ \A file \in files : file.name = "baseline snapshot"
      BY DEF LeftoversReported
    <2>1. runner.scopes = <<>> /\ (runner.exit = "0" => runner.problems = {})
      BY <1>1 DEF Invariant, Phases, Exited
    <2>2. runner.retained = {}
      <3>1. NamesIn(<<>>) = {}
        <4>1. Len(<<>>) = 0 /\ 1..0 = {} OBVIOUS
        <4> QED BY <4>1 DEF NamesIn
      <3> QED BY <1>1, <2>1, <3>1 DEF Invariant, Disk, InScanPass
    <2>3. ASSUME NEW file \in files, Accounted(file)
          PROVE  file.name = "baseline snapshot" /\ runner.problems # {}
      <3>1. Len(<<>>) = 0 /\ \A i \in 1..0 : FALSE OBVIOUS
      <3> QED BY <2>1, <2>2, <2>3, <3>1 DEF Accounted
    <2>4. "cleanup" \in runner.problems \/ \A file \in files : Accounted(file)
      BY <1>1 DEF Invariant, Disk
    <2> QED BY <2>1, <2>3, <2>4
  <1> QED BY <1>1, InvariantHolds, PTL

\* If HEAD moves between the comparison and the scan, the command does not pass
\* (prepareSecretChanges).
THEOREM RangeIsOne == Spec => []ChangesAreScanned
  <1>1. ASSUME Invariant PROVE ChangesAreScanned
    <2> SUFFICES ASSUME Exited, runner.exit = "0", invocation.command \in Ranged
                 PROVE  runner.range = runner.changes
      BY DEF ChangesAreScanned, Ranged
    <2>1. runner.at = Len(Steps) + 1 BY <1>1 DEF Invariant, Phases, Exited
    <2>2. RangedShape(Steps) BY <1>1, StepsAre DEF Invariant
    <2>3. Len(Steps) \in Nat /\ Len(Steps) >= 8 BY <2>2, RangeSteps
    <2>4. runner.at >= 8 BY ONLY <2>1, <2>3
    <2> QED BY <1>1, <2>4 DEF Invariant, Bound
  <1> QED BY <1>1, InvariantHolds, PTL
=============================================================================
