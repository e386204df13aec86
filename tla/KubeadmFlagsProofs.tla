------------------------- MODULE KubeadmFlagsProofs -------------------------
(***************************************************************************)
(* What setupKubelet makes of a line, for lines of any length.  The        *)
(* library's induction theorems take the formula as an operator; here      *)
(* induction is stated with the set of the values that have the property,  *)
(* and proved from the existence of minimal elements.                      *)
(***************************************************************************)
EXTENDS KubeadmFlags, WellFoundedInduction, SequenceTheorems, TLAPS

----------------------------------------------------------------------------
(* Induction *)

\* A set of numbers that has 0 and is closed under successor has them all.
LEMMA NatSets ==
  ASSUME NEW A, 0 \in A, \A n \in Nat : n \in A => n + 1 \in A
  PROVE  Nat \subseteq A
<1> SUFFICES ASSUME Nat \ A # {} PROVE FALSE
  OBVIOUS
<1> DEFINE R == OpToRel(<, Nat)
<1>1. \A m, n \in Nat : m < n => <<m, n>> \in R
  BY DEF OpToRel
<1>2. IsWellFoundedOn(R, Nat)
  BY NatLessThanWellFounded
<1> HIDE DEF R
<1>3. PICK x \in Nat \ A : \A y \in Nat \ A : <<y, x>> \notin R
  <2>1. Nat \ A \subseteq Nat
    OBVIOUS
  <2> QED
    BY <1>2, <2>1, WFMin
<1>4. x # 0 /\ x - 1 \in Nat /\ x - 1 < x /\ (x - 1) + 1 = x
  OBVIOUS
<1> QED
  BY <1>1, <1>3, <1>4

\* A set of sequences that has the empty one and is closed under appending has them all.
LEMMA SeqSets ==
  ASSUME NEW S, NEW A, <<>> \in A, \A s \in Seq(S), e \in S : s \in A => Append(s, e) \in A
  PROVE  Seq(S) \subseteq A
<1> DEFINE B == {n \in Nat : \A s \in Seq(S) : Len(s) = n => s \in A}
<1>1. 0 \in B
  OBVIOUS
<1>2. ASSUME NEW n \in Nat, n \in B PROVE n + 1 \in B
  <2> SUFFICES ASSUME NEW s \in Seq(S), Len(s) = n + 1 PROVE s \in A
    OBVIOUS
  <2>1. s # <<>>
    OBVIOUS
  <2>2. PICK t \in Seq(S), e \in S : s = Append(t, e)
    BY <2>1, SequenceEmptyOrAppend
  <2>3. Len(t) = n
    BY <2>2
  <2> QED
    BY <1>2, <2>2, <2>3
<1>3. Nat \subseteq B
  <2> HIDE DEF B
  <2> QED BY <1>1, <1>2, NatSets
<1> QED
  BY <1>3, LenProperties

\* A set of numbers up to a bound that is not empty has a greatest element.
LEMMA Greatest ==
  ASSUME NEW n \in Nat, NEW T \in SUBSET (0..n), T # {}
  PROVE  \E i \in T : \A j \in T : j <= i
<1> DEFINE A == {m \in Nat : \A U \in SUBSET (0..m) : U # {} => \E i \in U : \A j \in U : j <= i}
<1>1. 0 \in A
  <2> SUFFICES ASSUME NEW U \in SUBSET (0..0), U # {} PROVE \E i \in U : \A j \in U : j <= i
    OBVIOUS
  <2>1. PICK u \in U : TRUE
    OBVIOUS
  <2>2. \A j \in U : j = 0
    OBVIOUS
  <2> QED
    BY <2>1, <2>2
<1>2. ASSUME NEW m \in Nat, m \in A PROVE m + 1 \in A
  <2> SUFFICES ASSUME NEW U \in SUBSET (0..m+1), U # {} PROVE \E i \in U : \A j \in U : j <= i
    OBVIOUS
  <2>1. CASE m + 1 \in U
    BY <2>1
  <2>2. CASE m + 1 \notin U
    <3>1. U \in SUBSET (0..m)
      BY <2>2
    <3> QED
      BY <1>2, <3>1
  <2> QED
    BY <2>1, <2>2
<1>3. Nat \subseteq A
  <2> HIDE DEF A
  <2> QED BY <1>1, <1>2, NatSets
<1> QED
  BY <1>3

----------------------------------------------------------------------------
(* Selection *)

\* f collects the members of T among the first n elements of s.
Collects(f, s, T, n) ==
  f = [i \in 0..n |->
         IF i = 0 THEN <<>>
         ELSE IF s[i] \in T THEN Append(f[i-1], s[i]) ELSE f[i-1]]

LEMMA CollectsExists ==
  ASSUME NEW s, NEW T, NEW n \in Nat
  PROVE  \E f : Collects(f, s, T, n)
<1> DEFINE A == {m \in Nat : \E f : Collects(f, s, T, m)}
<1>1. 0 \in A
  <2>1. Collects([i \in 0..0 |-> <<>>], s, T, 0)
    BY DEF Collects
  <2> QED
    BY <2>1
<1>2. ASSUME NEW m \in Nat, m \in A PROVE m + 1 \in A
  <2>1. PICK f : Collects(f, s, T, m)
    BY <1>2
  <2> DEFINE g == [i \in 0..m+1 |->
                     IF i = m + 1 THEN IF s[m+1] \in T THEN Append(f[m], s[m+1]) ELSE f[m]
                     ELSE f[i]]
  <2>2. \A i \in 0..m : f[i] = IF i = 0 THEN <<>>
                               ELSE IF s[i] \in T THEN Append(f[i-1], s[i]) ELSE f[i-1]
    BY <2>1 DEF Collects
  <2>3. \A i \in 0..m : g[i] = f[i]
    OBVIOUS
  <2>4. \A i \in 0..m+1 : g[i] = IF i = 0 THEN <<>>
                                 ELSE IF s[i] \in T THEN Append(g[i-1], s[i]) ELSE g[i-1]
    <3> SUFFICES ASSUME NEW i \in 0..m+1
                 PROVE  g[i] = IF i = 0 THEN <<>>
                               ELSE IF s[i] \in T THEN Append(g[i-1], s[i]) ELSE g[i-1]
      OBVIOUS
    <3>1. CASE i = m + 1
      <4>1. g[i] = (IF s[m+1] \in T THEN Append(f[m], s[m+1]) ELSE f[m]) /\ i - 1 = m /\ i # 0
        BY <3>1
      <4>2. g[m] = f[m]
        BY <2>3
      <4> QED
        BY <3>1, <4>1, <4>2
    <3>2. CASE i \in 0..m
      <4>1. i # 0 => i - 1 \in 0..m
        BY <3>2
      <4> QED
        BY <2>2, <2>3, <3>2, <4>1
    <3> QED
      BY <3>1, <3>2
  <2>5. Collects(g, s, T, m + 1)
    BY <2>4 DEF Collects
  <2> QED
    BY <2>5
<1>3. Nat \subseteq A
  <2> HIDE DEF A
  <2> QED BY <1>1, <1>2, NatSets
<1> QED
  BY <1>3

\* What is collected up to a point depends only on the elements up to it.
LEMMA CollectsAgree ==
  ASSUME NEW s, NEW t, NEW T, NEW n \in Nat, NEW m \in Nat, n <= m,
         NEW f, Collects(f, s, T, n), NEW g, Collects(g, t, T, m),
         \A i \in 1..n : s[i] = t[i]
  PROVE  f[n] = g[n]
<1> DEFINE A == {k \in Nat : k <= n => f[k] = g[k]}
<1>1. 0 \in A
  BY DEF Collects
<1>2. ASSUME NEW k \in Nat, k \in A PROVE k + 1 \in A
  <2> SUFFICES ASSUME k + 1 <= n PROVE f[k+1] = g[k+1]
    OBVIOUS
  <2>1. f[k] = g[k] /\ k + 1 \in 0..n /\ k + 1 \in 0..m /\ k + 1 # 0 /\ (k + 1) - 1 = k
    BY <1>2
  <2>2. f[k+1] = IF s[k+1] \in T THEN Append(f[k], s[k+1]) ELSE f[k]
    BY <2>1 DEF Collects
  <2>3. g[k+1] = IF t[k+1] \in T THEN Append(g[k], t[k+1]) ELSE g[k]
    BY <2>1 DEF Collects
  <2> QED
    BY <2>1, <2>2, <2>3
<1>3. Nat \subseteq A
  <2> HIDE DEF A
  <2> QED BY <1>1, <1>2, NatSets
<1> QED
  BY <1>3

LEMMA AmongCollected ==
  ASSUME NEW s, NEW T, Len(s) \in Nat
  PROVE  \E f : Collects(f, s, T, Len(s)) /\ Among(s, T) = f[Len(s)]
<1> DEFINE f == CHOOSE f : Collects(f, s, T, Len(s))
<1>1. Collects(f, s, T, Len(s))
  BY CollectsExists
<1>2. Among(s, T) = f[Len(s)]
  BY DEF Among, Collects
<1> QED
  BY <1>1, <1>2

\* The two equations that define a selection.
LEMMA AmongEmpty ==
  ASSUME NEW T
  PROVE  Among(<<>>, T) = <<>>
<1>1. Len(<<>>) = 0
  OBVIOUS
<1>2. PICK f : Collects(f, <<>>, T, 0) /\ Among(<<>>, T) = f[0]
  BY <1>1, AmongCollected
<1> QED
  BY <1>2 DEF Collects

LEMMA AmongAppend ==
  ASSUME NEW S, NEW s \in Seq(S), NEW e \in S, NEW T
  PROVE  Among(Append(s, e), T) = IF e \in T THEN Append(Among(s, T), e) ELSE Among(s, T)
<1> DEFINE t == Append(s, e)
           n == Len(s)
<1>1. /\ n \in Nat /\ Len(t) = n + 1 /\ t[n+1] = e
      /\ \A i \in 1..n : s[i] = t[i]
  BY AppendProperties, LenProperties
<1> HIDE DEF t
<1>2. PICK f : Collects(f, s, T, n) /\ Among(s, T) = f[n]
  BY <1>1, AmongCollected
<1>3. PICK g : Collects(g, t, T, n + 1) /\ Among(t, T) = g[n+1]
  BY <1>1, AmongCollected
<1> HIDE DEF n
<1>4. f[n] = g[n]
  BY <1>1, <1>2, <1>3, CollectsAgree
<1>5. n + 1 \in 0..n+1 /\ n + 1 # 0 /\ (n + 1) - 1 = n
  BY <1>1
<1>6. g[n+1] = IF t[n+1] \in T THEN Append(g[n], t[n+1]) ELSE g[n]
  BY <1>3, <1>5 DEF Collects
<1>7. Among(t, T) = IF e \in T THEN Append(Among(s, T), e) ELSE Among(s, T)
  BY <1>1, <1>2, <1>3, <1>4, <1>6
<1> QED
  BY <1>7 DEF t

LEMMA AmongType ==
  ASSUME NEW S, NEW s \in Seq(S), NEW T
  PROVE  /\ Among(s, T) \in Seq(S \cap T) /\ Among(s, T) \in Seq(S)
         /\ Len(Among(s, T)) <= Len(s)
<1> DEFINE A == {r \in Seq(S) : Among(r, T) \in Seq(S \cap T) /\ Len(Among(r, T)) <= Len(r)}
<1>1. <<>> \in A
  <2>1. Among(<<>>, T) = <<>>
    BY AmongEmpty
  <2>2. <<>> \in Seq(S) /\ <<>> \in Seq(S \cap T) /\ Len(<<>>) <= Len(<<>>)
    OBVIOUS
  <2> QED
    BY <2>1, <2>2
<1>2. ASSUME NEW r \in Seq(S), NEW e \in S, r \in A PROVE Append(r, e) \in A
  <2>1. /\ Append(r, e) \in Seq(S) /\ Len(Append(r, e)) = Len(r) + 1 /\ Len(r) \in Nat
        /\ Among(r, T) \in Seq(S \cap T) /\ Len(Among(r, T)) <= Len(r) /\ Len(Among(r, T)) \in Nat
    BY <1>2, AppendProperties, LenProperties
  <2>2. Among(Append(r, e), T) = IF e \in T THEN Append(Among(r, T), e) ELSE Among(r, T)
    BY AmongAppend
  <2>3. CASE e \in T
    <3>1. Append(Among(r, T), e) \in Seq(S \cap T) /\ Len(Append(Among(r, T), e)) = Len(Among(r, T)) + 1
      BY <2>1, <2>3, AppendProperties
    <3> QED
      BY <2>1, <2>2, <2>3, <3>1
  <2>4. CASE e \notin T
    BY <2>1, <2>2, <2>4
  <2> QED
    BY <2>3, <2>4
<1>3. Seq(S) \subseteq A
  <2> HIDE DEF A
  <2> QED BY <1>1, <1>2, SeqSets
<1>4. Among(s, T) \in Seq(S \cap T) /\ Len(Among(s, T)) <= Len(s)
  BY <1>3
<1>5. Among(s, T) \in Seq(S)
  BY <1>4, S \cap T \subseteq S, SeqMonotonic
<1> QED
  BY <1>4, <1>5

LEMMA AmongAll ==
  ASSUME NEW S, NEW T, S \subseteq T, NEW s \in Seq(S)
  PROVE  Among(s, T) = s
<1> DEFINE A == {r \in Seq(S) : Among(r, T) = r}
<1>1. <<>> \in A
  BY AmongEmpty
<1>2. ASSUME NEW r \in Seq(S), NEW e \in S, r \in A PROVE Append(r, e) \in A
  BY <1>2, AmongAppend, AppendProperties
<1>3. Seq(S) \subseteq A
  <2> HIDE DEF A
  <2> QED BY <1>1, <1>2, SeqSets
<1> QED
  BY <1>3

LEMMA ConcatAppend ==
  ASSUME NEW S, NEW s \in Seq(S), NEW t \in Seq(S), NEW e \in S
  PROVE  s \o t \in Seq(S) /\ s \o Append(t, e) = Append(s \o t, e)
<1>1. <<e>> \in Seq(S)
  OBVIOUS
<1>2. s \o t \in Seq(S)
  BY ConcatProperties
<1>3. Append(t, e) = t \o <<e>>
  BY AppendIsConcat
<1>4. Append(s \o t, e) = (s \o t) \o <<e>>
  BY <1>2, AppendIsConcat
<1>5. (s \o t) \o <<e>> = s \o (t \o <<e>>)
  BY <1>1, ConcatAssociative
<1> QED
  BY <1>2, <1>3, <1>4, <1>5

LEMMA AmongConcat ==
  ASSUME NEW S, NEW s \in Seq(S), NEW t \in Seq(S), NEW T
  PROVE  Among(s \o t, T) = Among(s, T) \o Among(t, T)
<1> DEFINE A == {r \in Seq(S) : Among(s \o r, T) = Among(s, T) \o Among(r, T)}
<1>0. Among(s, T) \in Seq(S)
  BY AmongType
<1>1. <<>> \in A
  BY <1>0, AmongEmpty, ConcatEmptySeq
<1>2. ASSUME NEW r \in Seq(S), NEW e \in S, r \in A PROVE Append(r, e) \in A
  <2>1. Append(r, e) \in Seq(S)
    BY AppendProperties
  <2>2. s \o Append(r, e) = Append(s \o r, e) /\ s \o r \in Seq(S)
    BY ConcatAppend
  <2>3. Among(r, T) \in Seq(S)
    BY AmongType
  <2>4. CASE e \in T
    <3>1. Among(s \o Append(r, e), T) = Append(Among(s, T) \o Among(r, T), e)
      BY <1>2, <2>2, <2>4, AmongAppend
    <3>2. Append(Among(s, T) \o Among(r, T), e) = Among(s, T) \o Append(Among(r, T), e)
      <4> DEFINE u == Among(s, T)
                 v == Among(r, T)
      <4>1. u \in Seq(S) /\ v \in Seq(S)
        BY <1>0, <2>3
      <4> HIDE DEF A, u, v
      <4>2. u \o Append(v, e) = Append(u \o v, e)
        BY <4>1, ConcatAppend
      <4> QED
        BY <4>2 DEF u, v
    <3>3. Append(Among(r, T), e) = Among(Append(r, e), T)
      BY <2>4, AmongAppend
    <3> QED
      BY <2>1, <3>1, <3>2, <3>3
  <2>5. CASE e \notin T
    <3>1. Among(s \o Append(r, e), T) = Among(s \o r, T)
      BY <2>2, <2>5, AmongAppend
    <3>2. Among(Append(r, e), T) = Among(r, T)
      BY <2>5, AmongAppend
    <3> QED
      BY <1>2, <2>1, <3>1, <3>2
  <2> QED
    BY <2>4, <2>5
<1>3. Seq(S) \subseteq A
  <2> HIDE DEF A
  <2> QED BY <1>1, <1>2, SeqSets
<1> QED
  BY <1>3

LEMMA ThreeParts ==
  ASSUME NEW S, NEW a \in Seq(S), NEW b \in Seq(S), NEW c \in Seq(S)
  PROVE  /\ (a \o b) \o c \in Seq(S)
         /\ Len((a \o b) \o c) = Len(a) + Len(b) + Len(c)
<1> DEFINE d == a \o b
<1>1. d \in Seq(S) /\ Len(d) = Len(a) + Len(b)
  BY ConcatProperties
<1> HIDE DEF d
<1>2. d \o c \in Seq(S) /\ Len(d \o c) = Len(d) + Len(c)
  BY <1>1, ConcatProperties
<1> QED
  BY <1>1, <1>2 DEF d

LEMMA Single ==
  ASSUME NEW S, NEW e \in S
  PROVE  /\ <<e>> \in Seq(S) /\ Len(<<e>>) = 1 /\ <<e>>[1] = e
         /\ <<>> \in Seq(S) /\ Append(<<>>, e) = <<e>>
  OBVIOUS

LEMMA AmongSingle ==
  ASSUME NEW e, NEW T
  PROVE  Among(<<e>>, T) = IF e \in T THEN <<e>> ELSE <<>>
<1>1. <<>> \in Seq({e}) /\ e \in {e} /\ Append(<<>>, e) = <<e>>
  BY Single
<1>2. Among(Append(<<>>, e), T) = IF e \in T THEN Append(Among(<<>>, T), e) ELSE Among(<<>>, T)
  BY <1>1, AmongAppend
<1> QED
  BY <1>1, <1>2, AmongEmpty

\* Selecting what a coarser selection has kept anyway.
LEMMA AmongAmong ==
  ASSUME NEW S, NEW s \in Seq(S), NEW T, NEW U, U \subseteq T
  PROVE  Among(Among(s, T), U) = Among(s, U)
<1> DEFINE A == {r \in Seq(S) : Among(Among(r, T), U) = Among(r, U)}
<1>1. <<>> \in A
  BY AmongEmpty
<1>2. ASSUME NEW r \in Seq(S), NEW e \in S, r \in A PROVE Append(r, e) \in A
  <2>1. Append(r, e) \in Seq(S)
    BY AppendProperties
  <2>2. Among(r, T) \in Seq(S)
    BY AmongType
  <2>3. Among(Append(r, e), T) = IF e \in T THEN Append(Among(r, T), e) ELSE Among(r, T)
    BY AmongAppend
  <2>4. Among(Append(r, e), U) = IF e \in U THEN Append(Among(r, U), e) ELSE Among(r, U)
    BY AmongAppend
  <2>5. Among(Append(Among(r, T), e), U)
          = IF e \in U THEN Append(Among(Among(r, T), U), e) ELSE Among(Among(r, T), U)
    BY <2>2, AmongAppend
  <2> QED
    BY <1>2, <2>1, <2>3, <2>4, <2>5
<1>3. Seq(S) \subseteq A
  <2> HIDE DEF A
  <2> QED BY <1>1, <1>2, SeqSets
<1> QED
  BY <1>3

----------------------------------------------------------------------------
(* The line *)

\* A line with every --kubeconfig pointed at yurt-hub.
Sent(args) ==
  [i \in DOMAIN args |-> IF NameOf(args[i]) = "--kubeconfig" THEN "yurtKubeconfig" ELSE args[i]]

Kept(args) == Among(args, Unbootstrapped)

\* What is appended to a line without --kubeconfig.
Added(args) == IF Named(Kept(args), "--kubeconfig") THEN <<>> ELSE <<"yurtKubeconfig">>

LEMMA RedirectedParts ==
  ASSUME NEW args
  PROVE  Redirected(args) = (Sent(Kept(args)) \o <<"noBootstrap">>) \o Added(args)
  BY DEF Redirected, Sent, Kept, Added

LEMMA FlagNames ==
  /\ Unbootstrapped = {"other", "kubeconfig", "yurtKubeconfig"} /\ Unbootstrapped \subseteq Flags
  /\ \A f \in Flags :
       /\ f \in Unbootstrapped <=> NameOf(f) # "--bootstrap-kubeconfig"
       /\ f = "other" <=> NameOf(f) = "other"
       /\ NameOf(f) \in {"--bootstrap-kubeconfig", "--kubeconfig", "other"}
  /\ NameOf("noBootstrap") = "--bootstrap-kubeconfig" /\ NameOf("yurtKubeconfig") = "--kubeconfig"
  BY DEF Unbootstrapped, Flags, NameOf

LEMMA AddedType ==
  ASSUME NEW args
  PROVE  /\ Added(args) \in Seq(Unbootstrapped) /\ Added(args) \in Seq(Flags)
         /\ Len(Added(args)) = IF Named(Kept(args), "--kubeconfig") THEN 0 ELSE 1
         /\ <<"noBootstrap">> \in Seq(Flags) /\ Len(<<"noBootstrap">>) = 1
<1>1. "yurtKubeconfig" \in Unbootstrapped /\ "yurtKubeconfig" \in Flags /\ "noBootstrap" \in Flags
  BY FlagNames DEF Flags
<1>2. <<"yurtKubeconfig">> \in Seq(Unbootstrapped) /\ <<"yurtKubeconfig">> \in Seq(Flags)
      /\ Len(<<"yurtKubeconfig">>) = 1 /\ <<"noBootstrap">> \in Seq(Flags) /\ Len(<<"noBootstrap">>) = 1
  BY <1>1, Single
<1>3. <<>> \in Seq(Unbootstrapped) /\ <<>> \in Seq(Flags) /\ Len(<<>>) = 0
  OBVIOUS
<1> QED
  BY <1>2, <1>3 DEF Added

LEMMA KeptType ==
  ASSUME NEW args \in Seq(Flags)
  PROVE  Kept(args) \in Seq(Unbootstrapped) /\ Len(Kept(args)) <= Len(args)
<1>1. Flags \cap Unbootstrapped = Unbootstrapped
  BY FlagNames
<1> QED
  BY <1>1, AmongType DEF Kept

LEMMA SentType ==
  ASSUME NEW args \in Seq(Unbootstrapped)
  PROVE  Sent(args) \in Seq(Unbootstrapped) /\ Len(Sent(args)) = Len(args)
<1>1. DOMAIN args = 1..Len(args) /\ Len(args) \in Nat /\ \A i \in 1..Len(args) : args[i] \in Unbootstrapped
  BY LenProperties
<1>2. "yurtKubeconfig" \in Unbootstrapped
  BY FlagNames
<1> DEFINE F == [i \in 1..Len(args) |-> IF NameOf(args[i]) = "--kubeconfig" THEN "yurtKubeconfig" ELSE args[i]]
<1>3. F \in [1..Len(args) -> Unbootstrapped]
  BY <1>1, <1>2
<1>4. Sent(args) = F
  BY <1>1 DEF Sent
<1> QED
  BY <1>1, <1>3, <1>4

\* Pointing a line at yurt-hub keeps its other flags.
LEMMA SentOthers ==
  ASSUME NEW args \in Seq(Unbootstrapped)
  PROVE  Among(Sent(args), {"other"}) = Among(args, {"other"})
<1> DEFINE A == {r \in Seq(Unbootstrapped) : Among(Sent(r), {"other"}) = Among(r, {"other"})}
<1>1. <<>> \in A
  <2>1. Sent(<<>>) = <<>>
    BY DEF Sent
  <2> QED
    BY <2>1, AmongEmpty
<1>2. ASSUME NEW r \in Seq(Unbootstrapped), NEW e \in Unbootstrapped, r \in A PROVE Append(r, e) \in A
  <2> DEFINE x == IF NameOf(e) = "--kubeconfig" THEN "yurtKubeconfig" ELSE e
             n == Len(r)
  <2>0. x \in Unbootstrapped /\ (x = "other" <=> e = "other") /\ n \in Nat
    BY FlagNames, LenProperties
  <2>1. Append(r, e) \in Seq(Unbootstrapped) /\ Sent(r) \in Seq(Unbootstrapped)
    BY AppendProperties, SentType
  <2>2. Sent(Append(r, e)) = Append(Sent(r), x)
    <3>0. Len(Sent(r)) = n /\ Len(Append(r, e)) = n + 1
      BY SentType, AppendProperties
    <3>1. /\ Append(Sent(r), x) \in Seq(Unbootstrapped) /\ Len(Append(Sent(r), x)) = n + 1
          /\ Sent(Append(r, e)) \in Seq(Unbootstrapped) /\ Len(Sent(Append(r, e))) = n + 1
      <4> HIDE DEF x, n
      <4> QED
        BY <2>0, <2>1, <3>0, SentType, AppendProperties
    <3>2. ASSUME NEW i \in 1..n PROVE Sent(Append(r, e))[i] = Append(Sent(r), x)[i]
      <4>1. Append(r, e)[i] = r[i] /\ Append(Sent(r), x)[i] = Sent(r)[i]
            /\ i \in DOMAIN r /\ i \in DOMAIN Append(r, e)
        BY <2>0, <2>1, <3>0, <3>1, AppendProperties, LenProperties
      <4> QED
        BY <4>1 DEF Sent
    <3>3. Sent(Append(r, e))[n+1] = x
      <4>1. Append(r, e)[n+1] = e /\ n + 1 \in DOMAIN Append(r, e)
        BY <2>0, <2>1, <3>0, <3>1, AppendProperties, LenProperties
      <4> QED
        BY <4>1 DEF Sent
    <3>4. Append(Sent(r), x)[n+1] = x
      BY <2>0, <2>1, <3>0, <3>1, AppendProperties
    <3>5. ASSUME NEW i \in 1..n+1 PROVE Sent(Append(r, e))[i] = Append(Sent(r), x)[i]
      <4> HIDE DEF A, x, n
      <4>1. i \in 1..n \/ i = n + 1
        BY <2>0
      <4> QED
        BY <3>2, <3>3, <3>4, <4>1
    <3> HIDE DEF A, x, n
    <3> QED
      BY <3>1, <3>5, SeqEqual
  <2> HIDE DEF x
  <2>3. Among(Append(Sent(r), x), {"other"})
          = IF x \in {"other"} THEN Append(Among(Sent(r), {"other"}), x) ELSE Among(Sent(r), {"other"})
    BY <2>0, <2>1, AmongAppend
  <2>4. Among(Append(r, e), {"other"})
          = IF e \in {"other"} THEN Append(Among(r, {"other"}), e) ELSE Among(r, {"other"})
    BY AmongAppend
  <2> QED
    BY <1>2, <2>0, <2>1, <2>2, <2>3, <2>4
<1>3. Seq(Unbootstrapped) \subseteq A
  <2> HIDE DEF A
  <2> QED BY <1>1, <1>2, SeqSets
<1> QED
  BY <1>3

\* Rewriting a line keeps its other flags, in their order.
LEMMA RedirectedOthers ==
  ASSUME NEW args \in Seq(Flags)
  PROVE  Others(Redirected(args)) = Others(args)
<1> DEFINE O == {"other"}
           kept == Kept(args)
           sent == Sent(kept)
           moved == <<"noBootstrap">>
           added == Added(args)
<1>1. kept \in Seq(Unbootstrapped) /\ sent \in Seq(Flags) /\ moved \in Seq(Flags) /\ added \in Seq(Flags)
  BY KeptType, SentType, AddedType, SeqMonotonic, FlagNames
<1>2. Among(moved, O) = <<>> /\ Among(added, O) = <<>>
  BY AmongSingle, AmongEmpty DEF Added
<1>3. Redirected(args) = (sent \o moved) \o added
  BY RedirectedParts
<1>4. Among(sent, O) = Among(kept, O) /\ Among(kept, O) \in Seq(Unbootstrapped)
  BY <1>1, SentOthers, AmongType
<1>5. Among(kept, O) = Among(args, O)
  BY FlagNames, AmongAmong DEF Kept
<1> HIDE DEF kept, sent, moved, added
<1>0. sent \in Seq(Flags) /\ moved \in Seq(Flags) /\ added \in Seq(Flags)
  BY <1>1
<1>6. Among(Redirected(args), O) = (Among(sent, O) \o Among(moved, O)) \o Among(added, O)
  <2> DEFINE front == sent \o moved
  <2>1. front \in Seq(Flags)
    BY <1>0, ConcatProperties
  <2>2. Among(front, O) = Among(sent, O) \o Among(moved, O)
    <3>1. sent \in Seq(Flags) /\ moved \in Seq(Flags)
      BY <1>0
    <3>2. Among(sent \o moved, O) = Among(sent, O) \o Among(moved, O)
      BY <3>1, AmongConcat
    <3> QED
      BY <3>2
  <2> HIDE DEF front
  <2>3. Among(front \o added, O) = Among(front, O) \o Among(added, O)
    <3>1. added \in Seq(Flags)
      BY <1>0
    <3> QED
      BY <2>1, <3>1, AmongConcat
  <2> QED
    BY <1>3, <2>2, <2>3 DEF front
<1>7. Among(kept, O) \o <<>> = Among(kept, O)
  BY <1>4, ConcatEmptySeq
<1> QED
  BY <1>2, <1>4, <1>5, <1>6, <1>7 DEF Others

\* A rewritten line is at most two flags longer, and rewriting it again adds nothing to it.
LEMMA RedirectedLength ==
  ASSUME NEW args \in Seq(Flags)
  PROVE  /\ Redirected(args) \in Seq(Flags)
         /\ Len(Redirected(args)) <= Len(args) + 2
         /\ Len(Redirected(Redirected(args))) = Len(Redirected(args))
<1> DEFINE kept == Kept(args)
           sent == Sent(kept)
           moved == <<"noBootstrap">>
           added == Added(args)
           again == Kept(Redirected(args))
<1>1. /\ kept \in Seq(Unbootstrapped) /\ sent \in Seq(Unbootstrapped) /\ added \in Seq(Unbootstrapped)
      /\ sent \in Seq(Flags) /\ moved \in Seq(Flags) /\ added \in Seq(Flags)
      /\ Len(sent) = Len(kept) /\ Len(kept) <= Len(args) /\ Len(kept) \in Nat /\ Len(args) \in Nat
      /\ Len(moved) = 1 /\ Len(added) = IF Named(kept, "--kubeconfig") THEN 0 ELSE 1
  BY KeptType, SentType, AddedType, SeqMonotonic, FlagNames, LenProperties
<1>2. /\ Among(moved, Unbootstrapped) = <<>> /\ Among(sent, Unbootstrapped) = sent
      /\ Among(added, Unbootstrapped) = added
  BY <1>1, FlagNames, AmongSingle, AmongAll
<1>3. Redirected(args) = (sent \o moved) \o added
  BY RedirectedParts
<1>4. /\ DOMAIN kept = 1..Len(kept)
      /\ \A i \in DOMAIN kept : sent[i] = IF NameOf(kept[i]) = "--kubeconfig" THEN "yurtKubeconfig" ELSE kept[i]
      /\ ~Named(kept, "--kubeconfig") => added[1] = "yurtKubeconfig"
  BY <1>1, LenProperties DEF Sent, Added
<1> HIDE DEF kept, sent, moved, added
<1>0. sent \in Seq(Flags) /\ moved \in Seq(Flags) /\ added \in Seq(Flags)
  BY <1>1
<1>5. Redirected(args) \in Seq(Flags) /\ Len(Redirected(args)) = Len(kept) + 1 + Len(added)
  <2>1. (sent \o moved) \o added \in Seq(Flags)
        /\ Len((sent \o moved) \o added) = Len(sent) + Len(moved) + Len(added)
    BY <1>0, ThreeParts
  <2> QED
    BY <1>1, <1>3, <2>1
<1>6. again = sent \o added
  <2> DEFINE front == sent \o moved
  <2>1. front \in Seq(Flags)
    BY <1>0, ConcatProperties
  <2>2. Among(front, Unbootstrapped) = Among(sent, Unbootstrapped) \o Among(moved, Unbootstrapped)
    <3>1. sent \in Seq(Flags) /\ moved \in Seq(Flags)
      BY <1>0
    <3>2. Among(sent \o moved, Unbootstrapped) = Among(sent, Unbootstrapped) \o Among(moved, Unbootstrapped)
      BY <3>1, AmongConcat
    <3> QED
      BY <3>2
  <2> HIDE DEF front
  <2>3. Among(front \o added, Unbootstrapped) = Among(front, Unbootstrapped) \o Among(added, Unbootstrapped)
    <3>1. added \in Seq(Flags)
      BY <1>0
    <3> QED
      BY <2>1, <3>1, AmongConcat
  <2>4. again = Among(front \o added, Unbootstrapped)
    BY <1>3 DEF Kept, front
  <2>5. sent \o <<>> = sent
    BY <1>1, ConcatEmptySeq
  <2> QED
    BY <1>2, <2>2, <2>3, <2>4, <2>5
<1> HIDE DEF again
<1>7. /\ again \in Seq(Unbootstrapped) /\ Len(again) = Len(kept) + Len(added)
      /\ DOMAIN again = 1..Len(again)
      /\ \A i \in 1..Len(kept) + Len(added) : again[i] = IF i <= Len(kept) THEN sent[i] ELSE added[i - Len(kept)]
  <2>1. sent \in Seq(Unbootstrapped) /\ added \in Seq(Unbootstrapped)
    BY <1>1
  <2>2. sent \o added \in Seq(Unbootstrapped) /\ Len(sent \o added) = Len(sent) + Len(added)
    BY <2>1, ConcatProperties
  <2>3. \A i \in 1..Len(sent) + Len(added) :
          (sent \o added)[i] = IF i <= Len(sent) THEN sent[i] ELSE added[i - Len(sent)]
    BY <2>1, ConcatProperties
  <2>4. again \in Seq(Unbootstrapped)
    BY <1>6, <2>2
  <2>5. DOMAIN again = 1..Len(again)
    BY <2>4, LenProperties
  <2>6. Len(again) = Len(kept) + Len(added)
    BY <1>1, <1>6, <2>2
  <2>7. \A i \in 1..Len(kept) + Len(added) : again[i] = IF i <= Len(kept) THEN sent[i] ELSE added[i - Len(kept)]
    BY <1>1, <1>6, <2>3
  <2> QED
    BY <2>4, <2>5, <2>6, <2>7
<1>8. Named(again, "--kubeconfig")
  <2>1. CASE Named(kept, "--kubeconfig")
    <3>1. PICK i \in DOMAIN kept : NameOf(kept[i]) = "--kubeconfig"
      BY <2>1 DEF Named
    <3>2. sent[i] = "yurtKubeconfig"
      BY <1>4, <3>1
    <3>3. again[i] = sent[i] /\ i \in DOMAIN again
      BY <1>1, <1>4, <1>7, <3>1
    <3> QED
      BY <3>2, <3>3, FlagNames DEF Named
  <2>2. CASE ~Named(kept, "--kubeconfig")
    <3> DEFINE k == Len(kept)
    <3>0. k \in Nat /\ Len(added) = 1 /\ k + 1 \in 1..k+1 /\ ~(k + 1 <= k) /\ (k + 1) - k = 1
      BY <1>1, <2>2
    <3> HIDE DEF k
    <3>1. again[k + 1] = added[1] /\ k + 1 \in DOMAIN again
      BY <1>7, <3>0 DEF k
    <3> QED
      BY <1>4, <2>2, <3>1, FlagNames DEF Named
  <2> QED
    BY <2>1, <2>2
<1>9. Added(Redirected(args)) = <<>>
  BY <1>8 DEF Added, again
<1>10. Len(Redirected(Redirected(args))) = Len(again) + 1
  <2> DEFINE last == Sent(again)
  <2>1. Redirected(Redirected(args)) = (last \o moved) \o <<>>
    BY <1>9, RedirectedParts DEF again, moved
  <2>2. again \in Seq(Unbootstrapped)
    BY <1>7
  <2>3. last \in Seq(Unbootstrapped) /\ Len(last) = Len(again) /\ Len(again) \in Nat
    BY <2>2, SentType, LenProperties
  <2> HIDE DEF last
  <2>4. last \in Seq(Flags)
    BY <2>3, SeqMonotonic, FlagNames
  <2>5. last \o moved \in Seq(Flags) /\ Len(last \o moved) = Len(last) + Len(moved)
    BY <1>0, <2>4, ConcatProperties
  <2>6. (last \o moved) \o <<>> = last \o moved
    BY <2>5, ConcatEmptySeq
  <2> QED
    BY <1>1, <2>1, <2>3, <2>5, <2>6
<1> QED
  BY <1>1, <1>5, <1>7, <1>10

\* In a rewritten line both flags are there, and with no value but the one that is written.
LEMMA RedirectedFlags ==
  ASSUME NEW args \in Seq(Flags)
  PROVE  /\ \E i \in DOMAIN Redirected(args) : NameOf(Redirected(args)[i]) = "--kubeconfig"
         /\ \E i \in DOMAIN Redirected(args) : NameOf(Redirected(args)[i]) = "--bootstrap-kubeconfig"
         /\ \A i \in DOMAIN Redirected(args) :
              /\ NameOf(Redirected(args)[i]) = "--kubeconfig" => Redirected(args)[i] = "yurtKubeconfig"
              /\ NameOf(Redirected(args)[i]) = "--bootstrap-kubeconfig" => Redirected(args)[i] = "noBootstrap"
<1> DEFINE kept == Kept(args)
           sent == Sent(kept)
           moved == <<"noBootstrap">>
           added == Added(args)
           front == sent \o moved
           line == Redirected(args)
           n == Len(kept)
<1>1. /\ kept \in Seq(Unbootstrapped) /\ sent \in Seq(Flags) /\ moved \in Seq(Flags) /\ added \in Seq(Flags)
      /\ Len(sent) = n /\ n \in Nat /\ DOMAIN kept = 1..n
      /\ Len(moved) = 1 /\ Len(added) = IF Named(kept, "--kubeconfig") THEN 0 ELSE 1
  BY KeptType, SentType, AddedType, SeqMonotonic, FlagNames, LenProperties
<1>2. line = front \o added
  BY RedirectedParts
<1>3. /\ \A i \in 1..n : sent[i] = IF NameOf(kept[i]) = "--kubeconfig" THEN "yurtKubeconfig" ELSE kept[i]
      /\ ~Named(kept, "--kubeconfig") => added[1] = "yurtKubeconfig"
      /\ moved[1] = "noBootstrap"
  BY <1>1 DEF Sent, Added
<1>4. ASSUME NEW i \in 1..n
      PROVE  /\ NameOf(sent[i]) # "--bootstrap-kubeconfig"
             /\ NameOf(sent[i]) = "--kubeconfig" => sent[i] = "yurtKubeconfig"
             /\ NameOf(kept[i]) = "--kubeconfig" => NameOf(sent[i]) = "--kubeconfig"
  <2>1. kept[i] \in Unbootstrapped
    BY <1>1, ElementOfSeq
  <2>2. kept[i] \in Flags /\ NameOf(kept[i]) # "--bootstrap-kubeconfig"
    BY <2>1, FlagNames
  <2> HIDE DEF sent, kept
  <2> QED
    BY <1>3, <2>2, FlagNames
<1> HIDE DEF n, kept, sent, moved, added
<1>5. front \in Seq(Flags) /\ Len(front) = n + 1
  <2>1. sent \in Seq(Flags) /\ moved \in Seq(Flags)
    BY <1>1
  <2>2. front \in Seq(Flags) /\ Len(front) = Len(sent) + Len(moved)
    BY <2>1, ConcatProperties
  <2> QED
    BY <1>1, <2>2
<1>6. \A i \in 1..n+1 : front[i] = IF i <= n THEN sent[i] ELSE moved[i - n]
  <2>1. sent \in Seq(Flags) /\ moved \in Seq(Flags) /\ Len(sent) = n /\ Len(moved) = 1
    BY <1>1
  <2>2. \A i \in 1..Len(sent) + Len(moved) :
          front[i] = IF i <= Len(sent) THEN sent[i] ELSE moved[i - Len(sent)]
    BY <2>1, ConcatProperties
  <2> QED
    BY <2>1, <2>2
<1> HIDE DEF front
<1>7. /\ line \in Seq(Flags) /\ Len(line) = n + 1 + Len(added)
      /\ \A i \in 1..n + 1 + Len(added) : line[i] = IF i <= n + 1 THEN front[i] ELSE added[i - (n + 1)]
  <2>1. front \in Seq(Flags) /\ added \in Seq(Flags)
    BY <1>1, <1>5
  <2>2. front \o added \in Seq(Flags) /\ Len(front \o added) = Len(front) + Len(added)
    BY <2>1, ConcatProperties
  <2>3. \A i \in 1..Len(front) + Len(added) :
          (front \o added)[i] = IF i <= Len(front) THEN front[i] ELSE added[i - Len(front)]
    BY <2>1, ConcatProperties
  <2> QED
    BY <1>2, <1>5, <2>2, <2>3
<1> HIDE DEF line
<1>8. DOMAIN line = 1..n + 1 + Len(added)
  BY <1>7, LenProperties
<1>9. \A i \in 1..n : line[i] = sent[i] /\ i \in DOMAIN line
  BY <1>1, <1>6, <1>7, <1>8
<1>10. line[n + 1] = "noBootstrap" /\ n + 1 \in DOMAIN line
  <2>1. ~(n + 1 <= n) /\ (n + 1) - n = 1 /\ n + 1 \in 1..n+1 /\ n + 1 \in 1..n + 1 + Len(added)
    BY <1>1
  <2>2. front[n + 1] = moved[1]
    BY <1>6, <2>1
  <2> QED
    BY <1>3, <1>7, <1>8, <2>1, <2>2
<1>11. ASSUME ~Named(kept, "--kubeconfig") PROVE line[n + 2] = "yurtKubeconfig" /\ n + 2 \in DOMAIN line
  <2>1. /\ ~(n + 2 <= n + 1) /\ (n + 2) - (n + 1) = 1 /\ n + 2 \in 1..n + 1 + Len(added)
    BY <1>1, <1>11
  <2> QED
    BY <1>3, <1>7, <1>8, <1>11, <2>1
<1>12. \A i \in DOMAIN line : i \in 1..n \/ i = n + 1 \/ (i = n + 2 /\ ~Named(kept, "--kubeconfig"))
  BY <1>1, <1>8
<1>13. \E i \in DOMAIN line : NameOf(line[i]) = "--kubeconfig"
  <2>1. CASE Named(kept, "--kubeconfig")
    BY <1>1, <1>4, <1>9, <2>1 DEF Named
  <2>2. CASE ~Named(kept, "--kubeconfig")
    BY <1>11, <2>2, FlagNames
  <2> QED
    BY <2>1, <2>2
<1>14. \E i \in DOMAIN line : NameOf(line[i]) = "--bootstrap-kubeconfig"
  BY <1>10, FlagNames
<1>15. ASSUME NEW i \in DOMAIN line
       PROVE  /\ NameOf(line[i]) = "--kubeconfig" => line[i] = "yurtKubeconfig"
              /\ NameOf(line[i]) = "--bootstrap-kubeconfig" => line[i] = "noBootstrap"
  <2>1. CASE i \in 1..n
    BY <1>4, <1>9, <2>1
  <2>2. CASE i = n + 1
    BY <1>10, <2>2, FlagNames
  <2>3. CASE i = n + 2 /\ ~Named(kept, "--kubeconfig")
    BY <1>11, <2>3, FlagNames
  <2> QED
    BY <1>12, <2>1, <2>2, <2>3
<1> QED
  BY <1>13, <1>14, <1>15 DEF line

\* A flag that is there with one value only has that value.
LEMMA OneSetting ==
  ASSUME NEW args \in Seq(Flags), NEW name, NEW value,
         \E i \in DOMAIN args : NameOf(args[i]) = name,
         \A i \in DOMAIN args : NameOf(args[i]) = name => args[i] = value
  PROVE  /\ Setting(args, name) = value
         /\ \E i \in DOMAIN args : /\ args[i] = value
                                   /\ \A j \in DOMAIN args : j > i => NameOf(args[j]) # name
<1> DEFINE T == {i \in DOMAIN args : NameOf(args[i]) = name}
<1>1. DOMAIN args = 1..Len(args) /\ Len(args) \in Nat
  BY LenProperties
<1>2. T # {} /\ T \in SUBSET (0..Len(args))
  BY <1>1
<1> DEFINE m == CHOOSE i \in T : \A j \in T : j <= i
<1>3. m \in T /\ \A j \in T : j <= m
  <2> HIDE DEF T
  <2>1. \E i \in T : \A j \in T : j <= i
    BY <1>1, <1>2, Greatest
  <2> QED
    BY <2>1
<1>4. Setting(args, name) = args[m]
  BY <1>2 DEF Setting
<1> HIDE DEF m
<1>5. args[m] = value /\ m \in DOMAIN args
  BY <1>3
<1>6. \A j \in DOMAIN args : j > m => NameOf(args[j]) # name
  BY <1>1, <1>3
<1> QED
  BY <1>4, <1>5, <1>6

\* A rewritten line sends kubelet through yurt-hub, whatever the line was.
LEMMA RedirectedSettings ==
  ASSUME NEW args \in Seq(Flags)
  PROVE  /\ Setting(Redirected(args), "--bootstrap-kubeconfig") = "noBootstrap"
         /\ Setting(Redirected(args), "--kubeconfig") = "yurtKubeconfig"
         /\ ToYurtHub(Line(Redirected(args)))
<1>1. Redirected(args) \in Seq(Flags)
  BY RedirectedLength
<1> DEFINE line == Redirected(args)
<1>2. /\ \E i \in DOMAIN line : NameOf(line[i]) = "--kubeconfig"
      /\ \E i \in DOMAIN line : NameOf(line[i]) = "--bootstrap-kubeconfig"
      /\ \A i \in DOMAIN line : NameOf(line[i]) = "--kubeconfig" => line[i] = "yurtKubeconfig"
      /\ \A i \in DOMAIN line : NameOf(line[i]) = "--bootstrap-kubeconfig" => line[i] = "noBootstrap"
  BY RedirectedFlags
<1> HIDE DEF line
<1>3. line \in Seq(Flags)
  BY <1>1 DEF line
<1> DEFINE Last(name, value) ==
             \E i \in DOMAIN line : /\ line[i] = value
                                    /\ \A j \in DOMAIN line : j > i => NameOf(line[j]) # name
<1>4. Setting(line, "--bootstrap-kubeconfig") = "noBootstrap"
  BY <1>2, <1>3, OneSetting
<1>5. \A name, value :
        /\ \E i \in DOMAIN line : NameOf(line[i]) = name
        /\ \A i \in DOMAIN line : NameOf(line[i]) = name => line[i] = value
        => Setting(line, name) = value /\ Last(name, value)
  BY <1>3, OneSetting
<1>6. Setting(line, "--kubeconfig") = "yurtKubeconfig" /\ Last("--kubeconfig", "yurtKubeconfig")
  <2> HIDE DEF Last
  <2> QED
    BY <1>2, <1>5
<1>7. ToYurtHub(Line(line))
  BY <1>6 DEF ToYurtHub, Line
<1> QED
  BY <1>4, <1>6, <1>7 DEF line

\* A file without the line gets the one that an empty line would become.
LEMMA RedirectedNothing ==
  Redirected(<<>>) = <<"noBootstrap", "yurtKubeconfig">>
<1>1. Kept(<<>>) = <<>>
  BY AmongEmpty DEF Kept
<1>2. Sent(<<>>) = <<>>
  BY DEF Sent
<1>3. ~Named(<<>>, "--kubeconfig")
  BY DEF Named
<1>4. Redirected(<<>>) = (<<>> \o <<"noBootstrap">>) \o <<"yurtKubeconfig">>
  BY <1>1, <1>2, <1>3, RedirectedParts DEF Added
<1> QED
  BY <1>4

\* Whatever the line was, rewriting it keeps the flags that are not its business in their order,
\* empties --bootstrap-kubeconfig, points --kubeconfig at yurt-hub, and makes it at most two flags
\* longer, once (setupKubelet, convert.go:366-396).
THEOREM RewrittenLines ==
  ASSUME NEW args \in Seq(Flags)
  PROVE  /\ Redirected(args) \in Seq(Flags)
         /\ Others(Redirected(args)) = Others(args)
         /\ Setting(Redirected(args), "--bootstrap-kubeconfig") = "noBootstrap"
         /\ Setting(Redirected(args), "--kubeconfig") = "yurtKubeconfig"
         /\ ToYurtHub(Line(Redirected(args)))
         /\ Len(Redirected(args)) <= Len(args) + 2
         /\ Len(Redirected(Redirected(args))) = Len(Redirected(args))
  BY RedirectedOthers, RedirectedSettings, RedirectedLength
=============================================================================
