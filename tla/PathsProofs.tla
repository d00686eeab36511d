----------------------------- MODULE PathsProofs ------------------------------
(***************************************************************************)
(* Proofs about Paths, for paths and prefixes of any length over any       *)
(* characters.                                                             *)
(***************************************************************************)
EXTENDS Paths, Integers, FiniteSetTheorems, SequenceTheorems, WellFoundedInduction, TLAPS

Strings == Seq(Characters)

(* A set of natural numbers that is not empty has a least element; this is *)
(* what stands in for induction below.                                     *)
LEMMA LeastNumber ==
  ASSUME NEW T, T \subseteq Nat, T # {}
  PROVE  \E x \in T : \A y \in T : x <= y
<1>1. PICK x \in T : \A y \in T : ~ (<<y, x>> \in OpToRel(<, Nat))
  BY NatLessThanWellFounded, WFMin
<1>2. \A y \in T : ~ (y < x)
  BY <1>1 DEF OpToRel
<1> QED
  BY <1>2

(* One that is bounded has a greatest.                                     *)
LEMMA GreatestNumber ==
  ASSUME NEW n \in Nat, NEW T, T \subseteq 0 .. n, T # {}
  PROVE  \E x \in T : \A y \in T : y <= x
<1> DEFINE U == {n - y : y \in T}
<1>1. U \subseteq Nat /\ U # {}
  <2>1. \A y \in T : n - y \in Nat
    OBVIOUS
  <2> QED
    BY <2>1
<1>2. PICK u \in U : \A v \in U : u <= v
  BY <1>1, LeastNumber
<1>3. PICK x \in T : u = n - x
  OBVIOUS
<1>4. ASSUME NEW y \in T PROVE y <= x
  <2>1. n - y \in U
    OBVIOUS
  <2> QED
    BY <1>2, <1>3, <2>1
<1> QED
  BY <1>4

(* What Min and Max choose.                                                *)
LEMMA MinMax ==
  ASSUME NEW n \in Nat, NEW T, T \subseteq 1 .. n, T # {}
  PROVE  /\ Min(T) \in T /\ \A y \in T : Min(T) <= y
         /\ Max(T) \in T /\ \A y \in T : y <= Max(T)
<1>1. \E x \in T : \A y \in T : x <= y
  <2>1. T \subseteq Nat
    OBVIOUS
  <2> QED
    BY <2>1, LeastNumber
<1>2. \E x \in T : \A y \in T : y <= x
  <2>1. T \subseteq 0 .. n
    OBVIOUS
  <2> QED
    BY <2>1, GreatestNumber
<1>3. \E x \in T : \A y \in T : x >= y
  BY <1>2
<1> QED
  BY <1>1, <1>3 DEF Min, Max

-----------------------------------------------------------------------------
(* The parts of a string.                                                  *)
LEMMA StringBasics ==
  ASSUME NEW s \in Strings
  PROVE  /\ Len(s) \in Nat /\ DOMAIN s = 1 .. Len(s)
         /\ \A i \in 1 .. Len(s) : s[i] \in Characters
         /\ Letters(s) \subseteq 1 .. Len(s)
BY DEF Strings, Letters

(* Strings are equal place by place.                                       *)
LEMMA EqualStrings ==
  ASSUME NEW s \in Strings, NEW t \in Strings, Len(s) = Len(t),
         \A i \in 1 .. Len(s) : s[i] = t[i]
  PROVE  s = t
BY SeqEqual DEF Strings

(* What is left of a string: from its first letter to its last.            *)
LEMMA Trimmed ==
  ASSUME NEW s \in Strings, Letters(s) # {}
  PROVE  LET a == Min(Letters(s))
             m == Max(Letters(s))
         IN  /\ a \in Letters(s) /\ m \in Letters(s) /\ a <= m
             /\ a \in 1 .. Len(s) /\ m \in 1 .. Len(s)
             /\ \A i \in 1 .. Len(s) : (i < a \/ i > m) => s[i] = Slash
             /\ TrimSlashes(s) \in Strings
             /\ Len(TrimSlashes(s)) = m - a + 1
             /\ \A i \in 1 .. m - a + 1 : TrimSlashes(s)[i] = s[a + i - 1]
<1> DEFINE a == Min(Letters(s))
           m == Max(Letters(s))
<1>1. /\ a \in Letters(s) /\ \A y \in Letters(s) : a <= y
      /\ m \in Letters(s) /\ \A y \in Letters(s) : y <= m
  BY MinMax, StringBasics
<1>2. Len(s) \in Nat /\ DOMAIN s = 1 .. Len(s) /\ Letters(s) \subseteq 1 .. Len(s)
      /\ \A i \in 1 .. Len(s) : s[i] \in Characters
  BY StringBasics
<1>3. TrimSlashes(s) = SubSeq(s, a, m)
  BY DEF TrimSlashes
<1> HIDE DEF a, m
<1>4. a \in 1 .. Len(s) /\ m \in 1 .. Len(s) /\ a <= m
  BY <1>1, <1>2
<1>5. \A i \in 1 .. Len(s) : (i < a \/ i > m) => s[i] = Slash
  BY <1>1, <1>2, <1>4 DEF Letters
<1>6. /\ SubSeq(s, a, m) \in Seq(Characters)
      /\ Len(SubSeq(s, a, m)) = m - a + 1
      /\ \A i \in 1 .. m - a + 1 : SubSeq(s, a, m)[i] = s[a + i - 1]
  BY <1>2, <1>4, SubSeqProperties
<1> QED
  BY <1>1, <1>3, <1>4, <1>5, <1>6 DEF Strings, a, m

-----------------------------------------------------------------------------
(* strings.HasPrefix, place by place.                                      *)
LEMMA PrefixIs ==
  ASSUME NEW s \in Strings, NEW t \in Strings
  PROVE  IsPrefix(s, t) <=> Len(s) <= Len(t) /\ \A i \in 1 .. Len(s) : s[i] = t[i]
<1>1. Len(s) \in Nat /\ Len(t) \in Nat
  BY StringBasics
<1>2. SubSeq(s, 1, Len(s)) = s
  BY SubSeqFull DEF Strings
<1>3. CASE Len(s) <= Len(t)
  <2>1. \A i \in 1 .. Len(s) : t[i] \in Characters
    BY <1>1, <1>3, StringBasics
  <2>2. /\ SubSeq(t, 1, Len(s)) \in Seq(Characters)
        /\ Len(SubSeq(t, 1, Len(s))) = IF 1 <= Len(s) THEN Len(s) - 1 + 1 ELSE 0
        /\ \A i \in 1 .. Len(s) - 1 + 1 : SubSeq(t, 1, Len(s))[i] = t[1 + i - 1]
    BY <1>1, <2>1, SubSeqProperties
  <2>3. /\ SubSeq(t, 1, Len(s)) \in Strings
        /\ Len(SubSeq(t, 1, Len(s))) = Len(s)
        /\ \A i \in 1 .. Len(s) : SubSeq(t, 1, Len(s))[i] = t[i]
    BY <1>1, <2>2 DEF Strings
  <2>4. s = SubSeq(t, 1, Len(s)) <=> \A i \in 1 .. Len(s) : s[i] = t[i]
    BY <2>3, EqualStrings
  <2> QED
    BY <1>2, <1>3, <2>4 DEF IsPrefix
<1>4. CASE ~ (Len(s) <= Len(t))
  BY <1>4 DEF IsPrefix
<1> QED
  BY <1>3, <1>4

(* The root path is one slash.                                             *)
LEMMA RootIs == Root \in Strings /\ Len(Root) = 1 /\ Root[1] = Slash
BY SlashAssumption DEF Root, Strings

(* strings.HasSuffix(s, "/").                                              *)
LEMMA EndsInSlash ==
  ASSUME NEW s \in Strings
  PROVE  IsSuffix(Root, s) <=> Len(s) > 0 /\ s[Len(s)] = Slash
<1>1. Len(s) \in Nat /\ \A i \in 1 .. Len(s) : s[i] \in Characters
  BY StringBasics
<1>2. /\ Reverse(Root) \in Strings /\ Len(Reverse(Root)) = 1 /\ Reverse(Root)[1] = Slash
  BY SlashAssumption DEF Root, Strings, Reverse
<1>3. Reverse(s) = [i \in 1 .. Len(s) |-> s[(Len(s) - i) + 1]]
  BY DEF Reverse
<1>4. \A i \in 1 .. Len(s) : s[(Len(s) - i) + 1] \in Characters
  BY <1>1
<1>5. Reverse(s) \in Strings /\ Len(Reverse(s)) = Len(s)
  BY <1>1, <1>3, <1>4 DEF Strings
<1>6. Len(s) > 0 => Reverse(s)[1] = s[Len(s)]
  BY <1>1, <1>3
<1>7. IsPrefix(Reverse(Root), Reverse(s))
         <=> 1 <= Len(s) /\ \A i \in 1 .. 1 : Reverse(Root)[i] = Reverse(s)[i]
  BY <1>2, <1>5, PrefixIs
<1> QED
  BY <1>1, <1>2, <1>6, <1>7 DEF IsSuffix

(* strings.TrimSuffix(s, "/") takes one slash at most.                     *)
LEMMA TrimSlashIs ==
  ASSUME NEW s \in Strings
  PROVE  /\ TrimSlash(s) \in Strings
         /\ \A i \in 1 .. Len(TrimSlash(s)) : TrimSlash(s)[i] = s[i]
         /\ Len(s) > 0 /\ s[Len(s)] = Slash => Len(TrimSlash(s)) = Len(s) - 1
         /\ ~ (Len(s) > 0 /\ s[Len(s)] = Slash) => TrimSlash(s) = s
<1>1. Len(s) \in Nat /\ \A i \in 1 .. Len(s) : s[i] \in Characters
  BY StringBasics
<1>2. CASE Len(s) > 0 /\ s[Len(s)] = Slash
  <2>1. PICK n \in Nat : Len(s) = n + 1
    <3>1. Len(s) - 1 \in Nat /\ Len(s) = (Len(s) - 1) + 1
      BY <1>1, <1>2
    <3> QED
      BY <3>1
  <2>2. TrimSlash(s) = SubSeq(s, 1, n)
    <3>1. Len(s) - 1 = n
      BY <2>1
    <3> QED
      BY <1>2, <3>1, EndsInSlash DEF TrimSlash, Front
  <2>3. \A i \in 1 .. n : s[i] \in Characters
    BY <1>1, <2>1
  <2>4. /\ SubSeq(s, 1, n) \in Seq(Characters)
        /\ Len(SubSeq(s, 1, n)) = IF 1 <= n THEN n - 1 + 1 ELSE 0
        /\ \A i \in 1 .. n - 1 + 1 : SubSeq(s, 1, n)[i] = s[1 + i - 1]
    BY <2>1, <2>3, SubSeqProperties
  <2>5. TrimSlash(s) \in Strings /\ Len(TrimSlash(s)) = n
    BY <2>1, <2>2, <2>4 DEF Strings
  <2>6. \A i \in 1 .. n : TrimSlash(s)[i] = s[i]
    BY <2>1, <2>2, <2>4
  <2> QED
    BY <1>2, <2>1, <2>5, <2>6
<1>3. CASE ~ (Len(s) > 0 /\ s[Len(s)] = Slash)
  BY <1>3, EndsInSlash DEF TrimSlash
<1> QED
  BY <1>2, <1>3

(* One string is another up to a slash, or all of it.                      *)
Covers(q, t) ==
    /\ Len(q) <= Len(t)
    /\ \A i \in 1 .. Len(q) : q[i] = t[i]
    /\ Len(q) < Len(t) => t[Len(q) + 1] = Slash

(* The policy service takes one slash off the end of both, then tests that.*)
LEMMA InheritsIsCovers ==
  ASSUME NEW path \in Strings, NEW prefix \in Strings
  PROVE  pathInherits(path, prefix)
            <=> prefix = Root \/ Covers(TrimSlash(prefix), TrimSlash(path))
<1> DEFINE q == TrimSlash(prefix)
           t == TrimSlash(path)
<1>1. q \in Strings /\ t \in Strings
  BY TrimSlashIs
<1> HIDE DEF q, t
<1>2. Len(q) \in Nat /\ Len(t) \in Nat
  BY <1>1, StringBasics
<1>3. /\ q \o Root \in Strings
      /\ Len(q \o Root) = Len(q) + 1
      /\ \A i \in 1 .. Len(q) + 1 : (q \o Root)[i] = IF i <= Len(q) THEN q[i] ELSE Slash
  <2>1. /\ q \o Root \in Seq(Characters)
        /\ Len(q \o Root) = Len(q) + Len(Root)
        /\ \A i \in 1 .. Len(q) + Len(Root) :
              (q \o Root)[i] = IF i <= Len(q) THEN q[i] ELSE Root[i - Len(q)]
    BY <1>1, RootIs, ConcatProperties DEF Strings
  <2>2. \A i \in 1 .. Len(q) + 1 : i <= Len(q) \/ i - Len(q) = 1
    BY <1>2
  <2> QED
    BY <2>1, <2>2, RootIs DEF Strings
<1>4. IsPrefix(q \o Root, t)
         <=> Len(q) + 1 <= Len(t) /\ \A i \in 1 .. Len(q) + 1 : (q \o Root)[i] = t[i]
  <2>1. PICK u : u = q \o Root
    OBVIOUS
  <2>2. u \in Strings /\ Len(u) = Len(q) + 1
    BY <1>3, <2>1
  <2>3. IsPrefix(u, t) <=> Len(u) <= Len(t) /\ \A i \in 1 .. Len(u) : u[i] = t[i]
    BY <1>1, <2>2, PrefixIs
  <2> QED
    BY <2>1, <2>2, <2>3
<1>5. (\A i \in 1 .. Len(q) + 1 : (q \o Root)[i] = t[i])
         <=> (\A i \in 1 .. Len(q) : q[i] = t[i]) /\ t[Len(q) + 1] = Slash
  <2>1. \A i \in 1 .. Len(q) : i \in 1 .. Len(q) + 1 /\ (q \o Root)[i] = q[i]
    BY <1>2, <1>3
  <2>2. Len(q) + 1 \in 1 .. Len(q) + 1 /\ (q \o Root)[Len(q) + 1] = Slash
    BY <1>2, <1>3
  <2>3. \A i \in 1 .. Len(q) + 1 : i \in 1 .. Len(q) \/ i = Len(q) + 1
    BY <1>2
  <2> QED
    BY <2>1, <2>2, <2>3
<1>6. t = q <=> Len(q) = Len(t) /\ \A i \in 1 .. Len(q) : q[i] = t[i]
  BY <1>1, EqualStrings
<1>7. Covers(q, t) <=> t = q \/ IsPrefix(q \o Root, t)
  <2>1. CASE Len(q) < Len(t)
    <3>1. t # q /\ Len(q) <= Len(t) /\ Len(q) + 1 <= Len(t)
      BY <1>2, <2>1
    <3> QED
      BY <2>1, <3>1, <1>4, <1>5 DEF Covers
  <2>2. CASE Len(q) = Len(t)
    <3>1. ~ (Len(q) < Len(t)) /\ Len(q) <= Len(t) /\ ~ (Len(q) + 1 <= Len(t))
      BY <1>2, <2>2
    <3> QED
      BY <2>2, <3>1, <1>4, <1>6 DEF Covers
  <2>3. CASE Len(q) > Len(t)
    <3>1. t # q /\ ~ (Len(q) <= Len(t)) /\ ~ (Len(q) + 1 <= Len(t))
      BY <1>2, <2>3
    <3> QED
      BY <3>1, <1>4 DEF Covers
  <2> QED
    BY <1>2, <2>1, <2>2, <2>3
<1> QED
  BY <1>7 DEF pathInherits, q, t

-----------------------------------------------------------------------------
(* Two strings with the same letters in the same places, but for how many  *)
(* slashes there are before the first and after the last.                  *)
LEMMA SameLettersTrimSame ==
  ASSUME NEW s \in Strings, NEW t \in Strings, NEW d \in Int,
         \A i \in Int : i \in Letters(s) <=> i + d \in Letters(t),
         \A i \in 1 .. Len(s) : i + d \in 1 .. Len(t) => t[i + d] = s[i]
  PROVE  TrimSlashes(t) = TrimSlashes(s)
<1>0. /\ Len(s) \in Nat /\ Len(t) \in Nat
      /\ Letters(s) \subseteq 1 .. Len(s) /\ Letters(t) \subseteq 1 .. Len(t)
      /\ Letters(s) \subseteq Int /\ Letters(t) \subseteq Int
  <2>1. Len(s) \in Nat /\ Letters(s) \subseteq 1 .. Len(s)
    BY StringBasics
  <2>2. Len(t) \in Nat /\ Letters(t) \subseteq 1 .. Len(t)
    BY StringBasics
  <2>3. \A n \in Nat : 1 .. n \subseteq Int
    OBVIOUS
  <2> QED
    BY <2>1, <2>2, <2>3
<1>1. \A j \in Letters(t) : j - d \in Letters(s)
  <2>0. \A j \in Int : j - d \in Int /\ (j - d) + d = j
    OBVIOUS
  <2>1. \A j \in Letters(t) : j - d \in Int /\ (j - d) + d = j
    BY <1>0, <2>0
  <2> QED
    BY <2>1
<1>2. CASE Letters(s) = {}
  <2>1. Letters(t) = {}
    BY <1>1, <1>2
  <2> QED
    BY <1>2, <2>1 DEF TrimSlashes
<1>3. CASE Letters(s) # {}
  <2>1. PICK a, m : a = Min(Letters(s)) /\ m = Max(Letters(s))
    OBVIOUS
  <2>2. PICK b, n : b = Min(Letters(t)) /\ n = Max(Letters(t))
    OBVIOUS
  <2>3. Letters(t) # {}
    BY <1>0, <1>3
  <2>4. /\ a \in Letters(s) /\ m \in Letters(s) /\ a <= m
        /\ a \in 1 .. Len(s) /\ m \in 1 .. Len(s)
        /\ TrimSlashes(s) \in Strings
        /\ Len(TrimSlashes(s)) = m - a + 1
        /\ \A i \in 1 .. m - a + 1 : TrimSlashes(s)[i] = s[a + i - 1]
    BY <1>3, <2>1, Trimmed
  <2>5. /\ b \in Letters(t) /\ n \in Letters(t) /\ b <= n
        /\ b \in 1 .. Len(t) /\ n \in 1 .. Len(t)
        /\ TrimSlashes(t) \in Strings
        /\ Len(TrimSlashes(t)) = n - b + 1
        /\ \A i \in 1 .. n - b + 1 : TrimSlashes(t)[i] = t[b + i - 1]
    BY <2>2, <2>3, Trimmed
  <2>6. /\ \A y \in Letters(s) : a <= y /\ y <= m
        /\ \A y \in Letters(t) : b <= y /\ y <= n
    BY <1>0, <1>3, <2>1, <2>2, <2>3, StringBasics, MinMax
  <2>7. b = a + d /\ n = m + d
    <3>1. a + d \in Letters(t) /\ m + d \in Letters(t)
      BY <1>0, <2>4
    <3>2. b - d \in Letters(s) /\ n - d \in Letters(s)
      BY <1>1, <2>5
    <3>3. b <= a + d /\ m + d <= n /\ a <= b - d /\ n - d <= m
      BY <2>6, <3>1, <3>2
    <3>4. a \in Int /\ b \in Int /\ m \in Int /\ n \in Int
      BY <1>0, <2>4, <2>5
    <3> QED
      BY <3>3, <3>4
  <2>8. ASSUME NEW i \in 1 .. m - a + 1
        PROVE  TrimSlashes(t)[i] = TrimSlashes(s)[i]
    <3>0. /\ a \in Int /\ m \in Int /\ i \in Int /\ Len(s) \in Nat /\ Len(t) \in Nat
          /\ 1 <= a /\ a <= m /\ m <= Len(s) /\ 1 <= i /\ i <= m - a + 1
          /\ 1 <= a + d /\ m + d <= Len(t) /\ b = a + d /\ n = m + d
      BY <1>0, <2>4, <2>5, <2>7
    <3>1. n - b + 1 = m - a + 1 /\ a + i - 1 \in 1 .. Len(s)
          /\ b + i - 1 = (a + i - 1) + d /\ b + i - 1 \in 1 .. Len(t)
      BY ONLY <3>0, d \in Int
    <3>2. t[b + i - 1] = s[a + i - 1]
      BY <3>1
    <3> QED
      BY <2>4, <2>5, <3>1, <3>2
  <2>9. Len(TrimSlashes(t)) = Len(TrimSlashes(s))
    BY <1>0, <2>4, <2>5, <2>7
  <2> QED
    BY <2>4, <2>5, <2>8, <2>9, EqualStrings
<1> QED
  BY <1>2, <1>3

(* What is left is a string.                                               *)
LEMMA TrimmedIsString ==
  ASSUME NEW s \in Strings
  PROVE  TrimSlashes(s) \in Strings
<1>1. CASE Letters(s) = {}
  BY <1>1 DEF TrimSlashes, Strings
<1>2. CASE Letters(s) # {}
  BY <1>2, Trimmed
<1> QED
  BY <1>1, <1>2

(* A slash before a string.                                                *)
LEMMA WithRoot ==
  ASSUME NEW s \in Strings
  PROVE  /\ Root \o s \in Strings
         /\ Len(Root \o s) = Len(s) + 1
         /\ (Root \o s)[1] = Slash
         /\ \A i \in 1 .. Len(s) : (Root \o s)[i + 1] = s[i]
<1>1. /\ Root \o s \in Seq(Characters)
      /\ Len(Root \o s) = 1 + Len(s)
      /\ \A i \in 1 .. 1 + Len(s) :
            (Root \o s)[i] = IF i <= 1 THEN Root[i] ELSE s[i - 1]
  <2>1. /\ Root \o s \in Seq(Characters)
        /\ Len(Root \o s) = Len(Root) + Len(s)
        /\ \A i \in 1 .. Len(Root) + Len(s) :
              (Root \o s)[i] = IF i <= Len(Root) THEN Root[i] ELSE s[i - Len(Root)]
    BY RootIs, ConcatProperties DEF Strings
  <2> QED
    BY <2>1, RootIs
<1>2. Len(s) \in Nat
  BY StringBasics
<1>3. (Root \o s)[1] = Slash
  BY <1>1, <1>2, RootIs
<1>4. ASSUME NEW i \in 1 .. Len(s) PROVE (Root \o s)[i + 1] = s[i]
  <2>1. i + 1 \in 1 .. 1 + Len(s) /\ ~ (i + 1 <= 1) /\ (i + 1) - 1 = i
    BY <1>2
  <2> QED
    BY <1>1, <2>1
<1> QED
  BY <1>1, <1>2, <1>3, <1>4 DEF Strings

(* A slash in front is not a letter.                                       *)
LEMMA RootTrims ==
  ASSUME NEW s \in Strings
  PROVE  TrimSlashes(Root \o s) = TrimSlashes(s)
<1>1. PICK t : t = Root \o s
  OBVIOUS
<1>2. /\ t \in Strings /\ Len(t) = Len(s) + 1 /\ t[1] = Slash
      /\ \A i \in 1 .. Len(s) : t[i + 1] = s[i]
  BY <1>1, WithRoot
<1>3. Len(s) \in Nat /\ DOMAIN s = 1 .. Len(s) /\ DOMAIN t = 1 .. Len(t)
  BY <1>2, StringBasics
<1>4. ASSUME NEW i \in Int PROVE i \in Letters(s) <=> i + 1 \in Letters(t)
  <2>1. CASE i \in 1 .. Len(s)
    BY <1>2, <1>3, <2>1 DEF Letters
  <2>2. CASE i \notin 1 .. Len(s)
    <3>1. i + 1 \notin 1 .. Len(t) \/ i + 1 = 1
      BY <1>2, <1>3, <2>2
    <3> QED
      BY <1>2, <1>3, <2>2, <3>1 DEF Letters
  <2> QED
    BY <2>1, <2>2
<1>5. TrimSlashes(t) = TrimSlashes(s)
  <2>1. PICK d \in Int : d = 1
    OBVIOUS
  <2>2. /\ \A i \in Int : i \in Letters(s) <=> i + d \in Letters(t)
        /\ \A i \in 1 .. Len(s) : i + d \in 1 .. Len(t) => t[i + d] = s[i]
    BY <1>2, <1>4, <2>1
  <2> QED
    BY <1>2, <2>2, SameLettersTrimSame
<1> QED
  BY <1>1, <1>5

(* Nothing is left to trim.                                                *)
LEMMA TrimTwice ==
  ASSUME NEW s \in Strings
  PROVE  TrimSlashes(TrimSlashes(s)) = TrimSlashes(s)
<1>1. CASE Letters(s) = {}
  <2>1. TrimSlashes(s) = << >>
    BY <1>1 DEF TrimSlashes
  <2>2. Letters(<< >>) = {}
    BY DEF Letters
  <2> QED
    BY <2>1, <2>2 DEF TrimSlashes
<1>2. CASE Letters(s) # {}
  <2>1. PICK a, m, t : a = Min(Letters(s)) /\ m = Max(Letters(s)) /\ t = TrimSlashes(s)
    OBVIOUS
  <2>2. /\ a \in Letters(s) /\ m \in Letters(s) /\ a <= m
        /\ a \in 1 .. Len(s) /\ m \in 1 .. Len(s)
        /\ \A i \in 1 .. Len(s) : (i < a \/ i > m) => s[i] = Slash
        /\ t \in Strings /\ Len(t) = m - a + 1
        /\ \A i \in 1 .. m - a + 1 : t[i] = s[a + i - 1]
    BY <1>2, <2>1, Trimmed
  <2>3. Len(s) \in Nat /\ DOMAIN s = 1 .. Len(s) /\ DOMAIN t = 1 .. Len(t)
    BY <2>2, StringBasics
  <2>4. PICK d \in Int : d = 1 - a
    BY <2>2, <2>3
  <2>5. \A i \in 1 .. Len(s) : i + d \in 1 .. Len(t) => t[i + d] = s[i]
    <3> SUFFICES ASSUME NEW i \in 1 .. Len(s), i + d \in 1 .. Len(t)
                 PROVE  t[i + d] = s[i]
      OBVIOUS
    <3>1. i + d \in 1 .. m - a + 1 /\ a + (i + d) - 1 = i
      BY <2>2, <2>3, <2>4
    <3> QED
      BY <2>2, <3>1
  <2>6. ASSUME NEW i \in Int PROVE i \in Letters(s) <=> i + d \in Letters(t)
    <3>1. CASE i \in a .. m
      <4>1. i \in 1 .. Len(s) /\ i + d \in 1 .. Len(t)
        BY <2>2, <2>3, <2>4, <3>1
      <4> QED
        BY <2>3, <2>5, <4>1 DEF Letters
    <3>2. CASE i \notin a .. m
      <4>1. i + d \notin 1 .. Len(t) /\ (i \notin 1 .. Len(s) \/ i < a \/ i > m)
        BY <2>2, <2>3, <2>4, <3>2
      <4> QED
        BY <2>2, <2>3, <4>1 DEF Letters
    <3> QED
      BY <3>1, <3>2
  <2>7. TrimSlashes(t) = TrimSlashes(s)
    BY <2>2, <2>5, <2>6, SameLettersTrimSame
  <2> QED
    BY <2>1, <2>7
<1> QED
  BY <1>1, <1>2
(* What is left ends with a letter.                                        *)
LEMMA LastIsLetter ==
  ASSUME NEW s \in Strings, Letters(s) # {}
  PROVE  Len(TrimSlashes(s)) > 0 /\ TrimSlashes(s)[Len(TrimSlashes(s))] # Slash
<1>1. PICK a, m, t : a = Min(Letters(s)) /\ m = Max(Letters(s)) /\ t = TrimSlashes(s)
  OBVIOUS
<1>2. /\ m \in Letters(s) /\ a <= m /\ a \in 1 .. Len(s) /\ m \in 1 .. Len(s)
      /\ Len(t) = m - a + 1
      /\ \A i \in 1 .. m - a + 1 : t[i] = s[a + i - 1]
  BY <1>1, Trimmed
<1>3. Len(s) \in Nat
  BY StringBasics
<1>4. Len(t) > 0 /\ Len(t) \in 1 .. m - a + 1 /\ a + Len(t) - 1 = m
  BY <1>2, <1>3
<1>5. t[Len(t)] = s[m]
  BY <1>2, <1>4
<1>6. s[m] # Slash
  BY <1>2 DEF Letters
<1> QED
  BY <1>1, <1>4, <1>5, <1>6

(* As little as what the handlers trim from the end.                       *)
LEMMA BeginsAlikeTrimsSame ==
  ASSUME NEW s \in Strings, NEW t \in Strings, Len(t) <= Len(s),
         \A i \in 1 .. Len(t) : t[i] = s[i],
         \A i \in 1 .. Len(s) : i > Len(t) => s[i] = Slash
  PROVE  TrimSlashes(t) = TrimSlashes(s)
<1>1. Len(s) \in Nat /\ DOMAIN s = 1 .. Len(s)
  BY StringBasics
<1>2. Len(t) \in Nat /\ DOMAIN t = 1 .. Len(t)
  BY StringBasics
<1>3. PICK d \in Int : d = 0
  OBVIOUS
<1>4. ASSUME NEW i \in Int PROVE i \in Letters(s) <=> i \in Letters(t)
  <2>1. CASE i \in 1 .. Len(t)
    <3>1. i \in 1 .. Len(s)
      BY <1>1, <1>2, <2>1
    <3> QED
      BY <1>1, <1>2, <2>1, <3>1 DEF Letters
  <2>2. CASE i \notin 1 .. Len(t)
    <3>1. i \notin 1 .. Len(s) \/ i > Len(t)
      BY <1>1, <1>2, <2>2
    <3> QED
      BY <1>1, <1>2, <2>2, <3>1 DEF Letters
  <2> QED
    BY <2>1, <2>2
<1>5. \A i \in Int : i + d = i
  BY <1>3
<1>6. \A i \in Int : i \in Letters(s) <=> i + d \in Letters(t)
  BY <1>4, <1>5
<1>7. \A i \in 1 .. Len(s) : i + d \in 1 .. Len(t) => t[i + d] = s[i]
  BY <1>1, <1>5
<1> QED
  BY <1>6, <1>7, SameLettersTrimSame

(* strings.TrimSuffix leaves the names.                                    *)
LEMMA TrimSlashKeepsNames ==
  ASSUME NEW s \in Strings
  PROVE  TrimSlashes(TrimSlash(s)) = TrimSlashes(s)
<1>1. PICK t : t = TrimSlash(s)
  OBVIOUS
<1>2. /\ t \in Strings
      /\ \A i \in 1 .. Len(t) : t[i] = s[i]
      /\ Len(s) > 0 /\ s[Len(s)] = Slash => Len(t) = Len(s) - 1
      /\ ~ (Len(s) > 0 /\ s[Len(s)] = Slash) => t = s
  BY <1>1, TrimSlashIs
<1>3. Len(s) \in Nat
  BY StringBasics
<1>4. CASE Len(s) > 0 /\ s[Len(s)] = Slash
  <2>1. Len(t) <= Len(s) /\ \A i \in 1 .. Len(s) : i > Len(t) => i = Len(s)
    BY <1>2, <1>3, <1>4
  <2>2. TrimSlashes(t) = TrimSlashes(s)
    BY <1>2, <1>4, <2>1, BeginsAlikeTrimsSame
  <2> QED
    BY <1>1, <2>2
<1>5. CASE ~ (Len(s) > 0 /\ s[Len(s)] = Slash)
  BY <1>1, <1>2, <1>5
<1> QED
  BY <1>4, <1>5

(* The loop that trims the end leaves the names.                           *)
LEMMA TrimTrailingIs ==
  ASSUME NEW s \in Strings
  PROVE  /\ TrimTrailing(s) \in Strings
         /\ TrimSlashes(TrimTrailing(s)) = TrimSlashes(s)
<1>1. CASE Letters(s) = {}
  <2>1. TrimTrailing(s) = Root /\ TrimSlashes(s) = << >>
    BY <1>1 DEF TrimTrailing, TrimSlashes
  <2>2. Letters(Root) = {}
    BY DEF Letters, Root
  <2> QED
    BY <2>1, <2>2, RootIs DEF TrimSlashes
<1>2. CASE Letters(s) # {}
  <2>1. PICK m : m = Max(Letters(s))
    OBVIOUS
  <2>2. Len(s) \in Nat /\ \A i \in 1 .. Len(s) : s[i] \in Characters
    BY StringBasics
  <2>3. m \in 1 .. Len(s) /\ \A i \in 1 .. Len(s) : i > m => s[i] = Slash
    BY <1>2, <2>1, Trimmed
  <2>4. PICK t : t = TrimTrailing(s)
    OBVIOUS
  <2>5. t = SubSeq(s, 1, m)
    BY <1>2, <2>1, <2>4 DEF TrimTrailing
  <2>6. /\ SubSeq(s, 1, m) \in Seq(Characters)
        /\ Len(SubSeq(s, 1, m)) = IF 1 <= m THEN m - 1 + 1 ELSE 0
        /\ \A i \in 1 .. m - 1 + 1 : SubSeq(s, 1, m)[i] = s[1 + i - 1]
    BY <2>2, <2>3, SubSeqProperties
  <2>7. t \in Strings /\ Len(t) = m /\ Len(t) <= Len(s)
        /\ \A i \in 1 .. Len(t) : t[i] = s[i]
    BY <2>2, <2>3, <2>5, <2>6 DEF Strings
  <2>8. TrimSlashes(t) = TrimSlashes(s)
    BY <2>3, <2>7, BeginsAlikeTrimsSame
  <2> QED
    BY <2>4, <2>7, <2>8
<1> QED
  BY <1>1, <1>2

(* However a path is written down, it keeps its names.                     *)
LEMMA CleanKeepsNames ==
  ASSUME NEW s \in Strings
  PROVE  /\ cleanWildcardPath(s) \in Strings
         /\ TrimSlashes(cleanWildcardPath(s)) = TrimSlashes(s)
         /\ normalizePath(s) \in Strings
         /\ TrimSlashes(normalizePath(s)) = TrimSlashes(s)
         /\ NormalizePath(s) \in Strings
         /\ TrimSlashes(NormalizePath(s)) = TrimSlashes(s)
<1>1. /\ Root \o TrimSlashes(s) \in Strings
      /\ TrimSlashes(Root \o TrimSlashes(s)) = TrimSlashes(s)
  <2>1. PICK t : t = TrimSlashes(s)
    OBVIOUS
  <2>2. t \in Strings /\ TrimSlashes(t) = t
    BY <2>1, TrimmedIsString, TrimTwice
  <2>3. Root \o t \in Strings /\ TrimSlashes(Root \o t) = t
    BY <2>2, WithRoot, RootTrims
  <2> QED
    BY <2>1, <2>3
<1>2. PICK t : t = IF IsPrefix(Root, s) THEN s ELSE Root \o s
  OBVIOUS
<1>3. t \in Strings /\ TrimSlashes(t) = TrimSlashes(s)
  BY <1>2, WithRoot, RootTrims
<1>4. TrimTrailing(t) \in Strings /\ TrimSlashes(TrimTrailing(t)) = TrimSlashes(t)
  BY <1>3, TrimTrailingIs
<1>5. normalizePath(s) = TrimTrailing(t)
  BY <1>2 DEF normalizePath
<1> QED
  BY <1>1, <1>3, <1>4, <1>5 DEF cleanWildcardPath, NormalizePath

(* Trimming two strings of which one covers the other.                     *)
LEMMA CoversTrimmed ==
  ASSUME NEW q \in Strings, NEW t \in Strings, Letters(q) # {}, Covers(q, t)
  PROVE  Covers(TrimSlashes(q), TrimSlashes(t))
<1>1. /\ Len(q) \in Nat /\ DOMAIN q = 1 .. Len(q) /\ Letters(q) \subseteq 1 .. Len(q)
      /\ Len(t) \in Nat /\ DOMAIN t = 1 .. Len(t) /\ Letters(t) \subseteq 1 .. Len(t)
  BY StringBasics
<1>2. /\ Len(q) <= Len(t)
      /\ \A i \in 1 .. Len(q) : q[i] = t[i]
      /\ Len(q) < Len(t) => t[Len(q) + 1] = Slash
  BY DEF Covers
<1>3. \A i \in 1 .. Len(q) : i \in 1 .. Len(t) /\ (i \in Letters(q) <=> i \in Letters(t))
  <2>1. \A i \in 1 .. Len(q) : i \in 1 .. Len(t)
    BY <1>1, <1>2
  <2> QED
    BY <1>1, <1>2, <2>1 DEF Letters
<1>4. Letters(t) # {}
  BY <1>1, <1>3
<1>5. PICK a, m, P : a = Min(Letters(q)) /\ m = Max(Letters(q)) /\ P = TrimSlashes(q)
  OBVIOUS
<1>6. PICK b, n, S : b = Min(Letters(t)) /\ n = Max(Letters(t)) /\ S = TrimSlashes(t)
  OBVIOUS
<1>7. /\ a \in Letters(q) /\ m \in Letters(q) /\ a <= m
      /\ a \in 1 .. Len(q) /\ m \in 1 .. Len(q)
      /\ \A i \in 1 .. Len(q) : (i < a \/ i > m) => q[i] = Slash
      /\ Len(P) = m - a + 1 /\ \A i \in 1 .. m - a + 1 : P[i] = q[a + i - 1]
  BY <1>5, Trimmed
<1>8. /\ b \in Letters(t) /\ n \in Letters(t)
      /\ b \in 1 .. Len(t) /\ n \in 1 .. Len(t)
      /\ Len(S) = n - b + 1 /\ \A i \in 1 .. n - b + 1 : S[i] = t[b + i - 1]
  BY <1>4, <1>6, Trimmed
<1>9. /\ \A y \in Letters(q) : a <= y
      /\ \A y \in Letters(t) : b <= y /\ y <= n
  BY <1>1, <1>4, <1>5, <1>6, MinMax
<1>10. a \in Letters(t) /\ m \in Letters(t)
  BY <1>3, <1>7
<1>11. b <= a /\ m <= n
  BY <1>9, <1>10
<1>12. b \in 1 .. Len(q)
  BY <1>1, <1>7, <1>8, <1>11
<1>13. a <= b
  BY <1>3, <1>8, <1>9, <1>12
<1>14. /\ a = b /\ a \in Int /\ m \in Int /\ n \in Int
       /\ 1 <= a /\ a <= m /\ m <= n /\ m <= Len(q) /\ n <= Len(t)
  BY <1>1, <1>7, <1>8, <1>11, <1>13
<1>15. ASSUME NEW i \in 1 .. Len(P) PROVE P[i] = S[i]
  <2>1. i \in Int /\ 1 <= i /\ i <= m - a + 1
    BY <1>7, <1>14
  <2>2. i \in 1 .. m - a + 1 /\ i \in 1 .. n - a + 1 /\ a + i - 1 \in 1 .. Len(q)
    BY ONLY <1>1, <1>14, <2>1
  <2> QED
    BY <1>2, <1>7, <1>8, <1>14, <2>2
<1>16. ASSUME Len(P) < Len(S) PROVE S[Len(P) + 1] = Slash
  <2>1. m + 1 <= n
    BY <1>7, <1>8, <1>14, <1>16
  <2>2. Len(P) + 1 \in 1 .. n - b + 1 /\ b + (Len(P) + 1) - 1 = m + 1
    BY <1>7, <1>14, <2>1
  <2>3. S[Len(P) + 1] = t[m + 1]
    BY <1>8, <2>2
  <2>4. CASE m < Len(q)
    <3>1. m + 1 \in 1 .. Len(q) /\ m + 1 > m
      BY <1>1, <1>14, <2>4
    <3> QED
      BY <1>2, <1>7, <2>3, <3>1
  <2>5. CASE m = Len(q)
    <3>1. Len(q) < Len(t)
      BY <1>1, <1>14, <2>1, <2>5
    <3> QED
      BY <1>2, <2>3, <2>5, <3>1
  <2>6. m < Len(q) \/ m = Len(q)
    <3>1. m \in Int /\ Len(q) \in Int /\ m <= Len(q)
      BY <1>1, <1>14
    <3>2. \A x, y \in Int : x <= y => x < y \/ x = y
      OBVIOUS
    <3> QED
      BY <3>1, <3>2
  <2> QED
    BY <2>4, <2>5, <2>6
<1>17. Len(P) <= Len(S)
  BY <1>7, <1>8, <1>14
<1>18. Covers(P, S)
  BY <1>15, <1>16, <1>17 DEF Covers
<1> QED
  BY <1>5, <1>6, <1>18

-----------------------------------------------------------------------------
(* Where the names of a string start, and the characters of one.           *)
LEMMA StartsAre ==
  ASSUME NEW t \in Strings
  PROVE  /\ Starts(t) \subseteq 1 .. Len(t)
         /\ \A i \in 1 .. Len(t) : i \in Starts(t) <=> i = 1 \/ t[i - 1] = Slash
BY StringBasics DEF Starts

(* Which characters a name has.                                            *)
LEMMA NameIs ==
  ASSUME NEW t \in Strings, NEW i \in Starts(t)
  PROVE  /\ \A d : d \in DOMAIN NameFrom(t, i)
               <=> d \in 0 .. Len(t) - i /\ \A k \in i .. i + d : t[k] # Slash
         /\ \A d \in DOMAIN NameFrom(t, i) : NameFrom(t, i)[d] = t[i + d]
         /\ DOMAIN NameFrom(t, i)
               = {d \in 0 .. Len(t) - i : \A k \in i .. i + d : t[k] # Slash}
BY DEF NameFrom

(* Fewer starts, a smaller number.                                         *)
LEMMA FewerStarts ==
  ASSUME NEW s \in Strings, NEW t \in Strings, NEW i \in Int, NEW j \in Starts(t),
         \A k \in Starts(s) : k <= i => k \in Starts(t) /\ k < j
  PROVE  Number(s, i) # Number(t, j)
<1> DEFINE U == {k \in Starts(s) : k <= i}
           V == {k \in Starts(t) : k <= j}
<1>1. Len(t) \in Nat
  BY StringBasics
<1>2. j \in 1 .. Len(t) /\ V \in SUBSET (1 .. Len(t))
  BY StartsAre
<1>3. IsFiniteSet(V)
  <2>1. IsFiniteSet(1 .. Len(t))
    BY <1>1, FS_Interval
  <2> QED
    BY <1>2, <2>1, FS_Subset
<1>4. j \in V /\ j \notin U
  <2>1. j <= j /\ ~ (j < j)
    BY <1>1, <1>2
  <2> QED
    BY <2>1
<1>5. U \in SUBSET V
  <2>1. ASSUME NEW k \in U PROVE k \in V
    <3>1. k \in Starts(t) /\ k < j
      OBVIOUS
    <3>2. k \in 1 .. Len(t)
      BY <3>1, StartsAre
    <3>3. k <= j
      BY <1>1, <1>2, <3>1, <3>2
    <3> QED
      BY <3>1, <3>3
  <2> QED
    BY <2>1
<1>6. Cardinality(V) # Cardinality(U)
  <2> HIDE DEF U, V
  <2> QED
    BY <1>3, <1>4, <1>5, FS_Subset
<1> QED
  BY <1>6 DEF Number

(* Two starts of one string have different numbers.                        *)
LEMMA NumbersDiffer ==
  ASSUME NEW t \in Strings, NEW i \in Starts(t), NEW j \in Starts(t),
         Number(t, i) = Number(t, j)
  PROVE  i = j
<1>1. Len(t) \in Nat /\ i \in 1 .. Len(t) /\ j \in 1 .. Len(t)
      /\ Starts(t) \subseteq 1 .. Len(t)
  BY StringBasics, StartsAre
<1>2. \A x, y \in 1 .. Len(t) : x < y => \A k \in 1 .. Len(t) : k <= x => k < y
  BY <1>1
<1>3. i \in Int /\ j \in Int
  BY <1>1
<1>4. CASE i < j
  <2>1. \A k \in Starts(t) : k <= i => k \in Starts(t) /\ k < j
    BY <1>1, <1>2, <1>4
  <2> QED
    BY <1>3, <2>1, FewerStarts
<1>5. CASE j < i
  <2>1. \A k \in Starts(t) : k <= j => k \in Starts(t) /\ k < i
    BY <1>1, <1>2, <1>5
  <2> QED
    BY <1>3, <2>1, FewerStarts
<1> QED
  BY <1>3, <1>4, <1>5

(* Up to where two strings are the same, so are their starts and numbers.  *)
LEMMA SameSoFar ==
  ASSUME NEW s \in Strings, NEW t \in Strings,
         NEW i \in 1 .. Len(s), i \in 1 .. Len(t),
         \A k \in 1 .. Len(s) : k < i => s[k] = t[k]
  PROVE  /\ i \in Starts(s) <=> i \in Starts(t)
         /\ Number(s, i) = Number(t, i)
<1>1. Len(s) \in Nat /\ Len(t) \in Nat
  BY StringBasics
<1>2. ASSUME NEW k \in Int, k <= i
      PROVE  k \in Starts(s) <=> k \in Starts(t)
  <2>1. CASE k < 1
    BY <1>1, <2>1, StartsAre
  <2>2. CASE k = 1
    <3>1. 1 \in 1 .. Len(s) /\ 1 \in 1 .. Len(t)
      BY <1>1
    <3> QED
      BY <2>2, <3>1, StartsAre
  <2>3. CASE k > 1
    <3>1. /\ k \in 1 .. Len(s) /\ k \in 1 .. Len(t)
          /\ k - 1 \in 1 .. Len(s) /\ k - 1 < i
      BY <1>1, <1>2, <2>3
    <3>2. s[k - 1] = t[k - 1]
      BY <3>1
    <3> QED
      BY <3>1, <3>2, StartsAre
  <2> QED
    BY <2>1, <2>2, <2>3
<1>3. Starts(s) \subseteq Int /\ Starts(t) \subseteq Int
  <2>1. Starts(s) \subseteq 1 .. Len(s) /\ Starts(t) \subseteq 1 .. Len(t)
    BY StartsAre
  <2>2. \A n \in Nat : 1 .. n \subseteq Int
    OBVIOUS
  <2> QED
    BY <1>1, <2>1, <2>2
<1>4. {j \in Starts(s) : j <= i} = {j \in Starts(t) : j <= i}
  BY <1>2, <1>3
<1>5. i \in Int /\ i <= i
  BY <1>1
<1> QED
  BY <1>2, <1>4, <1>5 DEF Number

(* All names of a string that covers another are names of the other, under *)
(* the same numbers.                                                       *)
LEMMA CoveredNames ==
  ASSUME NEW P \in Strings, NEW S \in Strings, Covers(P, S)
  PROVE  NumberedNames(P) \subseteq NumberedNames(S)
<1>1. Len(P) \in Nat /\ Len(S) \in Nat
  BY StringBasics
<1>2. /\ Len(P) <= Len(S)
      /\ \A i \in 1 .. Len(P) : P[i] = S[i]
      /\ Len(P) < Len(S) => S[Len(P) + 1] = Slash
  BY DEF Covers
<1>3. ASSUME NEW i \in Starts(P)
      PROVE  i \in Starts(S) /\ Number(P, i) = Number(S, i) /\ NameFrom(P, i) = NameFrom(S, i)
  <2>1. i \in 1 .. Len(P) /\ i \in 1 .. Len(S)
    BY <1>1, <1>2, StartsAre
  <2>2. i \in Starts(S) /\ Number(P, i) = Number(S, i)
    BY <1>2, <2>1, SameSoFar
  <2>3. ASSUME NEW d \in 0 .. Len(P) - i
        PROVE  i + d \in 1 .. Len(P) /\ d \in 0 .. Len(S) - i
               /\ \A k \in i .. i + d : k \in 1 .. Len(P) /\ P[k] = S[k]
    BY <1>1, <1>2, <2>1
  <2>4. ASSUME NEW d \in 0 .. Len(S) - i, \A k \in i .. i + d : S[k] # Slash
        PROVE  d \in 0 .. Len(P) - i
    <3>1. CASE d > Len(P) - i
      <4>1. Len(P) < Len(S) /\ Len(P) + 1 \in i .. i + d
        BY <1>1, <2>1, <3>1
      <4> QED
        BY <1>2, <2>4, <4>1
    <3>2. CASE d <= Len(P) - i
      BY <1>1, <2>1, <3>2
    <3> QED
      BY <1>1, <2>1, <3>1, <3>2
  <2>5. {d \in 0 .. Len(P) - i : \A k \in i .. i + d : P[k] # Slash}
           = {d \in 0 .. Len(S) - i : \A k \in i .. i + d : S[k] # Slash}
    <3>1. ASSUME NEW d \in 0 .. Len(P) - i, \A k \in i .. i + d : P[k] # Slash
          PROVE  d \in 0 .. Len(S) - i /\ \A k \in i .. i + d : S[k] # Slash
      BY <2>3, <3>1
    <3>2. ASSUME NEW d \in 0 .. Len(S) - i, \A k \in i .. i + d : S[k] # Slash
          PROVE  d \in 0 .. Len(P) - i /\ \A k \in i .. i + d : P[k] # Slash
      BY <2>3, <2>4, <3>2
    <3> QED
      BY <3>1, <3>2
  <2>6. \A d \in 0 .. Len(P) - i : P[i + d] = S[i + d]
    BY <1>2, <2>3
  <2>7. NameFrom(P, i) = NameFrom(S, i)
    BY <2>5, <2>6 DEF NameFrom
  <2> QED
    BY <2>2, <2>7
<1> QED
  BY <1>3 DEF NumberedNames

(* What the tests as strings let through lies below the prefix, name by    *)
(* name, however path and prefix are written.                              *)
THEOREM InheritingIsBelow ==
  ASSUME NEW path \in Strings, NEW prefix \in Strings, pathInherits(path, prefix)
  PROVE  IsUnder(path, prefix)
<1>1. CASE Letters(prefix) = {}
  <2>1. TrimSlashes(prefix) = << >>
    BY <1>1 DEF TrimSlashes
  <2>2. NumberedNames(<< >>) = {}
    BY DEF NumberedNames, Starts
  <2> QED
    BY <2>1, <2>2 DEF IsUnder
<1>2. CASE Letters(prefix) # {}
  <2>1. PICK q, t : q = TrimSlash(prefix) /\ t = TrimSlash(path)
    OBVIOUS
  <2>2. /\ q \in Strings /\ t \in Strings
        /\ TrimSlashes(q) = TrimSlashes(prefix) /\ TrimSlashes(t) = TrimSlashes(path)
    BY <2>1, TrimSlashIs, TrimSlashKeepsNames
  <2>3. prefix # Root
    BY <1>2 DEF Letters, Root
  <2>4. Covers(q, t)
    BY <2>1, <2>3, InheritsIsCovers
  <2>5. CASE Letters(q) = {}
    <3>1. TrimSlashes(prefix) = << >>
      BY <2>2, <2>5 DEF TrimSlashes
    <3>2. NumberedNames(<< >>) = {}
      BY DEF NumberedNames, Starts
    <3> QED
      BY <3>1, <3>2 DEF IsUnder
  <2>6. CASE Letters(q) # {}
    <3>1. Covers(TrimSlashes(q), TrimSlashes(t))
      BY <2>2, <2>4, <2>6, CoversTrimmed
    <3>2. TrimSlashes(q) \in Strings /\ TrimSlashes(t) \in Strings
      BY <2>2, TrimmedIsString
    <3>3. NumberedNames(TrimSlashes(q)) \subseteq NumberedNames(TrimSlashes(t))
      BY <3>1, <3>2, CoveredNames
    <3> QED
      BY <2>2, <3>3 DEF IsUnder
  <2> QED
    BY <2>5, <2>6
<1> QED
  BY <1>1, <1>2

-----------------------------------------------------------------------------
(* A string that is the beginning of another has no start with the number  *)
(* of one that comes later in the other.                                   *)
LEMMA TooShort ==
  ASSUME NEW P \in Strings, NEW S \in Strings,
         NEW i \in Starts(P), NEW j \in Starts(S), Len(S) < i,
         \A k \in 1 .. Len(S) : S[k] = P[k]
  PROVE  Number(S, j) # Number(P, i)
<1>1. Len(P) \in Nat /\ Len(S) \in Nat /\ i \in 1 .. Len(P) /\ j \in 1 .. Len(S)
  BY StringBasics, StartsAre
<1>2. ASSUME NEW k \in Starts(S), k <= j
      PROVE  k \in Starts(P) /\ k < i
  <2>1. k \in 1 .. Len(S)
    BY StartsAre
  <2>2. k \in 1 .. Len(P) /\ k < i
    BY <1>1, <2>1
  <2>3. \A l \in 1 .. Len(S) : l < k => S[l] = P[l]
    OBVIOUS
  <2>4. k \in Starts(P)
    BY <2>1, <2>2, <2>3, SameSoFar
  <2> QED
    BY <2>2, <2>4
<1>3. j \in Int
  BY <1>1
<1> QED
  BY <1>2, <1>3, FewerStarts

(* The name that a place of a string belongs to, or that ends there.       *)
LEMMA NameOfPlace ==
  ASSUME NEW P \in Strings, NEW b \in 1 .. Len(P) + 1, Len(P) > 0,
         b = Len(P) + 1 => P[Len(P)] # Slash
  PROVE  \E i \in Starts(P) : i <= b /\ \A k \in i .. b - 1 : P[k] # Slash
<1>1. Len(P) \in Nat /\ Starts(P) \subseteq 1 .. Len(P)
      /\ \A i \in 1 .. Len(P) : i \in Starts(P) <=> i = 1 \/ P[i - 1] = Slash
  BY StringBasics, StartsAre
<1> DEFINE T == {i \in Starts(P) : i <= b}
<1>2. 1 \in T
  <2>1. 1 \in 1 .. Len(P) /\ 1 <= b
    BY <1>1
  <2> QED
    BY <1>1, <2>1
<1>3. T \subseteq 0 .. Len(P)
  <2>1. 1 .. Len(P) \subseteq 0 .. Len(P)
    BY <1>1
  <2> QED
    BY <1>1, <2>1
<1>4. PICK i \in T : \A j \in T : j <= i
  <2> HIDE DEF T
  <2> QED
    BY <1>1, <1>2, <1>3, GreatestNumber
<1>5. i \in Starts(P) /\ i <= b /\ i \in 1 .. Len(P)
  BY <1>1, <1>4
<1>6. ASSUME NEW k \in i .. b - 1, P[k] = Slash PROVE FALSE
  <2>1. k \in 1 .. Len(P) /\ i < k + 1 /\ k + 1 <= b /\ ~ (k + 1 <= i)
    BY <1>1, <1>5
  <2>2. CASE k = Len(P)
    <3>1. b = Len(P) + 1
      BY <1>1, <2>1, <2>2
    <3> QED
      BY <1>6, <2>2, <3>1
  <2>3. CASE k # Len(P)
    <3>1. k + 1 \in 1 .. Len(P) /\ (k + 1) - 1 = k
      BY <1>1, <2>1, <2>3
    <3>2. k + 1 \in Starts(P)
      BY <1>1, <1>6, <3>1
    <3> QED
      BY <1>4, <2>1, <3>2
  <2> QED
    BY <2>2, <2>3
<1> QED
  BY <1>5, <1>6

(* A string whose names are all names of another, under the same numbers,  *)
(* covers it.                                                              *)
LEMMA NamesCover ==
  ASSUME NEW P \in Strings, NEW S \in Strings,
         Len(P) > 0, P[Len(P)] # Slash,
         NumberedNames(P) \subseteq NumberedNames(S)
  PROVE  Covers(P, S)
<1>1. Len(P) \in Nat /\ Len(S) \in Nat
      /\ Starts(P) \subseteq 1 .. Len(P) /\ Starts(S) \subseteq 1 .. Len(S)
  BY StringBasics, StartsAre
<1>2. ASSUME NEW i \in Starts(P)
      PROVE  \E j \in Starts(S) : Number(S, j) = Number(P, i) /\ NameFrom(S, j) = NameFrom(P, i)
  <2>1. PICK n, name : n = Number(P, i) /\ name = NameFrom(P, i)
    OBVIOUS
  <2>2. <<n, name>> \in NumberedNames(P)
    BY <2>1 DEF NumberedNames
  <2>3. <<n, name>> \in NumberedNames(S)
    BY <2>2
  <2>4. PICK j \in Starts(S) : <<n, name>> = <<Number(S, j), NameFrom(S, j)>>
    BY <2>3 DEF NumberedNames
  <2> QED
    BY <2>1, <2>4
<1>3. ASSUME NEW i \in Starts(P), \A k \in 1 .. Len(P) : k < i => k <= Len(S) /\ P[k] = S[k]
      PROVE  i \in Starts(S) /\ NameFrom(S, i) = NameFrom(P, i)
  <2>1. PICK j \in Starts(S) : Number(S, j) = Number(P, i) /\ NameFrom(S, j) = NameFrom(P, i)
    BY <1>2
  <2>2. i \in 1 .. Len(P)
    BY <1>1
  <2>3. CASE Len(S) < i
    <3>1. \A k \in 1 .. Len(S) : k \in 1 .. Len(P) /\ k < i
      BY <1>1, <2>2, <2>3
    <3>2. \A k \in 1 .. Len(S) : S[k] = P[k]
      BY <1>3, <3>1
    <3> QED
      BY <2>1, <2>3, <3>2, TooShort
  <2>4. CASE i <= Len(S)
    <3>1. i \in 1 .. Len(S)
      BY <1>1, <2>2, <2>4
    <3>2. i \in Starts(S) /\ Number(P, i) = Number(S, i)
      BY <1>3, <2>2, <3>1, SameSoFar
    <3>3. i = j
      BY <2>1, <3>2, NumbersDiffer
    <3> QED
      BY <2>1, <3>2, <3>3
  <2> QED
    BY <1>1, <2>2, <2>3, <2>4
<1>4. ASSUME NEW b \in 1 .. Len(P),
             \A k \in 1 .. Len(P) : k < b => k <= Len(S) /\ P[k] = S[k]
      PROVE  b <= Len(S) /\ P[b] = S[b]
  <2>1. b \in 1 .. Len(P) + 1 /\ b # Len(P) + 1
    BY <1>1
  <2>2. PICK i \in Starts(P) : i <= b /\ \A k \in i .. b - 1 : P[k] # Slash
    BY <2>1, NameOfPlace
  <2>3. i \in 1 .. Len(P)
    BY <1>1
  <2>4. i \in Starts(S) /\ NameFrom(S, i) = NameFrom(P, i)
    <3>1. \A k \in 1 .. Len(P) : k < i => k < b
      BY <1>1, <2>2, <2>3
    <3> QED
      BY <1>3, <1>4, <3>1
  <2>5. PICK d : d = b - i
    OBVIOUS
  <2>6. d \in 0 .. Len(P) - i /\ i + d = b
    BY <1>1, <2>2, <2>3, <2>5
  <2>7. \A k \in i .. b : k \in i .. b - 1 \/ k = b
    BY <1>1, <2>2, <2>3
  <2>8. CASE P[b] # Slash
    <3>0. \A k \in i .. i + d : P[k] # Slash
      BY <2>2, <2>6, <2>7, <2>8
    <3>1. d \in DOMAIN NameFrom(P, i) /\ NameFrom(P, i)[d] = P[b]
      BY <2>6, <3>0, NameIs
    <3>2. d \in 0 .. Len(S) - i /\ NameFrom(S, i)[d] = S[b]
      BY <2>4, <2>6, <3>1, NameIs
    <3>3. b <= Len(S)
      BY <1>1, <2>3, <2>6, <3>2
    <3> QED
      BY <2>4, <3>1, <3>2, <3>3
  <2>9. CASE P[b] = Slash
    <3>1. b # Len(P) /\ b + 1 \in 1 .. Len(P) /\ (b + 1) - 1 = b
      BY <1>1, <2>9
    <3>2. b + 1 \in Starts(P)
      BY <2>9, <3>1, StartsAre
    <3>3. b <= Len(S)
      <4>1. SUFFICES ASSUME Len(S) < b PROVE FALSE
        BY <1>1
      <4>2. PICK j \in Starts(S) : Number(S, j) = Number(P, b + 1)
        BY <1>2, <3>2
      <4>3. Len(S) < b + 1 /\ \A k \in 1 .. Len(S) : k \in 1 .. Len(P) /\ k < b
        BY <1>1, <4>1
      <4>4. \A k \in 1 .. Len(S) : S[k] = P[k]
        BY <1>4, <4>3
      <4> QED
        BY <3>2, <4>2, <4>3, <4>4, TooShort
    <3>4. ASSUME S[b] # Slash PROVE FALSE
      <4>1. \A k \in i .. b - 1 : S[k] # Slash
        <5>1. \A k \in i .. b - 1 : k \in 1 .. Len(P) /\ k < b
          BY <1>1, <2>3
        <5> QED
          BY <1>4, <2>2, <5>1
      <4>2. d \in 0 .. Len(S) - i
        BY <1>1, <2>3, <2>6, <3>3
      <4>3. d \in DOMAIN NameFrom(S, i)
        BY <2>4, <2>6, <2>7, <3>4, <4>1, <4>2, NameIs
      <4>4. \A k \in i .. i + d : P[k] # Slash
        BY <2>4, <4>3, NameIs
      <4>5. b \in i .. i + d
        BY <1>1, <2>2, <2>3, <2>6
      <4> QED
        BY <2>9, <4>4, <4>5
    <3> QED
      BY <2>9, <3>3, <3>4
  <2> QED
    BY <2>8, <2>9
<1>5. ASSUME NEW b \in 1 .. Len(P), ~ (b <= Len(S) /\ P[b] = S[b]) PROVE FALSE
  <2> DEFINE Bad == {k \in 1 .. Len(P) : ~ (k <= Len(S) /\ P[k] = S[k])}
  <2>1. Bad \subseteq Nat /\ Bad # {}
    BY <1>1, <1>5
  <2>2. PICK x \in Bad : \A y \in Bad : x <= y
    <3> HIDE DEF Bad
    <3> QED
      BY <2>1, LeastNumber
  <2>3. ASSUME NEW k \in 1 .. Len(P), k < x PROVE k <= Len(S) /\ P[k] = S[k]
    <3>1. x \in 1 .. Len(P) /\ (k \in Bad => x <= k)
      BY <2>2
    <3>2. ~ (x <= k)
      BY <1>1, <2>3, <3>1
    <3> QED
      BY <3>1, <3>2
  <2> QED
    BY <1>4, <2>2, <2>3
<1>6. Len(P) <= Len(S) /\ \A k \in 1 .. Len(P) : P[k] = S[k]
  <2>1. Len(P) \in 1 .. Len(P)
    BY <1>1
  <2> QED
    BY <1>5, <2>1
<1>7. ASSUME Len(P) < Len(S), S[Len(P) + 1] # Slash PROVE FALSE
  <2>1. PICK b : b = Len(P) + 1
    OBVIOUS
  <2>2. b \in 1 .. Len(P) + 1 /\ b \in 1 .. Len(S)
    BY <1>1, <1>7, <2>1
  <2>3. PICK i \in Starts(P) : i <= b /\ \A k \in i .. b - 1 : P[k] # Slash
    BY <2>1, <2>2, NameOfPlace
  <2>4. i \in 1 .. Len(P)
    BY <1>1
  <2>5. i \in Starts(S) /\ NameFrom(S, i) = NameFrom(P, i)
    <3>1. \A k \in 1 .. Len(P) : k <= Len(S)
      BY <1>1, <1>6
    <3> QED
      BY <1>3, <1>6, <3>1
  <2>6. PICK d : d = b - i
    OBVIOUS
  <2>7. d \in 0 .. Len(S) - i /\ i + d = b /\ d \notin 0 .. Len(P) - i
    BY <1>1, <2>1, <2>2, <2>4, <2>6
  <2>8. \A k \in i .. i + d : k = b \/ (k \in i .. b - 1 /\ k \in 1 .. Len(P))
    BY <1>1, <2>1, <2>4, <2>7
  <2>9. \A k \in i .. i + d : S[k] # Slash
    BY <1>6, <1>7, <2>1, <2>3, <2>8
  <2>10. d \in DOMAIN NameFrom(S, i)
    BY <2>5, <2>7, <2>9, NameIs
  <2> QED
    BY <2>5, <2>7, <2>10, NameIs
<1> QED
  BY <1>6, <1>7 DEF Covers

(* Where the HTTP gateway writes down path and prefix, the test as strings *)
(* lets through all that lies at or below the prefix.                      *)
THEOREM BelowInherits ==
  ASSUME NEW path \in Strings, NEW prefix \in Strings, IsUnder(path, prefix)
  PROVE  pathInherits(cleanWildcardPath(path), cleanWildcardPath(prefix))
<1>1. CASE Letters(prefix) = {}
  <2>1. TrimSlashes(prefix) = << >>
    BY <1>1 DEF TrimSlashes
  <2>2. Root \o << >> = Root
    BY RootIs, ConcatEmptySeq DEF Strings
  <2> QED
    BY <2>1, <2>2 DEF pathInherits, cleanWildcardPath
<1>2. CASE Letters(prefix) # {}
  <2>1. PICK P, S : P = TrimSlashes(prefix) /\ S = TrimSlashes(path)
    OBVIOUS
  <2>2. P \in Strings /\ S \in Strings
    BY <2>1, TrimmedIsString
  <2>3. /\ Len(P) \in Nat /\ Len(S) \in Nat
    BY <2>2, StringBasics
  <2>4. Len(P) > 0 /\ P[Len(P)] # Slash
    BY <1>2, <2>1, LastIsLetter
  <2>5. Covers(P, S)
    BY <2>1, <2>2, <2>4, NamesCover DEF IsUnder
  <2>6. /\ Len(P) <= Len(S) /\ \A i \in 1 .. Len(P) : P[i] = S[i]
        /\ Len(P) < Len(S) => S[Len(P) + 1] = Slash
    BY <2>5 DEF Covers
  <2>7. Len(S) > 0
    BY <2>3, <2>4, <2>6
  <2>8. Letters(path) # {}
    BY <2>1, <2>7 DEF TrimSlashes
  <2>9. S[Len(S)] # Slash
    BY <2>1, <2>8, LastIsLetter
  <2>10. PICK q, t : q = Root \o P /\ t = Root \o S
    OBVIOUS
  <2>11. /\ q \in Strings /\ Len(q) = Len(P) + 1 /\ q[1] = Slash
         /\ \A i \in 1 .. Len(P) : q[i + 1] = P[i]
         /\ t \in Strings /\ Len(t) = Len(S) + 1 /\ t[1] = Slash
         /\ \A i \in 1 .. Len(S) : t[i + 1] = S[i]
    BY <2>2, <2>10, WithRoot
  <2>12. TrimSlash(q) = q
    <3>1. Len(P) \in 1 .. Len(P)
      BY <2>3, <2>4
    <3>2. q[Len(q)] # Slash
      BY <2>4, <2>11, <3>1
    <3> QED
      BY <2>11, <3>2, TrimSlashIs
  <2>13. TrimSlash(t) = t
    <3>1. Len(S) \in 1 .. Len(S)
      BY <2>3, <2>7
    <3>2. t[Len(t)] # Slash
      BY <2>9, <2>11, <3>1
    <3> QED
      BY <2>11, <3>2, TrimSlashIs
  <2>14. ASSUME NEW i \in 1 .. Len(q) PROVE q[i] = t[i]
    <3>1. CASE i = 1
      BY <2>11, <3>1
    <3>2. CASE i # 1
      <4>1. PICK j \in 1 .. Len(P) : i = j + 1
        <5>1. i - 1 \in 1 .. Len(P) /\ i = (i - 1) + 1
          BY <2>3, <2>11, <3>2
        <5> QED
          BY <5>1
      <4>2. j \in 1 .. Len(S)
        BY <2>3, <2>6
      <4> QED
        BY <2>6, <2>11, <4>1, <4>2
    <3> QED
      BY <3>1, <3>2
  <2>15. ASSUME Len(q) < Len(t) PROVE t[Len(q) + 1] = Slash
    <3>1. PICK n : n = Len(P) + 1
      OBVIOUS
    <3>2. Len(P) < Len(S) /\ n \in 1 .. Len(S) /\ Len(q) = n
      BY <2>3, <2>11, <2>15, <3>1
    <3> QED
      BY <2>6, <2>11, <3>1, <3>2
  <2>16. Len(q) <= Len(t)
    BY <2>3, <2>6, <2>11
  <2>17. Covers(TrimSlash(q), TrimSlash(t))
    BY <2>12, <2>13, <2>14, <2>15, <2>16 DEF Covers
  <2>18. pathInherits(t, q)
    BY <2>11, <2>17, InheritsIsCovers
  <2> QED
    BY <2>1, <2>10, <2>18 DEF cleanWildcardPath
<1> QED
  BY <1>1, <1>2
==============================================================================
