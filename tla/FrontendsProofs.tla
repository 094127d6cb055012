-------------------------- MODULE FrontendsProofs ---------------------------
(***************************************************************************)
(* What the front ends promise, for every disk and every command line:     *)
(* any number of processes of both kinds run after one another over the    *)
(* disk, each of them may be killed at any step, and the pass may be run   *)
(* again within its process.                                               *)
(***************************************************************************)
EXTENDS Frontends, FiniteSetTheorems, TLAPS

-----------------------------------------------------------------------------
(* Induction over the numbers, in the form in which the provers can use    *)
(* it: about the set of the numbers that have a property.                  *)

(* A non-empty set of numbers has a least element.                         *)
LEMMA LeastNumber ==
  ASSUME NEW T, T \subseteq Nat, T # {}
  PROVE  \E x \in T : \A y \in T : x <= y
<1> DEFINE R == OpToRel(<, Nat)
<1>1. IsWellFoundedOn(R, Nat)
  BY NatLessThanWellFounded
<1>2. \A x, y \in Nat : y < x => <<y, x>> \in R
  BY DEF OpToRel
<1> HIDE DEF R
<1>3. PICK x \in T : \A y \in T : ~ (<<y, x>> \in R)
  BY <1>1, WFMin
<1>4. ASSUME NEW y \in T PROVE x <= y
  <2>1. ~ (<<y, x>> \in R)
    BY <1>3
  <2>2. x \in Nat /\ y \in Nat
    OBVIOUS
  <2>3. ~ (y < x)
    BY <2>1, <2>2, <1>2
  <2> HIDE DEF R
  <2> QED BY <2>2, <2>3
<1> QED BY <1>4

(* A set with zero that has n + 1 if it has n has every number.            *)
LEMMA InductionOverNumbers ==
  ASSUME NEW P, 0 \in P, \A n \in Nat : n \in P => n + 1 \in P
  PROVE  \A n \in Nat : n \in P
<1> SUFFICES ASSUME Nat \ P # {} PROVE FALSE
  OBVIOUS
<1>1. PICK x \in Nat \ P : \A y \in Nat \ P : x <= y
  BY LeastNumber
<1>2. x # 0 /\ x - 1 \in Nat /\ ~ (x <= x - 1)
  BY <1>1
<1>3. x - 1 \in P
  BY <1>1, <1>2
<1> QED BY <1>1, <1>2, <1>3

-----------------------------------------------------------------------------
(* Paths.                                                                  *)

(* An appended element is the last, after the sequence.                    *)
LEMMA Appended ==
  ASSUME NEW T, NEW s \in Seq(T), NEW e \in T
  PROVE  /\ Append(s, e) \in Seq(T) /\ Len(Append(s, e)) = Len(s) + 1
         /\ Append(s, e)[Len(s) + 1] = e /\ Append(s, e) # s
         /\ SubSeq(Append(s, e), 1, Len(s)) = s /\ SubSeq(s, 1, Len(s)) = s
         /\ Len(s) \in Nat
<1>1. /\ Append(s, e) \in Seq(T) /\ Len(Append(s, e)) = Len(s) + 1 /\ Len(s) \in Nat
      /\ Append(s, e)[Len(s) + 1] = e
      /\ \A i \in 1 .. Len(s) : Append(s, e)[i] = s[i]
  OBVIOUS
<1>2. SubSeq(Append(s, e), 1, Len(s)) = s
  BY <1>1
<1>3. SubSeq(s, 1, Len(s)) = s
  BY <1>1
<1>4. Append(s, e) # s
  BY <1>1
<1> QED BY <1>1, <1>2, <1>3, <1>4

(* The file of a predicate is below its directory.                         *)
LEMMA FactPaths ==
  ASSUME NEW dir \in Path, NEW p \in STRING
  PROVE  /\ FactPath(dir, p) \in Path /\ Last(FactPath(dir, p)) = p
         /\ IsPrefix(dir, FactPath(dir, p)) /\ Below(dir, FactPath(dir, p))
<1>1. /\ FactPath(dir, p) \in Path /\ Len(FactPath(dir, p)) = Len(dir) + 1
      /\ FactPath(dir, p)[Len(dir) + 1] = p /\ FactPath(dir, p) # dir /\ Len(dir) \in Nat
      /\ SubSeq(FactPath(dir, p), 1, Len(dir)) = dir /\ SubSeq(dir, 1, Len(dir)) = dir
  BY Appended DEF FactPath, Path
<1>2. Last(FactPath(dir, p)) = p
  BY <1>1 DEF Last
<1>3. IsPrefix(dir, FactPath(dir, p))
  <2>1. Len(dir) <= Len(FactPath(dir, p))
    BY <1>1
  <2>2. SubSeq(dir, 1, Len(dir)) = SubSeq(FactPath(dir, p), 1, Len(dir))
    BY <1>1, Zenon
  <2> QED BY <2>1, <2>2, Zenon DEF IsPrefix
<1> QED BY <1>1, <1>2, <1>3 DEF Below, IsStrictPrefix

(* Different predicates have different files.                              *)
LEMMA FactPathsDiffer ==
  ASSUME NEW dir \in Path, NEW p \in STRING, NEW q \in STRING,
         FactPath(dir, p) = FactPath(dir, q)
  PROVE  p = q
BY FactPaths

(* Being a prefix, for paths: to be of the form of a subsequence.          *)
LEMMA PrefixIsSubSeq ==
  ASSUME NEW d \in Path, NEW f \in Path
  PROVE  IsPrefix(d, f) <=> Len(d) <= Len(f) /\ d = SubSeq(f, 1, Len(d))
<1>1. SubSeq(d, 1, Len(d)) = d
  BY DEF Path
<1> QED BY <1>1 DEF IsPrefix

(* The prefixes of a file system are in it.                                *)
LEMMA PrefixExists ==
  ASSUME NEW d, IsFileSystem(d), NEW f \in DOMAIN d, NEW e \in Path, IsPrefix(e, f)
  PROVE  e \in DOMAIN d
<1>1. f \in Path /\ Len(e) <= Len(f) /\ e = SubSeq(f, 1, Len(e))
  BY PrefixIsSubSeq DEF IsFileSystem
<1>2. Len(e) \in 0 .. Len(f)
  BY <1>1 DEF Path
<1> QED BY <1>1, <1>2 DEF IsFileSystem

(* A prefix of a beginning of a path is a beginning of the path.           *)
LEMMA SubSeqOfSubSeqOfPath ==
  ASSUME NEW f \in Path, NEW n \in 0 .. Len(f), NEW k \in 0 .. n
  PROVE  /\ SubSeq(f, 1, n) \in Path /\ Len(SubSeq(f, 1, n)) = n
         /\ SubSeq(SubSeq(f, 1, n), 1, k) = SubSeq(f, 1, k)
BY DEF Path

-----------------------------------------------------------------------------
(* Options.                                                                *)

(* Every context sensitivity is read off its text.                         *)
LEMMA TextMeans ==
  ASSUME NEW s \in Enumerators
  PROVE  Means({context_sensitivity_to_string(s)}, s)
<1>1. \A i, j \in 1 .. 9 : Digit[i] = Digit[j] => i = j
  BY DEF Digit
<1>2. \A i \in 1 .. 9 : Digit[i] # "i"
  BY DEF Digit
<1>3. CASE s = INSENSITIVE
  BY <1>3 DEF Means, context_sensitivity_to_string, INSENSITIVE, user_option_invalid,
     user_option_valid_value, insensitive
<1>4. CASE s.kind = "callsite" /\ s.k \in 1 .. 9
  <2>1. context_sensitivity_to_string(s) = <<Digit[s.k], "-callsite">>
    BY <1>4 DEF context_sensitivity_to_string
  <2>2. insensitive({<<Digit[s.k], "-callsite">>}) = FALSE
    BY DEF insensitive
  <2>3. max_context_depth({<<Digit[s.k], "-callsite">>}) = {s.k}
    BY <1>1, <1>4, <2>2 DEF max_context_depth
  <2>4. context_item_kind({<<Digit[s.k], "-callsite">>}) = {"callsite"}
    BY <1>4 DEF context_item_kind
  <2> QED
    BY <1>4, <2>1, <2>2, <2>3, <2>4 DEF Means, user_option_invalid, user_option_valid_value
<1>5. CASE s.kind = "caller" /\ s.k \in 1 .. 9
  <2>1. context_sensitivity_to_string(s) = <<Digit[s.k], "-caller">>
    BY <1>5 DEF context_sensitivity_to_string
  <2>2. insensitive({<<Digit[s.k], "-caller">>}) = FALSE
    BY DEF insensitive
  <2>3. max_context_depth({<<Digit[s.k], "-caller">>}) = {s.k}
    BY <1>1, <1>5, <2>2 DEF max_context_depth
  <2>4. context_item_kind({<<Digit[s.k], "-caller">>}) = {"caller"}
    BY <1>5 DEF context_item_kind
  <2> QED
    BY <1>5, <2>1, <2>2, <2>3, <2>4 DEF Means, user_option_invalid, user_option_valid_value
<1> QED BY <1>3, <1>4, <1>5 DEF Enumerators

(* What is parsed is an enumerator, with the token as its text.            *)
LEMMA ParsedText ==
  ASSUME NEW token, Parses(token)
  PROVE  /\ Parse(token) \in Enumerators
         /\ context_sensitivity_to_string(Parse(token)) = token
         /\ Means({token}, Parse(token))
<1>1. Parse(token) \in Enumerators /\ context_sensitivity_to_string(Parse(token)) = token
  BY DEF Parses, Parse
<1> QED BY <1>1, TextMeans

-----------------------------------------------------------------------------
(* Lists of files.                                                         *)

(* The lists of a set have its elements.                                   *)
LEMMA ListOfSet ==
  ASSUME NEW S, IsFiniteSet(S), NEW l \in SetToSeqs(S)
  PROVE  l \in Seq(S) /\ ToSet(l) = S
<1> DEFINE D == 1 .. Cardinality(S)
<1>1. Cardinality(S) \in Nat
  BY FS_CardinalityType
<1>2. l \in [D -> S] /\ \A i, j \in D : i # j => l[i] # l[j]
  BY DEF SetToSeqs
<1>3. IsFiniteSet(D) /\ Cardinality(D) = Cardinality(S)
  BY <1>1, FS_Interval
<1>4. l \in Injection(D, S)
  BY <1>2 DEF Injection, IsInjective
<1>5. l \in Surjection(D, S)
  BY <1>3, <1>4, FS_Injection
<1>6. l \in Seq(S) /\ DOMAIN l = D
  BY <1>1, <1>2
<1> QED BY <1>2, <1>5, <1>6 DEF ToSet, Surjection

(* Concatenation joins the elements.                                       *)
LEMMA ElementsOfConcatenation ==
  ASSUME NEW T, NEW s \in Seq(T), NEW r \in Seq(T)
  PROVE  s \o r \in Seq(T) /\ ToSet(s \o r) = ToSet(s) \cup ToSet(r)
<1>1. /\ s \o r \in Seq(T) /\ DOMAIN (s \o r) = 1 .. Len(s) + Len(r)
      /\ \A i \in 1 .. Len(s) : (s \o r)[i] = s[i]
      /\ \A i \in 1 .. Len(r) : (s \o r)[Len(s) + i] = r[i]
      /\ Len(s) \in Nat /\ Len(r) \in Nat /\ DOMAIN s = 1 .. Len(s) /\ DOMAIN r = 1 .. Len(r)
  OBVIOUS
<1>2. ASSUME NEW i \in DOMAIN (s \o r) PROVE (s \o r)[i] \in ToSet(s) \cup ToSet(r)
  <2>1. CASE i <= Len(s)
    BY <1>1, <2>1 DEF ToSet
  <2>2. CASE i > Len(s)
    <3>1. i - Len(s) \in 1 .. Len(r) /\ i = Len(s) + (i - Len(s))
      BY <1>1, <2>2
    <3>2. (s \o r)[i] = r[i - Len(s)]
      BY <1>1, <3>1
    <3> QED BY <1>1, <3>1, <3>2 DEF ToSet
  <2> QED BY <1>1, <2>1, <2>2
<1>3. ASSUME NEW i \in DOMAIN s PROVE s[i] \in ToSet(s \o r)
  <2>1. i \in DOMAIN (s \o r) /\ (s \o r)[i] = s[i]
    BY <1>1
  <2> QED BY <2>1 DEF ToSet
<1>4. ASSUME NEW i \in DOMAIN r PROVE r[i] \in ToSet(s \o r)
  <2>1. Len(s) + i \in DOMAIN (s \o r) /\ (s \o r)[Len(s) + i] = r[i]
    BY <1>1
  <2> QED BY <2>1 DEF ToSet
<1>5. ToSet(s \o r) \subseteq ToSet(s) \cup ToSet(r)
  BY <1>2 DEF ToSet
<1>6. ToSet(s) \subseteq ToSet(s \o r) /\ ToSet(r) \subseteq ToSet(s \o r)
  BY <1>3, <1>4 DEF ToSet
<1> QED BY <1>1, <1>5, <1>6

(* What the library's function for a list of lists is, step by step.       *)
LEMMA FlattenUnfolds ==
  ASSUME NEW T, NEW s \in Seq(Seq(T)), Len(s) # 0
  PROVE  \E f : /\ FlattenSeq(s) = f[Len(s)]
                /\ \A i \in 1 .. Len(s) :
                     f[i] = IF i = 1 THEN s[i] ELSE f[i - 1] \o s[i]
<1> DEFINE n == Len(s)
           Step(f, i) == IF i = 1 THEN s[i] ELSE f[i - 1] \o s[i]
           P == {k \in Nat : k <= n => \E f : f = [i \in 1 .. k |-> Step(f, i)]}
<1>1. n \in Nat \ {0} /\ \A i \in 1 .. n : s[i] \in Seq(T)
  OBVIOUS
<1>2. 0 \in P
  <2>1. [i \in 1 .. 0 |-> s[i]] = [i \in 1 .. 0 |-> Step([j \in 1 .. 0 |-> s[j]], i)]
    OBVIOUS
  <2> QED BY <2>1
<1>3. ASSUME NEW k \in Nat, k \in P PROVE k + 1 \in P
  <2> HIDE DEF Step
  <2> SUFFICES ASSUME k + 1 <= n PROVE \E f : f = [i \in 1 .. k + 1 |-> Step(f, i)]
    OBVIOUS
  <2>1. PICK g : g = [i \in 1 .. k |-> Step(g, i)]
    BY <1>1, <1>3
  <2> DEFINE h == [i \in 1 .. k + 1 |-> Step(g, i)]
  <2>2. \A i \in 1 .. k : h[i] = g[i]
    <3> SUFFICES ASSUME NEW i \in 1 .. k PROVE h[i] = g[i]
      OBVIOUS
    <3>1. g[i] = Step(g, i)
      BY <2>1
    <3> QED BY <3>1
  <2>3. ASSUME NEW i \in 1 .. k + 1 PROVE Step(h, i) = Step(g, i)
    <3>1. i # 1 => i - 1 \in 1 .. k
      OBVIOUS
    <3> HIDE DEF h
    <3> QED BY <2>2, <3>1 DEF Step
  <2>4. h = [i \in 1 .. k + 1 |-> Step(h, i)]
    <3>1. [i \in 1 .. k + 1 |-> Step(h, i)] = [i \in 1 .. k + 1 |-> Step(g, i)]
      <4> HIDE DEF h
      <4> QED BY <2>3
    <3> QED BY <3>1
  <2> HIDE DEF h
  <2> QED BY <2>4
<1>4. n \in P
  <2> HIDE DEF P
  <2> QED BY <1>1, <1>2, <1>3, InductionOverNumbers
<1> DEFINE F == CHOOSE f : f = [i \in 1 .. n |-> Step(f, i)]
<1>5. F = [i \in 1 .. n |-> Step(F, i)]
  <2> HIDE DEF Step
  <2>1. \E f : f = [i \in 1 .. n |-> Step(f, i)]
    BY <1>1, <1>4
  <2> QED BY <2>1, Zenon
<1>6. FlattenSeq(s) = F[n]
  BY DEF FlattenSeq
<1>7. \A i \in 1 .. n : F[i] = Step(F, i)
  <2> HIDE DEF F, Step
  <2> QED BY <1>5
<1> QED BY <1>6, <1>7

(* A flattened list has the elements of its lists.                         *)
LEMMA FlattenedElements ==
  ASSUME NEW T, NEW s \in Seq(Seq(T))
  PROVE  /\ FlattenSeq(s) \in Seq(T)
         /\ ToSet(FlattenSeq(s)) = UNION {ToSet(s[i]) : i \in DOMAIN s}
<1>1. CASE Len(s) = 0
  <2>1. s = <<>> /\ FlattenSeq(s) = <<>> /\ DOMAIN s = {}
    BY <1>1 DEF FlattenSeq
  <2>2. ToSet(FlattenSeq(s)) = {} /\ FlattenSeq(s) \in Seq(T)
    <3>1. ToSet(<<>>) = {} /\ <<>> \in Seq(T)
      BY DEF ToSet
    <3> QED BY <2>1, <3>1
  <2>3. UNION {ToSet(s[i]) : i \in DOMAIN s} = {}
    BY <2>1
  <2> QED BY <2>2, <2>3
<1>2. CASE Len(s) # 0
  <2> DEFINE n == Len(s)
  <2>1. PICK f : /\ FlattenSeq(s) = f[n]
                 /\ \A i \in 1 .. n : f[i] = IF i = 1 THEN s[i] ELSE f[i - 1] \o s[i]
    BY <1>2, FlattenUnfolds
  <2>2. n \in Nat \ {0} /\ DOMAIN s = 1 .. n /\ \A i \in 1 .. n : s[i] \in Seq(T)
    BY <1>2
  <2> DEFINE P == {k \in Nat : k \in 1 .. n =>
                    f[k] \in Seq(T) /\ ToSet(f[k]) = UNION {ToSet(s[i]) : i \in 1 .. k}}
  <2>3. 0 \in P
    OBVIOUS
  <2>4. ASSUME NEW k \in Nat, k \in P PROVE k + 1 \in P
    <3> SUFFICES ASSUME k + 1 <= n
                 PROVE  /\ f[k + 1] \in Seq(T)
                        /\ ToSet(f[k + 1]) = UNION {ToSet(s[i]) : i \in 1 .. k + 1}
      OBVIOUS
    <3>1. CASE k = 0
      <4>1. f[1] = s[1]
        BY <2>1, <2>2
      <4>2. UNION {ToSet(s[i]) : i \in 1 .. 1} = ToSet(s[1])
        OBVIOUS
      <4> QED BY <3>1, <4>1, <4>2, <2>2
    <3>2. CASE k # 0
      <4>1. f[k] \in Seq(T) /\ ToSet(f[k]) = UNION {ToSet(s[i]) : i \in 1 .. k}
        BY <2>4, <3>2
      <4>2. f[k + 1] = f[k] \o s[k + 1] /\ s[k + 1] \in Seq(T)
        <5>1. k + 1 \in 1 .. n /\ k + 1 # 1 /\ (k + 1) - 1 = k
          BY <2>2, <3>2
        <5> QED BY <2>1, <2>2, <5>1
      <4>3. f[k + 1] \in Seq(T) /\ ToSet(f[k + 1]) = ToSet(f[k]) \cup ToSet(s[k + 1])
        BY <4>1, <4>2, ElementsOfConcatenation
      <4>4. UNION {ToSet(s[i]) : i \in 1 .. k + 1}
              = (UNION {ToSet(s[i]) : i \in 1 .. k}) \cup ToSet(s[k + 1])
        <5>1. 1 .. k + 1 = (1 .. k) \cup {k + 1}
          OBVIOUS
        <5> QED BY <5>1
      <4> QED BY <4>1, <4>3, <4>4
    <3> QED BY <3>1, <3>2
  <2>5. n \in P
    <3> HIDE DEF P
    <3> QED BY <2>2, <2>3, <2>4, InductionOverNumbers
  <2>6. f[n] \in Seq(T) /\ ToSet(f[n]) = UNION {ToSet(s[i]) : i \in 1 .. n}
    BY <2>2, <2>5
  <2> QED BY <2>1, <2>2, <2>6
<1> QED BY <1>1, <1>2

-----------------------------------------------------------------------------
(* The variables have their types: the disk is always a file system.       *)

Target == IF Factgen THEN args.out ELSE args.dir

FactgenPhases == {"parse", "outdir", "inputs", "signatures", "open", "generate", "ended"}
PassPhases ==
  {"create", "writers", "facts", "leave", "load", "check", "extract", "remove", "ended"}

(* A writer lives while facts are generated, and writes to the directory   *)
(* the process was given.                                                  *)
WriterOK ==
  IF pc \in {"generate", "facts", "leave"} THEN writer.dir = Target ELSE writer = NoWriter

(* The directory the process was given is there while the process works    *)
(* in it.                                                                  *)
Working == {"inputs", "signatures", "open", "generate",
            "facts", "leave", "load", "check", "extract", "remove"}

TypeOK ==
  /\ IsFileSystem(disk)
  /\ args \in FactgenCommands \cup PassCommands
  /\ pc \in IF Factgen THEN FactgenPhases ELSE PassPhases
  /\ DOMAIN generator = {"slot", "types", "results"}
  /\ DOMAIN writer = {"dir", "slot", "unflushed"} /\ DOMAIN writer.unflushed = Registry
  /\ WriterOK
  /\ pc \in Working => Exists(Target)

(* Commands are of one of two kinds.                                       *)
LEMMA CommandFields ==
  ASSUME args \in FactgenCommands \cup PassCommands
  PROVE  /\ Factgen <=> args \in FactgenCommands
         /\ Pass <=> args \in PassCommands
         /\ Factgen <=> ~Pass
         /\ Target \in Path
BY DEF FactgenCommands, PassCommands, Factgen, Pass, Target

(* The fact files of a directory are finitely many.                        *)
LEMMA FactFilesFinite ==
  ASSUME NEW dir \in Path
  PROVE  /\ IsFiniteSet({FactPath(dir, p) : p \in Registry})
         /\ {FactPath(dir, p) : p \in Registry} \subseteq Path
<1> DEFINE S == {FactPath(dir, p) : p \in Registry}
           f == [p \in Registry |-> FactPath(dir, p)]
<1>1. f \in Surjection(Registry, S)
  BY DEF Surjection
<1>2. IsFiniteSet(S)
  <2> HIDE DEF S, f
  <2> QED BY <1>1, FS_Surjection, FactFilesAssumption
<1>3. S \subseteq Path
  BY FactPaths, FactFilesAssumption
<1> QED BY <1>2, <1>3

(* Files may be added to directories that exist.                           *)
LEMMA FilesAdded ==
  ASSUME NEW d, IsFileSystem(d), NEW dir \in DOMAIN d, NEW S \in SUBSET STRING, IsFiniteSet(S),
         NEW e, DOMAIN e = {FactPath(dir, p) : p \in S} \cup DOMAIN d,
         IsFiniteSet({FactPath(dir, p) : p \in S}),
         \A path \in DOMAIN e : e[path].kind = "module" => path \in DOMAIN d /\ e[path] = d[path]
  PROVE  IsFileSystem(e)
<1>1. dir \in Path
  BY DEF IsFileSystem
<1>2. IsFiniteSet(DOMAIN e)
  <2>1. IsFiniteSet(DOMAIN d)
    BY DEF IsFileSystem
  <2> QED BY <2>1, FS_Union
<1>3. DOMAIN e \subseteq Path
  BY <1>1, FactPaths DEF IsFileSystem
<1>4. ASSUME NEW path \in DOMAIN e, NEW n \in 0 .. Len(path)
      PROVE  SubSeq(path, 1, n) \in DOMAIN e
  <2>1. CASE path \in DOMAIN d
    BY <2>1, <1>4 DEF IsFileSystem
  <2>2. CASE \E p \in S : path = FactPath(dir, p)
    <3>1. PICK p \in S : path = FactPath(dir, p)
      BY <2>2
    <3>2. CASE n = Len(path)
      <4>1. path \in Path
        BY <1>3
      <4>2. SubSeq(path, 1, n) = path
        BY <3>2, <4>1 DEF Path
      <4> QED BY <4>2
    <3>3. CASE n # Len(path)
      <4>1. /\ Len(path) = Len(dir) + 1 /\ SubSeq(path, 1, Len(dir)) = dir
            /\ Len(dir) \in Nat /\ path \in Path
        BY <1>1, <3>1, Appended DEF FactPath, Path
      <4>2. n \in 0 .. Len(dir)
        BY <3>3, <4>1
      <4>3. SubSeq(dir, 1, n) = SubSeq(path, 1, n)
        <5>1. Len(dir) \in 0 .. Len(path)
          BY <4>1
        <5> QED BY <4>1, <4>2, <5>1, SubSeqOfSubSeqOfPath
      <4>4. SubSeq(dir, 1, n) \in DOMAIN d
        BY <4>2 DEF IsFileSystem
      <4> QED BY <4>3, <4>4
    <3> QED BY <3>2, <3>3
  <2> QED BY <2>1, <2>2
<1>5. ASSUME NEW path \in DOMAIN e, e[path].kind = "module"
      PROVE  \E m \in Modules : e[path].rows = {m}
  <2>1. path \in DOMAIN d /\ e[path] = d[path]
    BY <1>5
  <2>2. d[path].kind = "module"
    BY <1>5, <2>1
  <2>3. \E m \in Modules : d[path].rows = {m}
    BY <2>1, <2>2 DEF IsFileSystem
  <2> QED BY <2>1, <2>3
<1> QED BY <1>2, <1>3, <1>4, <1>5 DEF IsFileSystem

(* A flush touches no file but those it writes, and makes no bitcode.      *)
LEMMA FlushKeeps ==
  ASSUME IsFileSystem(disk), NEW dir \in Path, NEW added
  PROVE  /\ DOMAIN Flushed(dir, added) = DOMAIN disk
         /\ \A path \in DOMAIN disk :
              ~Below(dir, path) => Flushed(dir, added)[path] = disk[path]
         /\ \A path \in DOMAIN disk : Flushed(dir, added)[path].kind = "module" =>
              Flushed(dir, added)[path] = disk[path]
         /\ \A p \in Registry : FactPath(dir, p) \in DOMAIN disk =>
              Flushed(dir, added)[FactPath(dir, p)].rows
                = disk[FactPath(dir, p)].rows \cup added[p]
         /\ IsFileSystem(Flushed(dir, added))
<1> DEFINE e == Flushed(dir, added)
<1>1. DOMAIN e = DOMAIN disk
  BY DEF Flushed
<1>2. ASSUME NEW path \in DOMAIN disk, ~Below(dir, path)
      PROVE  e[path] = disk[path]
  <2>1. \A p \in Registry : path # FactPath(dir, p)
    BY <1>2, FactPaths, FactFilesAssumption
  <2> QED BY <2>1 DEF Flushed
<1>3. ASSUME NEW path \in DOMAIN disk, e[path].kind = "module"
      PROVE  e[path] = disk[path]
  BY <1>3 DEF Flushed, Facts
<1>4. ASSUME NEW p \in Registry, FactPath(dir, p) \in DOMAIN disk
      PROVE  e[FactPath(dir, p)].rows = disk[FactPath(dir, p)].rows \cup added[p]
  <2>1. Last(FactPath(dir, p)) = p
    BY FactPaths, FactFilesAssumption
  <2>2. e[FactPath(dir, p)]
          = Facts(disk[FactPath(dir, p)].rows \cup added[Last(FactPath(dir, p))])
    BY <1>4 DEF Flushed
  <2> QED BY <2>1, <2>2 DEF Facts
<1>5. IsFileSystem(e)
  <2> HIDE DEF e
  <2> QED BY <1>1, <1>3 DEF IsFileSystem
<1> QED BY <1>1, <1>2, <1>3, <1>4, <1>5

(* Opening the writer makes, or empties, the fact files of its directory.  *)
LEMMA FilesOpened ==
  ASSUME IsFileSystem(disk), NEW dir \in DOMAIN disk,
         disk' = Overlay([path \in {FactPath(dir, p) : p \in Registry} |-> Facts({})], disk)
  PROVE  /\ IsFileSystem(disk')
         /\ DOMAIN disk \subseteq DOMAIN disk'
         /\ \A path \in DOMAIN disk : ~Below(dir, path) => disk'[path] = disk[path]
         /\ \A path \in DOMAIN disk' :
              path \in DOMAIN disk \/ \E p \in Registry : path = FactPath(dir, p)
         /\ \A p \in Registry :
              FactPath(dir, p) \in DOMAIN disk' /\ disk'[FactPath(dir, p)] = Facts({})
<1> DEFINE S == {FactPath(dir, p) : p \in Registry}
<1>1. dir \in Path /\ Registry \subseteq STRING /\ IsFiniteSet(Registry)
  BY FactFilesAssumption DEF IsFileSystem
<1>2. DOMAIN disk' = S \cup DOMAIN disk
  BY DEF Overlay
<1>3. \A path \in S : disk'[path] = Facts({})
  BY DEF Overlay
<1>4. \A path \in DOMAIN disk \ S : disk'[path] = disk[path]
  BY DEF Overlay
<1>5. \A path \in DOMAIN disk : ~Below(dir, path) => path \notin S
  BY <1>1, FactPaths
<1>6. IsFiniteSet(S)
  BY <1>1, FactFilesFinite
<1>7. ASSUME NEW path \in DOMAIN disk', disk'[path].kind = "module"
      PROVE  path \in DOMAIN disk /\ disk'[path] = disk[path]
  <2>1. path \notin S
    BY <1>3, <1>7 DEF Facts
  <2> QED BY <1>2, <1>4, <2>1
<1>8. IsFileSystem(disk')
  <2> DEFINE e == disk'
  <2>1. DOMAIN e = S \cup DOMAIN disk
    BY <1>2
  <2>2. \A path \in DOMAIN e :
          e[path].kind = "module" => path \in DOMAIN disk /\ e[path] = disk[path]
    BY <1>7
  <2>3. Registry \in SUBSET STRING
    BY <1>1
  <2> HIDE DEF e
  <2>4. IsFileSystem(e)
    BY <1>1, <1>6, <2>1, <2>2, <2>3, FilesAdded
  <2> QED BY <2>4 DEF e
<1> QED BY <1>2, <1>3, <1>4, <1>5, <1>8

(* The result file is made, or replaced.                                   *)
LEMMA ResultWritten ==
  ASSUME IsFileSystem(disk), NEW dir \in DOMAIN disk, NEW rows,
         disk' = WithResult(dir, rows)
  PROVE  /\ IsFileSystem(disk')
         /\ DOMAIN disk \subseteq DOMAIN disk'
         /\ \A path \in DOMAIN disk : ~Below(dir, path) => disk'[path] = disk[path]
         /\ \A p \in Registry : FactPath(dir, p) \in DOMAIN disk =>
              disk'[FactPath(dir, p)] = disk[FactPath(dir, p)]
         /\ ResultPath(dir) \in DOMAIN disk' /\ disk'[ResultPath(dir)] = Results(rows)
<1>1. dir \in Path /\ \A p \in Registry : p \in STRING /\ p # "results"
  BY FactFilesAssumption DEF IsFileSystem
<1> DEFINE results == "results"
<1>0. results \in STRING
  BY FactFilesAssumption
<1>2. ResultPath(dir) = FactPath(dir, results)
  BY DEF ResultPath, FactPath
<1>3. DOMAIN disk' = {ResultPath(dir)} \cup DOMAIN disk
  BY DEF WithResult, Overlay
<1>4. disk'[ResultPath(dir)] = Results(rows)
  BY DEF WithResult, Overlay
<1>5. \A path \in DOMAIN disk : path # ResultPath(dir) => disk'[path] = disk[path]
  BY DEF WithResult, Overlay
<1>6. Below(dir, ResultPath(dir))
  <2> HIDE DEF results
  <2> QED BY <1>0, <1>1, <1>2, FactPaths
<1>7. \A p \in Registry : FactPath(dir, p) # ResultPath(dir)
  <2>1. \A p \in Registry : p # results
    BY <1>1
  <2> HIDE DEF results
  <2> QED BY <1>0, <1>1, <1>2, <2>1, FactPathsDiffer
<1>8. IsFileSystem(disk')
  <2> DEFINE e == disk'
  <2> DEFINE T == {results}
  <2>1. DOMAIN e = {FactPath(dir, p) : p \in T} \cup DOMAIN disk
    BY <1>2, <1>3
  <2>2. \A path \in DOMAIN e :
          e[path].kind = "module" => path \in DOMAIN disk /\ e[path] = disk[path]
    BY <1>3, <1>4, <1>5 DEF Results
  <2>3. IsFiniteSet({FactPath(dir, p) : p \in T}) /\ IsFiniteSet(T) /\ T \in SUBSET STRING
    <3>1. {FactPath(dir, p) : p \in T} = {FactPath(dir, results)}
      OBVIOUS
    <3> QED BY <1>0, <3>1, FS_Singleton
  <2> HIDE DEF e, T
  <2>4. IsFileSystem(e)
    BY <2>1, <2>2, <2>3, FilesAdded
  <2> QED BY <2>4 DEF e
<1> QED BY <1>3, <1>4, <1>5, <1>6, <1>7, <1>8

(* The beginnings of a path are finitely many, and the path is one.        *)
LEMMA AncestorsAre ==
  ASSUME NEW path \in Path
  PROVE  /\ IsFiniteSet(Ancestors(path)) /\ Ancestors(path) \subseteq Path
         /\ path \in Ancestors(path)
         /\ \A a \in Ancestors(path) : \A n \in 0 .. Len(a) : SubSeq(a, 1, n) \in Ancestors(path)
<1> DEFINE D == 0 .. Len(path)
           f == [n \in D |-> SubSeq(path, 1, n)]
<1>1. IsFiniteSet(D) /\ Len(path) \in Nat /\ SubSeq(path, 1, Len(path)) = path
  BY FS_Interval DEF Path
<1>2. f \in Surjection(D, Ancestors(path))
  BY DEF Surjection, Ancestors
<1>3. IsFiniteSet(Ancestors(path))
  <2> HIDE DEF f
  <2> QED BY <1>1, <1>2, FS_Surjection
<1>4. Ancestors(path) \subseteq Path
  <2>1. \A n \in D : n \in 0 .. Len(path) /\ 0 \in 0 .. n
    BY <1>1
  <2>2. \A n \in D : SubSeq(path, 1, n) \in Path
    BY <2>1, SubSeqOfSubSeqOfPath
  <2> QED BY <2>2 DEF Ancestors
<1>5. path \in Ancestors(path)
  <2>1. Len(path) \in D
    BY <1>1
  <2> QED BY <1>1, <2>1 DEF Ancestors
<1>6. ASSUME NEW a \in Ancestors(path), NEW n \in 0 .. Len(a)
      PROVE  SubSeq(a, 1, n) \in Ancestors(path)
  <2>1. PICK k \in 0 .. Len(path) : a = SubSeq(path, 1, k)
    BY DEF Ancestors
  <2>2. Len(a) = k
    BY <2>1, SubSeqOfSubSeqOfPath
  <2>3. n \in 0 .. k /\ n \in 0 .. Len(path)
    BY <1>1, <2>2
  <2>4. SubSeq(a, 1, n) = SubSeq(path, 1, n)
    BY <2>1, <2>3, SubSeqOfSubSeqOfPath
  <2> QED BY <2>3, <2>4 DEF Ancestors
<1> QED BY <1>3, <1>4, <1>5, <1>6

(* Making directories changes nothing that is there.                       *)
LEMMA DirectoriesMade ==
  ASSUME IsFileSystem(disk), NEW path \in Path,
         disk' = Create(Ancestors(path))
  PROVE  /\ IsFileSystem(disk')
         /\ path \in DOMAIN disk'
         /\ DOMAIN disk \subseteq DOMAIN disk'
         /\ \A other \in DOMAIN disk : disk'[other] = disk[other]
<1> DEFINE e == disk'
<1>1. DOMAIN e = DOMAIN disk \cup Ancestors(path)
  BY DEF Create, Overlay
<1>2. \A other \in DOMAIN disk : e[other] = disk[other]
  BY DEF Create, Overlay
<1>3. \A other \in DOMAIN e \ DOMAIN disk : e[other] = Directory
  BY DEF Create, Overlay
<1>4. IsFiniteSet(DOMAIN e)
  <2>1. IsFiniteSet(DOMAIN disk) /\ IsFiniteSet(Ancestors(path))
    BY AncestorsAre DEF IsFileSystem
  <2> HIDE DEF e
  <2> QED BY <1>1, <2>1, FS_Union
<1>5. DOMAIN e \subseteq Path
  BY <1>1, AncestorsAre DEF IsFileSystem
<1>6. \A other \in DOMAIN e : \A n \in 0 .. Len(other) : SubSeq(other, 1, n) \in DOMAIN e
  <2> HIDE DEF e
  <2> QED BY <1>1, AncestorsAre DEF IsFileSystem
<1>7. ASSUME NEW other \in DOMAIN e, e[other].kind = "module"
      PROVE  \E m \in Modules : e[other].rows = {m}
  <2>1. other \in DOMAIN disk
    BY <1>3, <1>7 DEF Directory
  <2>2. e[other] = disk[other]
    BY <1>2, <2>1
  <2>3. disk[other].kind = "module"
    BY <1>7, <2>2
  <2> HIDE DEF e
  <2> QED BY <2>1, <2>2, <2>3 DEF IsFileSystem
<1>8. IsFileSystem(e)
  <2> HIDE DEF e
  <2> QED BY <1>4, <1>5, <1>6, <1>7 DEF IsFileSystem
<1> QED BY <1>1, <1>2, <1>8, AncestorsAre

(* With the directory around it there, making a directory makes no other.  *)
LEMMA DirectoryMade ==
  ASSUME IsFileSystem(disk), NEW path \in Path, ~Exists(path), CanCreate(path),
         disk' = Create({path})
  PROVE  disk' = Create(Ancestors(path))
<1> DEFINE n == Len(path)
<1>1. n \in Nat /\ SubSeq(path, 1, n) = path
  BY DEF Path
<1>2. Front(path) \in DOMAIN disk
  BY DEF CanCreate, IsDirectory, Exists
<1>3. \A k \in 0 .. n : k < n => SubSeq(path, 1, k) \in DOMAIN disk
  <2> SUFFICES ASSUME NEW k \in 0 .. n, k < n PROVE SubSeq(path, 1, k) \in DOMAIN disk
    OBVIOUS
  <2>1. n - 1 \in 0 .. n /\ k \in 0 .. n - 1
    BY <1>1
  <2>2. Front(path) = SubSeq(path, 1, n - 1)
    BY DEF Front
  <2>3. Len(Front(path)) = n - 1 /\ SubSeq(Front(path), 1, k) = SubSeq(path, 1, k)
    BY <2>1, <2>2, SubSeqOfSubSeqOfPath
  <2> QED BY <1>2, <2>1, <2>3 DEF IsFileSystem
<1>4. DOMAIN disk \cup Ancestors(path) = DOMAIN disk \cup {path}
  <2>1. \A k \in 0 .. n : SubSeq(path, 1, k) \in DOMAIN disk \cup {path}
    <3> SUFFICES ASSUME NEW k \in 0 .. n PROVE SubSeq(path, 1, k) \in DOMAIN disk \cup {path}
      OBVIOUS
    <3>1. k < n \/ k = n
      <4> HIDE DEF n
      <4>1. k \in Nat /\ k <= n
        BY <1>1
      <4> QED BY <1>1, <4>1
    <3> QED BY <1>1, <1>3, <3>1
  <2> QED BY <2>1, AncestorsAre DEF Ancestors
<1>5. \A dirs : Create(dirs) = [q \in DOMAIN disk \cup dirs |->
                                 IF q \in DOMAIN disk THEN disk[q] ELSE Directory]
  BY DEF Create, Overlay
<1> QED BY <1>4, <1>5

(* Strictly below a path is being a longer one; what is below something    *)
(* below a directory is below the directory.                               *)
LEMMA BelowTransitive ==
  ASSUME NEW d \in Path, NEW e \in Path, NEW f \in Path, IsPrefix(e, f)
  PROVE  /\ IsPrefix(d, e) => IsPrefix(d, f)
         /\ Below(d, e) => Below(d, f)
<1>1. Len(d) \in Nat /\ Len(e) \in Nat /\ Len(f) \in Nat
  BY DEF Path
<1>2. Len(e) <= Len(f) /\ e = SubSeq(f, 1, Len(e))
  BY PrefixIsSubSeq
<1>3. ASSUME IsPrefix(d, e) PROVE IsPrefix(d, f)
  <2>1. Len(d) <= Len(e) /\ d = SubSeq(e, 1, Len(d))
    BY <1>3, PrefixIsSubSeq
  <2>2. d = SubSeq(f, 1, Len(d))
    <3>1. Len(e) \in 0 .. Len(f) /\ Len(d) \in 0 .. Len(e)
      BY <1>1, <1>2, <2>1
    <3> QED BY <1>2, <2>1, <3>1, SubSeqOfSubSeqOfPath
  <2> QED BY <1>1, <1>2, <2>1, <2>2, PrefixIsSubSeq
<1>4. ASSUME Below(d, e) PROVE Below(d, f)
  <2>1. IsPrefix(d, e) /\ d # e
    BY <1>4 DEF Below, IsStrictPrefix
  <2>2. Len(d) <= Len(e) /\ d = SubSeq(e, 1, Len(d)) /\ e = SubSeq(e, 1, Len(e))
    BY <2>1, PrefixIsSubSeq DEF Path
  <2>3. Len(d) < Len(e)
    BY <1>1, <2>1, <2>2
  <2>4. d # f
    BY <1>1, <1>2, <2>3
  <2> QED BY <1>3, <2>1, <2>4 DEF Below, IsStrictPrefix
<1> QED BY <1>3, <1>4

(* Removing what is below a path, or the path too, leaves a file system.   *)
LEMMA FilesRemoved ==
  ASSUME IsFileSystem(disk), NEW S,
         \A e \in DOMAIN disk, f \in DOMAIN disk : e \in S /\ IsPrefix(e, f) => f \in S,
         disk' = Without(S)
  PROVE  /\ IsFileSystem(disk')
         /\ DOMAIN disk' = DOMAIN disk \ S
         /\ \A path \in DOMAIN disk' : disk'[path] = disk[path]
<1> DEFINE e == disk'
<1>1. DOMAIN e = DOMAIN disk \ S /\ \A path \in DOMAIN e : e[path] = disk[path]
  BY DEF Without
<1>2. IsFiniteSet(DOMAIN e)
  <2>1. IsFiniteSet(DOMAIN disk)
    BY DEF IsFileSystem
  <2> HIDE DEF e
  <2> QED BY <1>1, <2>1, FS_Subset
<1>3. ASSUME NEW path \in DOMAIN e, NEW n \in 0 .. Len(path)
      PROVE  SubSeq(path, 1, n) \in DOMAIN e
  <2> DEFINE q == SubSeq(path, 1, n)
  <2>1. path \in DOMAIN disk /\ path \notin S /\ path \in Path
    BY <1>1 DEF IsFileSystem
  <2>2. q \in DOMAIN disk
    BY <2>1 DEF IsFileSystem
  <2>3. q \in Path /\ Len(q) = n /\ Len(q) <= Len(path)
    BY <2>1, SubSeqOfSubSeqOfPath
  <2>4. IsPrefix(q, path)
    BY <2>1, <2>3, PrefixIsSubSeq
  <2> HIDE DEF q
  <2>5. q \notin S
    BY <2>1, <2>2, <2>4
  <2>6. q \in DOMAIN e
    BY <1>1, <2>2, <2>5
  <2> QED BY <2>6 DEF q
<1>4. IsFileSystem(e)
  <2> HIDE DEF e
  <2> QED BY <1>1, <1>2, <1>3 DEF IsFileSystem
<1> QED BY <1>1, <1>4

-----------------------------------------------------------------------------
(* The types hold, action by action.                                       *)

(* Ending a process flushes at most what its streams hold.                 *)
LEMMA Deaths ==
  ASSUME TypeOK, NEW how, NEW rows, Die(how, rows)
  PROVE  /\ IsFileSystem(disk') /\ DOMAIN disk' = DOMAIN disk
         /\ \A path \in DOMAIN disk : ~Below(Target, path) => disk'[path] = disk[path]
         /\ writer' = NoWriter /\ pc' = "ended" /\ outcome' = how
         /\ writer = NoWriter => disk' = disk
<1>1. CASE writer = NoWriter
  BY <1>1 DEF Die, TypeOK
<1>2. CASE writer # NoWriter
  <2>1. writer.dir = Target /\ Target \in Path /\ IsFileSystem(disk)
    BY <1>2, CommandFields DEF TypeOK, WriterOK
  <2>2. PICK kept \in SUBSET Registry :
          disk' = Flushed(writer.dir, [p \in Registry |-> IF p \in kept THEN rows[p] ELSE {}])
    BY <1>2 DEF Die
  <2> DEFINE added == [p \in Registry |-> IF p \in kept THEN rows[p] ELSE {}]
  <2> HIDE DEF added
  <2>3. disk' = Flushed(Target, added)
    BY <2>1, <2>2 DEF added
  <2>4. /\ DOMAIN Flushed(Target, added) = DOMAIN disk
        /\ \A path \in DOMAIN disk :
             ~Below(Target, path) => Flushed(Target, added)[path] = disk[path]
        /\ IsFileSystem(Flushed(Target, added))
    BY <2>1, FlushKeeps
  <2>5. writer' = NoWriter /\ pc' = "ended" /\ outcome' = how
    BY DEF Die
  <2> QED BY <1>2, <2>3, <2>4, <2>5
<1> QED BY <1>1, <1>2

(* Leaving the scope of the writer flushes what its streams hold.          *)
LEMMA Closings ==
  ASSUME TypeOK, pc \in {"generate", "facts", "leave"}, CloseWriter
  PROVE  /\ disk' = Flushed(Target, writer.unflushed)
         /\ IsFileSystem(disk') /\ DOMAIN disk' = DOMAIN disk
         /\ \A path \in DOMAIN disk : ~Below(Target, path) => disk'[path] = disk[path]
         /\ \A p \in Registry : FactPath(Target, p) \in DOMAIN disk =>
              disk'[FactPath(Target, p)].rows
                = disk[FactPath(Target, p)].rows \cup writer.unflushed[p]
         /\ writer' = NoWriter
<1>1. writer.dir = Target /\ Target \in Path /\ IsFileSystem(disk)
  BY CommandFields DEF TypeOK, WriterOK
<1>2. disk' = Flushed(Target, writer.unflushed) /\ writer' = NoWriter
  BY <1>1 DEF CloseWriter
<1> DEFINE added == writer.unflushed
<1> HIDE DEF added
<1>3. /\ DOMAIN Flushed(Target, added) = DOMAIN disk
      /\ \A path \in DOMAIN disk :
           ~Below(Target, path) => Flushed(Target, added)[path] = disk[path]
      /\ \A p \in Registry : FactPath(Target, p) \in DOMAIN disk =>
           Flushed(Target, added)[FactPath(Target, p)].rows
             = disk[FactPath(Target, p)].rows \cup added[p]
      /\ IsFileSystem(Flushed(Target, added))
  BY <1>1, FlushKeeps
<1> QED BY <1>2, <1>3 DEF added

(* Preparing the output directory of factgen: it is there, and everything  *)
(* outside of it is as it was.                                             *)
LEMMA Preparations ==
  ASSUME TypeOK, Factgen, IF Exists(args.out) THEN IsDirectory(args.out) ELSE CanCreate(args.out),
         disk' = Prepared(args.out, args.force)
  PROVE  /\ IsFileSystem(disk') /\ args.out \in DOMAIN disk'
         /\ \A path \in DOMAIN disk : ~Below(args.out, path) =>
              path \in DOMAIN disk' /\ disk'[path] = disk[path]
         /\ ~args.force => /\ DOMAIN disk \subseteq DOMAIN disk'
                           /\ \A path \in DOMAIN disk : disk'[path] = disk[path]
         /\ IsEmptyDirectory(args.out) \/ args.force =>
              \A path \in DOMAIN disk' : ~Below(args.out, path)
<1> DEFINE out == args.out
<1>1. out \in Path /\ IsFileSystem(disk) /\ DOMAIN disk \subseteq Path
  BY CommandFields DEF TypeOK, IsFileSystem, Target
<1> HIDE DEF out
<1>2. ~Below(out, out)
  BY DEF Below, IsStrictPrefix
<1>3. CASE ~Exists(out)
  <2>1. CanCreate(out) /\ disk' = Create({out})
    BY <1>3 DEF Prepared, out
  <2>2. disk' = Create(Ancestors(out))
    BY <1>1, <1>3, <2>1, DirectoryMade
  <2>3. IsFileSystem(disk') /\ out \in DOMAIN disk' /\ DOMAIN disk \subseteq DOMAIN disk'
        /\ \A path \in DOMAIN disk : disk'[path] = disk[path]
    BY <1>1, <2>2, DirectoriesMade
  <2>4. DOMAIN disk' = DOMAIN disk \cup {out}
    BY <2>1 DEF Create, Overlay
  <2>5. ASSUME NEW path \in DOMAIN disk PROVE ~Below(out, path)
    <3>1. path \in Path
      BY <1>1
    <3>2. ~IsPrefix(out, path)
      BY <1>1, <1>3, <3>1, PrefixExists DEF Exists
    <3> QED BY <3>2 DEF Below, IsStrictPrefix
  <2> QED BY <1>2, <2>3, <2>4, <2>5 DEF out
<1>4. CASE Exists(out) /\ args.force
  <2>1. disk' = Without(Contents(out))
    BY <1>4 DEF Prepared, out
  <2> DEFINE S == Contents(out)
  <2>2. \A e \in DOMAIN disk, f \in DOMAIN disk : e \in S /\ IsPrefix(e, f) => f \in S
    BY <1>1, BelowTransitive DEF Contents
  <2>3. \A path \in DOMAIN disk : path \in S <=> Below(out, path)
    BY DEF Contents
  <2> HIDE DEF S
  <2>4. disk' = Without(S)
    BY <2>1 DEF S
  <2>5. IsFileSystem(disk') /\ DOMAIN disk' = DOMAIN disk \ S
        /\ \A path \in DOMAIN disk' : disk'[path] = disk[path]
    BY <1>1, <2>2, <2>4, FilesRemoved
  <2>6. out \in DOMAIN disk'
    BY <1>2, <1>4, <2>3, <2>5 DEF Exists
  <2> QED BY <1>4, <2>3, <2>5, <2>6 DEF out
<1>5. CASE Exists(out) /\ ~args.force
  <2>1. disk' = disk
    BY <1>5 DEF Prepared, out
  <2> QED BY <1>1, <1>5, <2>1 DEF out, Exists, IsEmptyDirectory
<1> QED BY <1>3, <1>4, <1>5

(* factgen keeps the types.                                                *)
LEMMA FactgenTypes ==
  ASSUME TypeOK, FactgenStep
  PROVE  TypeOK'
<1> USE DEF FactgenPhases, Working
<1>1. Factgen /\ args \in FactgenCommands /\ Target = args.out /\ Target \in Path
  BY CommandFields DEF FactgenStep, Factgen, TypeOK, Target
<1>2. CASE args' = args /\ disk' = disk /\ writer' = writer /\ generator' = generator
           /\ pc' \in FactgenPhases \ {"open", "generate"} /\ pc \notin {"generate"}
           /\ (pc' \in {"inputs", "signatures"} => Exists(Target))
  BY <1>1, <1>2 DEF TypeOK, WriterOK, Factgen, Target, Exists
<1>3. CASE ParseCommandLine
  BY <1>1, <1>2, <1>3 DEF ParseCommandLine, Exit, Continue
<1>4. CASE SetOutputDir
  <2>1. args' = args /\ writer' = writer /\ generator' = generator /\ pc = "outdir"
    BY <1>4 DEF SetOutputDir
  <2>2. CASE disk' = disk /\ pc' = "ended"
    BY <1>1, <1>2, <2>1, <2>2
  <2>3. CASE /\ IF Exists(args.out) THEN IsDirectory(args.out) ELSE CanCreate(args.out)
             /\ disk' = Prepared(args.out, args.force)
             /\ pc' \in {"inputs", "ended"}
    <3>1. IsFileSystem(disk') /\ args.out \in DOMAIN disk'
      BY <1>1, <2>3, Preparations
    <3> QED BY <1>1, <2>1, <2>3, <3>1 DEF TypeOK, WriterOK, Factgen, Target, Exists
  <2> QED BY <1>4, <2>2, <2>3 DEF SetOutputDir, Exit, Continue
<1>5. CASE SetInputFiles
  <2>1. pc = "inputs" /\ pc' \in {"ended", "signatures"} /\ UNCHANGED <<disk, writer, generator, args>>
    BY <1>5 DEF SetInputFiles, Exit, Continue
  <2> QED BY <1>1, <1>2, <2>1 DEF TypeOK
<1>6. CASE SetSignatures
  <2>1. pc = "signatures" /\ pc' \in {"ended", "open"} /\ UNCHANGED <<disk, writer, generator, args>>
    BY <1>6 DEF SetSignatures, Exit, Continue
  <2> QED BY <1>1, <2>1 DEF TypeOK, WriterOK, Factgen, Target, Exists
<1>7. CASE OpenFactWriter
  <2>1. /\ pc = "open" /\ pc' = "generate" /\ args' = args
        /\ \E slot \in Slots : OpenWriter(args.out, slot)
    BY <1>7 DEF OpenFactWriter, Continue
  <2>2. /\ disk' = Overlay([path \in {FactPath(Target, p) : p \in Registry} |-> Facts({})], disk)
        /\ DOMAIN writer' = {"dir", "slot", "unflushed"} /\ writer'.dir = Target
        /\ DOMAIN writer'.unflushed = Registry
        /\ DOMAIN generator' = {"slot", "types", "results"}
    BY <1>1, <2>1 DEF OpenWriter, NoGenerator, TypeOK
  <2>3. IsFileSystem(disk') /\ Target \in DOMAIN disk'
    <3>1. IsFileSystem(disk) /\ Target \in DOMAIN disk
      BY <2>1 DEF TypeOK, Exists
    <3> QED BY <2>2, <3>1, FilesOpened
  <2> QED BY <1>1, <2>1, <2>2, <2>3 DEF TypeOK, WriterOK, Factgen, Target, Exists
<1>8. CASE GenerateModule
  <2>1. pc = "generate" /\ UNCHANGED <<disk, args, pc>>
    BY <1>8 DEF GenerateModule
  <2>2. /\ DOMAIN writer' = {"dir", "slot", "unflushed"} /\ writer'.dir = writer.dir
        /\ DOMAIN writer'.unflushed = Registry
        /\ DOMAIN generator' = {"slot", "types", "results"}
    BY <1>8 DEF GenerateModule, ProcessModule, TypeOK
  <2> QED BY <1>1, <2>1, <2>2 DEF TypeOK, WriterOK, Factgen, Target, Exists
<1>9. ASSUME IsFileSystem(disk'), writer' = NoWriter, pc' = "ended",
             UNCHANGED <<generator, args>>
      PROVE  TypeOK'
  BY <1>1, <1>9 DEF TypeOK, WriterOK, Factgen, Target, Exists, NoWriter
<1>10. CASE ThrowInvalidSignature
  <2>1. PICK rows : Die("abort", rows)
    BY <1>10 DEF ThrowInvalidSignature
  <2> QED BY <1>9, <1>10, <2>1, Deaths DEF ThrowInvalidSignature
<1>11. CASE ThrowParseException
  <2>1. pc = "generate" /\ CloseWriter /\ pc' = "ended" /\ UNCHANGED <<generator, args>>
    BY <1>11 DEF ThrowParseException, Exit
  <2> QED BY <1>9, <2>1, Closings
<1>12. CASE Finish
  <2>1. pc = "generate" /\ CloseWriter /\ pc' = "ended" /\ UNCHANGED <<generator, args>>
    BY <1>12 DEF Finish, Exit
  <2> QED BY <1>9, <2>1, Closings
<1> QED BY <1>3, <1>4, <1>5, <1>6, <1>7, <1>8, <1>10, <1>11, <1>12 DEF FactgenStep, FactgenNext

(* Removing the directory of the pass.                                     *)
LEMMA Removals ==
  ASSUME IsFileSystem(disk), NEW dir \in Path, disk' = Without(Removed(dir))
  PROVE  /\ IsFileSystem(disk')
         /\ \A path \in DOMAIN disk : ~IsPrefix(dir, path) =>
              path \in DOMAIN disk' /\ disk'[path] = disk[path]
         /\ ~\E path \in DOMAIN disk' : IsPrefix(dir, path)
<1> DEFINE S == Removed(dir)
<1>1. \A e \in DOMAIN disk, f \in DOMAIN disk : e \in S /\ IsPrefix(e, f) => f \in S
  BY BelowTransitive DEF Removed, IsFileSystem
<1>2. \A path \in DOMAIN disk : path \in S <=> IsPrefix(dir, path)
  BY DEF Removed
<1> HIDE DEF S
<1>3. disk' = Without(S)
  BY DEF S
<1>4. IsFileSystem(disk') /\ DOMAIN disk' = DOMAIN disk \ S
      /\ \A path \in DOMAIN disk' : disk'[path] = disk[path]
  BY <1>1, <1>3, FilesRemoved
<1> QED BY <1>2, <1>4

(* What is not at or below a directory is not below it.                    *)
LEMMA PrefixOfBelow ==
  ASSUME NEW dir, NEW path, ~IsPrefix(dir, path)
  PROVE  ~Below(dir, path)
BY DEF Below, IsStrictPrefix

(* The pass keeps the types.                                               *)
LEMMA PassTypes ==
  ASSUME TypeOK, PassStep
  PROVE  TypeOK'
<1> USE DEF PassPhases, Working
<1>1. Pass /\ ~Factgen /\ args \in PassCommands /\ Target = args.dir /\ Target \in Path
  BY CommandFields DEF PassStep, Factgen, Pass, TypeOK, Target
<1>2. CASE UNCHANGED <<disk, writer, generator, args>> /\ pc' \in PassPhases
           /\ (pc' \in {"facts", "leave"} <=> pc \in {"facts", "leave"})
           /\ (pc' \in Working => pc \in Working)
  <2>1. pc' \in {"facts", "leave", "generate"} <=> pc \in {"facts", "leave", "generate"}
    BY <1>1, <1>2 DEF TypeOK
  <2> QED BY <1>1, <1>2, <2>1 DEF TypeOK, WriterOK, Factgen, Target, Exists
<1>3. ASSUME IsFileSystem(disk'), pc' \in PassPhases \ {"facts", "leave"},
             writer' = NoWriter, UNCHANGED <<generator, args>>,
             pc' \in Working => Target \in DOMAIN disk'
      PROVE  TypeOK'
  BY <1>1, <1>3 DEF TypeOK, WriterOK, Factgen, Target, Exists, NoWriter
<1>4. CASE CreateDirectories
  <2>1. pc = "create" /\ pc' = "writers" /\ UNCHANGED <<writer, generator, args>>
    BY <1>4 DEF CreateDirectories
  <2>2. IsFileSystem(disk')
    <3>1. CASE Exists(args.dir)
      BY <1>4, <3>1 DEF CreateDirectories, TypeOK
    <3>2. CASE ~Exists(args.dir)
      <4>1. disk' = Create(Ancestors(args.dir)) /\ IsFileSystem(disk)
        BY <1>4, <3>2 DEF CreateDirectories, TypeOK
      <4> QED BY <1>1, <4>1, DirectoriesMade
    <3> QED BY <3>1, <3>2
  <2> QED BY <1>3, <2>1, <2>2 DEF TypeOK, WriterOK
<1>5. CASE CreateDirectoriesFails
  BY <1>2, <1>5 DEF CreateDirectoriesFails
<1>6. CASE OpenWriters
  <2>1. /\ pc = "writers" /\ pc' = "facts" /\ args' = args /\ Exists(Target)
        /\ \E slot \in Slots : OpenWriter(args.dir, slot)
    BY <1>1, <1>6 DEF OpenWriters, IsDirectory
  <2>2. /\ disk' = Overlay([path \in {FactPath(Target, p) : p \in Registry} |-> Facts({})], disk)
        /\ DOMAIN writer' = {"dir", "slot", "unflushed"} /\ writer'.dir = Target
        /\ DOMAIN writer'.unflushed = Registry
        /\ DOMAIN generator' = {"slot", "types", "results"}
    BY <1>1, <2>1 DEF OpenWriter, NoGenerator, TypeOK
  <2>3. IsFileSystem(disk') /\ Target \in DOMAIN disk'
    <3>1. IsFileSystem(disk) /\ Target \in DOMAIN disk
      BY <2>1 DEF TypeOK, Exists
    <3> QED BY <2>2, <3>1, FilesOpened
  <2> QED BY <1>1, <2>1, <2>2, <2>3 DEF TypeOK, WriterOK, Factgen, Target, Exists
<1>7. CASE OpenWritersFails
  BY <1>2, <1>7 DEF OpenWritersFails
<1>8. CASE GenerateFacts
  <2>1. pc = "facts" /\ pc' = "leave" /\ UNCHANGED <<disk, args>>
    BY <1>8 DEF GenerateFacts
  <2>2. /\ DOMAIN writer' = {"dir", "slot", "unflushed"} /\ writer'.dir = writer.dir
        /\ DOMAIN writer'.unflushed = Registry
        /\ DOMAIN generator' = {"slot", "types", "results"}
    BY <1>8 DEF GenerateFacts, ProcessModule, TypeOK
  <2> QED BY <1>1, <2>1, <2>2 DEF TypeOK, WriterOK, Factgen, Target, Exists
<1>9. CASE GenerateFactsFails
  <2>1. PICK rows : Die("abort", rows)
    BY <1>9 DEF GenerateFactsFails
  <2> QED BY <1>3, <1>9, <2>1, Deaths DEF GenerateFactsFails
<1>10. CASE LeaveFactgenModule
  <2>1. pc = "leave" /\ CloseWriter /\ pc' = "load" /\ UNCHANGED <<generator, args>>
    BY <1>10 DEF LeaveFactgenModule
  <2>2. Target \in DOMAIN disk
    BY <2>1 DEF TypeOK, Exists
  <2> QED BY <1>3, <2>1, <2>2, Closings
<1>11. CASE RunPointerAnalysis
  <2>1. /\ pc = "load" /\ pc' = "check" /\ UNCHANGED <<writer, generator, args>>
        /\ disk' = IF args.debug
                   THEN WithResult(Target, disk[FactPath(args.dir, "type")].rows)
                   ELSE disk
    BY <1>1, <1>11 DEF RunPointerAnalysis
  <2>2. IsFileSystem(disk) /\ Target \in DOMAIN disk
    BY <2>1 DEF TypeOK, Exists
  <2>3. IsFileSystem(disk') /\ Target \in DOMAIN disk'
    BY <2>1, <2>2, ResultWritten
  <2> QED BY <1>3, <2>1, <2>3 DEF TypeOK, WriterOK
<1>12. CASE CheckAssertions
  <2>1. pc = "check" /\ pc' \in {"ended", "extract"} /\ UNCHANGED <<disk, writer, generator, args>>
    BY <1>12 DEF CheckAssertions
  <2> QED BY <1>2, <2>1
<1>13. CASE Extract
  <2>1. pc = "extract" /\ pc' \in {"ended", "remove"} /\ UNCHANGED <<disk, writer, generator, args>>
    BY <1>13 DEF Extract
  <2> QED BY <1>2, <2>1
<1>14. CASE RemoveWorkFiles
  <2>1. /\ pc = "remove" /\ pc' = "ended" /\ UNCHANGED <<writer, generator, args>>
        /\ disk' = IF args.debug THEN disk ELSE Without(Removed(Target))
    BY <1>1, <1>14 DEF RemoveWorkFiles
  <2>2. IsFileSystem(disk')
    BY <1>1, <2>1, Removals DEF TypeOK
  <2> QED BY <1>3, <2>1, <2>2 DEF TypeOK, WriterOK
<1> QED BY <1>4, <1>5, <1>6, <1>7, <1>8, <1>9, <1>10, <1>11, <1>12, <1>13, <1>14
        DEF PassStep, PassNext

(* A new process, and a new run, starts with types.                        *)
LEMMA OtherTypes ==
  ASSUME TypeOK, Kill \/ StartProcess \/ RunAgain
  PROVE  TypeOK'
<1> USE DEF PassPhases, FactgenPhases, Working
<1>1. CASE Kill
  <2>1. Die("killed", writer.unflushed) /\ UNCHANGED <<generator, args>>
    BY <1>1 DEF Kill
  <2>2. IsFileSystem(disk') /\ writer' = NoWriter /\ pc' = "ended"
    BY <2>1, Deaths
  <2> QED BY <2>1, <2>2 DEF TypeOK, WriterOK, Factgen, Target, Exists, NoWriter
<1>2. CASE StartProcess
  <2>1. args' \in FactgenCommands \cup PassCommands
    BY <1>2, FrontendsAssumption DEF StartProcess
  <2>2. /\ disk' = disk /\ writer' = NoWriter /\ generator' = NoGenerator
        /\ pc' = IF Factgen' THEN "parse" ELSE "create"
    BY <1>2 DEF StartProcess, FirstStep, Factgen, TypeOK, WriterOK
  <2> QED BY <2>1, <2>2 DEF TypeOK, WriterOK, NoWriter, NoGenerator, Exists
<1>3. CASE RunAgain
  <2>1. /\ Pass /\ pc = "ended" /\ pc' = "create" /\ UNCHANGED <<disk, writer, generator>>
        /\ \E m \in Modules : args' = [args EXCEPT !.module = m]
    BY <1>3 DEF RunAgain, Pass
  <2>2. args \in PassCommands
    BY <2>1, CommandFields DEF TypeOK
  <2>3. args' \in PassCommands /\ ~Factgen'
    BY <2>1, <2>2 DEF PassCommands, Factgen
  <2> QED BY <2>1, <2>3 DEF TypeOK, WriterOK, NoWriter, Exists
<1> QED BY <1>1, <1>2, <1>3

(* Initially.                                                              *)
LEMMA InitTypes == Init => TypeOK
<1> SUFFICES ASSUME Init PROVE TypeOK
  OBVIOUS
<1>1. IsFileSystem(disk) /\ args \in FactgenCommands \cup PassCommands
  BY FrontendsAssumption DEF Init
<1>2. /\ writer = NoWriter /\ generator = NoGenerator
      /\ pc = IF Factgen THEN "parse" ELSE "create"
  BY DEF Init, FirstStep, Factgen
<1> QED BY <1>1, <1>2 DEF TypeOK, WriterOK, NoWriter, NoGenerator, Exists, PassPhases,
           FactgenPhases, Working

(* The disk is a file system after every step of every process, and a      *)
(* writer lives only while its directory exists.                           *)
THEOREM TypeCorrect == Spec => []TypeOK
<1>1. Init => TypeOK
  BY InitTypes
<1>2. TypeOK /\ [Next]_vars => TypeOK'
  <2> SUFFICES ASSUME TypeOK, [Next]_vars PROVE TypeOK'
    OBVIOUS
  <2>1. CASE UNCHANGED vars
    BY <2>1 DEF vars, TypeOK, WriterOK, Factgen, Target, Exists
  <2>2. CASE Next
    BY <2>2, FactgenTypes, PassTypes, OtherTypes DEF Next
  <2> QED BY <2>1, <2>2
<1> QED BY <1>1, <1>2, PTL DEF Spec

-----------------------------------------------------------------------------
(* Files that are not the process's to replace.                            *)

Kept(path) == path \in DOMAIN disk' /\ disk'[path] = disk[path]

(* Until the output directory is prepared nothing was touched; without     *)
(* --force, nothing was in the directory that factgen goes on to use.      *)
FilesOK ==
  /\ ForeignFilesKept
  /\ pc \in {"parse", "outdir"} => disk = before
  /\ pc \in {"inputs", "signatures", "open", "generate"} /\ ~args.force =>
        \A path \in DOMAIN before : ~Below(args.out, path)

(* What a step of factgen may touch.                                       *)
LEMMA FactgenTouches ==
  ASSUME TypeOK, FactgenStep
  PROVE  /\ \A path \in DOMAIN disk :
              Kept(path) \/ (Below(args.out, path) /\ (args.force \/ pc \in {"open", "generate"}))
         /\ pc' # "parse" /\ (pc' = "outdir" => pc = "parse" /\ disk' = disk)
         /\ pc' \in {"inputs", "signatures", "open", "generate"} /\ ~args.force =>
              pc \in {"inputs", "signatures", "open", "generate"}
                \/ (pc = "outdir" /\ IsEmptyDirectory(args.out))
<1>1. Factgen /\ Target = args.out /\ Target \in Path
  BY CommandFields DEF FactgenStep, Factgen, TypeOK, Target
<1> USE DEF Kept
<1>3. CASE ParseCommandLine
  BY <1>3 DEF ParseCommandLine, Exit, Continue
<1>4. CASE SetOutputDir
  <2>1. pc = "outdir"
    BY <1>4 DEF SetOutputDir
  <2>2. CASE disk' = disk /\ pc' = "ended"
    BY <2>1, <2>2
  <2>3. CASE /\ IF Exists(args.out) THEN IsDirectory(args.out) ELSE CanCreate(args.out)
             /\ disk' = Prepared(args.out, args.force)
             /\ \/ pc' = "inputs" /\ (IsEmptyDirectory(args.out) \/ args.force)
                \/ pc' = "ended"
    <3>1. /\ \A path \in DOMAIN disk : ~Below(args.out, path) =>
                path \in DOMAIN disk' /\ disk'[path] = disk[path]
          /\ ~args.force => /\ DOMAIN disk \subseteq DOMAIN disk'
                            /\ \A path \in DOMAIN disk : disk'[path] = disk[path]
      BY <1>1, <2>3, Preparations
    <3> QED BY <2>1, <2>3, <3>1
  <2> QED BY <1>4, <2>2, <2>3 DEF SetOutputDir, Exit, Continue
<1>5. CASE SetInputFiles
  BY <1>5 DEF SetInputFiles, Exit, Continue
<1>6. CASE SetSignatures
  BY <1>6 DEF SetSignatures, Exit, Continue
<1>7. CASE OpenFactWriter
  <2>1. pc = "open" /\ pc' = "generate" /\ Exists(Target)
    BY <1>7 DEF OpenFactWriter, Continue, TypeOK, Working
  <2>2. disk' = Overlay([path \in {FactPath(Target, p) : p \in Registry} |-> Facts({})], disk)
    BY <1>1, <1>7 DEF OpenFactWriter, OpenWriter
  <2>3. DOMAIN disk \subseteq DOMAIN disk'
        /\ \A path \in DOMAIN disk : ~Below(Target, path) => disk'[path] = disk[path]
    <3>1. IsFileSystem(disk) /\ Target \in DOMAIN disk
      BY <2>1 DEF TypeOK, Exists
    <3> QED BY <2>2, <3>1, FilesOpened
  <2> QED BY <1>1, <2>1, <2>3
<1>8. CASE GenerateModule
  BY <1>8 DEF GenerateModule
<1>9. ASSUME pc = "generate", pc' = "ended", DOMAIN disk' = DOMAIN disk,
             \A path \in DOMAIN disk : ~Below(Target, path) => disk'[path] = disk[path]
      PROVE  /\ \A path \in DOMAIN disk :
                  Kept(path) \/ (Below(args.out, path) /\ pc \in {"open", "generate"})
             /\ pc' \notin {"parse", "outdir", "inputs", "signatures", "open", "generate"}
  BY <1>1, <1>9
<1>10. CASE ThrowInvalidSignature
  <2>1. PICK rows : Die("abort", rows)
    BY <1>10 DEF ThrowInvalidSignature
  <2>2. pc = "generate" /\ pc' = "ended" /\ DOMAIN disk' = DOMAIN disk
        /\ \A path \in DOMAIN disk : ~Below(Target, path) => disk'[path] = disk[path]
    BY <1>10, <2>1, Deaths DEF ThrowInvalidSignature
  <2> QED BY <1>9, <2>2
<1>11. CASE ThrowParseException \/ Finish
  <2>1. pc = "generate" /\ CloseWriter /\ pc' = "ended"
    BY <1>11 DEF ThrowParseException, Finish, Exit
  <2>2. DOMAIN disk' = DOMAIN disk
        /\ \A path \in DOMAIN disk : ~Below(Target, path) => disk'[path] = disk[path]
    BY <2>1, Closings
  <2> QED BY <1>9, <2>1, <2>2
<1> QED BY <1>3, <1>4, <1>5, <1>6, <1>7, <1>8, <1>10, <1>11 DEF FactgenStep, FactgenNext

(* What a step of the pass may touch.                                      *)
LEMMA PassTouches ==
  ASSUME TypeOK, PassStep
  PROVE  \A path \in DOMAIN disk : Kept(path) \/ IsPrefix(args.dir, path)
<1>1. Pass /\ Target = args.dir /\ Target \in Path /\ IsFileSystem(disk)
  BY CommandFields DEF PassStep, Factgen, Pass, TypeOK, Target
<1> USE DEF Kept
<1>2. ASSUME DOMAIN disk \subseteq DOMAIN disk',
             \A path \in DOMAIN disk : ~Below(Target, path) => disk'[path] = disk[path]
      PROVE  \A path \in DOMAIN disk : Kept(path) \/ IsPrefix(args.dir, path)
  BY <1>1, <1>2, PrefixOfBelow
<1>3. CASE disk' = disk
  BY <1>3
<1>4. CASE CreateDirectories
  <2>1. CASE ~Exists(args.dir)
    <3>1. disk' = Create(Ancestors(args.dir))
      BY <1>4, <2>1 DEF CreateDirectories
    <3> QED BY <1>1, <3>1, DirectoriesMade
  <2> QED BY <1>3, <1>4, <2>1 DEF CreateDirectories
<1>5. CASE OpenWriters
  <2>1. disk' = Overlay([path \in {FactPath(Target, p) : p \in Registry} |-> Facts({})], disk)
    BY <1>1, <1>5 DEF OpenWriters, OpenWriter
  <2>2. Target \in DOMAIN disk
    BY <1>1, <1>5 DEF OpenWriters, IsDirectory, Exists
  <2> QED BY <1>1, <1>2, <2>1, <2>2, FilesOpened
<1>6. CASE GenerateFactsFails
  <2>1. PICK rows : Die("abort", rows)
    BY <1>6 DEF GenerateFactsFails
  <2> QED BY <1>2, <2>1, Deaths
<1>7. CASE LeaveFactgenModule
  <2>1. pc = "leave" /\ CloseWriter
    BY <1>7 DEF LeaveFactgenModule
  <2> QED BY <1>2, <2>1, Closings
<1>8. CASE RunPointerAnalysis
  <2>1. /\ pc = "load"
        /\ disk' = IF args.debug
                   THEN WithResult(Target, disk[FactPath(args.dir, "type")].rows)
                   ELSE disk
    BY <1>1, <1>8 DEF RunPointerAnalysis
  <2>2. Target \in DOMAIN disk
    BY <2>1 DEF TypeOK, Exists, Working
  <2> QED BY <1>1, <1>2, <1>3, <2>1, <2>2, ResultWritten
<1>9. CASE RemoveWorkFiles
  <2>1. disk' = IF args.debug THEN disk ELSE Without(Removed(Target))
    BY <1>1, <1>9 DEF RemoveWorkFiles
  <2> QED BY <1>1, <1>3, <2>1, Removals
<1>10. CASE \/ CreateDirectoriesFails \/ OpenWritersFails \/ GenerateFacts
            \/ CheckAssertions \/ Extract
  BY <1>3, <1>10 DEF CreateDirectoriesFails, OpenWritersFails, GenerateFacts, CheckAssertions,
     Extract
<1> QED BY <1>4, <1>5, <1>6, <1>7, <1>8, <1>9, <1>10 DEF PassStep, PassNext

(* A step of any kind leaves the files that are not its process's.         *)
LEMMA FilesStep ==
  ASSUME TypeOK, FilesOK, Next, TypeOK'
  PROVE  FilesOK'
<1>1. CASE FactgenStep
  <2>1. args' = args /\ before' = before /\ Factgen /\ Factgen' /\ ~Pass
    BY <1>1, CommandFields DEF FactgenStep, FactgenNext, ParseCommandLine, SetOutputDir,
       SetInputFiles, SetSignatures, OpenFactWriter, GenerateModule, ThrowInvalidSignature,
       ThrowParseException, Finish, Factgen, TypeOK
  <2>2. ForeignFilesKept'
    <3> SUFFICES ASSUME NEW path \in DOMAIN before, ~(args.force /\ Below(args.out, path))
                 PROVE  path \in DOMAIN disk' /\ disk'[path] = before[path]
      BY <2>1 DEF ForeignFilesKept, Exists, Factgen
    <3>1. path \in DOMAIN disk /\ disk[path] = before[path]
      BY <2>1 DEF FilesOK, ForeignFilesKept, Exists
    <3>2. CASE Kept(path)
      BY <3>1, <3>2 DEF Kept
    <3>3. CASE Below(args.out, path) /\ (args.force \/ pc \in {"open", "generate"})
      BY <3>3 DEF FilesOK
    <3> QED BY <1>1, <3>1, <3>2, <3>3, FactgenTouches
  <2>3. (pc \in {"parse", "outdir"} => disk = before)'
    BY <1>1, <2>1, FactgenTouches DEF FilesOK
  <2>4. (pc \in {"inputs", "signatures", "open", "generate"} /\ ~args.force =>
            \A path \in DOMAIN before : ~Below(args.out, path))'
    BY <1>1, <2>1, FactgenTouches DEF FilesOK, IsEmptyDirectory
  <2> QED BY <2>2, <2>3, <2>4 DEF FilesOK
<1>2. CASE PassStep
  <2>1. args' = args /\ before' = before /\ Pass /\ Pass' /\ ~Factgen /\ ~Factgen'
    BY <1>2, CommandFields DEF PassStep, PassNext, CreateDirectories, CreateDirectoriesFails,
       OpenWriters, OpenWritersFails, GenerateFacts, GenerateFactsFails, LeaveFactgenModule,
       RunPointerAnalysis, CheckAssertions, Extract, RemoveWorkFiles, Pass, Factgen, TypeOK
  <2>2. pc' \in PassPhases
    BY <2>1 DEF TypeOK
  <2>3. ForeignFilesKept'
    <3> SUFFICES ASSUME NEW path \in DOMAIN before, ~IsPrefix(args.dir, path)
                 PROVE  path \in DOMAIN disk' /\ disk'[path] = before[path]
      BY <2>1 DEF ForeignFilesKept, Exists, Pass
    <3>1. path \in DOMAIN disk /\ disk[path] = before[path]
      BY <2>1 DEF FilesOK, ForeignFilesKept, Exists
    <3>2. Kept(path)
      BY <1>2, <3>1, PassTouches
    <3> QED BY <3>1, <3>2 DEF Kept
  <2> QED BY <2>2, <2>3 DEF FilesOK, PassPhases
<1>3. CASE Kill
  <2>1. Die("killed", writer.unflushed) /\ args' = args /\ before' = before
    BY <1>3 DEF Kill
  <2>2. /\ DOMAIN disk' = DOMAIN disk /\ pc' = "ended"
        /\ \A path \in DOMAIN disk : ~Below(Target, path) => disk'[path] = disk[path]
        /\ writer = NoWriter => disk' = disk
    BY <2>1, Deaths
  <2>3. ForeignFilesKept'
    <3> SUFFICES ASSUME NEW path \in DOMAIN before,
                        ~(Factgen /\ args.force /\ Below(args.out, path)),
                        ~(Pass /\ IsPrefix(args.dir, path))
                 PROVE  path \in DOMAIN disk' /\ disk'[path] = before[path]
      BY <2>1 DEF ForeignFilesKept, Exists, Pass, Factgen
    <3>1. path \in DOMAIN disk /\ disk[path] = before[path]
      BY <2>1 DEF FilesOK, ForeignFilesKept, Exists
    <3>2. CASE writer = NoWriter
      BY <2>2, <3>1, <3>2
    <3>3. CASE Pass
      <4>1. Target = args.dir
        BY <3>3, CommandFields DEF Target, TypeOK
      <4>2. ~Below(Target, path)
        BY <3>3, <4>1, PrefixOfBelow
      <4> QED BY <2>2, <3>1, <4>2
    <3>4. CASE Factgen /\ writer # NoWriter
      <4>1. pc = "generate" /\ Target = args.out
        BY <3>4 DEF TypeOK, WriterOK, FactgenPhases, Target
      <4>2. ~Below(Target, path)
        BY <3>4, <4>1 DEF FilesOK
      <4> QED BY <2>2, <3>1, <4>2
    <3> QED BY <3>2, <3>3, <3>4, CommandFields DEF TypeOK
  <2> QED BY <2>2, <2>3 DEF FilesOK
<1>4. CASE StartProcess \/ RunAgain
  <2>1. disk' = disk /\ before' = disk
    BY <1>4 DEF StartProcess, RunAgain
  <2>2. pc' \in {"parse", "create"}
    BY <1>4 DEF StartProcess, RunAgain, FirstStep
  <2> QED BY <2>1, <2>2 DEF FilesOK, ForeignFilesKept, Exists
<1> QED BY <1>1, <1>2, <1>3, <1>4 DEF Next

(* No process, however it ends, changes a file that is not its to replace. *)
THEOREM ForeignFiles == Spec => []ForeignFilesKept
<1>1. Init => FilesOK
  BY DEF Init, FirstStep, FilesOK, ForeignFilesKept, Exists
<1>2. TypeOK /\ TypeOK' /\ FilesOK /\ [Next]_vars => FilesOK'
  <2> SUFFICES ASSUME TypeOK, TypeOK', FilesOK, [Next]_vars PROVE FilesOK'
    OBVIOUS
  <2>1. CASE UNCHANGED vars
    BY <2>1 DEF vars, FilesOK, ForeignFilesKept, Exists, Factgen, Pass
  <2> QED BY <2>1, FilesStep
<1>3. FilesOK => ForeignFilesKept
  BY DEF FilesOK
<1> QED BY <1>1, <1>2, <1>3, TypeCorrect, PTL DEF Spec

-----------------------------------------------------------------------------
(* Runs of the pass.                                                       *)

Expected ==
  [p \in Registry |->
     IF p = "user_options" THEN {context_sensitivity_to_string(args.sensitivity)}
     ELSE {args.module}]
OwnNames == [n \in NamesOf[args.module] |-> <<args.module, n>>]

(* Every fact file is there when it is loaded.                             *)
FilesThere ==
  pc \in {"facts", "leave", "load"} =>
     \A p \in Registry : FactPath(args.dir, p) \in DOMAIN disk

(* The directory agrees with what was loaded, from the run on until it is  *)
(* removed, also if an exception ends the run in between.                  *)
DebugFiles == FactsAsLoaded /\ (args.debug => ResultsWritten)
NoFiles == ~\E path \in DOMAIN disk : IsPrefix(args.dir, path)
WorkOK ==
  /\ pc \in {"create", "writers", "facts", "leave", "load"} => database = NoDatabase
  /\ pc \in {"check", "extract", "remove"} \/ ThrewAfterLoad => DebugFiles
  /\ outcome = "success" => IF args.debug THEN DebugFiles ELSE NoFiles

(* In every variant of the analysis the relations that are read exist and  *)
(* have the columns they are read with.  A formula about names only.       *)
RelationsAgree == \A which \in Analyses : RelationsMatch(which)

(* The first run of a process finds a new generator, and so one that       *)
(* writes to its writer and knows the names of its module and no others.   *)
FirstRunOK ==
  /\ pc \in {"create", "writers"} => generator = NoGenerator
  /\ pc = "facts" => /\ generator = [NoGenerator EXCEPT !.slot = writer.slot]
                     /\ writer.unflushed = [p \in Registry |-> {}]
  /\ pc \in {"facts", "leave"} => \A p \in Registry : disk[FactPath(args.dir, p)].rows = {}
  /\ pc = "leave" => writer.unflushed = Expected
  /\ pc = "load" => \A p \in Registry : disk[FactPath(args.dir, p)].rows = Expected[p]
  /\ pc \in {"leave", "load", "check", "extract", "remove"} => generator.results = OwnNames
  /\ pc \in {"check", "extract", "remove"} => database = Expected
  /\ pc = "remove" \/ outcome = "success" =>
        result.of = {args.module} /\ result.values = OwnNames
  /\ RelationsAgree => outcome \notin {"assertion", "failure"}

PassOK ==
  /\ runs \in Nat \ {0}
  /\ pc # "ended" => outcome = "none"
  /\ Pass => FilesThere /\ WorkOK /\ (runs = 1 => FirstRunOK)

(* Opening the writers: the files are there, and empty.                    *)
LEMMA PassOpens ==
  ASSUME TypeOK, PassOK, Pass, OpenWriters, UNCHANGED runs
  PROVE  PassOK'
<1>1. /\ pc = "writers" /\ pc' = "facts" /\ args' = args /\ outcome' = outcome
      /\ IsFileSystem(disk) /\ args.dir \in DOMAIN disk /\ args.dir \in Path /\ Pass'
      /\ database' = database /\ outcome = "none"
  BY DEF OpenWriters, IsDirectory, Exists, TypeOK, Pass, IsFileSystem, PassOK, passVars
<1>2. PICK slot \in Slots : OpenWriter(args.dir, slot)
  BY DEF OpenWriters
<1>3. disk' = Overlay([path \in {FactPath(args.dir, p) : p \in Registry} |-> Facts({})], disk)
  BY <1>2 DEF OpenWriter
<1>4. \A p \in Registry :
        FactPath(args.dir, p) \in DOMAIN disk' /\ disk'[FactPath(args.dir, p)] = Facts({})
  BY <1>1, <1>3, FilesOpened
<1>5. FilesThere'
  BY <1>1, <1>4 DEF FilesThere
<1>6. WorkOK'
  BY <1>1 DEF WorkOK, PassOK, ThrewAfterLoad
<1>7. runs = 1 => FirstRunOK'
  <2> SUFFICES ASSUME runs = 1 PROVE FirstRunOK'
    OBVIOUS
  <2>1. generator = NoGenerator /\ outcome = "none"
    BY <1>1 DEF PassOK, FirstRunOK
  <2>2. writer'.slot = slot /\ writer'.unflushed = [p \in Registry |-> {}]
        /\ generator' = [NoGenerator EXCEPT !.slot = slot]
    BY <1>2, <2>1 DEF OpenWriter
  <2>3. \A p \in Registry : disk'[FactPath(args.dir, p)].rows = {}
    BY <1>4 DEF Facts
  <2> QED BY <1>1, <2>1, <2>2, <2>3 DEF FirstRunOK
<1> QED BY <1>1, <1>5, <1>6, <1>7 DEF PassOK

(* Generating the facts of a module: in a first run, those of the module   *)
(* and no more.                                                            *)
LEMMA PassGenerates ==
  ASSUME TypeOK, PassOK, Pass, GenerateFacts, UNCHANGED runs
  PROVE  PassOK'
<1>1. /\ pc = "facts" /\ pc' = "leave" /\ args' = args /\ outcome' = outcome /\ disk' = disk
      /\ Pass' /\ outcome = "none" /\ database' = database
  BY DEF GenerateFacts, Pass, PassOK, passVars
<1>2. FilesThere'
  BY <1>1 DEF FilesThere, PassOK
<1>3. WorkOK'
  BY <1>1 DEF WorkOK, PassOK, ThrewAfterLoad
<1>4. runs = 1 => FirstRunOK'
  <2> SUFFICES ASSUME runs = 1 PROVE FirstRunOK'
    OBVIOUS
  <2>1. /\ generator = [NoGenerator EXCEPT !.slot = writer.slot]
        /\ writer.unflushed = [p \in Registry |-> {}]
        /\ \A p \in Registry : disk[FactPath(args.dir, p)].rows = {}
    BY <1>1 DEF PassOK, FirstRunOK
  <2>2. generator.slot = writer.slot /\ generator.types = {} /\ generator.results = <<>>
    BY <2>1 DEF NoGenerator
  <2> DEFINE rows == RowsOf(args.module, args.sensitivity)
  <2>3. \A p \in Registry : rows[p] = Expected[p]
    BY <2>2 DEF RowsOf, Expected
  <2>4. writer' = [writer EXCEPT !.unflushed = [p \in Registry |-> @[p] \cup rows[p]]]
    BY <2>2 DEF GenerateFacts, ProcessModule, Dangling
  <2> HIDE DEF rows
  <2>5. writer'.unflushed = [p \in Registry |-> writer.unflushed[p] \cup rows[p]]
    BY <2>4 DEF TypeOK
  <2>6. writer'.unflushed = Expected
    <3>1. \A p \in Registry : writer.unflushed[p] \cup rows[p] = Expected[p]
      BY <2>1, <2>3
    <3>2. Expected = [p \in Registry |-> Expected[p]]
      BY DEF Expected
    <3> QED BY <2>5, <3>1, <3>2
  <2>7. generator'.results = Overlay(<<>>, OwnNames)
    BY <2>2 DEF GenerateFacts, ProcessModule, TypeOK, OwnNames
  <2>8. generator'.results = OwnNames
    BY <2>7 DEF Overlay, OwnNames
  <2>9. Expected' = Expected /\ OwnNames' = OwnNames
    BY <1>1 DEF Expected, OwnNames
  <2> QED BY <1>1, <2>1, <2>6, <2>8, <2>9 DEF FirstRunOK
<1> QED BY <1>1, <1>2, <1>3, <1>4 DEF PassOK

(* Leaving factgen_module: what was generated is in the files.             *)
LEMMA PassCloses ==
  ASSUME TypeOK, PassOK, Pass, LeaveFactgenModule, UNCHANGED runs
  PROVE  PassOK'
<1>1. /\ pc = "leave" /\ pc' = "load" /\ args' = args /\ outcome' = outcome
      /\ generator' = generator /\ CloseWriter /\ Pass' /\ outcome = "none"
      /\ database' = database
  BY DEF LeaveFactgenModule, Pass, PassOK, passVars
<1>2. Target = args.dir
  BY CommandFields DEF TypeOK, Target
<1>3. \A p \in Registry : FactPath(args.dir, p) \in DOMAIN disk
  BY <1>1 DEF PassOK, FilesThere
<1>4. /\ DOMAIN disk' = DOMAIN disk
      /\ \A p \in Registry : disk'[FactPath(args.dir, p)].rows
           = disk[FactPath(args.dir, p)].rows \cup writer.unflushed[p]
  BY <1>1, <1>2, <1>3, Closings
<1>5. FilesThere'
  BY <1>1, <1>3, <1>4 DEF FilesThere
<1>6. WorkOK'
  BY <1>1 DEF WorkOK, PassOK, ThrewAfterLoad
<1>7. runs = 1 => FirstRunOK'
  <2> SUFFICES ASSUME runs = 1 PROVE FirstRunOK'
    OBVIOUS
  <2>1. /\ writer.unflushed = Expected /\ generator.results = OwnNames
        /\ \A p \in Registry : disk[FactPath(args.dir, p)].rows = {}
    BY <1>1 DEF PassOK, FirstRunOK
  <2>2. \A p \in Registry : disk'[FactPath(args.dir, p)].rows = Expected[p]
    BY <1>4, <2>1
  <2>3. Expected' = Expected /\ OwnNames' = OwnNames
    BY <1>1 DEF Expected, OwnNames
  <2> QED BY <1>1, <2>1, <2>2, <2>3 DEF FirstRunOK
<1> QED BY <1>1, <1>5, <1>6, <1>7 DEF PassOK

(* Running the analysis: what it loads is what the files say.              *)
LEMMA PassRuns ==
  ASSUME TypeOK, PassOK, Pass, RunPointerAnalysis, UNCHANGED runs
  PROVE  PassOK'
<1>1. /\ pc = "load" /\ pc' = "check" /\ args' = args /\ outcome' = outcome
      /\ generator' = generator /\ Pass' /\ outcome = "none"
      /\ database' = [p \in Registry |-> disk[FactPath(args.dir, p)].rows]
      /\ disk' = IF args.debug
                 THEN WithResult(args.dir, disk[FactPath(args.dir, "type")].rows)
                 ELSE disk
  BY DEF RunPointerAnalysis, Pass, PassOK
<1>2. IsFileSystem(disk) /\ args.dir \in DOMAIN disk
  BY <1>1, CommandFields DEF TypeOK, Working, Exists, Target
<1>3. \A p \in Registry : FactPath(args.dir, p) \in DOMAIN disk
  BY <1>1 DEF PassOK, FilesThere
<1>4. "type" \in Registry
  BY FactFilesAssumption
<1>5. ASSUME args.debug PROVE DebugFiles'
  <2> DEFINE rows == disk[FactPath(args.dir, "type")].rows
  <2>1. database'["type"] = rows
    BY <1>1, <1>4
  <2> HIDE DEF rows
  <2>2. disk' = WithResult(args.dir, rows)
    BY <1>1, <1>5 DEF rows
  <2>3. /\ \A p \in Registry : FactPath(args.dir, p) \in DOMAIN disk =>
             disk'[FactPath(args.dir, p)] = disk[FactPath(args.dir, p)]
        /\ ResultPath(args.dir) \in DOMAIN disk' /\ disk'[ResultPath(args.dir)] = Results(rows)
    BY <1>2, <2>2, ResultWritten
  <2>4. disk'[ResultPath(args.dir)].rows = rows
    BY <2>3 DEF Results
  <2>5. ResultPath(args.dir)' = ResultPath(args.dir)
    BY <1>1 DEF ResultPath
  <2>6. \A p \in Registry : /\ disk'[FactPath(args.dir, p)].rows = database'[p]
                            /\ FactPath(args.dir, p) \in DOMAIN disk'
    <3>1. \A p \in Registry : disk'[FactPath(args.dir, p)].rows = database'[p]
      BY <1>1, <1>3, <2>3
    <3>2. DOMAIN disk \subseteq DOMAIN disk'
      BY <2>2 DEF WithResult, Overlay
    <3> QED BY <1>3, <3>1, <3>2
  <2>7. FactsAsLoaded'
    BY <1>1, <2>6 DEF FactsAsLoaded, Exists, FactPath
  <2>8. ResultsWritten'
    BY <1>1, <2>1, <2>3, <2>4, <2>5 DEF ResultsWritten, Exists
  <2> QED BY <2>7, <2>8 DEF DebugFiles
<1>8. ASSUME ~args.debug PROVE DebugFiles'
  BY <1>1, <1>3, <1>8 DEF DebugFiles, FactsAsLoaded, Exists, FactPath
<1>6. WorkOK'
  BY <1>1, <1>5, <1>8 DEF WorkOK, ThrewAfterLoad
<1>7. runs = 1 => FirstRunOK'
  <2> SUFFICES ASSUME runs = 1 PROVE FirstRunOK'
    OBVIOUS
  <2>1. /\ generator.results = OwnNames
        /\ \A p \in Registry : disk[FactPath(args.dir, p)].rows = Expected[p]
    BY <1>1 DEF PassOK, FirstRunOK
  <2>2. database' = Expected
    <3>1. Expected = [p \in Registry |-> Expected[p]]
      BY DEF Expected
    <3> QED BY <1>1, <2>1, <3>1
  <2>3. Expected' = Expected /\ OwnNames' = OwnNames
    BY <1>1 DEF Expected, OwnNames
  <2> QED BY <1>1, <2>1, <2>2, <2>3 DEF FirstRunOK
<1> QED BY <1>1, <1>6, <1>7 DEF PassOK, FilesThere

(* Extracting the result: in a first run it is about the module.           *)
LEMMA PassExtracts ==
  ASSUME TypeOK, PassOK, Pass, Extract, UNCHANGED runs
  PROVE  PassOK'
<1>1. /\ pc = "extract" /\ pc' \in {"remove", "ended"} /\ Pass'
      /\ UNCHANGED <<disk, writer, generator, args, database>>
      /\ outcome' = ExtractionEnds /\ ExtractionEnds # "success"
      /\ pc' = "remove" => ExtractionEnds = "none"
  BY DEF Extract, ExtractionEnds, Pass
<1>2. DebugFiles' = DebugFiles
  BY <1>1 DEF DebugFiles, FactsAsLoaded, ResultsWritten, Exists, ResultPath, FactPath
<1>3. WorkOK'
  BY <1>1, <1>2 DEF WorkOK, PassOK
<1>4. runs = 1 => FirstRunOK'
  <2> SUFFICES ASSUME runs = 1 PROVE FirstRunOK'
    OBVIOUS
  <2>1. generator.results = OwnNames /\ database = Expected
    BY <1>1 DEF PassOK, FirstRunOK
  <2>2. Expected' = Expected /\ OwnNames' = OwnNames
    BY <1>1 DEF Expected, OwnNames
  <2>3. LoadedModules = {args.module}
    <3>1. PICK q \in Registry : q \notin {"user_options", "type"}
      BY FactFilesAssumption
    <3>2. \A p \in Registry \ {"user_options", "type"} : database[p] = {args.module}
      BY <2>1 DEF Expected
    <3> QED BY <3>1, <3>2 DEF LoadedModules
  <2>4. NamesInResult = NamesOf[args.module]
    BY <2>3 DEF NamesInResult
  <2>5. [n \in NamesInResult |-> generator.results[n]] = OwnNames
    BY <2>1, <2>4 DEF OwnNames
  <2>6. pc' = "remove" => result'.of = {args.module} /\ result'.values = OwnNames
    BY <1>1, <2>3, <2>5 DEF Extract
  <2>7. RelationsAgree => ExtractionEnds = "none"
    <3>1. NamesInResult \subseteq DOMAIN generator.results
      BY <2>1, <2>4 DEF OwnNames
    <3>2. args.analysis \in Analyses
      BY DEF TypeOK, Pass, FactgenCommands, PassCommands
    <3> QED BY <3>1, <3>2 DEF RelationsAgree, ExtractionEnds
  <2> QED BY <1>1, <2>1, <2>2, <2>6, <2>7 DEF FirstRunOK
<1> QED BY <1>1, <1>3, <1>4 DEF PassOK, FilesThere

(* Removing the directory.                                                 *)
LEMMA PassRemoves ==
  ASSUME TypeOK, PassOK, Pass, RemoveWorkFiles, UNCHANGED runs
  PROVE  PassOK'
<1>1. /\ pc = "remove" /\ pc' = "ended" /\ outcome' = "success" /\ Pass'
      /\ UNCHANGED <<writer, generator, args, database, result>>
      /\ disk' = IF args.debug THEN disk ELSE Without(Removed(args.dir))
  BY DEF RemoveWorkFiles, Pass, passVars
<1>2. ASSUME args.debug PROVE DebugFiles'
  <2>1. DebugFiles /\ disk' = disk
    BY <1>1, <1>2 DEF PassOK, WorkOK
  <2> QED BY <1>1, <2>1 DEF DebugFiles, FactsAsLoaded, ResultsWritten, Exists, ResultPath, FactPath
<1>3. ASSUME ~args.debug PROVE NoFiles'
  <2>1. IsFileSystem(disk) /\ args.dir \in Path /\ disk' = Without(Removed(args.dir))
    BY <1>1, <1>3, CommandFields DEF TypeOK, Target
  <2>2. ~\E path \in DOMAIN disk' : IsPrefix(args.dir, path)
    BY <2>1, Removals
  <2> QED BY <1>1, <2>2 DEF NoFiles
<1>4. WorkOK'
  BY <1>1, <1>2, <1>3 DEF WorkOK, ThrewAfterLoad
<1>5. runs = 1 => FirstRunOK'
  BY <1>1 DEF PassOK, FirstRunOK, OwnNames
<1> QED BY <1>1, <1>4, <1>5 DEF PassOK, FilesThere

(* The other steps of the pass.                                            *)
LEMMA PassGoesOn ==
  ASSUME TypeOK, PassOK, Pass, UNCHANGED runs,
         \/ CreateDirectories \/ CreateDirectoriesFails \/ OpenWritersFails
         \/ GenerateFactsFails \/ CheckAssertions
  PROVE  PassOK'
<1>1. CASE CreateDirectoriesFails \/ OpenWritersFails \/ GenerateFactsFails
  <2>1. /\ pc \in {"create", "writers", "facts"} /\ database' = database
        /\ pc' = "ended" /\ outcome' = "abort" /\ args' = args
    BY <1>1 DEF CreateDirectoriesFails, OpenWritersFails, GenerateFactsFails, Die, passVars
  <2> QED BY <2>1 DEF PassOK, FilesThere, WorkOK, FirstRunOK, ThrewAfterLoad
<1>2. CASE CreateDirectories
  <2>1. /\ pc = "create" /\ pc' = "writers" /\ outcome' = outcome
        /\ UNCHANGED <<generator, args, database>>
    BY <1>2 DEF CreateDirectories, passVars
  <2> QED BY <2>1 DEF PassOK, FilesThere, WorkOK, FirstRunOK, ThrewAfterLoad
<1>3. CASE CheckAssertions /\ pc' = "extract"
  <2>1. /\ pc = "check" /\ outcome' = outcome
        /\ UNCHANGED <<disk, writer, generator, args, database, result>>
    BY <1>3 DEF CheckAssertions, passVars
  <2>2. DebugFiles' = DebugFiles /\ Expected' = Expected /\ OwnNames' = OwnNames /\ Pass'
    BY <2>1 DEF DebugFiles, FactsAsLoaded, ResultsWritten, Exists, ResultPath, FactPath,
                Expected, OwnNames, Pass
  <2> QED BY <1>3, <2>1, <2>2 DEF PassOK, FilesThere, WorkOK, FirstRunOK
<1>4. CASE CheckAssertions /\ pc' = "ended"
  <2>1. /\ pc = "check" /\ outcome' = "abort" /\ UNCHANGED <<disk, args, database>>
    BY <1>4 DEF CheckAssertions, passVars
  <2>2. DebugFiles' = DebugFiles
    BY <2>1 DEF DebugFiles, FactsAsLoaded, ResultsWritten, Exists, ResultPath, FactPath
  <2> QED BY <1>4, <2>1, <2>2 DEF PassOK, FilesThere, WorkOK, FirstRunOK
<1> QED BY <1>1, <1>2, <1>3, <1>4 DEF CheckAssertions

(* Every step keeps it.                                                    *)
LEMMA PassStepOK ==
  ASSUME TypeOK, PassOK, Next
  PROVE  PassOK'
<1>1. CASE PassStep
  <2>1. Pass /\ UNCHANGED runs
    BY <1>1 DEF PassStep, Pass
  <2> QED BY <1>1, <2>1, PassOpens, PassGenerates, PassCloses, PassRuns, PassExtracts, PassRemoves,
          PassGoesOn DEF PassStep, PassNext
<1>2. CASE FactgenStep
  <2>1. args' = args /\ runs' = runs /\ ~Pass' /\ (pc' # "ended" => outcome' = outcome)
    BY <1>2 DEF FactgenStep, FactgenNext, ParseCommandLine, SetOutputDir,
       SetInputFiles, SetSignatures, OpenFactWriter, GenerateModule, ThrowInvalidSignature,
       ThrowParseException, Finish, Pass, Exit, Continue, Die
  <2>2. pc' # "ended" => pc # "ended"
    BY <1>2 DEF FactgenStep, FactgenNext, ParseCommandLine, SetOutputDir,
       SetInputFiles, SetSignatures, OpenFactWriter, GenerateModule, ThrowInvalidSignature,
       ThrowParseException, Finish
  <2> QED BY <2>1, <2>2 DEF PassOK
<1>3. CASE Kill
  <2>1. pc' = "ended" /\ outcome' = "killed" /\ runs' = runs
    BY <1>3 DEF Kill, Die
  <2> QED BY <2>1 DEF PassOK, FilesThere, WorkOK, FirstRunOK, ThrewAfterLoad
<1>4. CASE StartProcess
  <2>1. /\ runs' = 1 /\ pc' \in {"parse", "create"} /\ outcome' = "none"
        /\ generator' = NoGenerator /\ database' = NoDatabase
    BY <1>4 DEF StartProcess, FirstStep
  <2> QED BY <2>1 DEF PassOK, FilesThere, WorkOK, FirstRunOK, ThrewAfterLoad
<1>5. CASE RunAgain
  <2>1. runs' = runs + 1 /\ pc' = "create" /\ outcome' = "none" /\ database' = NoDatabase
    BY <1>5 DEF RunAgain
  <2>2. runs' \in Nat \ {0} /\ runs' # 1
    BY <2>1 DEF PassOK
  <2> QED BY <2>1, <2>2 DEF PassOK, FilesThere, WorkOK, ThrewAfterLoad
<1> QED BY <1>1, <1>2, <1>3, <1>4, <1>5 DEF Next

(* The invariant of the runs of the pass.                                  *)
LEMMA PassInvariant == Spec => []PassOK
<1>1. Init => PassOK
  BY DEF Init, FirstStep, PassOK, FilesThere, WorkOK, FirstRunOK, ThrewAfterLoad
<1>2. TypeOK /\ PassOK /\ [Next]_vars => PassOK'
  <2> SUFFICES ASSUME TypeOK, PassOK, [Next]_vars PROVE PassOK'
    OBVIOUS
  <2>1. CASE UNCHANGED vars
    BY <2>1 DEF vars, passVars, PassOK, FilesThere, WorkOK, FirstRunOK, DebugFiles, NoFiles, Exists,
       Pass, Expected, OwnNames, ResultPath, ThrewAfterLoad, FactsAsLoaded, ResultsWritten, FactPath
  <2> QED BY <2>1, PassStepOK
<1> QED BY <1>1, <1>2, TypeCorrect, PTL DEF Spec

(* The first run of a process, if it gets as far as reading the relations, *)
(* has a result, and that is about its module.  RelationsAgree has no      *)
(* parameter: TLC computes that it is true.                                *)
THEOREM FirstResult == Spec => [](RelationsAgree => ResultOfThisModule)
<1>1. PassOK => (RelationsAgree => ResultOfThisModule)
  BY DEF PassOK, FirstRunOK, OwnNames, ResultOfThisModule
<1> QED BY <1>1, PassInvariant, PTL

(* What a run of the pass leaves on the disk.                              *)
THEOREM WorkFiles == Spec => []WorkFilesKept
<1>1. PassOK => WorkFilesKept
  BY DEF PassOK, WorkOK, DebugFiles, NoFiles, ThrewAfterLoad, WorkFilesKept
<1> QED BY <1>1, PassInvariant, PTL

-----------------------------------------------------------------------------
(* Runs of factgen.                                                        *)

ToRead == {f \in Inputs : ~Below(args.out, f)}
RowsIn(files) == UNION {disk[f].rows : f \in files}

(* What was on the command line is there, and was before anything was      *)
(* written to the output directory.                                        *)
FilesAccepted == \A d \in ToSet(args.files) : Exists(d) /\ ~Below(args.out, d)

(* Some of the files to read are done, the others are in the list; the     *)
(* streams hold the facts of those that are done.                          *)
Done(done) ==
  /\ done \subseteq ToRead /\ done \cup ToSet(inputFiles) = ToRead
  /\ \A f \in done : disk[f].kind = "module"
  /\ \A p \in Registry \ {"user_options"} : writer.unflushed[p] = RowsIn(done)
  /\ generator.types = RowsIn(done)

Generating ==
  /\ generator.slot = writer.slot
  /\ \A p \in Registry : /\ FactPath(args.out, p) \in DOMAIN disk
                         /\ disk[FactPath(args.out, p)].rows = {}
  /\ writer.unflushed["user_options"] \subseteq {args.sensitivity}
  /\ FilesAccepted
  /\ \E done : Done(done)

Written ==
  /\ Parses(args.sensitivity)
  /\ \A f \in ToRead : disk[f].kind = "module"
  /\ \A p \in Registry \ {"user_options"} : disk[FactPath(args.out, p)].rows = RowsIn(ToRead)
  /\ disk[FactPath(args.out, "user_options")].rows \subseteq {args.sensitivity}

FactgenOK ==
  Factgen =>
    /\ pc \in {"parse", "outdir", "inputs", "signatures", "open"} => generator = NoGenerator
    /\ pc \in {"outdir", "inputs", "signatures", "open", "generate"} => Parses(args.sensitivity)
    /\ pc \in {"inputs", "signatures", "open"} =>
          \A path \in DOMAIN disk : ~Below(args.out, path)
    /\ pc \in {"signatures", "open"} => FilesAccepted /\ ToSet(inputFiles) = ToRead
    /\ pc \in {"signatures", "open", "generate"} => inputFiles \in Seq(Path)
    /\ pc = "generate" => Generating
    /\ outcome = "success" /\ args.parse = "ok" => Written

(* What is written to the output directory does not change what is to be   *)
(* read.                                                                   *)
LEMMA ToReadKept ==
  ASSUME FilesAccepted, args' = args,
         \A path \in DOMAIN disk : ~Below(args.out, path) => Kept(path),
         \A path \in DOMAIN disk' : path \in DOMAIN disk \/ Below(args.out, path)
  PROVE  /\ ToRead' = ToRead /\ \A f \in ToRead : f \in DOMAIN disk /\ disk'[f] = disk[f]
         /\ \A files \in SUBSET ToRead : RowsIn(files)' = RowsIn(files)
         /\ FilesAccepted'
<1> USE DEF Kept
<1>1. \A path : ~Below(args.out, path) =>
        /\ path \in DOMAIN disk <=> path \in DOMAIN disk'
        /\ path \in DOMAIN disk => disk'[path] = disk[path]
  OBVIOUS
<1>2. \A d \in ToSet(args.files) :
        d \in DOMAIN disk /\ d \in DOMAIN disk' /\ disk'[d] = disk[d] /\ ~Below(args.out, d)
  BY <1>1 DEF FilesAccepted, Exists
<1>3. \A f : f \in ToRead <=>
        /\ f \in DOMAIN disk /\ disk[f].kind # "directory" /\ ~Below(args.out, f)
        /\ \E d \in ToSet(args.files) : d = f \/ (disk[d].kind = "directory" /\ Below(d, f))
  BY <1>2 DEF ToRead, Inputs, IsDirectory, Exists
<1>4. \A f : f \in ToRead' <=>
        /\ f \in DOMAIN disk' /\ disk'[f].kind # "directory" /\ ~Below(args.out, f)
        /\ \E d \in ToSet(args.files) : d = f \/ (disk'[d].kind = "directory" /\ Below(d, f))
  BY <1>2 DEF ToRead, Inputs, IsDirectory, Exists
<1>5. \A f : f \in ToRead <=> f \in ToRead'
  BY <1>1, <1>2, <1>3, <1>4
<1>6. ToRead' = ToRead
  BY <1>5
<1>7. \A f \in ToRead : f \in DOMAIN disk /\ disk'[f] = disk[f]
  BY <1>1, <1>3
<1>8. ASSUME NEW files \in SUBSET ToRead PROVE RowsIn(files)' = RowsIn(files)
  <2>1. \A f \in files : disk'[f].rows = disk[f].rows
    BY <1>7
  <2>2. {disk'[f].rows : f \in files} = {disk[f].rows : f \in files}
    BY <2>1
  <2> QED BY <2>2 DEF RowsIn
<1>9. FilesAccepted'
  BY <1>2 DEF FilesAccepted, Exists
<1> QED BY <1>6, <1>7, <1>8, <1>9

(* The list of input files is that of the files to read.                   *)
LEMMA InputsListed ==
  ASSUME TypeOK, FactgenOK, Factgen, SetInputFiles
  PROVE  FactgenOK'
<1>1. /\ pc = "inputs" /\ pc' \in {"ended", "signatures"} /\ Factgen'
      /\ UNCHANGED <<disk, writer, generator, args>> /\ (pc' = "ended" => outcome' = "failure")
      /\ IsFileSystem(disk) /\ args.files \in Seq(Path)
      /\ \A path \in DOMAIN disk : ~Below(args.out, path)
      /\ Parses(args.sensitivity) /\ generator = NoGenerator
  BY CommandFields DEF SetInputFiles, Exit, Continue, Factgen, TypeOK, FactgenOK, FactgenCommands
<1>2. CASE pc' = "ended"
  BY <1>1, <1>2 DEF FactgenOK
<1>3. CASE pc' = "signatures"
  <2> DEFINE D == DOMAIN args.files
             L(i) == FilesOf(args.files[i])
  <2>1. \A i \in D : Acceptable(args.files[i])
    BY <1>3 DEF SetInputFiles, Exit
  <2>2. PICK lists \in [D -> UNION {L(i) : i \in D}] :
          /\ \A i \in D : lists[i] \in L(i)
          /\ inputFiles' = FlattenSeq(lists)
    BY <1>3 DEF SetInputFiles, Exit
  <2>3. D = 1 .. Len(args.files) /\ Len(args.files) \in Nat /\ \A i \in D : args.files[i] \in Path
    BY <1>1
  <2>4. \A i \in D : args.files[i] \in DOMAIN disk
    BY <2>1 DEF Acceptable, Exists
  <2>5. ASSUME NEW i \in D
        PROVE  /\ lists[i] \in Seq(Path)
               /\ ToSet(lists[i]) =
                    {f \in DOMAIN disk : /\ ~IsDirectory(f)
                                         /\ \/ args.files[i] = f
                                            \/ IsDirectory(args.files[i]) /\ Below(args.files[i], f)}
    <3> DEFINE d == args.files[i]
    <3>1. d \in DOMAIN disk /\ d \in Path
      BY <2>3, <2>4
    <3>2. CASE IsDirectory(d)
      <4> DEFINE S == {p \in Contents(d) : ~IsDirectory(p)}
      <4>1. lists[i] \in SetToSeqs(S)
        BY <2>2, <3>2 DEF FilesOf
      <4>2. S \subseteq DOMAIN disk /\ S = {f \in DOMAIN disk : ~IsDirectory(f) /\ Below(d, f)}
        BY DEF Contents
      <4>3. S \subseteq Path /\ IsFiniteSet(S)
        <5>1. DOMAIN disk \subseteq Path /\ IsFiniteSet(DOMAIN disk)
          BY <1>1 DEF IsFileSystem
        <5> HIDE DEF S
        <5> QED BY <4>2, <5>1, FS_Subset
      <4> HIDE DEF S
      <4>4. lists[i] \in Seq(S) /\ ToSet(lists[i]) = S
        BY <4>1, <4>3, ListOfSet
      <4>5. lists[i] \in Seq(Path)
        BY <4>3, <4>4
      <4> QED BY <3>2, <4>2, <4>4, <4>5
    <3>3. CASE ~IsDirectory(d)
      <4>1. lists[i] = <<d>>
        BY <2>2, <3>3 DEF FilesOf
      <4>2. ToSet(<<d>>) = {d} /\ <<d>> \in Seq(Path)
        BY <3>1 DEF ToSet
      <4> QED BY <3>1, <3>3, <4>1, <4>2
    <3> QED BY <3>2, <3>3
  <2>6. lists \in Seq(Seq(Path)) /\ DOMAIN lists = D
    BY <2>2, <2>3, <2>5
  <2>7. inputFiles' \in Seq(Path)
        /\ ToSet(inputFiles') = UNION {ToSet(lists[i]) : i \in D}
    BY <2>2, <2>6, FlattenedElements
  <2>8. ToSet(args.files) = {args.files[i] : i \in D}
    BY DEF ToSet
  <2>9. ASSUME NEW f PROVE f \in ToSet(inputFiles') <=> f \in ToRead
    <3>1. f \in ToSet(inputFiles') <=> \E i \in D : f \in ToSet(lists[i])
      BY <2>7
    <3>2. f \in ToRead <=>
            /\ f \in DOMAIN disk /\ ~IsDirectory(f)
            /\ \E i \in D : \/ args.files[i] = f
                            \/ IsDirectory(args.files[i]) /\ Below(args.files[i], f)
      BY <1>1, <2>8 DEF ToRead, Inputs
    <3> QED BY <2>5, <3>1, <3>2
  <2>10. ToSet(inputFiles') = ToRead
    BY <2>9
  <2>11. FilesAccepted
    BY <1>1, <2>4, <2>8 DEF FilesAccepted, Exists
  <2>12. ToRead' = ToRead /\ FilesAccepted'
    BY <1>1, <2>11 DEF ToRead, Inputs, IsDirectory, Exists, FilesAccepted
  <2>13. outcome' = outcome
    BY <1>3 DEF SetInputFiles, Exit, Continue
  <2>14. (outcome = "success" /\ args.parse = "ok" => Written)'
    <3>1. Written' = Written
      BY <1>1, <2>12 DEF Written, RowsIn
    <3> QED BY <1>1, <2>13, <3>1 DEF FactgenOK
  <2> QED BY <1>1, <1>3, <2>7, <2>10, <2>12, <2>14 DEF FactgenOK
<1> QED BY <1>1, <1>2, <1>3

(* The first steps.                                                        *)
LEMMA OptionsSet ==
  ASSUME TypeOK, FactgenOK, PassOK, Factgen, ParseCommandLine \/ SetOutputDir \/ SetSignatures
  PROVE  FactgenOK'
<1>1. /\ args' = args /\ inputFiles' = inputFiles /\ generator' = generator /\ Factgen'
      /\ outcome = "none"
  BY DEF ParseCommandLine, SetOutputDir, SetSignatures, Factgen, PassOK
<1>2. CASE ParseCommandLine
  <2>1. /\ pc = "parse" /\ pc' \in {"ended", "outdir"}
        /\ pc' = "outdir" => Parses(args.sensitivity) /\ outcome' = outcome
        /\ pc' = "ended" => outcome' = "failure" \/ args.parse # "ok"
    BY <1>2 DEF ParseCommandLine, Exit, Continue
  <2> QED BY <1>1, <2>1 DEF FactgenOK
<1>3. CASE SetOutputDir
  <2>1. CASE pc' = "ended"
    <3>1. outcome' \in {"abort", "failure"}
      BY <1>3, <2>1 DEF SetOutputDir, Exit, Continue
    <3> QED BY <1>1, <2>1, <3>1 DEF FactgenOK
  <2>2. CASE pc' = "inputs"
    <3>1. /\ IF Exists(args.out) THEN IsDirectory(args.out) ELSE CanCreate(args.out)
          /\ disk' = Prepared(args.out, args.force)
          /\ IsEmptyDirectory(args.out) \/ args.force
          /\ outcome' = outcome /\ pc = "outdir"
      BY <1>3, <2>2 DEF SetOutputDir, Exit, Continue
    <3>2. \A path \in DOMAIN disk' : ~Below(args.out, path)
      BY <3>1, Preparations
    <3> QED BY <1>1, <2>2, <3>1, <3>2 DEF FactgenOK
  <2> QED BY <1>3, <2>1, <2>2 DEF SetOutputDir, Exit, Continue
<1>4. CASE SetSignatures
  <2>1. CASE pc' = "ended"
    <3>1. outcome' = "failure"
      BY <1>4, <2>1 DEF SetSignatures, Exit, Continue
    <3> QED BY <1>1, <2>1, <3>1 DEF FactgenOK
  <2>2. CASE pc' = "open"
    <3>1. /\ pc = "signatures" /\ outcome' = outcome
          /\ UNCHANGED <<disk, writer, generator, args, inputFiles>>
      BY <1>4, <2>2 DEF SetSignatures, Exit, Continue
    <3>2. FilesAccepted' = FilesAccepted /\ ToRead' = ToRead
      BY <3>1 DEF FilesAccepted, ToRead, Inputs, IsDirectory, Exists
    <3> QED BY <1>1, <2>2, <3>1, <3>2 DEF FactgenOK
  <2> QED BY <1>4, <2>1, <2>2 DEF SetSignatures, Exit, Continue
<1> QED BY <1>2, <1>3, <1>4

(* Opening the writer changes no file that is to be read.                  *)
LEMMA WriterOpened ==
  ASSUME TypeOK, FactgenOK, PassOK, Factgen, OpenFactWriter
  PROVE  FactgenOK'
<1>1. /\ pc = "open" /\ pc' = "generate" /\ UNCHANGED <<args, inputFiles, outcome>>
      /\ Factgen' /\ outcome = "none" /\ generator = NoGenerator /\ Parses(args.sensitivity)
      /\ FilesAccepted /\ ToSet(inputFiles) = ToRead /\ inputFiles \in Seq(Path)
  BY DEF OpenFactWriter, Continue, Factgen, PassOK, FactgenOK
<1>2. IsFileSystem(disk) /\ args.out \in DOMAIN disk /\ args.out \in Path
  BY <1>1, CommandFields DEF TypeOK, Working, Exists, Target
<1>3. PICK slot \in Slots : OpenWriter(args.out, slot)
  BY DEF OpenFactWriter
<1>4. /\ generator' = [NoGenerator EXCEPT !.slot = slot]
      /\ writer' = [dir |-> args.out, slot |-> slot, unflushed |-> [p \in Registry |-> {}]]
      /\ disk' = Overlay([path \in {FactPath(args.out, p) : p \in Registry} |-> Facts({})], disk)
  BY <1>1, <1>3 DEF OpenWriter
<1>5. /\ \A path \in DOMAIN disk : ~Below(args.out, path) => Kept(path)
      /\ \A path \in DOMAIN disk' : path \in DOMAIN disk \/ Below(args.out, path)
      /\ \A p \in Registry :
           FactPath(args.out, p) \in DOMAIN disk' /\ disk'[FactPath(args.out, p)] = Facts({})
  <2>1. /\ DOMAIN disk \subseteq DOMAIN disk'
        /\ \A path \in DOMAIN disk : ~Below(args.out, path) => disk'[path] = disk[path]
        /\ \A path \in DOMAIN disk' :
             path \in DOMAIN disk \/ \E p \in Registry : path = FactPath(args.out, p)
        /\ \A p \in Registry :
             FactPath(args.out, p) \in DOMAIN disk' /\ disk'[FactPath(args.out, p)] = Facts({})
    BY <1>2, <1>4, FilesOpened
  <2>2. \A p \in Registry : Below(args.out, FactPath(args.out, p))
    BY <1>2, FactPaths, FactFilesAssumption
  <2> QED BY <2>1, <2>2 DEF Kept
<1>6. ToRead' = ToRead /\ FilesAccepted'
  BY <1>1, <1>5, ToReadKept
<1>7. \A p \in Registry : disk'[FactPath(args.out, p)].rows = {}
  BY <1>5 DEF Facts
<1>8. \A p \in Registry : writer'.unflushed[p] = {}
  BY <1>4
<1>9. generator'.slot = writer'.slot /\ generator'.types = {}
  BY <1>4 DEF NoGenerator
<1>10. "user_options" \in Registry
  BY FactFilesAssumption
<1>11. Done({})'
  <2>1. RowsIn({})' = {}
    BY DEF RowsIn
  <2> QED BY <1>1, <1>6, <1>8, <1>9, <2>1 DEF Done
<1>12. Generating'
  <2>1. (\E done : Done(done))'
    BY <1>11
  <2>2. writer'.unflushed["user_options"] = {}
    BY <1>8, <1>10
  <2> QED BY <1>1, <1>5, <1>6, <1>7, <1>9, <2>1, <2>2 DEF Generating
<1> QED BY <1>1, <1>12 DEF FactgenOK

(* A list that is not empty is its head and its tail.                      *)
LEMMA HeadAndTail ==
  ASSUME NEW T, NEW s \in Seq(T), s # <<>>
  PROVE  /\ Head(s) \in T /\ Head(s) \in ToSet(s) /\ Tail(s) \in Seq(T)
         /\ ToSet(s) = {Head(s)} \cup ToSet(Tail(s))
<1>1. /\ Len(s) \in Nat \ {0} /\ DOMAIN s = 1 .. Len(s) /\ Head(s) = s[1]
      /\ Tail(s) \in Seq(T) /\ DOMAIN Tail(s) = 1 .. Len(s) - 1
      /\ \A i \in 1 .. Len(s) - 1 : Tail(s)[i] = s[i + 1]
  OBVIOUS
<1>2. ASSUME NEW i \in DOMAIN s PROVE s[i] \in {Head(s)} \cup ToSet(Tail(s))
  <2>1. CASE i = 1
    BY <1>1, <2>1
  <2>2. CASE i # 1
    <3>1. i - 1 \in 1 .. Len(s) - 1 /\ (i - 1) + 1 = i
      BY <1>1, <2>2
    <3>2. Tail(s)[i - 1] = s[i] /\ i - 1 \in DOMAIN Tail(s)
      BY <1>1, <3>1
    <3> QED BY <3>2 DEF ToSet
  <2> QED BY <2>1, <2>2
<1>3. ASSUME NEW i \in DOMAIN Tail(s) PROVE Tail(s)[i] \in ToSet(s)
  <2>1. i + 1 \in DOMAIN s /\ Tail(s)[i] = s[i + 1]
    BY <1>1
  <2> QED BY <2>1 DEF ToSet
<1>4. 1 \in DOMAIN s /\ s[1] \in T
  BY <1>1
<1>5. Head(s) \in ToSet(s) /\ Head(s) \in T
  BY <1>1, <1>4 DEF ToSet
<1>6. ToSet(s) \subseteq {Head(s)} \cup ToSet(Tail(s)) /\ ToSet(Tail(s)) \subseteq ToSet(s)
  BY <1>2, <1>3 DEF ToSet
<1> QED BY <1>1, <1>5, <1>6

(* A file is read, and its facts go to the streams.                        *)
LEMMA ModuleGenerated ==
  ASSUME TypeOK, FactgenOK, PassOK, Factgen, GenerateModule
  PROVE  FactgenOK'
<1>1. /\ pc = "generate" /\ inputFiles # <<>> /\ disk[Head(inputFiles)].kind = "module"
      /\ inputFiles' = Tail(inputFiles) /\ UNCHANGED <<disk, args, pc, outcome>>
      /\ ProcessModule(Module, Parse(args.sensitivity))
      /\ Factgen' /\ outcome = "none" /\ Parses(args.sensitivity)
      /\ Generating /\ inputFiles \in Seq(Path)
  BY DEF GenerateModule, Parsed, Input, Factgen, PassOK, FactgenOK
<1> DEFINE token == args.sensitivity
<1>0. PICK f : f = Head(inputFiles)
  OBVIOUS
<1>2. /\ f \in ToSet(inputFiles) /\ Tail(inputFiles) \in Seq(Path)
      /\ ToSet(inputFiles) = {f} \cup ToSet(Tail(inputFiles))
  BY <1>0, <1>1, HeadAndTail
<1>3. PICK done : Done(done)
  BY <1>1 DEF Generating
<1>4. f \in ToRead /\ f \in DOMAIN disk
  BY <1>2, <1>3 DEF Done, ToRead, Inputs
<1>5. disk[f].rows = {Module}
  <2>1. PICK m \in Modules : disk[f].rows = {m}
    BY <1>0, <1>1, <1>4 DEF TypeOK, IsFileSystem
  <2> QED BY <1>0, <2>1 DEF Module, Input
<1> DEFINE m == Module
           rows == RowsOf(m, Parse(token))
<1>6. /\ rows["user_options"] = {token} /\ rows["type"] = generator.types \cup {m}
      /\ \A p \in Registry \ {"user_options", "type"} : rows[p] = {m}
  <2>1. context_sensitivity_to_string(Parse(token)) = token
    BY <1>1, ParsedText
  <2>2. {"user_options", "type"} \subseteq Registry
    BY FactFilesAssumption
  <2> HIDE DEF m
  <2> QED BY <2>1, <2>2 DEF RowsOf
<1> HIDE DEF rows, m
<1>7. writer' = [writer EXCEPT !.unflushed = [p \in Registry |-> @[p] \cup rows[p]]]
      /\ generator'.types = generator.types \cup {m} /\ generator'.slot = generator.slot
  <2>1. ~Dangling
    BY <1>1 DEF Dangling, Generating
  <2> QED BY <1>1, <2>1 DEF ProcessModule, TypeOK, rows, m
<1>8. /\ \A p \in Registry : writer'.unflushed[p] = writer.unflushed[p] \cup rows[p]
      /\ writer'.slot = writer.slot
  BY <1>7 DEF TypeOK
<1>9. ToRead' = ToRead /\ FilesAccepted' = FilesAccepted /\ \A S : RowsIn(S)' = RowsIn(S)
  BY <1>1 DEF ToRead, Inputs, IsDirectory, Exists, FilesAccepted, RowsIn
<1>10. RowsIn(done \cup {f}) = RowsIn(done) \cup {m}
  BY <1>5 DEF RowsIn, m
<1>11. Done(done \cup {f})'
  <2>1. done \cup {f} \subseteq ToRead /\ (done \cup {f}) \cup ToSet(Tail(inputFiles)) = ToRead
    BY <1>2, <1>3, <1>4 DEF Done
  <2>2. \A g \in done \cup {f} : disk[g].kind = "module"
    BY <1>0, <1>1, <1>3 DEF Done
  <2>3. generator'.types = RowsIn(done \cup {f})
    BY <1>3, <1>7, <1>10 DEF Done
  <2>4. ASSUME NEW p \in Registry \ {"user_options"}
        PROVE  writer'.unflushed[p] = RowsIn(done \cup {f})
    <3>1. writer.unflushed[p] = RowsIn(done) /\ generator.types = RowsIn(done)
      BY <1>3 DEF Done
    <3>2. CASE p = "type"
      BY <1>6, <1>8, <1>10, <3>1, <3>2
    <3>3. CASE p # "type"
      BY <1>6, <1>8, <1>10, <3>1, <3>3
    <3> QED BY <3>2, <3>3
  <2> QED BY <1>1, <1>9, <2>1, <2>2, <2>3, <2>4 DEF Done
<1>12. Generating'
  <2>1. (\E S : Done(S))'
    BY <1>11
  <2>2. writer'.unflushed["user_options"] \subseteq {token}
    <3>1. "user_options" \in Registry
      BY FactFilesAssumption
    <3> QED BY <1>1, <1>6, <1>8, <3>1 DEF Generating
  <2> QED BY <1>1, <1>7, <1>8, <1>9, <2>1, <2>2 DEF Generating
<1> QED BY <1>1, <1>2, <1>12 DEF FactgenOK

(* The end: what the streams held is in the files.                         *)
LEMMA Finished ==
  ASSUME TypeOK, FactgenOK, PassOK, Factgen, Finish
  PROVE  FactgenOK'
<1>1. /\ pc = "generate" /\ inputFiles = <<>> /\ CloseWriter /\ pc' = "ended"
      /\ UNCHANGED <<generator, args, inputFiles>> /\ Factgen'
      /\ Generating /\ Parses(args.sensitivity)
  BY DEF Finish, Exit, Factgen, FactgenOK
<1>2. Target = args.out
  BY CommandFields DEF TypeOK, Target
<1>3. PICK done : Done(done)
  BY <1>1 DEF Generating
<1>4. done = ToRead
  <2>1. ToSet(inputFiles) = {}
    BY <1>1 DEF ToSet
  <2> QED BY <1>3, <2>1 DEF Done
<1>5. /\ DOMAIN disk' = DOMAIN disk
      /\ \A path \in DOMAIN disk : ~Below(args.out, path) => disk'[path] = disk[path]
      /\ \A p \in Registry : disk'[FactPath(args.out, p)].rows = writer.unflushed[p]
  <2>1. \A p \in Registry : FactPath(args.out, p) \in DOMAIN disk
                              /\ disk[FactPath(args.out, p)].rows = {}
    BY <1>1 DEF Generating
  <2>2. /\ DOMAIN disk' = DOMAIN disk
        /\ \A path \in DOMAIN disk : ~Below(args.out, path) => disk'[path] = disk[path]
        /\ \A p \in Registry : FactPath(args.out, p) \in DOMAIN disk =>
             disk'[FactPath(args.out, p)].rows
               = disk[FactPath(args.out, p)].rows \cup writer.unflushed[p]
    BY <1>1, <1>2, Closings
  <2> QED BY <2>1, <2>2
<1>6. /\ ToRead' = ToRead /\ \A f \in ToRead : f \in DOMAIN disk /\ disk'[f] = disk[f]
      /\ \A files \in SUBSET ToRead : RowsIn(files)' = RowsIn(files)
  <2>1. FilesAccepted /\ args' = args
    BY <1>1 DEF Generating
  <2> QED BY <1>5, <2>1, ToReadKept DEF Kept
<1>7. RowsIn(ToRead)' = RowsIn(ToRead)
  <2>1. RowsIn(done)' = RowsIn(done)
    BY <1>4, <1>6
  <2>2. RowsIn(ToRead)' = UNION {disk'[f].rows : f \in ToRead'}
    BY DEF RowsIn
  <2>3. RowsIn(done)' = UNION {disk'[f].rows : f \in done}
    BY DEF RowsIn
  <2> QED BY <1>4, <1>6, <2>1, <2>2, <2>3
<1>8. Written'
  <2>1. \A f \in ToRead' : disk'[f].kind = "module"
    BY <1>3, <1>4, <1>6 DEF Done
  <2>2. \A p \in Registry \ {"user_options"} :
          disk'[FactPath(args.out, p)].rows = RowsIn(ToRead)'
    BY <1>3, <1>4, <1>5, <1>7 DEF Done
  <2>3. disk'[FactPath(args.out, "user_options")].rows \subseteq {args.sensitivity}
    <3>1. "user_options" \in Registry
      BY FactFilesAssumption
    <3> QED BY <1>1, <1>5, <3>1 DEF Generating
  <2> QED BY <1>1, <2>1, <2>2, <2>3 DEF Written
<1> QED BY <1>1, <1>8 DEF FactgenOK

(* Every step keeps it.                                                    *)
LEMMA FactgenStepOK ==
  ASSUME TypeOK, PassOK, FactgenOK, Next
  PROVE  FactgenOK'
<1>1. ASSUME pc' = "ended", outcome' # "success" PROVE FactgenOK'
  BY <1>1 DEF FactgenOK
<1>2. CASE FactgenStep
  <2>1. Factgen
    BY <1>2 DEF FactgenStep, Factgen
  <2>2. CASE ThrowInvalidSignature \/ ThrowParseException
    BY <1>1, <2>2 DEF ThrowInvalidSignature, ThrowParseException, Die, Exit
  <2> QED BY <1>2, <2>1, <2>2, OptionsSet, InputsListed, WriterOpened, ModuleGenerated, Finished
          DEF FactgenStep, FactgenNext
<1>3. CASE PassStep
  <2>1. args' = args /\ ~Factgen
    BY <1>3 DEF PassStep, PassNext, CreateDirectories, CreateDirectoriesFails,
       OpenWriters, OpenWritersFails, GenerateFacts, GenerateFactsFails, LeaveFactgenModule,
       RunPointerAnalysis, CheckAssertions, Extract, RemoveWorkFiles, Factgen
  <2> QED BY <2>1 DEF FactgenOK, Factgen
<1>4. CASE Kill
  BY <1>1, <1>4 DEF Kill, Die
<1>5. CASE StartProcess
  <2>1. pc' \in {"parse", "create"} /\ outcome' = "none" /\ generator' = NoGenerator
    BY <1>5 DEF StartProcess, FirstStep
  <2> QED BY <2>1 DEF FactgenOK
<1>6. CASE RunAgain
  <2>1. ~Factgen'
    BY <1>6 DEF RunAgain, TypeOK, PassCommands, FactgenCommands, Factgen
  <2> QED BY <2>1 DEF FactgenOK
<1> QED BY <1>2, <1>3, <1>4, <1>5, <1>6 DEF Next

(* The invariant of the runs of factgen.                                   *)
LEMMA FactgenInvariant == Spec => []FactgenOK
<1>1. Init => FactgenOK
  BY DEF Init, FirstStep, FactgenOK, Factgen
<1>2. TypeOK /\ PassOK /\ FactgenOK /\ [Next]_vars => FactgenOK'
  <2> SUFFICES ASSUME TypeOK, PassOK, FactgenOK, [Next]_vars PROVE FactgenOK'
    OBVIOUS
  <2>1. CASE UNCHANGED vars
    <3>1. /\ ToRead' = ToRead /\ FilesAccepted' = FilesAccepted
          /\ \A S : RowsIn(S)' = RowsIn(S)
      BY <2>1 DEF vars, FilesAccepted, ToRead, Inputs, IsDirectory, Exists, RowsIn
    <3>2. \A S : Done(S)' = Done(S)
      BY <2>1, <3>1 DEF vars, Done
    <3>3. Generating' = Generating /\ Written' = Written
      <4>1. RowsIn(ToRead)' = RowsIn(ToRead)
        BY <2>1, <3>1 DEF vars, RowsIn
      <4> QED BY <2>1, <3>1, <3>2, <4>1 DEF vars, Generating, Written
    <3> QED BY <2>1, <3>1, <3>3 DEF vars, FactgenOK, Factgen
  <2> QED BY <2>1, FactgenStepOK
<1> QED BY <1>1, <1>2, TypeCorrect, PassInvariant, PTL DEF Spec

(* If factgen succeeds, the files hold the facts of all inputs and of      *)
(* nothing else.                                                           *)
THEOREM Complete == Spec => []CompleteOnSuccess
<1>1. FactgenOK => CompleteOnSuccess
  BY DEF FactgenOK, Written, RowsIn, ToRead, CompleteOnSuccess
<1> QED BY <1>1, FactgenInvariant, PTL

(* What the user asked for is what the analysis reads.                     *)
THEOREM Sensitivity == Spec => []SensitivityReachesAnalysis
<1>1. TypeOK /\ PassOK /\ FactgenOK => SensitivityReachesAnalysis
  <2> SUFFICES ASSUME TypeOK, PassOK, FactgenOK PROVE SensitivityReachesAnalysis
    OBVIOUS
  <2>1. ASSUME Pass, pc \in {"check", "extract", "remove"}, runs = 1
        PROVE  Means(database["user_options"], args.sensitivity)
    <3>1. database = Expected /\ "user_options" \in Registry
      BY <2>1, FactFilesAssumption DEF PassOK, FirstRunOK
    <3>2. database["user_options"] = {context_sensitivity_to_string(args.sensitivity)}
      BY <3>1 DEF Expected
    <3>3. args.sensitivity \in Enumerators
      BY <2>1, CommandFields DEF TypeOK, PassCommands
    <3> QED BY <3>2, <3>3, TextMeans
  <2>2. ASSUME Factgen, outcome = "success", args.parse = "ok"
        PROVE  LET opts == disk[FactPath(args.out, "user_options")].rows
               IN  opts = {} \/ Means(opts, Parse(args.sensitivity))
    <3> DEFINE opts == disk[FactPath(args.out, "user_options")].rows
    <3>1. opts \subseteq {args.sensitivity} /\ Parses(args.sensitivity)
      BY <2>2 DEF FactgenOK, Written
    <3>2. opts = {} \/ opts = {args.sensitivity}
      BY <3>1
    <3> HIDE DEF opts
    <3>3. opts = {} \/ Means(opts, Parse(args.sensitivity))
      BY <3>1, <3>2, ParsedText
    <3> QED BY <3>3 DEF opts
  <2> QED BY <2>1, <2>2 DEF SensitivityReachesAnalysis
<1> QED BY <1>1, TypeCorrect, PassInvariant, FactgenInvariant, PTL
=============================================================================
