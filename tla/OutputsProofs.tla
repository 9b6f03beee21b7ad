---------------------------- MODULE OutputsProofs ----------------------------
(***************************************************************************)
(* Outputs, for any jobs, webhooks, children, clocks, texts and faults.    *)
(*                                                                         *)
(* The induction theorems of the library cannot be used here; where a      *)
(* proof goes by induction, over the lines of a text or the files of a     *)
(* directory, it picks the least of the naturals that would violate the    *)
(* claim, which the theorem on well-founded relations provides.            *)
(***************************************************************************)
EXTENDS Outputs, FiniteSetTheorems, SequenceTheorems, WellFoundedInduction, TLAPS

LEMMA LeastNat ==
    ASSUME NEW T \in SUBSET Nat, T # {}
    PROVE  \E n \in T : \A m \in T : n <= m
<1>1. IsWellFoundedOn(OpToRel(<, Nat), Nat)
  BY NatLessThanWellFounded
<1>2. PICK n \in T : \A m \in T : <<m, n>> \notin OpToRel(<, Nat)
  BY <1>1, WFMin
<1>3. ASSUME NEW m \in T PROVE n <= m
  <2>1. ~(m < n)
    BY <1>2 DEF OpToRel
  <2>2. QED
    BY <2>1
<1>4. QED
  BY <1>3

-----------------------------------------------------------------------------
(* Decisions *)

\* The first line that decides something is the one the parser answers with.
LEMMA FirstDecides ==
    ASSUME NEW text \in Text, NEW i \in DOMAIN text,
           text[i] \in Schematic, \A k \in 1..(i - 1) : text[k] \in Plain
    PROVE  parse_event_loop_decision(text) = IF text[i] \in Actions THEN text[i] ELSE "fail"
<1> DEFINE decides == {k \in 1..Len(text) : OfLine(text[k]) # None}
           first   == SelectInSeq(text, LAMBDA line : OfLine(line) # None)
<1>1. i \in 1..Len(text) /\ Len(text) \in Nat
  BY DEF Text
<1>2. OfLine(text[i]) = (IF text[i] \in Actions THEN text[i] ELSE "fail")
      /\ OfLine(text[i]) # None
  BY NoneIsNoLine DEF OfLine, decision_from_value, Schematic, Actions, Line, Plain
<1>3. \A k \in 1..(i - 1) : OfLine(text[k]) = None
  BY DEF OfLine, decision_from_value, Plain, Actions
<1>4. i \in decides /\ \A k \in decides : i <= k
  BY <1>1, <1>2, <1>3
<1>5. first = i
  <2>1. first = Min(decides)
    BY <1>4 DEF SelectInSeq
  <2> HIDE DEF decides, first
  <2>2. decides \subseteq Nat
    BY <1>1 DEF decides
  <2>3. QED
    BY <1>4, <2>1, <2>2 DEF Min
<1>6. first # 0
  BY <1>1, <1>5
<1>7. QED
  BY <1>2, <1>5, <1>6 DEF parse_event_loop_decision

-----------------------------------------------------------------------------
(* Patterns *)

\* One step of the recursion in Words.
Added(words, line) == IF line = "blank" THEN words ELSE Append(words, line)

LEMMA WordsExist ==
    ASSUME NEW text \in Text
    PROVE  \E f : f = [i \in 0..Len(text) |->
                           IF i = 0 THEN <<>> ELSE Added(f[i - 1], text[i])]
<1> DEFINE IsWords(f, n) == f = [i \in 0..n |->
                                     IF i = 0 THEN <<>> ELSE Added(f[i - 1], text[i])]
           T == {n \in Nat : ~\E f : IsWords(f, n)}
<1>1. Len(text) \in Nat
  BY DEF Text
<1>2. SUFFICES ASSUME T # {} PROVE FALSE
  BY <1>1
<1>3. PICK n \in T : \A m \in T : n <= m
  BY <1>2, LeastNat
<1>4. CASE n = 0
  <2>1. IsWords([i \in 0..0 |-> <<>>], 0)
    OBVIOUS
  <2>2. QED
    BY <1>3, <1>4, <2>1
<1>5. CASE n # 0
  <2>1. n - 1 \in Nat /\ n - 1 \notin T /\ n \in Nat
    <3>1. n \in Nat
      BY <1>3
    <3> HIDE DEF T
    <3>2. QED
      BY <1>3, <1>5, <3>1
  <2>2. PICK f : IsWords(f, n - 1)
    BY <2>1
  <2> DEFINE g == [i \in 0..n |-> IF i = n THEN Added(f[n - 1], text[n]) ELSE f[i]]
  <2>3. ASSUME NEW i \in 0..n
        PROVE  g[i] = IF i = 0 THEN <<>> ELSE Added(g[i - 1], text[i])
    <3>1. CASE i = 0
      BY <1>5, <2>1, <2>2, <3>1
    <3>2. CASE i # 0
      <4>1. i - 1 \in 0..n /\ i - 1 # n
        BY <2>1, <3>2
      <4>2. g[i - 1] = f[i - 1]
        BY <4>1
      <4>3. CASE i = n
        BY <3>2, <4>2, <4>3
      <4>4. CASE i # n
        <5>1. i \in 0..(n - 1)
          BY <2>1, <4>4
        <5>2. f[i] = Added(f[i - 1], text[i])
          BY <2>2, <3>2, <5>1
        <5>3. QED
          BY <4>2, <4>4, <3>2, <5>2
      <4>5. QED
        BY <4>3, <4>4
    <3>3. QED
      BY <3>1, <3>2
  <2>4. IsWords(g, n)
    BY <2>3
  <2>5. QED
    BY <1>3, <2>4
<1>6. QED
  BY <1>4, <1>5

\* Words is what its definition says.
LEMMA WordsAre ==
    ASSUME NEW text \in Text
    PROVE  /\ Words(text)[0] = <<>>
           /\ \A i \in 1..Len(text) : Words(text)[i] = Added(Words(text)[i - 1], text[i])
<1> DEFINE IsWords(f) == f = [i \in 0..Len(text) |->
                                  IF i = 0 THEN <<>> ELSE Added(f[i - 1], text[i])]
<1>1. \E f : IsWords(f)
  BY WordsExist
<1>2. Words(text) = CHOOSE f : IsWords(f)
  BY Zenon DEF Words, Added
<1>3. IsWords(Words(text))
  BY <1>1, <1>2
<1>4. Len(text) \in Nat
  BY DEF Text
<1>5. QED
  BY <1>3, <1>4

\* The words of the first i lines: those of them that are not blank, of which
\* the last stands at the end.
LEMMA WordsType ==
    ASSUME NEW text \in Text
    PROVE  \A i \in 0..Len(text) : Words(text)[i] \in Text
<1> DEFINE W == Words(text)
           T == {n \in Nat : n <= Len(text) /\ W[n] \notin Text}
<1>1. Len(text) \in Nat /\ \A i \in 1..Len(text) : text[i] \in Line
  BY DEF Text
<1>2. SUFFICES ASSUME T # {} PROVE FALSE
  BY <1>1
<1>3. PICK n \in T : \A m \in T : n <= m
  BY <1>2, LeastNat
<1>4. n # 0
  <2>1. W[0] \in Text
    <3>1. W[0] = <<>>
      BY WordsAre
    <3>2. <<>> \in Text
      BY DEF Text
    <3>3. QED
      BY <3>1, <3>2
  <2>2. W[n] \notin Text
    BY <1>3
  <2>3. QED
    BY <2>1, <2>2
<1>5. W[n - 1] \in Text
  BY <1>1, <1>3, <1>4
<1>6. W[n] = Added(W[n - 1], text[n]) /\ text[n] \in Line
  BY <1>1, <1>3, <1>4, WordsAre
<1> HIDE DEF W
<1>7. W[n] \in Text
  BY <1>5, <1>6 DEF Added, Text
<1>8. QED
  BY <1>3, <1>7

\* Words are only added at the end: what stands in the words of the first i
\* lines stands there still in the words of more lines.
LEMMA WordsGrow ==
    ASSUME NEW text \in Text, NEW i \in 0..Len(text)
    PROVE  \A k \in i..Len(text) :
               /\ Len(Words(text)[i]) <= Len(Words(text)[k])
               /\ \A p \in 1..Len(Words(text)[i]) : Words(text)[k][p] = Words(text)[i][p]
<1> DEFINE W == Words(text)
           Kept(k) == /\ Len(W[i]) <= Len(W[k])
                      /\ \A p \in 1..Len(W[i]) : W[k][p] = W[i][p]
           T == {n \in Nat : i <= n /\ n <= Len(text) /\ ~Kept(n)}
<1>1. Len(text) \in Nat /\ i \in Nat /\ i <= Len(text)
  BY DEF Text
<1>2. \A k \in 0..Len(text) : W[k] \in Text /\ Len(W[k]) \in Nat
  BY WordsType DEF Text
<1>3. SUFFICES ASSUME T # {} PROVE FALSE
  BY <1>1
<1>4. PICK n \in T : \A m \in T : n <= m
  BY <1>3, LeastNat
<1>5. n \in Nat /\ i <= n /\ n <= Len(text) /\ ~Kept(n)
  BY <1>4
<1>6. n # i
  BY <1>1, <1>2, <1>5
<1>7. n - 1 \in Nat /\ i <= n - 1 /\ n - 1 <= Len(text) /\ n \in 1..Len(text)
  BY <1>1, <1>5, <1>6
<1>8. Kept(n - 1)
  <2>1. n - 1 \notin T
    <3> HIDE DEF T
    <3>1. QED
      BY <1>4, <1>5, <1>7
  <2> HIDE DEF Kept
  <2>2. QED
    BY <1>7, <2>1
<1>9. W[n] = Added(W[n - 1], text[n])
  BY <1>7, WordsAre
<1>10. W[n - 1] \in Text /\ W[i] \in Text /\ text[n] \in Line
  BY <1>1, <1>2, <1>7 DEF Text
<1> HIDE DEF W, T
<1>11. Kept(n)
  BY <1>8, <1>9, <1>10 DEF Added, Text
<1>12. QED
  BY <1>5, <1>11

\* A line that is not blank is the last word of the lines up to it.
LEMMA WordAt ==
    ASSUME NEW text \in Text, NEW i \in 1..Len(text), text[i] # "blank"
    PROVE  /\ Len(Words(text)[i]) = Len(Words(text)[i - 1]) + 1
           /\ Words(text)[i][Len(Words(text)[i])] = text[i]
<1> DEFINE W == Words(text)
<1>1. W[i] = Append(W[i - 1], text[i])
  BY WordsAre DEF Added
<1>2. W[i - 1] \in Seq(Line) /\ text[i] \in Line
  <2>1. Len(text) \in Nat /\ text[i] \in Line
    BY DEF Text
  <2>2. i - 1 \in 0..Len(text)
    BY <2>1
  <2>3. QED
    BY <2>1, <2>2, WordsType DEF Text
<1> HIDE DEF W
<1>3. QED
  BY <1>1, <1>2 DEF W

\* Blank lines add no word.
LEMMA BlanksAddNothing ==
    ASSUME NEW text \in Text, NEW i \in 0..Len(text), NEW k \in i..Len(text),
           \A m \in (i + 1)..k : text[m] = "blank"
    PROVE  Words(text)[k] = Words(text)[i]
<1> DEFINE W == Words(text)
           T == {n \in Nat : i <= n /\ n <= k /\ W[n] # W[i]}
<1>1. Len(text) \in Nat /\ i \in Nat /\ k \in Nat /\ i <= k /\ k <= Len(text)
  BY DEF Text
<1>2. SUFFICES ASSUME T # {} PROVE FALSE
  BY <1>1
<1>3. PICK n \in T : \A m \in T : n <= m
  BY <1>2, LeastNat
<1>4. n \in Nat /\ i <= n /\ n <= k /\ W[n] # W[i]
  BY <1>3
<1>5. n # i
  BY <1>4
<1>6. n - 1 \in Nat /\ i <= n - 1 /\ n - 1 <= k
      /\ n \in (i + 1)..k /\ n \in 1..Len(text)
  BY <1>1, <1>4, <1>5
<1>7. W[n - 1] = W[i]
  <2>1. n - 1 \notin T
    <3> HIDE DEF T
    <3>1. QED
      BY <1>3, <1>4, <1>6
  <2>2. QED
    BY <1>6, <2>1
<1>8. W[n] = W[n - 1]
  BY <1>6, WordsAre DEF Added
<1>9. QED
  BY <1>4, <1>7, <1>8

\* A pattern that is anywhere in a text, over blank lines or not, is found.
LEMMA ScanFindsPatterns ==
    ASSUME NEW text \in Text, Poisoned(text)
    PROVE  scan(text)
<1> DEFINE W == Words(text)
           n == Len(text)
           words == normalize(text)
<1>1. n \in Nat /\ words = W[n] /\ DOMAIN text = 1..n
  BY DEF Text, normalize
<1>2. words \in Seq(Line) /\ Len(words) \in Nat
  BY <1>1, WordsType DEF Text
<1>3. \A i \in 0..n : W[i] \in Seq(Line) /\ Len(W[i]) \in Nat
  BY WordsType DEF Text
<1>4. ASSUME NEW i \in 1..n, text[i] # "blank"
      PROVE  /\ Len(W[i]) \in 1..Len(words)
             /\ Len(W[i]) = Len(W[i - 1]) + 1
             /\ words[Len(W[i])] = text[i]
  <2>1. i \in 0..n /\ i - 1 \in 0..n /\ n \in i..n
    BY <1>1
  <2>2. Len(W[i]) = Len(W[i - 1]) + 1 /\ W[i][Len(W[i])] = text[i]
    BY <1>4, WordAt
  <2>3. /\ Len(W[i]) <= Len(W[n])
        /\ \A p \in 1..Len(W[i]) : W[n][p] = W[i][p]
    BY <2>1, WordsGrow
  <2> HIDE DEF W, words, n
  <2>4. Len(W[i]) \in Nat /\ Len(W[i - 1]) \in Nat /\ words = W[n] /\ Len(words) \in Nat
    BY <1>1, <1>2, <1>3, <2>1
  <2>5. Len(W[i]) \in 1..Len(words)
    BY <2>2, <2>3, <2>4
  <2>6. words[Len(W[i])] = text[i]
    BY <2>2, <2>3, <2>4, <2>5
  <2>7. QED
    BY <2>2, <2>5, <2>6
<1>5. CASE \E i \in 1..n : text[i] = "poison"
  <2>1. PICK i \in 1..n : text[i] = "poison"
    BY <1>5
  <2>2. \E p \in 1..Len(words) : words[p] = "poison"
    BY <1>4, <2>1
  <2>3. "poison" \in ToSet(words)
    BY <1>2, <2>2 DEF ToSet
  <2>4. QED
    BY <2>3 DEF scan
<1>6. CASE \E i, k \in 1..n : /\ i < k /\ text[i] = "half" /\ text[k] = "other half"
                              /\ \A m \in (i + 1)..(k - 1) : text[m] = "blank"
  <2>1. PICK i \in 1..n, k \in 1..n :
             /\ i < k /\ text[i] = "half" /\ text[k] = "other half"
             /\ \A m \in (i + 1)..(k - 1) : text[m] = "blank"
    BY <1>6
  <2>2. i \in 0..n /\ k - 1 \in i..n
    <3>1. n \in Nat /\ i < k
      BY <1>1, <2>1
    <3> HIDE DEF n
    <3>2. QED
      BY <3>1
  <2>3. W[k - 1] = W[i]
    BY <2>1, <2>2, BlanksAddNothing
  <2>4. /\ Len(W[i]) \in 1..Len(words) /\ words[Len(W[i])] = "half"
        /\ Len(W[k]) \in 1..Len(words) /\ words[Len(W[k])] = "other half"
        /\ Len(W[k]) = Len(W[i]) + 1
    BY <1>4, <2>1, <2>3
  <2>5. \E p \in 1..(Len(words) - 1) : words[p] = "half" /\ words[p + 1] = "other half"
    <3> DEFINE p == Len(W[i])
    <3>1. /\ p \in 1..Len(words) /\ p + 1 \in 1..Len(words)
          /\ words[p] = "half" /\ words[p + 1] = "other half"
      BY <2>4
    <3> HIDE DEF p, words
    <3>2. p \in 1..(Len(words) - 1)
      <4> DEFINE l == Len(words)
      <4>1. l \in Nat /\ p \in 1..l /\ p + 1 \in 1..l
        BY <1>2, <3>1
      <4> HIDE DEF l
      <4>2. p \in 1..(l - 1)
        BY <4>1
      <4>3. QED
        BY <4>2 DEF l
    <3>3. QED
      BY <3>1, <3>2
  <2>6. QED
    BY <2>5 DEF scan
<1>7. QED
  BY <1>1, <1>5, <1>6 DEF Poisoned

-----------------------------------------------------------------------------
(* Types *)

RunStatus == {"success", "failed", "silent", "refused"}

Named == [stamp : Nat, suffix : Nat]

OutFile == [name : Named, status : RunStatus, text : Text, run : Nat]

LogLine == [kind : {"line"}, file : Named, status : RunStatus] \cup {Fragment, Spoilt}

DeliveryTarget == [kind : {"file"}] \cup [kind : {"webhook"}, url : Url]

RunOutput == [status : RunStatus, markdown : Text, prompt : Text \cup {None}]

\* What an executor returns; a prompt that was handed to an agent was screened.
Screened == {out \in RunOutput : out.prompt # None => ~scan(out.prompt)}

OutPass == [ pc        : {"idle", "run", "next", "file", "log", "hook"},
             allowlist : SUBSET Hosts,
             todo      : SUBSET Jobs,
             out       : [Jobs -> Screened \cup {None}],
             queue     : SUBSET Jobs,
             snap      : Jobs \cup {None},
             name      : Named \cup {None},
             k         : Nat,
             attempt   : 0..2,
             error     : BOOLEAN,
             reported  : SUBSET Jobs ]

OTypeOK ==
    /\ deliver \in [Jobs -> Seq(DeliveryTarget)]
    /\ dir \in [Jobs -> SUBSET OutFile]
    /\ log \in [Jobs -> Seq(LogLine)]
    /\ pass \in OutPass
    /\ passes \in Nat
    /\ faults \in Nat

-----------------------------------------------------------------------------
(* The files of a job *)

\* No two files have one name, or were written for one run.
Distinct(files) ==
    \A f, g \in files : f.name = g.name \/ f.run = g.run => f = g

IsLatest(f, files) == \A g \in files \ {f} : Before(g.name, f.name)

\* The names are in a total order, with '-' before '.'.
LEMMA BeforeTotal ==
    ASSUME NEW f \in Named, NEW g \in Named
    PROVE  /\ f # g => Before(f, g) \/ Before(g, f)
           /\ ~(Before(f, g) /\ Before(g, f))
<1>1. f # g => f.stamp # g.stamp \/ f.suffix # g.suffix
  BY DEF Named
<1>2. /\ f.stamp \in Nat /\ f.suffix \in Nat /\ g.stamp \in Nat /\ g.suffix \in Nat
  BY DEF Named
<1>3. QED
  BY <1>1, <1>2 DEF Before

LEMMA BeforeTransitive ==
    ASSUME NEW f \in Named, NEW g \in Named, NEW h \in Named, Before(f, g), Before(g, h)
    PROVE  Before(f, h)
<1>1. /\ f.stamp \in Nat /\ f.suffix \in Nat /\ g.stamp \in Nat /\ g.suffix \in Nat
      /\ h.stamp \in Nat /\ h.suffix \in Nat
  BY DEF Named
<1>2. QED
  BY <1>1 DEF Before

\* Finitely many files with names of their own have a last one.
LEMMA LatestExists ==
    ASSUME NEW files \in SUBSET OutFile, IsFiniteSet(files), Distinct(files), files # {}
    PROVE  \E f \in files : IsLatest(f, files)
<1> DEFINE Bad(S) == S # {} /\ ~\E f \in S : IsLatest(f, S)
           T == {n \in Nat : \E S \in SUBSET files : Cardinality(S) = n /\ Bad(S)}
<1>1. SUFFICES ASSUME T # {} PROVE FALSE
  <2>1. ASSUME Bad(files) PROVE T # {}
    <3>1. Cardinality(files) \in Nat
      BY FS_CardinalityType
    <3> HIDE DEF Bad
    <3>2. QED
      BY <2>1, <3>1
  <2>2. QED
    BY <2>1
<1>2. PICK n \in T : \A m \in T : n <= m
  BY <1>1, LeastNat
<1>3. n \in Nat /\ \E S \in SUBSET files : Cardinality(S) = n /\ Bad(S)
  <2> HIDE DEF Bad
  <2>1. QED
    BY <1>2
<1>4. PICK S \in SUBSET files : Cardinality(S) = n /\ Bad(S)
  BY <1>3
<1>5. PICK x \in S : TRUE
  BY <1>4
<1>6. IsFiniteSet(S) /\ Cardinality(S \ {x}) = n - 1 /\ IsFiniteSet(S \ {x})
      /\ Cardinality(S \ {x}) \in Nat
  BY <1>4, <1>5, FS_Subset, FS_RemoveElement, FS_CardinalityType
<1>7. ~Bad(S \ {x})
  <2>1. n - 1 \notin T
    <3> HIDE DEF T
    <3>1. QED
      BY <1>2, <1>3, <1>6
  <2>2. n - 1 \in Nat /\ S \ {x} \in SUBSET files
    BY <1>6
  <2> HIDE DEF Bad
  <2>3. QED
    BY <1>6, <2>1, <2>2
<1>8. CASE S \ {x} = {}
  BY <1>4, <1>5, <1>8 DEF IsLatest
<1>9. CASE S \ {x} # {}
  <2>1. PICK y \in S \ {x} : IsLatest(y, S \ {x})
    BY <1>7, <1>9
  <2>2. x.name \in Named /\ y.name \in Named /\ x.name # y.name
        /\ \A g \in S : g.name \in Named
    BY <1>5, <2>1 DEF OutFile, Distinct
  <2>3. CASE Before(x.name, y.name)
    <3>1. IsLatest(y, S)
      BY <2>1, <2>3 DEF IsLatest
    <3>2. QED
      BY <1>4, <2>1, <3>1
  <2>4. CASE Before(y.name, x.name)
    <3>1. ASSUME NEW g \in S \ {x} PROVE Before(g.name, x.name)
      BY <2>1, <2>2, <2>4, BeforeTransitive DEF IsLatest
    <3>2. IsLatest(x, S)
      BY <3>1 DEF IsLatest
    <3>3. QED
      BY <1>4, <1>5, <3>2
  <2>5. QED
    BY <2>2, <2>3, <2>4, BeforeTotal
<1>10. QED
  BY <1>8, <1>9

\* The name a run gets is one that no file of the job has: one of the suffixes
\* up to the number of files is free.
LEMMA UniqueIsFree ==
    ASSUME NEW j \in Jobs, IsFiniteSet(dir[j]), NEW stamp \in Nat
    PROVE  /\ unique_run_md(j, stamp) \in Named
           /\ unique_run_md(j, stamp).stamp = stamp
           /\ \A f \in dir[j] : f.name # unique_run_md(j, stamp)
<1> DEFINE N(suffix) == [stamp |-> stamp, suffix |-> suffix]
           c == Cardinality(dir[j])
           free == {s \in 0..c : \A f \in dir[j] : f.name # N(s)}
           least == CHOOSE s \in free : \A r \in free : s <= r
<1>1. c \in Nat /\ IsFiniteSet(0..c) /\ Cardinality(0..c) = c + 1
  BY FS_CardinalityType, FS_Interval
<1>2. free # {}
  <2> SUFFICES ASSUME \A s \in 0..c : \E f \in dir[j] : f.name = N(s)
               PROVE  FALSE
    OBVIOUS
  <2> DEFINE g == [s \in 0..c |-> CHOOSE f \in dir[j] : f.name = N(s)]
  <2>1. \A s \in 0..c : g[s] \in dir[j] /\ g[s].name = N(s)
    OBVIOUS
  <2>2. g \in [0..c -> dir[j]]
    OBVIOUS
  <2> HIDE DEF g
  <2>3. PICK x \in 0..c, y \in 0..c : x # y /\ g[x] = g[y]
    <3>1. c < c + 1
      BY <1>1
    <3> HIDE DEF c
    <3>2. Cardinality(dir[j]) < Cardinality(0..c)
      BY <1>1, <3>1 DEF c
    <3>3. QED
      BY <1>1, <2>2, <3>2, FS_PigeonHole
  <2>4. N(x) = N(y)
    BY <2>1, <2>3
  <2>5. N(x).suffix = x /\ N(y).suffix = y
    OBVIOUS
  <2>6. QED
    BY <2>3, <2>4, <2>5
<1>3. least \in free
  <2>1. free \in SUBSET Nat
    BY <1>1
  <2> HIDE DEF free
  <2>2. \E s \in free : \A r \in free : s <= r
    BY <1>2, <2>1, LeastNat
  <2>3. QED
    BY <2>2
<1>4. unique_run_md(j, stamp) = N(least)
  BY DEF unique_run_md
<1> HIDE DEF least
<1>5. QED
  BY <1>1, <1>3, <1>4 DEF Named

-----------------------------------------------------------------------------
(* Runs *)

FilesOK ==
    \A j \in Jobs :
        /\ IsFiniteSet(dir[j])
        /\ Distinct(dir[j])
        /\ \A f \in dir[j] : f.run <= passes

\* The context of a prompt is one of the files, and the last by name.
LEMMA LatestIs ==
    ASSUME OTypeOK, FilesOK, NEW j \in Jobs, dir[j] # {}
    PROVE  latest_output(j) \in dir[j] /\ IsLatest(latest_output(j), dir[j])
<1>1. dir[j] \in SUBSET OutFile /\ IsFiniteSet(dir[j]) /\ Distinct(dir[j])
  BY DEF OTypeOK, FilesOK
<1>2. \E f \in dir[j] : \A g \in dir[j] \ {f} : Before(g.name, f.name)
  BY <1>1, LatestExists DEF IsLatest
<1>3. QED
  BY <1>2 DEF latest_output, IsLatest

LEMMA PlainText == <<"plain">> \in Text
<1>1. "plain" \in Line
  BY DEF Line, Plain
<1>2. QED
  BY <1>1 DEF Text

LEMMA Wrapped ==
    ASSUME NEW s \in Text, NEW t \in Text
    PROVE  <<"plain">> \o s \o <<"plain">> \o t \in Text
<1>1. <<"plain">> \in Seq(Line) /\ s \in Seq(Line) /\ t \in Seq(Line)
  BY PlainText DEF Text
<1>2. <<"plain">> \o s \in Seq(Line)
  BY <1>1
<1>3. <<"plain">> \o s \o <<"plain">> \in Seq(Line)
  BY <1>1, <1>2
<1>4. QED
  BY <1>1, <1>3 DEF Text

LEMMA PromptType ==
    ASSUME OTypeOK, FilesOK, NEW def \in Def
    PROVE  assemble_prompt(def) \in Text
<1>1. def.prompt \in Text /\ def.context \in Jobs \cup {None}
  BY DEF Def
<1>2. CASE def.context = None \/ dir[def.context] = {}
  BY <1>1, <1>2 DEF assemble_prompt
<1>3. CASE def.context # None /\ dir[def.context] # {}
  <2>1. def.context \in Jobs
    BY <1>1, <1>3
  <2>2. latest_output(def.context) \in dir[def.context]
    BY <1>3, <2>1, LatestIs
  <2>3. latest_output(def.context).text \in Text
    BY <2>1, <2>2 DEF OTypeOK, OutFile
  <2>4. assemble_prompt(def) =
            <<"plain">> \o latest_output(def.context).text \o <<"plain">> \o def.prompt
    BY <1>3 DEF assemble_prompt
  <2>5. QED
    BY <1>1, <2>3, <2>4, Wrapped
<1>4. QED
  BY <1>2, <1>3

LEMMA OutputType ==
    ASSUME NEW status \in RunStatus, NEW markdown \in Text, NEW prompt \in Text \cup {None},
           prompt # None => ~scan(prompt)
    PROVE  Output(status, markdown, prompt) \in Screened
BY DEF Output, Screened, RunOutput

LEMMA FromProcessType ==
    ASSUME NEW child \in Child, NEW prompt \in Text \cup {None},
           prompt # None => ~scan(prompt)
    PROVE  from_process(child, prompt) \in Screened
<1>1. child.stdout \in Text /\ child.stderr \in Text
  BY DEF Child
<1>2. render_md(child.stdout, child.stderr) \in Text
  <2> DEFINE md == <<"plain">> \o child.stdout \o <<"plain">> \o child.stderr
  <2>1. md \in Seq(Line) /\ <<"plain">> \in Seq(Line)
    BY <1>1, PlainText, Wrapped DEF Text
  <2>2. render_md(child.stdout, child.stderr) = md \o <<"plain">>
    BY DEF render_md
  <2> HIDE DEF md
  <2>3. QED
    BY <2>1, <2>2 DEF Text
<1>3. (IF child.ok THEN "success" ELSE "failed") \in RunStatus
  BY DEF RunStatus
<1>4. QED
  BY <1>2, <1>3, OutputType DEF from_process

\* Whatever the executor and however its child ends, an agent is only handed
\* the prompt that was screened.
LEMMA RunOneType ==
    ASSUME OTypeOK, FilesOK, NEW j \in Jobs, NEW child \in Children[j] \cup {None}
    PROVE  run_one(Defs[j], child) \in Screened
<1> DEFINE def == Defs[j]
           prompt == assemble_prompt(def)
<1>1. def \in Def /\ (child # None => child \in Child)
  BY DefsAssumption
<1>2. prompt \in Text /\ def.executor \in {"codex", "shell", "ao2"}
  BY <1>1, PromptType DEF Def
<1>3. refused \in Screened /\ silent \in Screened
      /\ \A p \in Text \cup {None} : (p # None => ~scan(p)) => failed(p) \in Screened
  <2>1. /\ <<"plain", "poison">> \in Text /\ <<>> \in Text /\ <<"plain">> \in Text
        /\ "refused" \in RunStatus /\ "silent" \in RunStatus /\ "failed" \in RunStatus
    BY DEF Text, Line, Plain, RunStatus
  <2>2. QED
    BY <2>1, OutputType DEF refused, silent, failed
<1>4. CASE def.executor = "shell"
  <2>1. run_one(def, child) = ShellRun(def, child)
    BY <1>4 DEF run_one
  <2>2. QED
    BY <1>1, <1>3, <2>1, FromProcessType DEF ShellRun
<1>5. CASE def.executor = "ao2"
  <2>1. run_one(def, child) = Ao2Run(def, child)
    BY <1>5 DEF run_one
  <2>2. QED
    BY <1>1, <1>3, <2>1, FromProcessType DEF Ao2Run
<1>6. CASE def.executor = "codex"
  <2>1. run_one(def, child) = refused \/ run_one(def, child) = CodexRun(def, child)
    BY <1>6 DEF run_one
  <2>2. CodexRun(def, child) = IF scan(prompt) THEN refused
                               ELSE IF child = None THEN failed(prompt)
                               ELSE from_process(child, prompt)
    BY DEF CodexRun
  <2> HIDE DEF prompt
  <2>3. QED
    BY <1>1, <1>2, <1>3, <2>1, <2>2, FromProcessType
<1>7. QED
  BY <1>2, <1>4, <1>5, <1>6

-----------------------------------------------------------------------------
(* What a pass holds on its way *)

\* The jobs that may yet get a file in the pass that is under way.
ToWrite ==
    CASE pass.pc = "run"              -> Jobs
      [] pass.pc \in {"next", "file"} -> pass.queue
      [] pass.pc \in {"log", "hook"}  -> pass.queue \ {pass.snap}
      [] pass.pc = "idle"             -> {}

\* The file of the snapshot at hand, once it is written.
Written == \E f \in dir[pass.snap] :
               f.name = pass.name /\ f.status = pass.out[pass.snap].status

WayOK ==
    /\ pass.pc \in {"next", "file", "log", "hook"} =>
           \A j \in pass.queue : pass.out[j] # None
    /\ pass.pc \in {"file", "log", "hook"} => pass.snap \in pass.queue
    /\ pass.pc = "log" => pass.name \in Named /\ Written

NoFileYet == \A j \in ToWrite : \A f \in dir[j] : f.run < passes

BaseInv == OTypeOK /\ FilesOK /\ WayOK /\ NoFileYet

LEMMA IdleType == Idle \in OutPass /\ Idle.pc = "idle"
BY DEF Idle, OutPass

\* A step that writes no file and begins no pass.
LEMMA BaseQuiet ==
    ASSUME BaseInv, UNCHANGED <<deliver, dir, passes>>, pass' \in OutPass,
           log' \in [Jobs -> Seq(LogLine)], faults' \in Nat,
           ToWrite' \subseteq ToWrite, WayOK'
    PROVE  BaseInv'
BY DEF BaseInv, OTypeOK, FilesOK, NoFileYet, Distinct

\* How a line gets into a log: after the others, or in the place of a fragment.
EndsOpen(lines) == lines # <<>> /\ Last(lines).kind = "fragment"

LEMMA LogAdds ==
    ASSUME log \in [Jobs -> Seq(LogLine)], NEW j \in Jobs, NEW line \in LogLine,
           LogWith(j, line)
    PROVE  /\ log' \in [Jobs -> Seq(LogLine)]
           /\ \A i \in Jobs \ {j} : log'[i] = log[i]
           /\ Len(log[j]) \in Nat
           /\ ~EndsOpen(log[j]) =>
                  /\ Len(log'[j]) = Len(log[j]) + 1
                  /\ \A i \in 1..Len(log[j]) : log'[j][i] = log[j][i]
                  /\ log'[j][Len(log[j]) + 1] = line
           /\ EndsOpen(log[j]) =>
                  /\ Len(log'[j]) = Len(log[j])
                  /\ Len(log[j]) # 0
                  /\ \A i \in 1..(Len(log[j]) - 1) : log'[j][i] = log[j][i]
                  /\ log[j][Len(log[j])].kind = "fragment"
                  /\ log'[j][Len(log[j])] \in {Fragment, Spoilt}
                  /\ log'[j][Len(log[j])] = Fragment => line.kind = "fragment"
<1> DEFINE l == log[j]
           closing == IF line.kind = "fragment" THEN Fragment ELSE Spoilt
           new == IF EndsOpen(l) THEN Append(Front(l), closing) ELSE Append(l, line)
<1>1. l \in Seq(LogLine) /\ Len(l) \in Nat
  OBVIOUS
<1>2. log' = [log EXCEPT ![j] = new]
  BY DEF LogWith, EndsOpen
<1>3. closing \in LogLine /\ closing \in {Fragment, Spoilt}
      /\ (closing = Fragment => line.kind = "fragment")
  BY DEF LogLine, Fragment, Spoilt
<1> HIDE DEF l, closing
<1>4. CASE ~EndsOpen(l)
  <2>1. new = Append(l, line)
    BY <1>4
  <2> HIDE DEF new
  <2>2. /\ new \in Seq(LogLine) /\ Len(new) = Len(l) + 1
        /\ \A i \in 1..Len(l) : new[i] = l[i]
        /\ new[Len(l) + 1] = line
    BY <1>1, <2>1
  <2>3. QED
    BY <1>1, <1>2, <1>4, <2>2 DEF l
<1>5. CASE EndsOpen(l)
  <2>1. new = Append(Front(l), closing)
    BY <1>5
  <2>2. l # <<>> /\ l[Len(l)].kind = "fragment"
    BY <1>5 DEF EndsOpen, Last
  <2>3. Len(l) # 0
    BY <1>1, <2>2
  <2>4. Front(l) \in Seq(LogLine) /\ Len(Front(l)) = Len(l) - 1
        /\ \A i \in 1..(Len(l) - 1) : Front(l)[i] = l[i]
    <3> DEFINE n == Len(l) - 1
    <3>1. n \in Int /\ n >= 0 /\ \A i \in 1..n : l[i] \in LogLine
      BY <1>1, <2>3
    <3>2. Front(l) = SubSeq(l, 1, n)
      BY DEF Front
    <3> HIDE DEF n
    <3>3. /\ SubSeq(l, 1, n) \in Seq(LogLine)
          /\ Len(SubSeq(l, 1, n)) = IF 1 <= n THEN n - 1 + 1 ELSE 0
          /\ \A i \in 1..(n - 1 + 1) : SubSeq(l, 1, n)[i] = l[1 + i - 1]
      BY <3>1, SubSeqProperties
    <3>4. Len(Front(l)) = n /\ \A i \in 1..n : Front(l)[i] = l[i]
      BY <3>1, <3>2, <3>3
    <3>5. QED
      BY <3>2, <3>3, <3>4 DEF n
  <2> HIDE DEF new
  <2>5. /\ new \in Seq(LogLine) /\ Len(new) = Len(l)
        /\ \A i \in 1..(Len(l) - 1) : new[i] = l[i]
        /\ new[Len(l)] = closing
    BY <1>1, <1>3, <2>1, <2>3, <2>4
  <2>6. QED
    BY <1>1, <1>2, <1>3, <1>5, <2>2, <2>3, <2>5 DEF l
<1>6. QED
  BY <1>4, <1>5

LEMMA SnapIsJob ==
    ASSUME BaseInv, pass.pc \in {"file", "log", "hook"}
    PROVE  /\ pass.snap \in Jobs
           /\ pass.snap \in pass.queue
           /\ pass.out[pass.snap] \in Screened
<1>1. pass.queue \in SUBSET Jobs /\ pass.out \in [Jobs -> Screened \cup {None}]
  BY DEF BaseInv, OTypeOK, OutPass
<1>2. pass.snap \in pass.queue /\ pass.out[pass.snap] # None
  BY DEF BaseInv, WayOK
<1>3. QED
  BY <1>1, <1>2

\* The line of a file, and less than that.
LEMMA LineType ==
    ASSUME BaseInv, pass.pc = "log"
    PROVE  /\ FileLine(pass.name, pass.out[pass.snap].status) \in LogLine
           /\ FileLine(pass.name, pass.out[pass.snap].status).kind # "fragment"
           /\ Fragment \in LogLine
<1>1. pass.out[pass.snap].status \in RunStatus
  BY SnapIsJob DEF Screened, RunOutput
<1>2. pass.name \in Named
  BY DEF BaseInv, WayOK
<1>3. QED
  BY <1>1, <1>2 DEF FileLine, LogLine, Fragment

LEMMA CutShortType ==
    ASSUME BaseInv, IF pass.pc = "log" THEN LogCutShort ELSE UNCHANGED log
    PROVE  log' \in [Jobs -> Seq(LogLine)]
<1>1. log \in [Jobs -> Seq(LogLine)]
  BY DEF BaseInv, OTypeOK
<1>2. CASE log' = log
  BY <1>1, <1>2
<1>3. CASE pass.pc = "log" /\ LogWith(pass.snap, Fragment)
  BY <1>1, <1>3, SnapIsJob, LineType, LogAdds
<1>4. QED
  BY <1>2, <1>3 DEF LogCutShort

LEMMA StartPassBase == ASSUME BaseInv, StartPass PROVE BaseInv'
<1>1. PICK due \in (SUBSET Jobs) \ {{}}, allowlist \in Allowlists :
          pass' = [Idle EXCEPT !.pc = "run", !.todo = due, !.allowlist = allowlist]
  BY DEF StartPass
<1>2. allowlist \in SUBSET Hosts /\ due \in SUBSET Jobs
  BY <1>1, ConfigAssumption
<1>3. pass' \in OutPass /\ pass'.pc = "run"
  BY <1>1, <1>2, IdleType DEF OutPass
<1>4. UNCHANGED <<deliver, dir, log, faults>> /\ passes' = passes + 1 /\ passes \in Nat
  BY DEF StartPass, BaseInv, OTypeOK
<1>5. OTypeOK'
  BY <1>3, <1>4 DEF BaseInv, OTypeOK
<1>6. \A j \in Jobs : \A f \in dir[j] : f.run \in Nat /\ f.run <= passes
  BY DEF BaseInv, OTypeOK, FilesOK, OutFile
<1>7. FilesOK'
  BY <1>4, <1>6 DEF BaseInv, FilesOK, Distinct
<1>8. NoFileYet'
  <2>1. ToWrite' = Jobs
    BY <1>3 DEF ToWrite
  <2>2. QED
    BY <1>4, <1>6, <2>1 DEF NoFileYet
<1>9. WayOK'
  BY <1>3 DEF WayOK
<1>10. QED
  BY <1>5, <1>7, <1>8, <1>9 DEF BaseInv

LEMMA RunOneBase == ASSUME BaseInv, NEW j \in Jobs, RunOne(j) PROVE BaseInv'
<1>1. PICK child \in Children[j] \cup {None} :
          pass' = [pass EXCEPT !.todo = @ \ {j}, !.out[j] = run_one(Defs[j], child)]
  BY DEF RunOne
<1>2. run_one(Defs[j], child) \in Screened
  BY RunOneType DEF BaseInv
<1>3. pass \in OutPass /\ pass.pc = "run" /\ log \in [Jobs -> Seq(LogLine)] /\ faults \in Nat
  BY DEF RunOne, BaseInv, OTypeOK
<1>4. pass' \in OutPass /\ pass'.pc = "run"
  BY <1>1, <1>2, <1>3 DEF OutPass
<1>5. ToWrite' \subseteq ToWrite /\ WayOK'
  BY <1>3, <1>4 DEF ToWrite, WayOK
<1>6. QED
  BY <1>3, <1>4, <1>5, BaseQuiet DEF RunOne

LEMMA JoinedBase == ASSUME BaseInv, Joined PROVE BaseInv'
<1>1. pass \in OutPass /\ pass.pc = "run" /\ log \in [Jobs -> Seq(LogLine)] /\ faults \in Nat
  BY DEF Joined, BaseInv, OTypeOK
<1> DEFINE queue == {j \in Jobs : pass.out[j] # None /\ pass.out[j].status # "silent"}
<1>2. pass' = [pass EXCEPT !.pc = "next", !.queue = queue] /\ queue \in SUBSET Jobs
      /\ \A j \in queue : pass.out[j] # None
  BY DEF Joined
<1> HIDE DEF queue
<1>3. pass' \in OutPass /\ pass'.pc = "next" /\ pass'.queue = queue /\ pass'.out = pass.out
  BY <1>1, <1>2 DEF OutPass
<1>4. ToWrite' \subseteq ToWrite /\ WayOK'
  BY <1>1, <1>2, <1>3 DEF ToWrite, WayOK
<1>5. QED
  BY <1>1, <1>3, <1>4, BaseQuiet DEF Joined

\* The end of a pass, however it comes.
LEMMA IdleBase ==
    ASSUME BaseInv, EndPass \/ Kill
    PROVE  BaseInv'
<1>1. pass' \in OutPass /\ pass'.pc = "idle"
  BY IdleType DEF EndPass, Kill
<1>2. ToWrite' \subseteq ToWrite /\ WayOK'
  BY <1>1 DEF ToWrite, WayOK
<1>3. log' \in [Jobs -> Seq(LogLine)] /\ faults' \in Nat
  <2>1. log \in [Jobs -> Seq(LogLine)] /\ faults \in Nat
    BY DEF BaseInv, OTypeOK
  <2>2. CASE EndPass
    BY <2>1, <2>2 DEF EndPass
  <2>3. CASE Kill
    BY <2>1, <2>3, CutShortType DEF Kill
  <2>4. QED
    BY <2>2, <2>3
<1>4. QED
  BY <1>1, <1>2, <1>3, BaseQuiet DEF EndPass, Kill

LEMMA NextJobBase == ASSUME BaseInv, NextJob PROVE BaseInv'
<1>1. PICK i \in DOMAIN Vector :
          Vector[i] \in pass.queue /\ pass' = [pass EXCEPT !.pc = "file", !.snap = Vector[i]]
  BY DEF NextJob
<1>2. pass \in OutPass /\ pass.pc = "next" /\ log \in [Jobs -> Seq(LogLine)] /\ faults \in Nat
  BY DEF NextJob, BaseInv, OTypeOK
<1>3. /\ pass' \in OutPass /\ pass'.pc = "file" /\ pass'.queue = pass.queue
      /\ pass'.out = pass.out /\ pass'.snap \in pass.queue
  BY <1>1, <1>2 DEF OutPass
<1>4. ToWrite' \subseteq ToWrite /\ WayOK'
  BY <1>2, <1>3 DEF ToWrite, WayOK, BaseInv
<1>5. QED
  BY <1>2, <1>3, <1>4, BaseQuiet DEF NextJob

\* The one step that writes a file: it gets a name of its own, and is the only
\* one of this run.
LEMMA WriteMdFacts ==
    ASSUME BaseInv, NEW stamp \in 1..MaxStamp, WriteMd(stamp)
    PROVE  \E new \in OutFile :
               /\ new.name = unique_run_md(pass.snap, stamp)
               /\ new.name \in Named
               /\ new.status = pass.out[pass.snap].status
               /\ new.run = passes
               /\ \A f \in dir[pass.snap] : f.name # new.name /\ f.run < passes
               /\ dir' = [dir EXCEPT ![pass.snap] = dir[pass.snap] \cup {new}]
<1> DEFINE s    == pass.snap
           name == unique_run_md(s, stamp)
           new  == [name |-> name, status |-> pass.out[s].status,
                    text |-> pass.out[s].markdown, run |-> passes]
<1>1. s \in Jobs /\ s \in pass.queue /\ pass.out[s] \in Screened
  BY SnapIsJob DEF WriteMd
<1>2. stamp \in Nat
  BY BoundsAssumption
<1>3. name \in Named /\ \A f \in dir[s] : f.name # name
  BY <1>1, <1>2, UniqueIsFree DEF BaseInv, FilesOK
<1>4. \A f \in dir[s] : f.run < passes
  BY <1>1 DEF WriteMd, BaseInv, NoFileYet, ToWrite
<1>5. dir' = [dir EXCEPT ![s] = {f \in dir[s] : f.name # name} \cup {new}]
  BY DEF WriteMd
<1> HIDE DEF name
<1>6. new \in OutFile
  BY <1>1, <1>3 DEF OutFile, Screened, RunOutput, BaseInv, OTypeOK
<1>7. {f \in dir[s] : f.name # name} = dir[s]
  BY <1>3
<1>8. new.name = name /\ new.status = pass.out[s].status /\ new.run = passes
  OBVIOUS
<1> HIDE DEF new
<1>9. QED
  BY <1>3, <1>4, <1>5, <1>6, <1>7, <1>8 DEF name

LEMMA WriteMdBase ==
    ASSUME BaseInv, NEW stamp \in 1..MaxStamp, WriteMd(stamp)
    PROVE  BaseInv'
<1> DEFINE s == pass.snap
<1>1. s \in Jobs /\ s \in pass.queue /\ pass.pc = "file"
  BY SnapIsJob DEF WriteMd
<1>2. PICK new \in OutFile :
          /\ new.name = unique_run_md(s, stamp)
          /\ new.name \in Named
          /\ new.status = pass.out[s].status
          /\ new.run = passes
          /\ \A f \in dir[s] : f.name # new.name /\ f.run < passes
          /\ dir' = [dir EXCEPT ![s] = dir[s] \cup {new}]
  BY WriteMdFacts
<1>3. pass \in OutPass /\ pass' = [pass EXCEPT !.pc = "log", !.name = new.name]
  BY <1>2 DEF WriteMd, BaseInv, OTypeOK
<1>4. /\ pass' \in OutPass /\ pass'.pc = "log" /\ pass'.name = new.name
      /\ pass'.queue = pass.queue /\ pass'.out = pass.out /\ pass'.snap = s
  BY <1>2, <1>3 DEF OutPass
<1>5. UNCHANGED <<deliver, log, passes, faults>>
  BY DEF WriteMd
<1>6. /\ dir \in [Jobs -> SUBSET OutFile] /\ passes \in Nat
      /\ dir'[s] = dir[s] \cup {new}
      /\ \A j \in Jobs \ {s} : dir'[j] = dir[j]
  BY <1>1, <1>2 DEF BaseInv, OTypeOK
<1>7. OTypeOK'
  BY <1>1, <1>2, <1>4, <1>5, <1>6 DEF BaseInv, OTypeOK
<1>8. FilesOK'
  <2>1. ASSUME NEW j \in Jobs
        PROVE  IsFiniteSet(dir'[j]) /\ Distinct(dir'[j]) /\ \A f \in dir'[j] : f.run <= passes
    <3>1. IsFiniteSet(dir[j]) /\ Distinct(dir[j]) /\ \A f \in dir[j] : f.run <= passes
      BY DEF BaseInv, FilesOK
    <3>2. CASE j = s
      <4>1. IsFiniteSet(dir'[j])
        BY <1>6, <3>1, <3>2, FS_AddElement
      <4>2. Distinct(dir'[j])
        <5>1. \A f \in dir[s] : f.name # new.name /\ f.run # new.run
          BY <1>1, <1>2, <1>6 DEF OutFile
        <5>2. QED
          BY <1>6, <3>1, <3>2, <5>1 DEF Distinct
      <4>3. QED
        BY <1>2, <1>6, <3>1, <3>2, <4>1, <4>2
    <3>3. CASE j # s
      BY <1>6, <3>1, <3>3
    <3>4. QED
      BY <3>2, <3>3
  <2>2. QED
    BY <1>5, <2>1 DEF FilesOK
<1>9. WayOK'
  <2>1. Written'
    BY <1>2, <1>4, <1>6 DEF Written
  <2>2. QED
    BY <1>1, <1>2, <1>4, <2>1 DEF WayOK, BaseInv
<1>10. NoFileYet'
  <2>1. ToWrite' = pass.queue \ {s} /\ ToWrite = pass.queue /\ pass.queue \subseteq Jobs
    BY <1>1, <1>3, <1>4 DEF ToWrite, OutPass
  <2>2. QED
    BY <1>5, <1>6, <2>1 DEF NoFileYet, BaseInv
<1>11. QED
  BY <1>7, <1>8, <1>9, <1>10 DEF BaseInv


\* The line is written, or it is not and the next sink has its turn.
LEMMA AfterFileBase ==
    ASSUME BaseInv, AppendLog \/ FileFails
    PROVE  BaseInv'
<1>1. pass \in OutPass /\ faults \in Nat /\ log \in [Jobs -> Seq(LogLine)]
      /\ pass.pc \in {"file", "log"}
  BY DEF BaseInv, OTypeOK, AppendLog, FileFails
<1>2. pass.snap \in Jobs /\ pass.snap \in pass.queue
  BY <1>1, SnapIsJob
<1>3. /\ pass' \in OutPass /\ pass'.pc = "hook" /\ pass'.queue = pass.queue
      /\ pass'.out = pass.out /\ pass'.snap = pass.snap
  <2>1. CASE AppendLog
    BY <1>1, <2>1 DEF AppendLog, OutPass
  <2>2. CASE FileFails
    <3>1. pass' = [pass EXCEPT !.pc = "hook", !.reported = pass.reported \cup {pass.snap}]
      BY <2>2 DEF FileFails
    <3>2. QED
      BY <1>1, <1>2, <3>1 DEF OutPass
  <2>3. QED
    BY <2>1, <2>2
<1>4. log' \in [Jobs -> Seq(LogLine)] /\ faults' \in Nat
  <2>1. CASE AppendLog
    BY <1>1, <1>2, <2>1, LineType, LogAdds DEF AppendLog
  <2>2. CASE FileFails
    BY <1>1, <2>2, CutShortType DEF FileFails
  <2>3. QED
    BY <2>1, <2>2
<1>5. ToWrite' \subseteq ToWrite /\ WayOK'
  BY <1>1, <1>2, <1>3 DEF ToWrite, WayOK, BaseInv
<1>6. QED
  BY <1>3, <1>4, <1>5, BaseQuiet DEF AppendLog, FileFails

HookStep == SkipTarget \/ BlockTarget \/ PostAcked \/ PostFails

LEMMA NextTargetType ==
    ASSUME pass \in OutPass, NEW error \in BOOLEAN
    PROVE  /\ NextTarget(error) \in OutPass
           /\ NextTarget(error).pc = pass.pc
           /\ NextTarget(error).queue = pass.queue
           /\ NextTarget(error).out = pass.out
           /\ NextTarget(error).snap = pass.snap
           /\ NextTarget(error).allowlist = pass.allowlist
           /\ NextTarget(error).k = pass.k + 1
           /\ NextTarget(error).attempt = 0
           /\ NextTarget(error).error = (pass.error \/ error)
<1> DEFINE e == pass.error \/ error
<1>1. e \in BOOLEAN
  BY DEF OutPass
<1>2. NextTarget(error) = [pass EXCEPT !.k = pass.k + 1, !.attempt = 0, !.error = e]
  BY DEF NextTarget
<1> HIDE DEF e
<1>3. /\ NextTarget(error) \in OutPass
      /\ NextTarget(error).k = pass.k + 1
      /\ NextTarget(error).attempt = 0
      /\ NextTarget(error).error = e
  <2> DEFINE l == pass.k + 1
  <2>1. l \in Nat
    BY DEF OutPass
  <2>2. NextTarget(error) = [pass EXCEPT !.k = l, !.attempt = 0, !.error = e]
    BY <1>2
  <2> HIDE DEF l
  <2>3. NextTarget(error) \in OutPass
    <3>1. 0 \in 0..2
      OBVIOUS
    <3>2. CASE e = TRUE
      BY <2>1, <2>2, <3>1, <3>2 DEF OutPass
    <3>3. CASE e = FALSE
      BY <2>1, <2>2, <3>1, <3>3 DEF OutPass
    <3>4. QED
      BY <1>1, <3>2, <3>3
  <2>4. /\ NextTarget(error).k = l
        /\ NextTarget(error).attempt = 0
        /\ NextTarget(error).error = e
    BY <2>2 DEF OutPass
  <2>5. QED
    BY <2>3, <2>4 DEF l
<1>4. /\ NextTarget(error).pc = pass.pc
      /\ NextTarget(error).queue = pass.queue
      /\ NextTarget(error).out = pass.out
      /\ NextTarget(error).snap = pass.snap
      /\ NextTarget(error).allowlist = pass.allowlist
  BY <1>2 DEF OutPass
<1>5. QED
  BY <1>3, <1>4 DEF e

\* What a step of the loop over the targets may change.
LEMMA HookStepFacts ==
    ASSUME BaseInv, HookStep
    PROVE  /\ pass.pc = "hook" /\ pass'.pc = "hook"
           /\ pass' \in OutPass
           /\ pass'.queue = pass.queue
           /\ pass'.out = pass.out
           /\ pass'.snap = pass.snap
           /\ pass'.allowlist = pass.allowlist
           /\ UNCHANGED <<deliver, dir, log, passes, faults>>
<1>1. pass \in OutPass
  BY DEF BaseInv, OTypeOK
<1>2. pass.pc = "hook" /\ UNCHANGED <<deliver, dir, log, passes, faults>>
  BY DEF HookStep, SkipTarget, BlockTarget, PostAcked, PostFails, MayPost, AtTarget
<1>3. CASE SkipTarget
  <2>1. pass' = [pass EXCEPT !.k = pass.k + 1]
    BY <1>3 DEF SkipTarget
  <2>2. QED
    BY <1>1, <1>2, <2>1 DEF OutPass
<1>4. CASE BlockTarget
  BY <1>1, <1>2, <1>4, NextTargetType DEF BlockTarget
<1>5. CASE PostAcked
  BY <1>1, <1>2, <1>5, NextTargetType DEF PostAcked
<1>6. CASE PostFails /\ pass.attempt < 2
  <2>1. pass' = [pass EXCEPT !.attempt = pass.attempt + 1] /\ pass.attempt + 1 \in 0..2
    BY <1>1, <1>6 DEF PostFails, OutPass
  <2>2. QED
    BY <1>1, <1>2, <2>1 DEF OutPass
<1>7. CASE PostFails /\ ~(pass.attempt < 2)
  BY <1>1, <1>2, <1>7, NextTargetType DEF PostFails
<1>8. QED
  BY <1>3, <1>4, <1>5, <1>6, <1>7 DEF HookStep

LEMMA HookBase == ASSUME BaseInv, HookStep PROVE BaseInv'
<1>1. log \in [Jobs -> Seq(LogLine)] /\ faults \in Nat
  BY DEF BaseInv, OTypeOK
<1>2. ToWrite' \subseteq ToWrite /\ WayOK'
  BY HookStepFacts DEF ToWrite, WayOK, BaseInv
<1>3. QED
  BY <1>1, <1>2, HookStepFacts, BaseQuiet

LEMMA HooksEndFacts ==
    ASSUME BaseInv, HooksEnd
    PROVE  /\ pass.pc = "hook" /\ pass'.pc = "next"
           /\ pass' \in OutPass
           /\ pass'.queue = pass.queue \ {pass.snap}
           /\ pass'.out = pass.out
           /\ pass'.k = 1 /\ pass'.attempt = pass.attempt /\ pass'.error = FALSE
<1>1. pass \in OutPass /\ pass.pc = "hook"
  BY DEF BaseInv, OTypeOK, HooksEnd
<1>2. pass.snap \in Jobs
  BY <1>1, SnapIsJob
<1> DEFINE reported == IF pass.error THEN pass.reported \cup {pass.snap} ELSE pass.reported
<1>3. pass' = [pass EXCEPT !.pc       = "next",
                           !.queue    = pass.queue \ {pass.snap},
                           !.snap     = None,
                           !.name     = None,
                           !.k        = 1,
                           !.error    = FALSE,
                           !.reported = reported]
  BY DEF HooksEnd
<1>4. reported \in SUBSET Jobs
  BY <1>1, <1>2 DEF OutPass
<1> HIDE DEF reported
<1>5. QED
  BY <1>1, <1>3, <1>4 DEF OutPass

LEMMA HooksEndBase == ASSUME BaseInv, HooksEnd PROVE BaseInv'
<1>1. log \in [Jobs -> Seq(LogLine)] /\ faults \in Nat
  BY DEF BaseInv, OTypeOK
<1>2. ToWrite' \subseteq ToWrite /\ WayOK'
  BY HooksEndFacts DEF ToWrite, WayOK, BaseInv
<1>3. QED
  BY <1>1, <1>2, HooksEndFacts, BaseQuiet DEF HooksEnd

\* All the steps, and the ones that deliver.
LEMMA Steps ==
    ASSUME Next
    PROVE  \/ StartPass \/ (\E j \in Jobs : RunOne(j)) \/ Joined
           \/ NextJob \/ (\E stamp \in 1..MaxStamp : WriteMd(stamp))
           \/ AppendLog \/ FileFails \/ HookStep \/ HooksEnd \/ EndPass \/ Kill
BY DEF Next, Delivering, HookStep

LEMMA BaseInductive ==
    ASSUME BaseInv, [Next]_vars
    PROVE  BaseInv'
<1>1. CASE Next
  BY <1>1, Steps, StartPassBase, RunOneBase, JoinedBase, NextJobBase, WriteMdBase,
     AfterFileBase, HookBase, HooksEndBase, IdleBase
<1>2. CASE UNCHANGED vars
  BY <1>2 DEF vars, BaseInv, OTypeOK, FilesOK, Distinct, WayOK, Written, NoFileYet, ToWrite
<1>3. QED
  BY <1>1, <1>2

\* A job is only there when its options could be parsed.
LEMMA TargetsType ==
    ASSUME NEW specs \in Seq(Option), NEW default \in Defaults,
           parse_deliver(specs, default) # None
    PROVE  parse_deliver(specs, default) \in Seq(DeliveryTarget)
<1>1. Len(specs) \in Nat /\ DOMAIN specs = 1..Len(specs) /\ default \in Url \cup {None}
  BY ConfigAssumption
<1>2. CASE specs = <<>>
  <2>1. parse_deliver(specs, default) = <<File>>
    BY <1>2 DEF parse_deliver
  <2>2. File \in DeliveryTarget
    BY DEF File, DeliveryTarget
  <2>3. QED
    BY <2>1, <2>2
<1>3. CASE specs # <<>>
  <2> DEFINE target(i) == CASE specs[i].kind = "file"    -> File
                            [] specs[i].kind = "webhook" -> Webhook(default)
                            [] specs[i].kind = "url"     -> Webhook(specs[i].url)
  <2>1. ~\E i \in DOMAIN specs : \/ specs[i].kind = "webhook" /\ default = None
                                 \/ specs[i].kind = "other"
    BY DEF parse_deliver
  <2>2. parse_deliver(specs, default) = [i \in 1..Len(specs) |-> target(i)]
    BY <1>1, <1>3, <2>1 DEF parse_deliver
  <2>3. ASSUME NEW i \in 1..Len(specs) PROVE target(i) \in DeliveryTarget
    <3>1. specs[i] \in Option /\ specs[i].kind # "other"
          /\ (specs[i].kind = "webhook" => default \in Url)
      BY <1>1, <2>1
    <3>2. specs[i].kind \in {"file", "webhook", "url"}
          /\ (specs[i].kind = "url" => specs[i].url \in Url)
      BY <3>1 DEF Option
    <3>3. QED
      BY <3>1, <3>2 DEF File, Webhook, DeliveryTarget
  <2> HIDE DEF target
  <2>4. QED
    BY <1>1, <2>2, <2>3
<1>4. QED
  BY <1>2, <1>3

LEMMA BaseInit == Init => BaseInv
<1> SUFFICES ASSUME Init PROVE BaseInv
  OBVIOUS
<1>1. deliver \in [Jobs -> Seq(DeliveryTarget)]
  <2>1. PICK default \in Defaults :
             /\ \A j \in Jobs : parse_deliver(Specs[j], default) # None
             /\ deliver = [j \in Jobs |-> parse_deliver(Specs[j], default)]
    BY DEF Init
  <2>2. \A j \in Jobs : parse_deliver(Specs[j], default) \in Seq(DeliveryTarget)
    BY <2>1, TargetsType, DefsAssumption
  <2>3. QED
    BY <2>1, <2>2
<1>2. OTypeOK
  BY <1>1, IdleType DEF Init, OTypeOK
<1>3. FilesOK
  BY FS_EmptySet DEF Init, FilesOK, Distinct
<1>4. WayOK /\ NoFileYet
  BY IdleType DEF Init, WayOK, NoFileYet, ToWrite
<1>5. QED
  BY <1>2, <1>3, <1>4 DEF BaseInv

LEMMA BaseAlways == Spec => []BaseInv
<1>1. QED
  BY BaseInit, BaseInductive, PTL DEF Spec


-----------------------------------------------------------------------------
(* Files, prompts and decisions *)

\* NeverOverwritten: a pass that comes later, a clock that gives a stamp again or
\* is set back, a write that fails or a kill never takes the file of an earlier
\* run from the history (unique_run_md and the rename of atomic_write).
THEOREM HistoryIsKept == Spec => NeverOverwritten
<1>1. BaseInv /\ [Next]_vars => [\A j \in Jobs : dir[j] \subseteq dir'[j]]_vars
  <2> SUFFICES ASSUME BaseInv, Next
               PROVE  \A j \in Jobs : dir[j] \subseteq dir'[j]
    OBVIOUS
  <2>1. CASE UNCHANGED dir
    BY <2>1
  <2>2. CASE \E stamp \in 1..MaxStamp : WriteMd(stamp)
    <3>1. PICK stamp \in 1..MaxStamp : WriteMd(stamp)
      BY <2>2
    <3>2. PICK new \in OutFile : dir' = [dir EXCEPT ![pass.snap] = dir[pass.snap] \cup {new}]
      BY <3>1, WriteMdFacts
    <3>3. dir \in [Jobs -> SUBSET OutFile]
      BY DEF BaseInv, OTypeOK
    <3>4. QED
      BY <3>2, <3>3
  <2>3. CASE HookStep
    BY <2>1, <2>3, HookStepFacts
  <2>4. QED
    BY <2>1, <2>2, <2>3, Steps DEF StartPass, RunOne, Joined, NextJob, AppendLog, FileFails,
       HooksEnd, EndPass, Kill
<1>2. QED
  BY <1>1, BaseAlways, PTL DEF Spec, NeverOverwritten

\* A name has a suffix because an earlier run has the stamp without one.
FirstIsBare ==
    \A j \in Jobs : \A f \in dir[j] : f.name.suffix # 0 =>
        \E g \in dir[j] :
            g.name.stamp = f.name.stamp /\ g.name.suffix = 0 /\ g.run < f.run

\* unique_run_md takes the bare stamp if it can.
LEMMA SuffixedLater ==
    ASSUME NEW j \in Jobs, NEW stamp \in Nat, IsFiniteSet(dir[j]),
           unique_run_md(j, stamp).suffix # 0
    PROVE  \E g \in dir[j] : g.name = [stamp |-> stamp, suffix |-> 0]
<1> DEFINE N(suffix) == [stamp |-> stamp, suffix |-> suffix]
           free == {s \in 0..Cardinality(dir[j]) : \A f \in dir[j] : f.name # N(s)}
           least == CHOOSE s \in free : \A r \in free : s <= r
<1> SUFFICES ASSUME \A g \in dir[j] : g.name # N(0) PROVE FALSE
  OBVIOUS
<1>1. Cardinality(dir[j]) \in Nat
  BY FS_CardinalityType
<1>2. 0 \in free /\ \A r \in free : 0 <= r
  BY <1>1
<1>3. least = 0
  <2>1. \A r \in free : r \in Nat
    BY <1>1
  <2> HIDE DEF free
  <2>2. least \in free /\ \A r \in free : least <= r
    BY <1>2
  <2>3. least \in Nat /\ least <= 0
    BY <1>2, <2>1, <2>2
  <2>4. QED
    BY <2>3
<1>4. unique_run_md(j, stamp) = N(least)
  BY DEF unique_run_md
<1> HIDE DEF least
<1>5. QED
  BY <1>3, <1>4

LEMMA FirstIsBareInductive ==
    ASSUME BaseInv, FirstIsBare, [Next]_vars
    PROVE  FirstIsBare'
<1>1. CASE UNCHANGED dir
  BY <1>1 DEF FirstIsBare
<1>2. CASE \E stamp \in 1..MaxStamp : WriteMd(stamp)
  <2>1. PICK stamp \in 1..MaxStamp : WriteMd(stamp)
    BY <1>2
  <2> DEFINE s == pass.snap
  <2>2. PICK new \in OutFile :
            /\ new.name = unique_run_md(s, stamp)
            /\ new.run = passes
            /\ dir' = [dir EXCEPT ![s] = dir[s] \cup {new}]
    BY <2>1, WriteMdFacts
  <2>3. /\ s \in Jobs /\ s \in ToWrite /\ IsFiniteSet(dir[s]) /\ stamp \in Nat
        /\ dir \in [Jobs -> SUBSET OutFile] /\ unique_run_md(s, stamp).stamp = stamp
    <3>1. pass.pc = "file" /\ stamp \in Nat
      BY <2>1, BoundsAssumption DEF WriteMd
    <3>2. s \in Jobs /\ s \in pass.queue
      BY <3>1, SnapIsJob
    <3>3. IsFiniteSet(dir[s]) /\ dir \in [Jobs -> SUBSET OutFile]
      BY <3>2 DEF BaseInv, OTypeOK, FilesOK
    <3>4. QED
      BY <3>1, <3>2, <3>3, UniqueIsFree DEF ToWrite
  <2>4. ASSUME new.name.suffix # 0
        PROVE  \E g \in dir[s] :
                   g.name.stamp = new.name.stamp /\ g.name.suffix = 0 /\ g.run < new.run
    <3>1. PICK g \in dir[s] : g.name = [stamp |-> stamp, suffix |-> 0]
      BY <2>2, <2>3, <2>4, SuffixedLater
    <3>2. g.run < passes
      BY <2>3, <3>1 DEF BaseInv, NoFileYet
    <3>3. QED
      BY <2>2, <2>3, <3>1, <3>2
  <2> HIDE DEF s
  <2>5. ASSUME NEW j \in Jobs, NEW f \in dir'[j], f.name.suffix # 0
        PROVE  \E g \in dir'[j] :
                   g.name.stamp = f.name.stamp /\ g.name.suffix = 0 /\ g.run < f.run
    <3>1. dir[j] \subseteq dir'[j] /\ (f \in dir[j] \/ (j = s /\ f = new))
      BY <2>2, <2>3
    <3>2. CASE f \in dir[j]
      BY <2>5, <3>1, <3>2 DEF FirstIsBare
    <3>3. CASE j = s /\ f = new
      BY <2>4, <2>5, <3>1, <3>3
    <3>4. QED
      BY <3>1, <3>2, <3>3
  <2>6. QED
    BY <2>5 DEF FirstIsBare
<1>3. CASE HookStep
  BY <1>1, <1>3, HookStepFacts
<1>4. QED
  BY <1>1, <1>2, <1>3, Steps DEF StartPass, RunOne, Joined, NextJob, AppendLog, FileFails,
     HooksEnd, EndPass, Kill, vars

\* ContextIsFirstOfLatestStamp: the last name in a directory has no suffix, since
\* '-' sorts before '.' and no run gets a suffix before another has the stamp; so
\* latest_output is the first run of the latest stamp, for any number of passes
\* and clocks that repeat stamps or are set back.
THEOREM ContextHasTheLatestStamp == Spec => []ContextIsFirstOfLatestStamp
<1>1. Init => FirstIsBare
  BY DEF Init, FirstIsBare
<1>2. BaseInv /\ FirstIsBare /\ [Next]_vars => FirstIsBare'
  BY FirstIsBareInductive
<1>3. BaseInv /\ FirstIsBare => ContextIsFirstOfLatestStamp
  <2> SUFFICES ASSUME BaseInv, FirstIsBare, NEW j \in Jobs, dir[j] # {},
                      NEW f \in dir[j] \ {latest_output(j)}
               PROVE  \/ f.name.stamp < latest_output(j).name.stamp
                      \/ /\ f.name.stamp = latest_output(j).name.stamp
                         /\ latest_output(j).run < f.run
    BY DEF ContextIsFirstOfLatestStamp
  <2> DEFINE m == latest_output(j)
  <2>1. m \in dir[j] /\ IsLatest(m, dir[j])
    BY LatestIs DEF BaseInv
  <2>2. dir[j] \in SUBSET OutFile /\ Distinct(dir[j]) /\ f \in dir[j] /\ f # m
    BY DEF BaseInv, OTypeOK, FilesOK
  <2> HIDE DEF m
  <2>3. \A g \in dir[j] : g.name \in Named /\ g.name.stamp \in Nat /\ g.name.suffix \in Nat
    BY <2>2 DEF OutFile, Named
  <2>4. m.name.suffix = 0
    <3> SUFFICES ASSUME m.name.suffix # 0 PROVE FALSE
      OBVIOUS
    <3>1. PICK g \in dir[j] :
              g.name.stamp = m.name.stamp /\ g.name.suffix = 0 /\ g.run < m.run
      BY <2>1 DEF FirstIsBare
    <3>2. Before(m.name, g.name) /\ g # m
      BY <3>1 DEF Before
    <3>3. Before(g.name, m.name)
      BY <2>1, <3>1, <3>2 DEF IsLatest
    <3>4. QED
      BY <2>1, <2>3, <3>2, <3>3, BeforeTotal
  <2>5. Before(f.name, m.name)
    BY <2>1, <2>2 DEF IsLatest
  <2>6. CASE f.name.stamp < m.name.stamp
    BY <2>6 DEF m
  <2>7. CASE f.name.stamp = m.name.stamp /\ f.name.suffix # 0
    <3>1. PICK g \in dir[j] :
              g.name.stamp = f.name.stamp /\ g.name.suffix = 0 /\ g.run < f.run
      BY <2>2, <2>7 DEF FirstIsBare
    <3>2. g.name = m.name
      BY <2>1, <2>3, <2>4, <2>7, <3>1 DEF Named
    <3>3. g = m
      BY <2>1, <2>2, <3>1, <3>2 DEF Distinct
    <3>4. QED
      BY <2>7, <3>1, <3>3 DEF m
  <2>8. QED
    BY <2>5, <2>6, <2>7 DEF Before
<1>4. QED
  BY <1>1, <1>2, <1>3, BaseAlways, PTL DEF Spec

\* AgentPromptsAreClean: what an agent was handed holds no pattern, in one line
\* or over a line break, though the context it quotes was written by another job
\* in an earlier pass (run_one and CodexExecutor::run scan it assembled).
THEOREM AgentsAreHandedCleanPrompts == Spec => []AgentPromptsAreClean
<1>1. BaseInv => AgentPromptsAreClean
  <2> SUFFICES ASSUME BaseInv, NEW j \in Jobs, pass.out[j] # None, pass.out[j].prompt # None
               PROVE  ~Poisoned(pass.out[j].prompt)
    BY DEF AgentPromptsAreClean
  <2>1. pass.out[j] \in Screened
    BY DEF BaseInv, OTypeOK, OutPass
  <2>2. pass.out[j].prompt \in Text /\ ~scan(pass.out[j].prompt)
    BY <2>1 DEF Screened, RunOutput
  <2>3. QED
    BY <2>2, ScanFindsPatterns
<1>2. QED
  BY <1>1, BaseAlways, PTL

\* DecisionStands: the first line of an output that has the schema decides,
\* whatever its child wrote around it (parse_event_loop_decision).
THEOREM FirstDecisionStands == Spec => []DecisionStands
<1>1. BaseInv => DecisionStands
  <2> SUFFICES ASSUME BaseInv, NEW j \in Jobs, pass.out[j] # None,
                      NEW i \in DOMAIN pass.out[j].markdown,
                      pass.out[j].markdown[i] \in Schematic,
                      \A k \in 1..(i - 1) : pass.out[j].markdown[k] \in Plain
               PROVE  parse_event_loop_decision(pass.out[j].markdown) =
                          IF pass.out[j].markdown[i] \in Actions THEN pass.out[j].markdown[i]
                                                                 ELSE "fail"
    BY DEF DecisionStands
  <2>1. pass.out[j].markdown \in Text
    BY DEF BaseInv, OTypeOK, OutPass, Screened, RunOutput
  <2>2. QED
    BY <2>1, FirstDecides
<1>2. QED
  BY <1>1, BaseAlways, PTL

-----------------------------------------------------------------------------
(* Posts *)

\* Whether the k-th target of the snapshot at hand is one that hears of it.
Hears(k) == LET target == deliver[pass.snap][k]
            IN  target.kind = "webhook" /\ allowed(target.url)

Unanswered(k) == deliver[pass.snap][k].kind = "webhook" /\ ~posts[k].acked

Settled(k) == IF Hears(k) THEN /\ posts[k].tried <= 3
                               /\ posts[k].acked \/ posts[k].tried = 3
                          ELSE posts[k].tried = 0

Unheard(k) == posts[k].tried = 0 /\ ~posts[k].acked

Targets == 1..Len(deliver[pass.snap])

PostsType == posts \in [Targets -> [tried : Nat, acked : BOOLEAN]]

\* The loop has done with the targets before k, is at its attempt on target k,
\* and has not come to the others.
LoopInv ==
    /\ PostsType
    /\ pass.k \in 1..(Len(deliver[pass.snap]) + 1)
    /\ \A i \in Targets : i < pass.k => Settled(i)
    /\ \A i \in Targets : i > pass.k => Unheard(i)
    /\ pass.k \in Targets => /\ posts[pass.k].tried = pass.attempt
                             /\ ~posts[pass.k].acked
                             /\ ~Hears(pass.k) => pass.attempt = 0
    /\ pass.k \notin Targets => pass.attempt = 0
    /\ pass.error <=> \E i \in Targets : i < pass.k /\ Unanswered(i)

HookInv ==
    /\ pass.pc \in {"run", "next", "file", "log"} =>
           pass.k = 1 /\ pass.attempt = 0 /\ pass.error = FALSE
    /\ pass.pc \in {"file", "log"} => PostsType /\ \A i \in Targets : Unheard(i)
    /\ pass.pc = "hook" => LoopInv


LEMMA TargetsAre ==
    ASSUME BaseInv, pass.pc \in {"file", "log", "hook"}
    PROVE  /\ deliver[pass.snap] \in Seq(DeliveryTarget)
           /\ Len(deliver[pass.snap]) \in Nat
           /\ DOMAIN deliver[pass.snap] = Targets
           /\ \A k \in Targets : deliver[pass.snap][k].kind \in {"file", "webhook"}
<1>1. deliver[pass.snap] \in Seq(DeliveryTarget)
  BY SnapIsJob DEF BaseInv, OTypeOK
<1>2. \A k \in Targets : deliver[pass.snap][k] \in DeliveryTarget
  BY <1>1 DEF Targets
<1>3. QED
  BY <1>1, <1>2 DEF Targets, DeliveryTarget

\* The loop goes on to the next target: what it leaves behind is settled, and
\* an error is kept.
LEMMA Advance ==
    ASSUME BaseInv, HookStep, LoopInv, pass.k \in Targets,
           pass'.k = pass.k + 1, pass'.attempt = 0,
           PostsType', \A i \in Targets \ {pass.k} : posts'[i] = posts[i],
           IF Hears(pass.k) THEN /\ posts'[pass.k].tried <= 3
                                 /\ posts'[pass.k].acked \/ posts'[pass.k].tried = 3
                            ELSE posts'[pass.k].tried = 0,
           pass'.error <=> \/ pass.error
                           \/ /\ deliver[pass.snap][pass.k].kind = "webhook"
                              /\ ~posts'[pass.k].acked
    PROVE  LoopInv'
<1> DEFINE n == Len(deliver[pass.snap])
<1>0. PICK k : k = pass.k
  OBVIOUS
<1>1. /\ pass'.snap = pass.snap /\ pass'.allowlist = pass.allowlist /\ deliver' = deliver
      /\ pass.pc = "hook"
  BY HookStepFacts
<1>2. n \in Nat /\ k \in 1..n /\ Targets = 1..n /\ Targets' = Targets
  BY <1>0, <1>1, TargetsAre DEF Targets
<1>3. \A i \in Targets : Hears(i)' <=> Hears(i)
  BY <1>1 DEF Hears, allowed, host_of
<1>4. \A i \in Targets \ {k} : /\ Settled(i)' <=> Settled(i)
                               /\ Unheard(i)' <=> Unheard(i)
                               /\ Unanswered(i)' <=> Unanswered(i)
  BY <1>0, <1>1, <1>3 DEF Settled, Unheard, Unanswered
<1>5. Settled(k)' /\ (Unanswered(k)' <=> /\ deliver[pass.snap][k].kind = "webhook"
                                         /\ ~posts'[k].acked)
  BY <1>0, <1>1, <1>2, <1>3 DEF Settled, Unanswered
<1>6. pass'.k = k + 1 /\ pass'.attempt = 0
  BY <1>0
<1> HIDE DEF n
<1>7. k + 1 \in 1..(n + 1)
  BY <1>2
<1>8. \A i \in Targets : i < k + 1 => Settled(i)'
  <2>1. \A i \in Targets : i < k => Settled(i)
    BY <1>0 DEF LoopInv
  <2>2. QED
    BY <1>2, <1>4, <1>5, <2>1
<1>9. \A i \in Targets : i > k => Unheard(i)'
  <2>1. \A i \in Targets : i > k => Unheard(i)
    BY <1>0 DEF LoopInv
  <2>2. QED
    BY <1>2, <1>4, <2>1
<1>10. k + 1 \in Targets => Unheard(k + 1)'
  BY <1>2, <1>9
<1>11. pass'.error <=> \E i \in Targets : i < k + 1 /\ Unanswered(i)'
  <2>1. pass.error <=> \E i \in Targets : i < k /\ Unanswered(i)
    BY <1>0 DEF LoopInv
  <2>2. (\E i \in Targets : i < k /\ Unanswered(i))
            <=> (\E i \in Targets : i < k /\ Unanswered(i)')
    BY <1>2, <1>4
  <2>3. (\E i \in Targets : i < k + 1 /\ Unanswered(i)')
            <=> (\E i \in Targets : i < k /\ Unanswered(i)') \/ Unanswered(k)'
    BY <1>2
  <2>4. pass'.error <=> pass.error \/ Unanswered(k)'
    BY <1>0, <1>5
  <2>5. QED
    BY <2>1, <2>2, <2>3, <2>4
<1>12. \A i \in Targets : i > k + 1 => Unheard(i)'
  BY <1>2, <1>9
<1>13. k + 1 \in Targets => /\ posts'[k + 1].tried = 0
                            /\ ~posts'[k + 1].acked
  BY <1>10 DEF Unheard
<1>14. n' = n
  BY <1>1 DEF n
<1>15. QED
  BY <1>0, <1>1, <1>2, <1>6, <1>7, <1>8, <1>11, <1>12, <1>13, <1>14 DEF LoopInv, n

LEMMA PostedPosts ==
    ASSUME PostsType, pass.k \in Targets, pass'.snap = pass.snap, deliver' = deliver,
           NEW acked \in BOOLEAN, Posted(acked)
    PROVE  /\ PostsType'
           /\ \A i \in Targets \ {pass.k} : posts'[i] = posts[i]
           /\ posts'[pass.k].tried = posts[pass.k].tried + 1
           /\ posts'[pass.k].acked = acked
<1> DEFINE new == [tried |-> posts[pass.k].tried + 1, acked |-> acked]
<1>1. posts' = [posts EXCEPT ![pass.k] = new]
  BY DEF Posted
<1>2. new \in [tried : Nat, acked : BOOLEAN]
      /\ new.tried = posts[pass.k].tried + 1 /\ new.acked = acked
  BY DEF PostsType
<1>3. Targets' = Targets
  BY DEF Targets
<1> HIDE DEF new
<1>4. QED
  BY <1>1, <1>2, <1>3 DEF PostsType

LEMMA LoopInductive ==
    ASSUME BaseInv, LoopInv, HookStep
    PROVE  LoopInv'
<1>0. PICK k : k = pass.k
  OBVIOUS
<1>1. /\ pass'.snap = pass.snap /\ pass'.allowlist = pass.allowlist /\ deliver' = deliver
      /\ pass.pc = "hook"
  BY HookStepFacts
<1>2. AtTarget /\ k \in Targets
  <2>1. AtTarget
    BY DEF HookStep, SkipTarget, BlockTarget, PostAcked, PostFails, MayPost
  <2>2. k \in 1..(Len(deliver[pass.snap]) + 1) /\ k <= Len(deliver[pass.snap])
    BY <1>0, <2>1 DEF LoopInv, AtTarget
  <2>3. QED
    BY <1>1, <2>1, <2>2, TargetsAre DEF Targets
<1>3. pass \in OutPass /\ PostsType /\ pass.attempt \in 0..2
  BY DEF BaseInv, OTypeOK, LoopInv, OutPass
<1>4. posts[k].tried = pass.attempt /\ ~posts[k].acked /\ (~Hears(k) => pass.attempt = 0)
  BY <1>0, <1>2 DEF LoopInv
<1>5. Target = deliver[pass.snap][k]
  BY <1>0 DEF Target
<1>6. posts' = posts => PostsType'
  BY <1>1, <1>3 DEF PostsType, Targets
<1>7. CASE SkipTarget
  <2>1. pass' = [pass EXCEPT !.k = k + 1] /\ posts' = posts /\ Target.kind = "file"
    BY <1>0, <1>7 DEF SkipTarget
  <2>2. ~Hears(k)
    BY <1>5, <2>1 DEF Hears
  <2>3. pass'.k = k + 1 /\ pass'.attempt = pass.attempt /\ pass'.error = pass.error
    BY <1>3, <2>1 DEF OutPass
  <2>4. QED
    BY <1>0, <1>2, <1>4, <1>5, <1>6, <2>1, <2>2, <2>3, Advance
<1>8. CASE BlockTarget
  <2>1. pass' = NextTarget(TRUE) /\ posts' = posts
        /\ Target.kind = "webhook" /\ ~allowed(Target.url)
    BY <1>8 DEF BlockTarget
  <2>2. ~Hears(k)
    BY <1>5, <2>1 DEF Hears
  <2>3. pass'.k = k + 1 /\ pass'.attempt = 0 /\ pass'.error
    BY <1>0, <1>3, <2>1, NextTargetType
  <2>4. QED
    BY <1>0, <1>2, <1>4, <1>5, <1>6, <2>1, <2>2, <2>3, Advance
<1>9. ASSUME MayPost PROVE Hears(k)
  BY <1>5, <1>9 DEF MayPost, Hears
<1>10. CASE PostAcked
  <2>1. pass' = NextTarget(FALSE) /\ Posted(TRUE) /\ MayPost
    BY <1>10 DEF PostAcked
  <2>2. pass'.k = k + 1 /\ pass'.attempt = 0 /\ (pass'.error <=> pass.error)
    BY <1>0, <1>3, <2>1, NextTargetType
  <2>3. /\ PostsType' /\ \A i \in Targets \ {k} : posts'[i] = posts[i]
        /\ posts'[k].tried = posts[k].tried + 1 /\ posts'[k].acked
    BY <1>0, <1>1, <1>2, <1>3, <2>1, PostedPosts
  <2>4. posts'[k].tried <= 3
    BY <1>3, <1>4, <2>3
  <2>5. QED
    BY <1>0, <1>2, <1>9, <2>1, <2>2, <2>3, <2>4, Advance
<1>11. CASE PostFails
  <2>1. Posted(FALSE) /\ MayPost
    BY <1>11 DEF PostFails
  <2>2. /\ PostsType' /\ \A i \in Targets \ {k} : posts'[i] = posts[i]
        /\ posts'[k].tried = posts[k].tried + 1 /\ ~posts'[k].acked
    BY <1>0, <1>1, <1>2, <1>3, <2>1, PostedPosts
  <2>3. CASE pass.attempt < 2
    <3>1. pass' = [pass EXCEPT !.attempt = pass.attempt + 1]
      BY <1>11, <2>3 DEF PostFails
    <3>2. pass'.attempt = pass.attempt + 1 /\ pass'.k = k /\ pass'.error = pass.error
      BY <1>0, <1>3, <3>1 DEF OutPass
    <3>3. Targets' = Targets /\ \A i \in Targets : Hears(i)' <=> Hears(i)
      BY <1>1 DEF Targets, Hears, allowed, host_of
    <3>4. \A i \in Targets \ {k} : /\ Settled(i)' <=> Settled(i)
                                   /\ Unheard(i)' <=> Unheard(i)
                                   /\ Unanswered(i)' <=> Unanswered(i)
      BY <1>1, <2>2, <3>3 DEF Settled, Unheard, Unanswered
    <3>5. Len(deliver[pass.snap]) \in Nat /\ (Len(deliver[pass.snap]))' = Len(deliver[pass.snap])
      BY <1>1, TargetsAre
    <3>6. \A i \in Targets : i \in Nat
      BY <3>5 DEF Targets
    <3>7. \A i \in Targets : i < k => Settled(i)'
      BY <1>0, <1>2, <3>4, <3>6 DEF LoopInv
    <3>8. \A i \in Targets : i > k => Unheard(i)'
      BY <1>0, <1>2, <3>4, <3>6 DEF LoopInv
    <3>9. pass.error <=> \E i \in Targets : i < k /\ Unanswered(i)'
      <4>1. pass.error <=> \E i \in Targets : i < k /\ Unanswered(i)
        BY <1>0 DEF LoopInv
      <4>2. QED
        BY <1>0, <1>2, <3>4, <3>6, <4>1
    <3>10. k \in 1..(Len(deliver[pass.snap]) + 1)
      BY <1>0 DEF LoopInv
    <3>11. Hears(k)'
      BY <1>0, <1>2, <1>9, <2>1, <3>3
    <3>12. QED
      BY <1>0, <1>2, <1>4, <2>2, <3>2, <3>3, <3>5, <3>7, <3>8, <3>9, <3>10, <3>11 DEF LoopInv
  <2>4. CASE ~(pass.attempt < 2)
    <3>1. pass' = NextTarget(TRUE)
      BY <1>11, <2>4 DEF PostFails
    <3>2. pass'.k = k + 1 /\ pass'.attempt = 0 /\ pass'.error
      BY <1>0, <1>3, <3>1, NextTargetType
    <3>3. posts'[k].tried = 3
      BY <1>3, <1>4, <2>2, <2>4
    <3>4. deliver[pass.snap][k].kind = "webhook" /\ Hears(k)
      BY <1>9, <2>1 DEF Hears
    <3>5. QED
      BY <1>0, <1>2, <2>2, <3>2, <3>3, <3>4, Advance
  <2>5. QED
    BY <2>3, <2>4
<1>12. QED
  BY <1>7, <1>8, <1>10, <1>11 DEF HookStep


LEMMA HookInit == Init => HookInv
BY IdleType DEF Init, HookInv

LEMMA HookInductive ==
    ASSUME BaseInv, HookInv, [Next]_vars
    PROVE  HookInv'
<1>1. pass \in OutPass
  BY DEF BaseInv, OTypeOK
<1>2. CASE StartPass
  <2>1. pass'.pc = "run" /\ pass'.k = 1 /\ pass'.attempt = 0 /\ pass'.error = FALSE
    BY <1>2 DEF StartPass, Idle
  <2>2. QED
    BY <2>1 DEF HookInv
<1>3. CASE (\E j \in Jobs : RunOne(j)) \/ Joined
  <2>1. /\ pass.pc = "run" /\ pass'.pc \in {"run", "next"}
        /\ pass'.k = pass.k /\ pass'.attempt = pass.attempt /\ pass'.error = pass.error
    BY <1>1, <1>3 DEF RunOne, Joined, OutPass
  <2>2. QED
    BY <2>1 DEF HookInv
<1>4. CASE NextJob
  <2>1. PICK i \in DOMAIN Vector :
             /\ Vector[i] \in pass.queue
             /\ pass' = [pass EXCEPT !.pc = "file", !.snap = Vector[i]]
             /\ posts' = [k \in DOMAIN deliver[Vector[i]] |-> [tried |-> 0, acked |-> FALSE]]
    BY <1>4 DEF NextJob
  <2>2. /\ pass.pc = "next" /\ pass'.pc = "file" /\ pass'.snap = Vector[i]
        /\ pass'.k = pass.k /\ pass'.attempt = pass.attempt /\ pass'.error = pass.error
        /\ deliver' = deliver
    BY <1>1, <1>4, <2>1 DEF NextJob, OutPass
  <2>3. deliver[Vector[i]] \in Seq(DeliveryTarget)
    BY <1>1, <2>1 DEF BaseInv, OTypeOK, OutPass
  <2>4. DOMAIN deliver[Vector[i]] = Targets'
    BY <2>2, <2>3 DEF Targets
  <2>5. PostsType' /\ \A k \in Targets' : Unheard(k)'
    BY <2>1, <2>4 DEF PostsType, Unheard
  <2>6. QED
    BY <2>2, <2>5 DEF HookInv
<1>5. CASE \E stamp \in 1..MaxStamp : WriteMd(stamp)
  <2>1. PICK stamp \in 1..MaxStamp : WriteMd(stamp)
    BY <1>5
  <2>2. pass' = [pass EXCEPT !.pc = "log", !.name = unique_run_md(pass.snap, stamp)]
        /\ pass.pc = "file" /\ UNCHANGED <<deliver, posts>>
    BY <2>1 DEF WriteMd
  <2>3. /\ pass'.pc = "log" /\ pass'.snap = pass.snap
        /\ pass'.k = pass.k /\ pass'.attempt = pass.attempt /\ pass'.error = pass.error
    BY <1>1, <2>2 DEF OutPass
  <2>4. QED
    BY <2>2, <2>3 DEF HookInv, PostsType, Unheard, Targets
<1>6. CASE AppendLog \/ FileFails
  <2>1. /\ pass.pc \in {"file", "log"} /\ pass'.pc = "hook" /\ pass'.snap = pass.snap
        /\ pass'.k = pass.k /\ pass'.attempt = pass.attempt /\ pass'.error = pass.error
        /\ UNCHANGED <<deliver, posts>>
    BY <1>1, <1>6 DEF AppendLog, FileFails, OutPass
  <2>2. pass.k = 1 /\ pass.attempt = 0 /\ pass.error = FALSE
        /\ PostsType /\ \A i \in Targets : Unheard(i)
    BY <2>1 DEF HookInv
  <2>3. PostsType' /\ Targets' = Targets /\ \A i \in Targets : Unheard(i)'
    BY <2>1, <2>2 DEF PostsType, Unheard, Targets
  <2>4. Len(deliver[pass.snap]) \in Nat /\ Targets = 1..Len(deliver[pass.snap])
        /\ (Len(deliver[pass.snap]))' = Len(deliver[pass.snap])
    BY <2>1, TargetsAre DEF Targets
  <2>5. \A i \in Targets : i \in Nat /\ ~(i < 1)
    BY <2>4
  <2>6. 1 \in Targets => /\ posts'[1].tried = 0
                         /\ ~posts'[1].acked
    BY <2>3 DEF Unheard
  <2>7. 1 \in 1..(Len(deliver[pass.snap]) + 1)
    BY <2>4
  <2>8. LoopInv'
    BY <2>1, <2>2, <2>3, <2>4, <2>5, <2>6, <2>7 DEF LoopInv
  <2>9. QED
    BY <2>1, <2>8 DEF HookInv
<1>7. CASE HookStep
  <2>1. pass.pc = "hook" /\ pass'.pc = "hook"
    BY <1>7, HookStepFacts
  <2>2. QED
    BY <1>7, <2>1, LoopInductive DEF HookInv
<1>8. CASE HooksEnd
  <2>1. /\ pass.pc = "hook" /\ pass'.pc = "next"
        /\ pass'.k = 1 /\ pass'.attempt = pass.attempt /\ pass'.error = FALSE
    BY <1>8, HooksEndFacts
  <2>2. pass.k \notin Targets
    <3>1. pass.k \in 1..(Len(deliver[pass.snap]) + 1) /\ ~(pass.k <= Len(deliver[pass.snap]))
      BY <1>8, <2>1 DEF HooksEnd, AtTarget, HookInv, LoopInv
    <3>2. QED
      BY <2>1, <3>1, TargetsAre DEF Targets
  <2>3. pass.attempt = 0
    BY <2>1, <2>2 DEF HookInv, LoopInv
  <2>4. QED
    BY <2>1, <2>3 DEF HookInv
<1>9. CASE EndPass \/ Kill
  <2>1. pass'.pc = "idle"
    BY <1>9, IdleType DEF EndPass, Kill
  <2>2. QED
    BY <2>1 DEF HookInv
<1>10. CASE UNCHANGED vars
  BY <1>10 DEF vars, HookInv, LoopInv, PostsType, Settled, Unheard, Unanswered, Hears,
     allowed, host_of, Targets
<1>11. QED
  BY <1>2, <1>3, <1>4, <1>5, <1>6, <1>7, <1>8, <1>9, <1>10, Steps

LEMMA HookAlways == Spec => [](BaseInv /\ HookInv)
<1>1. QED
  BY BaseInit, BaseInductive, HookInit, HookInductive, PTL DEF Spec

\* When the loop has ended all the targets are before k.
LEMMA LoopEnds ==
    ASSUME BaseInv, HookInv, HooksDone
    PROVE  /\ LoopInv
           /\ DOMAIN posts = Targets
           /\ \A i \in Targets : i < pass.k
<1>1. pass.pc = "hook" /\ LoopInv
  BY DEF HooksDone, HookInv
<1>2. Len(deliver[pass.snap]) \in Nat /\ pass.k \in 1..(Len(deliver[pass.snap]) + 1)
      /\ ~(pass.k <= Len(deliver[pass.snap]))
  BY <1>1, TargetsAre DEF LoopInv, HooksDone, AtTarget
<1>3. \A i \in Targets : i < pass.k
  BY <1>2 DEF Targets
<1>4. QED
  BY <1>1, <1>3 DEF LoopInv, PostsType

\* EveryTargetIsTried: no target is passed over because of another one, none is
\* posted to again after its answer, and a blocked one hears nothing.
THEOREM NoTargetIsPassedOver == Spec => []EveryTargetIsTried
<1>1. BaseInv /\ HookInv => EveryTargetIsTried
  <2> SUFFICES ASSUME BaseInv, HookInv, HooksDone, NEW k \in DOMAIN posts
               PROVE  IF /\ deliver[pass.snap][k].kind = "webhook"
                         /\ allowed(deliver[pass.snap][k].url)
                      THEN /\ posts[k].tried <= 3
                           /\ posts[k].acked \/ posts[k].tried = 3
                      ELSE posts[k].tried = 0
    BY DEF EveryTargetIsTried
  <2>1. Settled(k)
    BY LoopEnds DEF LoopInv
  <2>2. QED
    BY <2>1 DEF Settled, Hears
<1>2. QED
  BY <1>1, HookAlways, PTL

\* HookReportIsTrue: what WebhookDelivery::deliver returns is an error exactly
\* when some webhook has not answered, be it the first, the last or a blocked one.
THEOREM ErrorsAreReported == Spec => []HookReportIsTrue
<1>1. BaseInv /\ HookInv => HookReportIsTrue
  <2> SUFFICES ASSUME BaseInv, HookInv, HooksDone
               PROVE  pass.error <=> \E k \in DOMAIN posts : Unanswered(k)
    BY DEF HookReportIsTrue, Unanswered
  <2>1. pass.error <=> \E i \in Targets : i < pass.k /\ Unanswered(i)
    BY LoopEnds DEF LoopInv
  <2>2. QED
    BY <2>1, LoopEnds
<1>2. QED
  BY <1>1, HookAlways, PTL


-----------------------------------------------------------------------------
(* The run log *)

FileNames(j) == {f.name : f \in dir[j]}
LogNames(j) == {log[j][i].file : i \in LineAt(j)}
UnderWay(j) == IF pass.pc = "log" /\ pass.snap = j THEN {pass.name} ELSE {}

\* Files without a line, and none to come.
Bare(j) == FileNames(j) \ (LogNames(j) \cup UnderWay(j))

\* What the faults have to answer for: those files, and the one that is next to
\* lose its line to the fragment at the end of the log.
Debt(j) == Cardinality(Bare(j)) + (IF EndsOpen(log[j]) THEN 1 ELSE 0)

LinesOK(j) ==
    /\ \A i, k \in LineAt(j) : log[j][i].file = log[j][k].file => i = k
    /\ \A i \in LineAt(j) : \E f \in dir[j] :
           f.name = log[j][i].file /\ f.status = log[j][i].status

LogOK(j) ==
    /\ LinesOK(j)
    /\ UnderWay(j) \cap LogNames(j) = {}
    /\ Debt(j) <= 2 * faults

LogInv == \A j \in Jobs : LogOK(j)

LEMMA BareFinite ==
    ASSUME BaseInv, NEW j \in Jobs
    PROVE  IsFiniteSet(Bare(j)) /\ Cardinality(Bare(j)) \in Nat /\ IsFiniteSet(FileNames(j))
<1>1. IsFiniteSet(dir[j])
  BY DEF BaseInv, FilesOK
<1>2. IsFiniteSet(FileNames(j))
  <2> DEFINE g == [f \in dir[j] |-> f.name]
  <2>1. g \in Surjection(dir[j], FileNames(j))
    BY DEF FileNames, Surjection
  <2>2. QED
    BY <1>1, <2>1, FS_Surjection
<1>3. IsFiniteSet(Bare(j))
  BY <1>2, FS_Subset DEF Bare
<1>4. QED
  BY <1>2, <1>3, FS_CardinalityType

\* One more element is at most one more.
LEMMA OneMore ==
    ASSUME NEW A, IsFiniteSet(A), NEW x, NEW B \in SUBSET (A \cup {x})
    PROVE  Cardinality(B) <= Cardinality(A) + 1
<1>1. IsFiniteSet(A \cup {x}) /\ Cardinality(A \cup {x}) <= Cardinality(A) + 1
      /\ Cardinality(A) \in Nat /\ Cardinality(A \cup {x}) \in Nat
  BY FS_AddElement, FS_CardinalityType
<1>2. Cardinality(B) <= Cardinality(A \cup {x}) /\ Cardinality(B) \in Nat
  BY <1>1, FS_Subset, FS_CardinalityType
<1>3. QED
  BY <1>1, <1>2

\* A job whose log and files a step leaves alone.
LEMMA LogElsewhere ==
    ASSUME NEW j \in Jobs, LogOK(j), dir'[j] = dir[j], log'[j] = log[j],
           UnderWay(j)' = UnderWay(j), faults \in Nat, faults' \in Nat, faults <= faults',
           Cardinality(Bare(j)) \in Nat
    PROVE  LogOK(j)'
<1>1. LineAt(j)' = LineAt(j) /\ FileNames(j)' = FileNames(j)
  BY DEF LineAt, FileNames
<1>2. LogNames(j)' = LogNames(j)
  BY <1>1 DEF LogNames
<1>3. Bare(j)' = Bare(j)
  BY <1>1, <1>2 DEF Bare
<1>4. Debt(j)' = Debt(j) /\ Debt(j) \in Nat
  BY <1>3 DEF Debt, EndsOpen
<1>5. Debt(j)' <= 2 * faults'
  BY <1>4 DEF LogOK
<1>6. LinesOK(j)'
  BY <1>1 DEF LogOK, LinesOK
<1>7. QED
  BY <1>2, <1>5, <1>6 DEF LogOK

\* What a step does to the lines that can be read: a whole line that does not
\* meet a fragment is one more, and nothing else changes them.
LEMMA LinesAfter ==
    ASSUME log \in [Jobs -> Seq(LogLine)], NEW j \in Jobs, NEW line \in LogLine,
           LogWith(j, line)
    PROVE  /\ \A i \in LineAt(j) : i \in LineAt(j)' /\ log'[j][i] = log[j][i]
           /\ line.kind # "line" \/ EndsOpen(log[j]) => LineAt(j)' = LineAt(j)
           /\ line.kind = "line" /\ ~EndsOpen(log[j]) =>
                  \E n : /\ n \notin LineAt(j)
                         /\ LineAt(j)' = LineAt(j) \cup {n}
                         /\ log'[j][n] = line
           /\ EndsOpen(log'[j]) => line.kind = "fragment"
<1> DEFINE l == log[j]
           m == log'[j]
           n == Len(l)
<1>1. l \in Seq(LogLine) /\ m \in Seq(LogLine) /\ n \in Nat
      /\ DOMAIN l = 1..n /\ DOMAIN m = 1..Len(m) /\ Len(m) \in Nat
  BY LogAdds
<1>2. LineAt(j) = {i \in 1..n : l[i].kind = "line"}
      /\ LineAt(j)' = {i \in 1..Len(m) : m[i].kind = "line"}
  BY <1>1 DEF LineAt
<1>3. EndsOpen(m) <=> Len(m) # 0 /\ m[Len(m)].kind = "fragment"
  BY <1>1 DEF EndsOpen, Last
<1>4. Fragment.kind = "fragment" /\ Spoilt.kind = "spoilt"
  BY DEF Fragment, Spoilt
<1>5. CASE ~EndsOpen(l)
  <2>1. Len(m) = n + 1 /\ (\A i \in 1..n : m[i] = l[i]) /\ m[n + 1] = line
    BY <1>5, LogAdds
  <2> HIDE DEF l, m, n
  <2>2. LineAt(j)' = IF line.kind = "line" THEN LineAt(j) \cup {n + 1} ELSE LineAt(j)
    BY <1>1, <1>2, <2>1
  <2>3. n + 1 \notin LineAt(j)
    BY <1>1, <1>2
  <2>4. EndsOpen(m) => line.kind = "fragment"
    BY <1>1, <1>3, <2>1
  <2>5. \A i \in LineAt(j) : m[i] = l[i]
    BY <1>1, <1>2, <2>1
  <2>6. QED
    BY <1>5, <2>1, <2>2, <2>3, <2>4, <2>5 DEF l, m
<1>6. CASE EndsOpen(l)
  <2>1. /\ Len(m) = n /\ n # 0
        /\ \A i \in 1..(n - 1) : m[i] = l[i]
        /\ l[n].kind = "fragment"
        /\ m[n] \in {Fragment, Spoilt}
        /\ m[n] = Fragment => line.kind = "fragment"
    BY <1>6, LogAdds
  <2> HIDE DEF l, m, n
  <2>2. m[n].kind # "line" /\ (m[n].kind = "fragment" => line.kind = "fragment")
    BY <1>4, <2>1
  <2>3. \A i \in 1..n : i # n => i \in 1..(n - 1)
    BY <1>1
  <2>4. LineAt(j)' = LineAt(j) /\ \A i \in LineAt(j) : m[i] = l[i]
    BY <1>1, <1>2, <2>1, <2>2, <2>3
  <2>5. QED
    BY <1>3, <1>6, <2>1, <2>2, <2>4 DEF l, m
<1>7. QED
  BY <1>5, <1>6


\* A step that touches no file and no log, and is not about a line.
LEMMA LogQuiet ==
    ASSUME BaseInv, LogInv, UNCHANGED <<dir, log>>, pass.pc # "log", pass'.pc # "log",
           faults' \in Nat, faults <= faults'
    PROVE  LogInv'
<1> SUFFICES ASSUME NEW j \in Jobs PROVE LogOK(j)'
  BY DEF LogInv
<1>1. UnderWay(j)' = UnderWay(j)
  BY DEF UnderWay
<1>2. LogOK(j) /\ faults \in Nat
  BY DEF LogInv, BaseInv, OTypeOK
<1>3. QED
  BY <1>1, <1>2, BareFinite, LogElsewhere

\* A file is written: its name is under way from now on, and in no line.
LEMMA LogWriteMd ==
    ASSUME BaseInv, LogInv, NEW stamp \in 1..MaxStamp, WriteMd(stamp)
    PROVE  LogInv'
<1> SUFFICES ASSUME NEW j \in Jobs PROVE LogOK(j)'
  BY DEF LogInv
<1>1. PICK s : s = pass.snap
  OBVIOUS
<1>2. s \in Jobs /\ pass.pc = "file" /\ UNCHANGED <<log, faults>> /\ faults \in Nat
  BY <1>1, SnapIsJob DEF WriteMd, BaseInv, OTypeOK
<1>3. PICK new \in OutFile :
          /\ new.name = unique_run_md(s, stamp)
          /\ \A f \in dir[s] : f.name # new.name
          /\ dir' = [dir EXCEPT ![s] = dir[s] \cup {new}]
  BY <1>1, WriteMdFacts
<1>4. pass \in OutPass /\ dir \in [Jobs -> SUBSET OutFile]
      /\ pass' = [pass EXCEPT !.pc = "log", !.name = new.name]
  BY <1>1, <1>3 DEF WriteMd, BaseInv, OTypeOK
<1>5. pass'.pc = "log" /\ pass'.snap = s /\ pass'.name = new.name
  BY <1>1, <1>4 DEF OutPass
<1>6. LogOK(j) /\ UnderWay(j) = {} /\ Cardinality(Bare(j)) \in Nat
  BY <1>2, BareFinite DEF LogInv, UnderWay
<1>7. CASE j # s
  <2>1. UnderWay(j)' = {} /\ dir'[j] = dir[j]
    BY <1>3, <1>4, <1>5, <1>7 DEF UnderWay
  <2>2. QED
    BY <1>2, <1>6, <2>1, LogElsewhere
<1>8. CASE j = s
  <2>1. dir'[j] = dir[j] \cup {new}
    BY <1>3, <1>4, <1>8
  <2>2. LineAt(j)' = LineAt(j) /\ LogNames(j)' = LogNames(j)
    BY <1>2 DEF LineAt, LogNames
  <2>3. LinesOK(j)'
    BY <1>2, <1>6, <2>1, <2>2 DEF LogOK, LinesOK
  <2>4. UnderWay(j)' = {new.name}
    BY <1>5, <1>8 DEF UnderWay
  <2>5. new.name \notin LogNames(j)
    <3>1. \A i \in LineAt(j) : \E f \in dir[j] : f.name = log[j][i].file
      BY <1>6 DEF LogOK, LinesOK
    <3>2. QED
      BY <1>3, <1>8, <3>1 DEF LogNames
  <2>6. Bare(j)' = Bare(j)
    <3>1. FileNames(j)' = FileNames(j) \cup {new.name}
      BY <2>1 DEF FileNames
    <3>2. new.name \notin FileNames(j)
      BY <1>3, <1>8 DEF FileNames
    <3>3. QED
      BY <1>6, <2>2, <2>4, <3>1, <3>2 DEF Bare
  <2>7. Debt(j)' = Debt(j)
    BY <1>2, <2>6 DEF Debt
  <2>8. QED
    BY <1>2, <1>6, <2>2, <2>3, <2>4, <2>5, <2>7 DEF LogOK
<1>9. QED
  BY <1>7, <1>8

\* The line is written, onto a fragment if there is one: the file has its line,
\* or it is the fragment's debt that is now the file's.
LEMMA LogAppend ==
    ASSUME BaseInv, LogInv, AppendLog
    PROVE  LogInv'
<1> SUFFICES ASSUME NEW j \in Jobs PROVE LogOK(j)'
  BY DEF LogInv
<1>1. PICK s, line : s = pass.snap /\ line = FileLine(pass.name, pass.out[s].status)
  OBVIOUS
<1>2. /\ s \in Jobs /\ pass.pc = "log" /\ UNCHANGED <<dir, faults>> /\ faults \in Nat
      /\ log \in [Jobs -> Seq(LogLine)] /\ LogWith(s, line) /\ line \in LogLine
  BY <1>1, SnapIsJob, LineType DEF AppendLog, BaseInv, OTypeOK
<1>3. pass'.pc = "hook"
  BY DEF AppendLog, BaseInv, OTypeOK, OutPass
<1>4. LogOK(j) /\ UnderWay(j)' = {} /\ Cardinality(Bare(j)) \in Nat
  BY <1>3, BareFinite DEF LogInv, UnderWay
<1>5. CASE j # s
  <2>1. log'[j] = log[j] /\ UnderWay(j) = {}
    BY <1>1, <1>2, <1>5, LogAdds DEF UnderWay
  <2>2. dir'[j] = dir[j] /\ faults' \in Nat /\ faults <= faults'
    BY <1>2
  <2>3. QED
    BY <1>2, <1>4, <2>1, <2>2, LogElsewhere
<1>6. CASE j = s
  <2>1. line.kind = "line" /\ line.file = pass.name /\ line.status = pass.out[s].status
    BY <1>1 DEF FileLine
  <2>2. UnderWay(j) = {pass.name}
    BY <1>1, <1>2, <1>6 DEF UnderWay
  <2>3. \E f \in dir[j] : f.name = line.file /\ f.status = line.status
    BY <1>1, <1>2, <1>6, <2>1 DEF BaseInv, WayOK, Written
  <2>4. pass.name \notin LogNames(j)
    BY <1>4, <2>2 DEF LogOK
  <2>5. ~EndsOpen(log'[j])
    BY <1>2, <1>6, <2>1, LinesAfter
  <2>6. FileNames(j)' = FileNames(j)
    BY <1>2 DEF FileNames
  <2>7. CASE ~EndsOpen(log[j])
    <3>1. PICK n : /\ n \notin LineAt(j)
                   /\ LineAt(j)' = LineAt(j) \cup {n}
                   /\ log'[j][n] = line
      BY <1>2, <1>6, <2>1, <2>7, LinesAfter
    <3>2. \A i \in LineAt(j) : log'[j][i] = log[j][i]
      BY <1>2, <1>6, LinesAfter
    <3>3. LogNames(j)' = LogNames(j) \cup {pass.name}
      BY <2>1, <3>1, <3>2 DEF LogNames
    <3>4. LinesOK(j)'
      <4>1. \A i \in LineAt(j) : log[j][i].file # line.file
        BY <2>1, <2>4 DEF LogNames
      <4>2. \A i, k \in LineAt(j)' : log'[j][i].file = log'[j][k].file => i = k
        BY <1>4, <3>1, <3>2, <4>1 DEF LogOK, LinesOK
      <4>3. \A i \in LineAt(j)' : \E f \in dir[j] :
                f.name = log'[j][i].file /\ f.status = log'[j][i].status
        BY <1>4, <2>3, <3>1, <3>2 DEF LogOK, LinesOK
      <4>4. QED
        BY <1>2, <4>2, <4>3 DEF LinesOK
    <3>5. Bare(j)' = Bare(j)
      BY <1>4, <2>2, <2>6, <3>3 DEF Bare
    <3>6. Debt(j)' <= 2 * faults'
      <4>1. Debt(j) = Cardinality(Bare(j)) /\ Debt(j)' = Cardinality(Bare(j))
        BY <1>4, <2>5, <2>7, <3>5 DEF Debt
      <4>2. QED
        BY <1>2, <1>4, <4>1 DEF LogOK
    <3>7. QED
      BY <1>4, <3>4, <3>6 DEF LogOK
  <2>8. CASE EndsOpen(log[j])
    <3>1. LineAt(j)' = LineAt(j) /\ \A i \in LineAt(j) : log'[j][i] = log[j][i]
      BY <1>2, <1>6, <2>8, LinesAfter
    <3>2. LogNames(j)' = LogNames(j)
      BY <3>1 DEF LogNames
    <3>3. LinesOK(j)'
      BY <1>2, <1>4, <3>1 DEF LogOK, LinesOK
    <3>4. Bare(j)' \subseteq Bare(j) \cup {pass.name}
      BY <1>4, <2>2, <2>6, <3>2 DEF Bare
    <3>5. Cardinality(Bare(j)') <= Cardinality(Bare(j)) + 1
      BY <3>4, BareFinite, OneMore
    <3>6. Debt(j)' <= 2 * faults'
      <4>1. Debt(j) = Cardinality(Bare(j)) + 1 /\ Debt(j)' = Cardinality(Bare(j)') + 0
        BY <2>5, <2>8 DEF Debt
      <4>2. Cardinality(Bare(j)') \in Nat
        <5>1. IsFiniteSet(Bare(j)')
          BY <3>4, BareFinite, FS_AddElement, FS_Subset
        <5>2. QED
          BY <5>1, FS_CardinalityType
      <4>3. QED
        BY <1>2, <1>4, <3>5, <4>1, <4>2 DEF LogOK
    <3>7. QED
      BY <1>4, <3>3, <3>6 DEF LogOK
  <2>9. QED
    BY <2>7, <2>8
<1>7. QED
  BY <1>5, <1>6

\* A fault: the file at hand may be without a line, and the log end open.
LEMMA LogFault ==
    ASSUME BaseInv, LogInv, pass.pc = "log", LogCutShort, dir' = dir,
           pass'.pc # "log", faults' = faults + 1
    PROVE  LogInv'
<1> SUFFICES ASSUME NEW j \in Jobs PROVE LogOK(j)'
  BY DEF LogInv
<1>1. PICK s : s = pass.snap
  OBVIOUS
<1>2. /\ s \in Jobs /\ faults \in Nat
      /\ log \in [Jobs -> Seq(LogLine)] /\ Fragment \in LogLine
  BY <1>1, SnapIsJob, LineType DEF BaseInv, OTypeOK
<1>3. log' = log \/ LogWith(s, Fragment)
  BY <1>1 DEF LogCutShort
<1>4. LogOK(j) /\ UnderWay(j)' = {} /\ Cardinality(Bare(j)) \in Nat
  BY BareFinite DEF LogInv, UnderWay
<1>5. CASE j # s
  <2>1. log'[j] = log[j] /\ UnderWay(j) = {}
    BY <1>1, <1>2, <1>3, <1>5, LogAdds DEF UnderWay
  <2>2. faults' \in Nat /\ faults <= faults'
    BY <1>2
  <2>3. QED
    BY <1>2, <1>4, <2>1, <2>2, LogElsewhere
<1>6. CASE j = s
  <2>1. LineAt(j)' = LineAt(j) /\ \A i \in LineAt(j) : log'[j][i] = log[j][i]
    <3>1. Fragment.kind # "line"
      BY DEF Fragment
    <3>2. CASE log' = log
      BY <3>2 DEF LineAt
    <3>3. CASE LogWith(s, Fragment)
      BY <1>2, <1>6, <3>1, <3>3, LinesAfter
    <3>4. QED
      BY <1>3, <3>2, <3>3
  <2>2. LogNames(j)' = LogNames(j) /\ FileNames(j)' = FileNames(j)
    BY <2>1 DEF LogNames, FileNames
  <2>3. LinesOK(j)'
    BY <1>4, <2>1 DEF LogOK, LinesOK
  <2>4. Bare(j)' \subseteq Bare(j) \cup {pass.name}
    BY <1>1, <1>4, <1>6, <2>2 DEF Bare, UnderWay
  <2>5. Cardinality(Bare(j)') <= Cardinality(Bare(j)) + 1
    BY <2>4, BareFinite, OneMore
  <2>6. Cardinality(Bare(j)') \in Nat
    <3>1. IsFiniteSet(Bare(j)')
      BY <2>4, BareFinite, FS_AddElement, FS_Subset
    <3>2. QED
      BY <3>1, FS_CardinalityType
  <2>7. Debt(j)' <= Cardinality(Bare(j)') + 1 /\ Cardinality(Bare(j)) <= Debt(j)
        /\ Debt(j) \in Nat /\ Debt(j)' \in Nat
    BY <1>4, <2>6 DEF Debt
  <2>8. Debt(j)' <= 2 * faults'
    BY <1>2, <1>4, <2>5, <2>6, <2>7 DEF LogOK
  <2>9. QED
    BY <1>4, <2>3, <2>8 DEF LogOK
<1>7. QED
  BY <1>5, <1>6

LEMMA LogInductive ==
    ASSUME BaseInv, LogInv, [Next]_vars
    PROVE  LogInv'
<1>1. pass \in OutPass /\ faults \in Nat
  BY DEF BaseInv, OTypeOK
<1>2. CASE StartPass \/ (\E j \in Jobs : RunOne(j)) \/ Joined \/ NextJob \/ EndPass
  <2>1. pass.pc # "log" /\ pass'.pc # "log" /\ UNCHANGED <<dir, log, faults>>
    BY <1>1, <1>2, IdleType DEF StartPass, RunOne, Joined, NextJob, EndPass, OutPass
  <2>2. QED
    BY <1>1, <2>1, LogQuiet
<1>3. CASE \E stamp \in 1..MaxStamp : WriteMd(stamp)
  BY <1>3, LogWriteMd
<1>4. CASE AppendLog
  BY <1>4, LogAppend
<1>5. CASE FileFails \/ Kill
  <2>1. pass'.pc # "log" /\ dir' = dir /\ faults' = faults + 1
        /\ (IF pass.pc = "log" THEN LogCutShort ELSE UNCHANGED log)
    BY <1>1, <1>5, IdleType DEF FileFails, Kill, OutPass
  <2>2. faults' \in Nat /\ faults <= faults'
    BY <1>1, <2>1
  <2>3. CASE pass.pc = "log"
    BY <2>1, <2>3, LogFault
  <2>4. CASE pass.pc # "log"
    BY <2>1, <2>2, <2>4, LogQuiet
  <2>5. QED
    BY <2>3, <2>4
<1>6. CASE HookStep
  BY <1>1, <1>6, HookStepFacts, LogQuiet
<1>7. CASE HooksEnd
  BY <1>1, <1>7, HooksEndFacts, LogQuiet DEF HooksEnd
<1>8. CASE UNCHANGED vars
  <2> SUFFICES ASSUME NEW j \in Jobs PROVE LogOK(j)'
    BY DEF LogInv
  <2>1. /\ dir'[j] = dir[j] /\ log'[j] = log[j] /\ UnderWay(j)' = UnderWay(j)
        /\ faults' \in Nat /\ faults <= faults'
    BY <1>1, <1>8 DEF vars, UnderWay
  <2>2. QED
    BY <1>1, <2>1, BareFinite, LogElsewhere DEF LogInv
<1>9. QED
  BY <1>2, <1>3, <1>4, <1>5, <1>6, <1>7, <1>8, Steps

LEMMA LogInit == Init => LogInv
<1> SUFFICES ASSUME Init, NEW j \in Jobs PROVE LogOK(j)
  BY DEF LogInv
<1>1. log[j] = <<>> /\ dir[j] = {} /\ pass.pc = "idle" /\ faults = 0
  BY IdleType DEF Init
<1>2. LineAt(j) = {} /\ FileNames(j) = {} /\ UnderWay(j) = {}
  BY <1>1 DEF LineAt, FileNames, UnderWay
<1>3. Debt(j) = 0
  BY <1>1, <1>2, FS_EmptySet DEF Debt, Bare, EndsOpen
<1>4. QED
  BY <1>1, <1>2, <1>3 DEF LogOK, LinesOK

\* LogAgreesWithFiles: through failed and torn appends and kills, no two lines of
\* a run log name one file, no line names a file that is not there or tells it
\* another status, and the files without a line are what the faults account for.
THEOREM LogAndFilesAgree == Spec => []LogAgreesWithFiles
<1>1. BaseInv /\ LogInv => LogAgreesWithFiles
  <2> SUFFICES ASSUME BaseInv, LogInv, NEW j \in Jobs
               PROVE  /\ LinesOK(j)
                      /\ Cardinality(Bare(j)) <= 2 * faults
    BY DEF LogAgreesWithFiles, LinesOK, Bare, FileNames, LogNames, UnderWay
  <2>1. Cardinality(Bare(j)) <= Debt(j) /\ Debt(j) \in Nat /\ faults \in Nat
        /\ Cardinality(Bare(j)) \in Nat
    BY BareFinite DEF Debt, BaseInv, OTypeOK
  <2>2. QED
    BY <2>1 DEF LogInv, LogOK
<1>2. QED
  BY <1>1, BaseInit, BaseInductive, LogInit, LogInductive, PTL DEF Spec

=============================================================================
