-------------------------- MODULE NodeFilesProofs ---------------------------
(***************************************************************************)
(* Proofs about NodeFiles and LsaPacket, for any words that fit into their *)
(* buffers of MAX_OBJ_LEN bytes, names of any number of words, any paths,  *)
(* any .files file to begin with, and LSAs with any number of names.  The  *)
(* recursive functions are taken apart with the induction over sets of     *)
(* numbers below, since an induction theorem of the library takes a        *)
(* predicate for its parameter.                                            *)
(***************************************************************************)
EXTENDS NodeFiles, SequenceTheorems, WellFoundedInduction, TLAPS

(***************************************************************************)
(* Induction.                                                              *)
(***************************************************************************)

\* A set of natural numbers that is not empty has a least element.
LEMMA Least ==
    ASSUME NEW S \in SUBSET Nat, S # {}
    PROVE  \E x \in S : \A y \in S : x <= y
<1> DEFINE R == {ss \in Nat \X Nat : ss[1] < ss[2]}
<1>1. IsWellFoundedOn(R, Nat)
  BY NatLessThanWellFounded DEF OpToRel
<1>2. \E x \in S : \A y \in S : ~ (<<y, x>> \in R)
  <2> HIDE DEF R
  <2> QED BY <1>1, WFMin
<1>3. PICK x \in S : \A y \in S : ~ (<<y, x>> \in R)
  BY <1>2
<1>4. ASSUME NEW y \in S PROVE x <= y
  <2>1. ~ (<<y, x>> \in R)
    BY <1>3
  <2> QED BY <2>1
<1> QED BY <1>4

\* Induction up to n, over a set of numbers: what holds of 0, and of every number
\* when it holds of the one before, holds of all.
LEMMA Induct ==
    ASSUME NEW n \in Nat, NEW S, 0 \in S, \A i \in 1 .. n : i - 1 \in S => i \in S
    PROVE  \A i \in 0 .. n : i \in S
<1> DEFINE bad == {i \in 0 .. n : i \notin S}
<1>1. SUFFICES ASSUME bad # {} PROVE FALSE
  OBVIOUS
<1>2. \E x \in bad : \A y \in bad : x <= y
  <2>1. bad \in SUBSET Nat
    OBVIOUS
  <2> HIDE DEF bad
  <2> QED BY <1>1, <2>1, Least
<1>3. PICK x \in bad : \A y \in bad : x <= y
  BY <1>2
<1>4. x \in 1 .. n /\ x - 1 \in 0 .. n /\ ~(x <= x - 1)
  OBVIOUS
<1>5. x - 1 \in S
  BY <1>3, <1>4
<1> QED BY <1>4, <1>5

(***************************************************************************)
(* The words of a request.                                                 *)
(***************************************************************************)

LEMMA WordTypes ==
    /\ \A text \in Words \cup PathNames : text \in Texts /\ text.size \in Nat \ {0}
                                          /\ text.value \in Nat
    /\ \A word \in Words : word.size < MAX_OBJ_LEN
BY TextAssumption DEF Texts

\* There is a function that adds up a sequence of numbers.
LEMMA Sums ==
    ASSUME NEW n \in Nat, NEW base \in Int, NEW step \in [1 .. n -> Int]
    PROVE  \E g \in [0 .. n -> Int] :
               g[0] = base /\ \A i \in 1 .. n : g[i] = g[i - 1] + step[i]
<1> DEFINE Upto(m, g) == g[0] = base /\ \A i \in 1 .. m : g[i] = g[i - 1] + step[i]
           S == {m \in 0 .. n : \E g \in [0 .. m -> Int] : Upto(m, g)}
<1>1. 0 \in S
  <2> DEFINE g == [i \in 0 .. 0 |-> base]
  <2>1. g \in [0 .. 0 -> Int] /\ Upto(0, g)
    OBVIOUS
  <2> HIDE DEF g, Upto
  <2> QED BY <2>1
<1>2. ASSUME NEW m \in 1 .. n, m - 1 \in S PROVE m \in S
  <2>1. PICK g \in [0 .. m - 1 -> Int] : Upto(m - 1, g)
    BY <1>2
  <2> DEFINE h == [i \in 0 .. m |-> IF i = m THEN g[m - 1] + step[m] ELSE g[i]]
  <2>2. g[m - 1] + step[m] \in Int
    OBVIOUS
  <2>3. h \in [0 .. m -> Int]
    BY <2>2
  <2>4. \A i \in 0 .. m - 1 : h[i] = g[i]
    OBVIOUS
  <2>5. h[m] = h[m - 1] + step[m]
    BY <2>4
  <2> HIDE DEF h
  <2>6. ASSUME NEW i \in 1 .. m PROVE h[i] = h[i - 1] + step[i]
    <3>1. CASE i = m
      BY <2>5, <3>1
    <3>2. CASE i # m
      <4>1. i \in 1 .. m - 1 /\ i - 1 \in 0 .. m - 1 /\ i \in 0 .. m - 1
        BY <3>2
      <4> QED BY <2>1, <2>4, <4>1
    <3> QED BY <3>1, <3>2
  <2>7. h[0] = base
    BY <2>1, <2>4
  <2> HIDE DEF Upto
  <2>8. Upto(m, h)
    BY <2>6, <2>7 DEF Upto
  <2> QED BY <2>3, <2>8
<1>3. n \in S
  <2> HIDE DEF S
  <2>1. \A m \in 1 .. n : m - 1 \in S => m \in S
    BY <1>2
  <2>2. \A m \in 0 .. n : m \in S
    BY <1>1, <2>1, Induct
  <2> QED BY <2>2
<1>4. PICK g \in [0 .. n -> Int] : Upto(n, g)
  BY <1>3
<1> QED BY <1>4

\* Such a function has numbers for its values.
LEMMA SumsAreInt ==
    ASSUME NEW n \in Nat, NEW step \in [1 .. n -> Int], NEW f, f[0] \in Int,
           \A i \in 1 .. n : f[i] = f[i - 1] + step[i]
    PROVE  \A i \in 0 .. n : f[i] \in Int
<1> DEFINE S == {i \in 0 .. n : f[i] \in Int}
<1>1. 0 \in S
  OBVIOUS
<1>2. ASSUME NEW i \in 1 .. n, i - 1 \in S PROVE i \in S
  <2>1. f[i - 1] \in Int /\ step[i] \in Int /\ i \in 0 .. n
    BY <1>2
  <2>2. f[i] = f[i - 1] + step[i]
    OBVIOUS
  <2> QED BY <2>1, <2>2
<1>3. \A i \in 0 .. n : i \in S
  <2> HIDE DEF S
  <2> QED BY <1>1, <1>2, Induct
<1> QED BY <1>3

LEMMA LengthsStep ==
    ASSUME NEW words \in Seq(Words)
    PROVE  /\ Lengths(words) \in [0 .. Len(words) -> Int]
           /\ Lengths(words)[0] = 0 - 1
           /\ \A i \in 1 .. Len(words) :
                  Lengths(words)[i] = Lengths(words)[i - 1] + (1 + words[i].size)
<1> DEFINE n == Len(words)
           Is(g) == g = [i \in 0 .. n |-> IF i = 0 THEN -1 ELSE g[i - 1] + (1 + words[i].size)]
           step == [i \in 1 .. n |-> 1 + words[i].size]
           L == Lengths(words)
<1>1. n \in Nat /\ \A i \in 1 .. n : words[i].size \in Int
  BY WordTypes
<1>2. step \in [1 .. n -> Int] /\ -1 = 0 - 1 /\ 0 - 1 \in Int
  BY <1>1
<1>3. \A i \in 0 .. n : i # 0 => i \in 1 .. n /\ step[i] = 1 + words[i].size
  BY <1>1
<1> HIDE DEF step, n
<1>4. \E g : Is(g)
  <2>1. PICK g \in [0 .. n -> Int] :
            g[0] = 0 - 1 /\ \A i \in 1 .. n : g[i] = g[i - 1] + step[i]
    BY <1>1, <1>2, Sums
  <2>2. \A i \in 0 .. n : g[i] = IF i = 0 THEN -1 ELSE g[i - 1] + (1 + words[i].size)
    BY <1>2, <1>3, <2>1
  <2>3. g = [i \in 0 .. n |-> g[i]]
    OBVIOUS
  <2> QED BY <2>2, <2>3
<1>5. L = CHOOSE f : Is(f)
  BY DEF Lengths, n
<1>6. Is(L)
  <2> HIDE DEF Is, L
  <2> QED BY <1>4, <1>5
<1> HIDE DEF L
<1>7. L = [i \in 0 .. n |-> IF i = 0 THEN 0 - 1 ELSE L[i - 1] + (1 + words[i].size)]
  BY <1>2, <1>6
<1> HIDE DEF Is
<1>8. L = [i \in 0 .. n |-> L[i]]
  BY <1>7, Zenon
<1>9. L[0] = 0 - 1
  <2>1. 0 \in 0 .. n
    BY <1>1
  <2> QED BY <1>7, <2>1
<1>10. \A i \in 1 .. n : L[i] = L[i - 1] + (1 + words[i].size)
  <2>1. \A i \in 1 .. n : i \in 0 .. n /\ i # 0
    BY <1>1
  <2> QED BY <1>7, <2>1
<1>11. \A i \in 1 .. n : L[i] = L[i - 1] + step[i]
  BY <1>1, <1>3, <1>10
<1>12. \A i \in 0 .. n : L[i] \in Int
  BY <1>1, <1>2, <1>9, <1>11, SumsAreInt
<1> QED BY <1>8, <1>9, <1>10, <1>12 DEF L, n

\* The whole name is as long as its first word, or longer.
LEMMA NameLengthBound ==
    ASSUME NEW words \in Seq(Words), words # << >>
    PROVE  /\ words[1] \in Words
           /\ NameLength(words) \in Nat /\ NameLength(words) >= words[1].size
           /\ Len(words) = 1 => NameLength(words) = words[1].size
<1> DEFINE n == Len(words)
           L == Lengths(words)
           S == {i \in 0 .. n : i = 0 \/ L[i] >= words[1].size}
<1>1. n \in Nat \ {0} /\ \A i \in 1 .. n : words[i] \in Words /\ words[i].size \in Nat
  BY WordTypes
<1>2. L \in [0 .. n -> Int] /\ L[0] = 0 - 1
      /\ \A i \in 1 .. n : L[i] = L[i - 1] + (1 + words[i].size)
  BY LengthsStep
<1>3. NameLength(words) = L[n]
  BY DEF NameLength
<1> HIDE DEF L, n
<1>4. L[1] = words[1].size
  <2>1. 1 \in 1 .. n /\ 1 - 1 = 0
    BY <1>1
  <2> QED BY <1>1, <1>2, <2>1
<1>5. \A i \in 1 .. n : i - 1 \in S => i \in S
  <2> SUFFICES ASSUME NEW i \in 1 .. n, i - 1 \in S PROVE i \in S
    OBVIOUS
  <2>1. CASE i = 1
    BY <1>1, <1>4, <2>1
  <2>2. CASE i # 1
    <3>1. i - 1 # 0 /\ L[i - 1] >= words[1].size /\ L[i - 1] \in Int
      BY <1>1, <1>2, <2>2
    <3>2. words[1].size \in Nat /\ words[i].size \in Nat /\ i \in 0 .. n
      BY <1>1
    <3>3. L[i] = L[i - 1] + (1 + words[i].size)
      BY <1>2
    <3> QED BY <3>1, <3>2, <3>3
  <2> QED BY <2>1, <2>2
<1>6. \A i \in 0 .. n : i \in S
  <2>1. 0 \in S
    BY <1>1
  <2> HIDE DEF S
  <2> QED BY <1>1, <1>5, <2>1, Induct
<1>7. L[n] >= words[1].size
  BY <1>1, <1>6
<1>8. L[n] \in Int /\ words[1].size \in Nat /\ words[1] \in Words
  BY <1>1, <1>2
<1>9. L[n] \in Nat
  BY <1>7, <1>8
<1>10. n = 1 => L[n] = words[1].size
  BY <1>4
<1> QED BY <1>3, <1>7, <1>8, <1>9, <1>10 DEF n

LEMMA CopyType ==
    ASSUME NEW text \in Texts, NEW n \in Nat
    PROVE  strncpy(text, n) \in Texts /\ (n >= text.size /\ n # 0 => strncpy(text, n) = text)
<1>1. Empty \in Texts
  BY DEF Empty, Texts, Identities
<1>2. Piece(n) \in Texts
  BY DEF Piece, Texts, Identities
<1> QED BY <1>1, <1>2 DEF strncpy

LEMMA DecimalType ==
    ASSUME NEW n \in Nat
    PROVE  Decimal(n) \in Texts /\ Decimal(n).value = n
<1>1. (IF n < 10 THEN 1 ELSE IF n < 100 THEN 2 ELSE 3) \in Nat
  OBVIOUS
<1> QED BY <1>1 DEF Decimal, Texts, Identities

\* The daemon takes the first word of a name for the name, and a path that is a
\* text of the request: its own, when the name has no space in it.
LEMMA Parsed ==
    ASSUME NEW words \in Seq(Words), words # << >>, NEW path \in PathNames
    PROVE  LET request == process_buffer(AddfileWords(words, path))
           IN  /\ request.name = words[1] /\ words[1] \in Words
               /\ request.path \in Texts
               /\ Len(words) = 1 => request.path = path
<1> DEFINE n == Len(words)
           front == <<Decimal(NameLength(words))>> \o words
           back == <<Decimal(path.size), path>>
           tokens == AddfileWords(words, path)
<1>1. words[1] \in Words /\ NameLength(words) \in Nat
      /\ NameLength(words) >= words[1].size
  BY NameLengthBound
<1>2. \A k \in Nat : Decimal(k) \in Texts /\ Decimal(k).value = k
  BY DecimalType
<1>3. words \in Seq(Texts) /\ n \in Nat \ {0} /\ \A i \in 1 .. n : words[i] \in Texts
  <2>1. Words \subseteq Texts
    BY WordTypes
  <2> QED BY <2>1, SeqMonotonic
<1>4. path \in Texts /\ path.size \in Nat \ {0}
  BY WordTypes
<1>5. words[1] \in Texts /\ words[1].size \in Nat \ {0}
  BY <1>1, WordTypes
<1> HIDE DEF n
<1>6. /\ front \in Seq(Texts) /\ Len(front) = n + 1
      /\ front[1] = Decimal(NameLength(words))
      /\ \A i \in 2 .. n + 1 : front[i] = words[i - 1]
  BY <1>1, <1>2, <1>3 DEF n
<1>7. back \in Seq(Texts) /\ Len(back) = 2 /\ back[1] = Decimal(path.size) /\ back[2] = path
  BY <1>2, <1>4
<1>8. tokens = front \o back
  BY DEF AddfileWords
<1> HIDE DEF front, back, tokens
<1>9. /\ tokens \in Seq(Texts) /\ Len(tokens) = n + 3
      /\ \A i \in 1 .. n + 3 : tokens[i] = IF i <= n + 1 THEN front[i] ELSE back[i - (n + 1)]
  <2>1. /\ front \o back \in Seq(Texts)
        /\ Len(front \o back) = Len(front) + Len(back)
        /\ \A i \in 1 .. Len(front) + Len(back) :
               (front \o back)[i] = IF i <= Len(front) THEN front[i]
                                    ELSE back[i - Len(front)]
    BY <1>6, <1>7, ConcatProperties
  <2>2. Len(front) + Len(back) = n + 3
    BY <1>3, <1>6, <1>7
  <2> QED BY <1>6, <1>8, <2>1, <2>2
<1>10. tokens[1] = Decimal(NameLength(words)) /\ tokens[2] = words[1]
  BY <1>3, <1>6, <1>9
<1>11. tokens[3] \in Texts /\ tokens[4] \in Texts /\ Len(tokens) >= 4
  BY <1>3, <1>9
<1>12. n = 1 => tokens[3] = Decimal(path.size) /\ tokens[4] = path
  BY <1>7, <1>9
<1>13. process_buffer(tokens) = [name |-> strncpy(words[1], NameLength(words)),
                                 path |-> strncpy(tokens[4], tokens[3].value)]
  BY <1>1, <1>2, <1>10, <1>11 DEF process_buffer
<1>14. strncpy(words[1], NameLength(words)) = words[1]
  BY <1>1, <1>5, CopyType
<1>15. strncpy(tokens[4], tokens[3].value) \in Texts
  <2>1. tokens[3].value \in Nat
    BY <1>11 DEF Texts
  <2> QED BY <1>11, <2>1, CopyType
<1>16. n = 1 => strncpy(tokens[4], tokens[3].value) = path
  <2>1. strncpy(path, path.size) = path
    BY <1>4, CopyType
  <2> QED BY <1>2, <1>4, <1>12, <2>1
<1> QED BY <1>1, <1>13, <1>14, <1>15, <1>16 DEF n, tokens

\* A name without a space is looked for under itself.
LEMMA LookedFor ==
    ASSUME NEW w \in Words
    PROVE  process_buffer(RdgetWords(<<w>>)).name = w
<1>1. <<w>> \in Seq(Words) /\ <<w>> # << >> /\ Len(<<w>>) = 1 /\ <<w>>[1] = w
  OBVIOUS
<1>2. NameLength(<<w>>) = w.size /\ w.size \in Nat \ {0} /\ w \in Texts
  BY <1>1, NameLengthBound, WordTypes
<1>3. RdgetWords(<<w>>)[1] = Decimal(w.size) /\ RdgetWords(<<w>>)[2] = w
  <2>1. <<Decimal(w.size)>> \in Seq(Texts) /\ <<w>> \in Seq(Texts)
    BY <1>2, DecimalType
  <2> QED BY <1>2, <2>1 DEF RdgetWords
<1>4. strncpy(w, w.size) = w
  BY <1>2, CopyType
<1> QED BY <1>2, <1>3, <1>4, DecimalType DEF process_buffer
-----------------------------------------------------------------------------
(***************************************************************************)
(* The inductive invariant.  Its parts are stated of any file, table of    *)
(* local objects (table), table of global objects (h) and answered names   *)
(* (a), so that what a step does to each can be shown on its own.          *)
(***************************************************************************)

\* The file names no name twice.
FileOk(file) ==
    /\ file \in Seq(Entries)
    /\ \A i, j \in DOMAIN file : file[i].name = file[j].name => i = j

\* The table has the names of the file, in its order.
TableOk(file, table) ==
    /\ table \in Seq(Entries)
    /\ Len(table) = Len(file)
    /\ \A i \in DOMAIN file : table[i].name = file[i].name

GolType(h) ==
    /\ DOMAIN h \subseteq Words
    /\ \A w \in DOMAIN h : h[w] = NULL \/ h[w] \in [node_id : {Me, Other}, cost : Nat]

\* The names at this node are those of the file, each at cost 0: what another node
\* says of them cannot be nearer.
GolOk(file, h) ==
    /\ GolType(h)
    /\ \A i \in DOMAIN file : file[i].name \in DOMAIN h /\ h[file[i].name] = Path(Me, 0)
    /\ \A w \in DOMAIN h :
           h[w] # NULL /\ h[w].node_id = Me => \E i \in DOMAIN file : file[i].name = w

\* What was answered OK is in the file and in the table, with its path.
Kept(file, table, a) ==
    /\ a \in [DOMAIN a -> PathNames]
    /\ \A w \in DOMAIN a :
           \E i \in DOMAIN file :
               file[i].name = w /\ file[i].path = a[w] /\ table[i].path = a[w]

NodeInv ==
    /\ FileOk(lines)
    /\ TableOk(lines, ol)
    /\ GolOk(lines, gol)
    /\ Kept(lines, ol, added)
    /\ StoredIsSent

LEMMA LineType ==
    ASSUME NEW name \in Words, NEW path \in Texts
    PROVE  Line(name, path) \in Entries /\ Line(name, path).name = name
           /\ Line(name, path).path = path
BY DEF Line, Entries

\* What is stored is not read back as another path, and not taken for no path.
LEMMA ReadBack ==
    /\ \A path \in Texts : PathRead(path) \in Texts
    /\ \A path \in PathNames : PathRead(path) = path /\ path # Empty
<1>1. Newline \in Texts
  BY DEF Newline, Texts, Identities
<1>2. \A path \in PathNames : path # Empty
  <2>1. \A path \in PathNames : path.size # 0
    BY WordTypes
  <2>2. Empty.size = 0
    BY DEF Empty
  <2> QED BY <2>1, <2>2
<1> QED BY <1>1, <1>2 DEF PathRead

LEMMA AppendFacts ==
    ASSUME NEW S, NEW s \in Seq(S), NEW x \in S
    PROVE  /\ Append(s, x) \in Seq(S)
           /\ Len(Append(s, x)) = Len(s) + 1 /\ Len(s) \in Nat
           /\ DOMAIN s = 1 .. Len(s) /\ DOMAIN Append(s, x) = 1 .. Len(s) + 1
           /\ \A i \in DOMAIN s : Append(s, x)[i] = s[i] /\ i \in DOMAIN Append(s, x)
           /\ \A i \in DOMAIN Append(s, x) : i \in DOMAIN s \/ i = Len(s) + 1
           /\ Append(s, x)[Len(s) + 1] = x /\ Len(s) + 1 \in DOMAIN Append(s, x)
OBVIOUS

LEMMA Loaded ==
    ASSUME NEW file, FileOk(file)
    PROVE  /\ TableOk(file, load_node_file(file))
           /\ GolOk(file, LoadedGol(file))
<1> DEFINE table == load_node_file(file)
           h == LoadedGol(file)
           names == {file[i].name : i \in DOMAIN file}
<1>1. /\ file \in Seq(Entries) /\ DOMAIN file = 1 .. Len(file) /\ Len(file) \in Nat
      /\ \A i \in DOMAIN file : file[i].name \in Words /\ file[i].path \in Texts
  <2>1. file \in Seq(Entries)
    BY DEF FileOk
  <2>2. \A i \in DOMAIN file : file[i] \in Entries
    BY <2>1
  <2>3. \A e \in Entries : e.name \in Words /\ e.path \in Texts
    BY DEF Entries
  <2> QED BY <2>1, <2>2, <2>3
<1>2. \A i \in DOMAIN file :
          table[i] \in Entries /\ table[i].name = file[i].name
  <2> SUFFICES ASSUME NEW i \in DOMAIN file
               PROVE  table[i] \in Entries /\ table[i].name = file[i].name
    OBVIOUS
  <2>1. table[i] = Line(file[i].name, PathRead(file[i].path))
    BY DEF load_node_file
  <2>2. PathRead(file[i].path) \in Texts /\ file[i].name \in Words
    BY <1>1, ReadBack
  <2> QED BY <2>1, <2>2, LineType
<1>3. table \in Seq(Entries) /\ Len(table) = Len(file)
  <2>1. table = [i \in 1 .. Len(file) |-> table[i]]
    BY <1>1 DEF load_node_file
  <2> HIDE DEF table
  <2> QED BY <1>1, <1>2, <2>1
<1>4. TableOk(file, table)
  BY <1>2, <1>3 DEF TableOk
<1>5. h = [w \in names |-> Path(Me, 0)]
  <2>1. DOMAIN init_hash = {}
    BY DEF init_hash
  <2>2. h = [w \in DOMAIN init_hash \cup names |->
                IF w \in names /\ (w \notin DOMAIN init_hash \/ Nearer(init_hash[w], 0))
                THEN Path(Me, 0) ELSE init_hash[w]]
    BY DEF LoadedGol, hash_add
  <2> HIDE DEF h
  <2> QED BY <2>1, <2>2
<1>6. Path(Me, 0) \in [node_id : {Me, Other}, cost : Nat]
  BY DEF Path
<1>7. names \subseteq Words
  BY <1>1
<1>8. \A w \in names : \E i \in DOMAIN file : file[i].name = w
  OBVIOUS
<1>9. \A i \in DOMAIN file : file[i].name \in names
  OBVIOUS
<1> HIDE DEF h, names
<1>10. GolOk(file, h)
  BY <1>5, <1>6, <1>7, <1>8, <1>9 DEF GolOk, GolType
<1> QED BY <1>4, <1>10 DEF table, h

LEMMA LoadedKept ==
    ASSUME NEW file, NEW table, NEW a, FileOk(file), Kept(file, table, a)
    PROVE  Kept(file, load_node_file(file), a)
<1>1. ASSUME NEW w \in DOMAIN a
      PROVE  \E i \in DOMAIN file : file[i].name = w /\ file[i].path = a[w]
                                    /\ load_node_file(file)[i].path = a[w]
  <2>1. PICK i \in DOMAIN file : file[i].name = w /\ file[i].path = a[w]
    BY DEF Kept
  <2>2. a[w] \in PathNames
    BY DEF Kept
  <2>3. load_node_file(file)[i] = Line(w, PathRead(a[w]))
    BY <2>1 DEF load_node_file
  <2>4. load_node_file(file)[i].path = a[w]
    BY <2>2, <2>3, ReadBack DEF Line
  <2> QED BY <2>1, <2>4
<1> QED BY <1>1 DEF Kept

\* One more line, of a name that was not in the file.
LEMMA OneMore ==
    ASSUME NEW file, NEW table, NEW h, NEW a, NEW name \in Words, NEW path \in Texts,
           FileOk(file), TableOk(file, table), GolOk(file, h), Kept(file, table, a),
           name \notin DOMAIN h
    PROVE  /\ FileOk(Append(file, Line(name, path)))
           /\ TableOk(Append(file, Line(name, path)), Append(table, Line(name, path)))
           /\ GolOk(Append(file, Line(name, path)), hash_add(h, {name}, Me, 0))
           /\ Kept(Append(file, Line(name, path)), Append(table, Line(name, path)), a)
<1> DEFINE l == Line(name, path)
           f2 == Append(file, l)
           t2 == Append(table, l)
           h2 == hash_add(h, {name}, Me, 0)
           m == Len(file) + 1
<1>1. l \in Entries /\ l.name = name /\ l.path = path
  BY LineType
<1>2. file \in Seq(Entries) /\ table \in Seq(Entries) /\ Len(table) = Len(file)
      /\ \A i \in DOMAIN file : table[i].name = file[i].name
  BY DEF FileOk, TableOk
<1> HIDE DEF l
<1>3. /\ f2 \in Seq(Entries)
      /\ \A i \in DOMAIN file : f2[i] = file[i] /\ i \in DOMAIN f2
      /\ \A i \in DOMAIN f2 : i \in DOMAIN file \/ i = m
      /\ f2[m] = l /\ m \in DOMAIN f2 /\ m \notin DOMAIN file
  BY <1>1, <1>2, AppendFacts
<1>4. /\ t2 \in Seq(Entries) /\ Len(t2) = Len(f2)
      /\ \A i \in DOMAIN file : t2[i] = table[i]
      /\ t2[m] = l
  BY <1>1, <1>2, AppendFacts
<1>5. \A i \in DOMAIN file : file[i].name # name /\ file[i].name \in DOMAIN h
                             /\ h[file[i].name] = Path(Me, 0)
  BY DEF GolOk
<1>6. h2 = [w \in DOMAIN h \cup {name} |-> IF w = name THEN Path(Me, 0) ELSE h[w]]
  BY DEF hash_add
<1> HIDE DEF f2, t2, m, h2
<1>7. FileOk(f2)
  <2>1. ASSUME NEW i \in DOMAIN f2, NEW j \in DOMAIN f2, f2[i].name = f2[j].name PROVE i = j
    <3>1. CASE i \in DOMAIN file /\ j \in DOMAIN file
      BY <1>3, <2>1, <3>1 DEF FileOk
    <3>2. CASE ~(i \in DOMAIN file /\ j \in DOMAIN file)
      BY <1>1, <1>3, <1>5, <2>1, <3>2
    <3> QED BY <3>1, <3>2
  <2> QED BY <1>3, <2>1 DEF FileOk
<1>8. TableOk(f2, t2)
  BY <1>2, <1>3, <1>4 DEF TableOk
<1>9. GolOk(f2, h2)
  <2>1. DOMAIN h \subseteq Words /\ GolType(h)
    BY DEF GolOk, GolType
  <2>2. Path(Me, 0) \in [node_id : {Me, Other}, cost : Nat]
    BY DEF Path
  <2>3. GolType(h2)
    BY <1>6, <2>1, <2>2 DEF GolType
  <2>4. \A i \in DOMAIN f2 : f2[i].name \in DOMAIN h2 /\ h2[f2[i].name] = Path(Me, 0)
    BY <1>1, <1>3, <1>5, <1>6
  <2>5. ASSUME NEW w \in DOMAIN h2, h2[w] # NULL /\ h2[w].node_id = Me
        PROVE  \E i \in DOMAIN f2 : f2[i].name = w
    <3>1. CASE w = name
      BY <1>1, <1>3, <3>1
    <3>2. CASE w # name
      <4>1. w \in DOMAIN h /\ h[w] # NULL /\ h[w].node_id = Me
        BY <1>6, <2>5, <3>2
      <4>2. PICK i \in DOMAIN file : file[i].name = w
        BY <4>1 DEF GolOk
      <4> QED BY <1>3, <4>2
    <3> QED BY <3>1, <3>2
  <2> QED BY <2>3, <2>4, <2>5 DEF GolOk
<1>10. Kept(f2, t2, a)
  <2>1. ASSUME NEW w \in DOMAIN a
        PROVE  \E i \in DOMAIN f2 : f2[i].name = w /\ f2[i].path = a[w] /\ t2[i].path = a[w]
    <3>1. PICK i \in DOMAIN file :
              file[i].name = w /\ file[i].path = a[w] /\ table[i].path = a[w]
      BY DEF Kept
    <3> QED BY <1>3, <1>4, <3>1
  <2> QED BY <2>1 DEF Kept
<1> QED BY <1>7, <1>8, <1>9, <1>10 DEF f2, t2, h2, l
\* One more answered name, that of the last line.
LEMMA OneMoreAnswered ==
    ASSUME NEW file, NEW table, NEW a, NEW name \in Words, NEW path \in PathNames,
           NEW i \in DOMAIN file,
           file[i].name = name, file[i].path = path, table[i].path = path,
           Kept(file, table, a)
    PROVE  Kept(file, table, [w \in DOMAIN a \cup {name} |->
                                 IF w = name THEN path ELSE a[w]])
<1> DEFINE a2 == [w \in DOMAIN a \cup {name} |-> IF w = name THEN path ELSE a[w]]
<1>1. a \in [DOMAIN a -> PathNames]
  BY DEF Kept
<1>2. DOMAIN a2 = DOMAIN a \cup {name}
  OBVIOUS
<1>3. a2[name] = path /\ \A w \in DOMAIN a : w # name => a2[w] = a[w]
  OBVIOUS
<1>4. a2 \in [DOMAIN a2 -> PathNames]
  <2>1. \A w \in DOMAIN a \cup {name} : (IF w = name THEN path ELSE a[w]) \in PathNames
    BY <1>1
  <2> QED BY <2>1
<1>5. ASSUME NEW w \in DOMAIN a2
      PROVE  \E k \in DOMAIN file :
                 file[k].name = w /\ file[k].path = a2[w] /\ table[k].path = a2[w]
  <2>1. CASE w = name
    BY <1>3, <2>1
  <2>2. CASE w # name
    <3>1. w \in DOMAIN a /\ a2[w] = a[w]
      BY <1>2, <1>3, <1>5, <2>2
    <3> QED BY <3>1 DEF Kept
  <2> QED BY <2>1, <2>2
<1> HIDE DEF a2
<1>6. Kept(file, table, a2)
  BY <1>4, <1>5 DEF Kept
<1> QED BY <1>6 DEF a2

\* Another node's file of a name does not take the name away from this one, and
\* giving that node up does not either.
LEMMA GolLearns ==
    ASSUME NEW file, NEW h, NEW name \in Words, GolOk(file, h)
    PROVE  GolOk(file, hash_add(h, {name}, Other, 2))
<1> DEFINE h2 == hash_add(h, {name}, Other, 2)
<1>1. h2 = [w \in DOMAIN h \cup {name} |->
               IF w = name /\ (w \notin DOMAIN h \/ Nearer(h[w], 2))
               THEN Path(Other, 2) ELSE h[w]]
  BY DEF hash_add
<1> HIDE DEF h2
<1>2. /\ Path(Other, 2) \in [node_id : {Me, Other}, cost : Nat]
      /\ Path(Me, 0) \in [node_id : {Me, Other}, cost : Nat]
      /\ Path(Other, 2).node_id = Other /\ Path(Me, 0).cost = 0
  BY DEF Path
<1>3. GolType(h2)
  BY <1>1, <1>2 DEF GolOk, GolType
<1>4. ~Nearer(Path(Me, 0), 2)
  BY <1>2, NodeAssumption DEF Nearer
<1>5. \A i \in DOMAIN file : file[i].name \in DOMAIN h2 /\ h2[file[i].name] = Path(Me, 0)
  BY <1>1, <1>4 DEF GolOk
<1>6. ASSUME NEW w \in DOMAIN h2, h2[w] # NULL, h2[w].node_id = Me
      PROVE  \E i \in DOMAIN file : file[i].name = w
  <2>1. w \in DOMAIN h /\ h2[w] = h[w]
    BY <1>1, <1>2, <1>6, NodeAssumption
  <2> QED BY <1>6, <2>1 DEF GolOk
<1>7. GolOk(file, h2)
  BY <1>3, <1>5, <1>6 DEF GolOk
<1> QED BY <1>7 DEF h2

LEMMA GolGivesUp ==
    ASSUME NEW file, NEW h, GolOk(file, h)
    PROVE  GolOk(file, hash_remove_node(h, {Other}))
<1> DEFINE h2 == hash_remove_node(h, {Other})
<1>1. h2 = [w \in DOMAIN h |-> IF h[w] # NULL /\ h[w].node_id \in {Other} THEN NULL ELSE h[w]]
  BY DEF hash_remove_node
<1> HIDE DEF h2
<1>2. Path(Me, 0).node_id = Me
  BY DEF Path
<1>3. GolType(h2)
  BY <1>1 DEF GolOk, GolType
<1>4. \A i \in DOMAIN file : file[i].name \in DOMAIN h2 /\ h2[file[i].name] = Path(Me, 0)
  BY <1>1, <1>2, NodeAssumption DEF GolOk
<1>5. \A w \in DOMAIN h2 : h2[w] # NULL /\ h2[w].node_id = Me
                           => \E i \in DOMAIN file : file[i].name = w
  BY <1>1 DEF GolOk
<1>6. GolOk(file, h2)
  BY <1>3, <1>4, <1>5 DEF GolOk
<1> QED BY <1>6 DEF h2

-----------------------------------------------------------------------------
(***************************************************************************)
(* The packet.                                                             *)
(***************************************************************************)

LEMMA OffsetsStep ==
    ASSUME NEW names \in Seq(Words)
    PROVE  /\ Offsets(names)[0] = (NumLinks - 1) * SIZEOF_INT
           /\ \A i \in 0 .. Len(names) : Offsets(names)[i] \in Int
           /\ \A i \in 1 .. Len(names) :
                  Offsets(names)[i] = Offsets(names)[i - 1] + (SIZEOF_INT + names[i].size)
<1> DEFINE n == Len(names)
           base == (NumLinks - 1) * SIZEOF_INT
           Is(g) == g = [i \in 0 .. n |->
                            IF i = 0 THEN (NumLinks - 1) * SIZEOF_INT
                            ELSE g[i - 1] + (SIZEOF_INT + names[i].size)]
           step == [i \in 1 .. n |-> SIZEOF_INT + names[i].size]
           O == Offsets(names)
<1>1. n \in Nat /\ \A i \in 1 .. n : names[i].size \in Int
  BY WordTypes
<1>2. step \in [1 .. n -> Int] /\ base \in Int
  BY <1>1, PacketAssumption DEF SIZEOF_INT
<1>3. \A i \in 0 .. n : i # 0 => i \in 1 .. n /\ step[i] = SIZEOF_INT + names[i].size
  BY <1>1
<1> HIDE DEF step, n
<1>4. \E g : Is(g)
  <2>1. \E g \in [0 .. n -> Int] :
            g[0] = base /\ \A i \in 1 .. n : g[i] = g[i - 1] + step[i]
    <3> HIDE DEF base
    <3> QED BY <1>1, <1>2, Sums
  <2>2. PICK g \in [0 .. n -> Int] :
            g[0] = base /\ \A i \in 1 .. n : g[i] = g[i - 1] + step[i]
    BY <2>1
  <2>3. \A i \in 0 .. n : g[i] = IF i = 0 THEN (NumLinks - 1) * SIZEOF_INT
                                 ELSE g[i - 1] + (SIZEOF_INT + names[i].size)
    BY <1>3, <2>2
  <2>4. g = [i \in 0 .. n |-> g[i]]
    OBVIOUS
  <2> QED BY <2>3, <2>4
<1>5. O = CHOOSE f : Is(f)
  BY DEF Offsets, n
<1>6. Is(O)
  <2> HIDE DEF Is, O
  <2> QED BY <1>4, <1>5
<1> HIDE DEF O
<1>7. O = [i \in 0 .. n |-> IF i = 0 THEN base ELSE O[i - 1] + (SIZEOF_INT + names[i].size)]
  BY <1>6
<1> HIDE DEF Is
<1>8. O[0] = base
  <2>1. 0 \in 0 .. n
    BY <1>1
  <2> HIDE DEF base
  <2> QED BY <1>7, <2>1
<1>9. \A i \in 1 .. n : O[i] = O[i - 1] + (SIZEOF_INT + names[i].size)
  <2>1. \A i \in 1 .. n : i \in 0 .. n /\ i # 0
    BY <1>1
  <2> HIDE DEF base
  <2> QED BY <1>7, <2>1
<1>10. \A i \in 1 .. n : O[i] = O[i - 1] + step[i]
  BY <1>1, <1>3, <1>9
<1>11. \A i \in 0 .. n : O[i] \in Int
  <2> HIDE DEF base
  <2> QED BY <1>1, <1>2, <1>8, <1>10, SumsAreInt
<1> QED BY <1>8, <1>9, <1>11 DEF O, n
\* Every name ends before the last does, and no two begin at the same place.
LEMMA OffsetsGrow ==
    ASSUME NEW names \in Seq(Words)
    PROVE  /\ \A i \in 0 .. Len(names) : Offsets(names)[i] <= Offsets(names)[Len(names)]
           /\ \A i, j \in 1 .. Len(names) :
                  Offsets(names)[i - 1] = Offsets(names)[j - 1] => i = j
<1> DEFINE n == Len(names)
           O == Offsets(names)
<1>1. n \in Nat /\ \A i \in 1 .. n : names[i].size \in Nat \ {0}
  BY WordTypes
<1>2. /\ \A i \in 0 .. n : O[i] \in Int
      /\ \A i \in 1 .. n : O[i] = O[i - 1] + (SIZEOF_INT + names[i].size)
  BY OffsetsStep
<1> HIDE DEF n, O
<1>3. \A i \in 1 .. n : O[i - 1] < O[i]
  <2> SUFFICES ASSUME NEW i \in 1 .. n PROVE O[i - 1] < O[i]
    OBVIOUS
  <2>1. i \in 0 .. n /\ i - 1 \in 0 .. n
    BY <1>1
  <2>2. O[i] \in Int /\ O[i - 1] \in Int /\ names[i].size \in Nat
    BY <1>1, <1>2, <2>1
  <2>3. O[i] = O[i - 1] + (SIZEOF_INT + names[i].size)
    BY <1>2
  <2> QED BY <2>2, <2>3 DEF SIZEOF_INT
<1>4. ASSUME NEW i \in 0 .. n PROVE \A j \in 0 .. n : i <= j => O[i] <= O[j]
  <2> DEFINE S == {j \in 0 .. n : i <= j => O[i] <= O[j]}
  <2>1. 0 \in S
    BY <1>1, <1>2
  <2>2. ASSUME NEW j \in 1 .. n, j - 1 \in S PROVE j \in S
    <3>1. j \in 0 .. n /\ O[j - 1] < O[j] /\ O[i] \in Int /\ O[j] \in Int /\ O[j - 1] \in Int
      BY <1>2, <1>3, <2>2
    <3>2. CASE i = j
      BY <3>1, <3>2
    <3>3. CASE i # j
      BY <1>1, <2>2, <3>1, <3>3
    <3> QED BY <3>2, <3>3
  <2>3. \A j \in 0 .. n : j \in S
    <3> HIDE DEF S
    <3> QED BY <1>1, <2>1, <2>2, Induct
  <2> QED BY <2>3
<1>5. \A i \in 0 .. n : O[i] <= O[n]
  BY <1>1, <1>4
<1>6. ASSUME NEW i \in 1 .. n, NEW j \in 1 .. n, i < j PROVE O[i - 1] < O[j - 1]
  <2>1. i \in 0 .. n /\ j - 1 \in 0 .. n /\ i <= j - 1 /\ i - 1 \in 0 .. n
    BY <1>1, <1>6
  <2>2. O[i - 1] < O[i] /\ O[i] <= O[j - 1]
    BY <1>3, <1>4, <2>1
  <2>3. O[i - 1] \in Int /\ O[i] \in Int /\ O[j - 1] \in Int
    BY <1>2, <2>1
  <2> QED BY <2>2, <2>3
<1>7. ASSUME NEW i \in 1 .. n, NEW j \in 1 .. n, O[i - 1] = O[j - 1] PROVE i = j
  <2>1. O[i - 1] \in Int
    BY <1>1, <1>2
  <2>2. ~(i < j) /\ ~(j < i)
    BY <1>6, <1>7, <2>1
  <2> QED BY <1>1, <2>2
<1> QED BY <1>5, <1>7 DEF n, O

\* As long as the names themselves are not cut off, the neighbour reads the
\* lengths where they were written, and the names, which fit, after them.
LEMMA ReadsWhatWasWritten ==
    ASSUME NEW names \in Seq(Words),
           create_packet(names).size <= MAX_LSA_LEN + SIZEOF_INT
    PROVE  LET lsa == rt_recvfrom(create_packet(names))
           IN  /\ lsa.num_links = NumLinks - 1 /\ lsa.num_objects = Len(names)
               /\ \A i \in 1 .. Len(names) :
                      /\ LengthAt(lsa, Offsets(names)[i - 1]) = names[i].size
                      /\ TextAt(lsa, Offsets(names)[i - 1] + SIZEOF_INT, names[i].size)
                         = names[i]
<1> DEFINE n == Len(names)
           O == Offsets(names)
           sent == create_packet(names)
           lsa == rt_recvfrom(sent)
           lens == {[at |-> O[i - 1], value |-> names[i].size] : i \in 1 .. n}
           txts == {[at |-> O[i - 1] + SIZEOF_INT, value |-> names[i]] : i \in 1 .. n}
<1>1. n \in Nat /\ \A i \in 1 .. n : names[i].size \in Nat
  BY WordTypes
<1>2. /\ \A i \in 0 .. n : O[i] \in Int /\ O[i] <= O[n]
      /\ \A i \in 1 .. n : O[i] = O[i - 1] + (SIZEOF_INT + names[i].size)
      /\ \A i, j \in 1 .. n : O[i - 1] = O[j - 1] => i = j
  BY OffsetsStep, OffsetsGrow
<1>3. sent = [num_links |-> NumLinks - 1, num_objects |-> n, lengths |-> lens,
              texts |-> txts, size |-> SIZEOF_LSA + O[n] + SIZEOF_INT]
  BY DEF create_packet, links_written
<1> HIDE DEF n, O, sent
<1>4. SIZEOF_LSA + O[n] <= MAX_LSA_LEN
  <2>1. O[n] \in Int /\ MAX_LSA_LEN \in Nat
    BY <1>1, <1>2, PacketAssumption
  <2>2. SIZEOF_LSA + O[n] + SIZEOF_INT <= MAX_LSA_LEN + SIZEOF_INT
    BY <1>3 DEF sent
  <2> QED BY <2>1, <2>2 DEF SIZEOF_LSA, SIZEOF_INT
<1>5. ASSUME NEW i \in 1 .. n
      PROVE  /\ SIZEOF_LSA + O[i - 1] + SIZEOF_INT <= MAX_LSA_LEN
             /\ SIZEOF_LSA + (O[i - 1] + SIZEOF_INT) + names[i].size <= MAX_LSA_LEN
  <2>1. i \in 0 .. n /\ i - 1 \in 0 .. n /\ n \in 0 .. n
    BY <1>1
  <2>2. /\ O[i] \in Int /\ O[i - 1] \in Int /\ O[n] \in Int /\ names[i].size \in Nat
        /\ MAX_LSA_LEN \in Nat
    BY <1>1, <1>2, <2>1, PacketAssumption
  <2>3. O[i] = O[i - 1] + (SIZEOF_INT + names[i].size) /\ O[i] <= O[n]
    BY <1>2, <2>1
  <2>5. SIZEOF_LSA = 20 /\ SIZEOF_INT = 4
    BY DEF SIZEOF_LSA, SIZEOF_INT
  <2>6. 20 + O[n] <= MAX_LSA_LEN /\ O[i] = O[i - 1] + (4 + names[i].size)
    BY <1>4, <2>3, <2>5
  <2> DEFINE a == O[i - 1]
             b == O[i]
             c == O[n]
             z == names[i].size
  <2>7. a \in Int /\ b \in Int /\ c \in Int /\ z \in Nat
    BY <2>2
  <2>8. b = a + (4 + z) /\ b <= c /\ 20 + c <= MAX_LSA_LEN
    BY <2>3, <2>6
  <2> HIDE DEF a, b, c, z
  <2>9. 20 + a + 4 <= MAX_LSA_LEN /\ 20 + (a + 4) + z <= MAX_LSA_LEN
    BY <2>2, <2>7, <2>8
  <2> QED BY <2>5, <2>9 DEF a, z
<1>6. /\ lsa.num_links = NumLinks - 1 /\ lsa.num_objects = n
      /\ lsa.lengths = {f \in lens : SIZEOF_LSA + f.at + SIZEOF_INT <= MAX_LSA_LEN}
      /\ lsa.texts = {f \in txts : SIZEOF_LSA + f.at + f.value.size <= MAX_LSA_LEN}
  <2> HIDE DEF lens, txts
  <2> QED BY <1>3 DEF rt_recvfrom
<1>7. lsa.lengths = lens
  <2>1. \A f \in lens : SIZEOF_LSA + f.at + SIZEOF_INT <= MAX_LSA_LEN
    BY <1>5
  <2> HIDE DEF lens, lsa
  <2> QED BY <1>6, <2>1
<1>8. lsa.texts = txts
  <2>1. \A f \in txts : SIZEOF_LSA + f.at + f.value.size <= MAX_LSA_LEN
    BY <1>5
  <2> HIDE DEF txts, lsa
  <2> QED BY <1>6, <2>1
<1> HIDE DEF lsa
<1>9. ASSUME NEW i \in 1 .. n PROVE LengthAt(lsa, O[i - 1]) = names[i].size
  <2>1. [at |-> O[i - 1], value |-> names[i].size] \in lens
    OBVIOUS
  <2>2. \A f \in lens : f.at = O[i - 1] => f.value = names[i].size
    BY <1>2
  <2> HIDE DEF lens
  <2>3. \E f \in lens : f.at = O[i - 1]
    BY <2>1
  <2>4. (CHOOSE f \in lens : f.at = O[i - 1]).value = names[i].size
    BY <2>2, <2>3
  <2> QED BY <1>7, <2>3, <2>4 DEF LengthAt
<1>10. ASSUME NEW i \in 1 .. n
       PROVE  TextAt(lsa, O[i - 1] + SIZEOF_INT, names[i].size) = names[i]
  <2> DEFINE here == {f \in txts : f.at = O[i - 1] + SIZEOF_INT
                                   /\ f.value.size = names[i].size
                                   /\ names[i].size < MAX_OBJ_LEN}
  <2>1. [at |-> O[i - 1] + SIZEOF_INT, value |-> names[i]] \in here
    <3>1. names[i].size < MAX_OBJ_LEN
      BY WordTypes DEF n
    <3> QED BY <3>1
  <2>2. \A k \in 1 .. n : O[k - 1] + SIZEOF_INT = O[i - 1] + SIZEOF_INT => k = i
    <3>1. \A k \in 1 .. n : O[k - 1] \in Int
      BY <1>1, <1>2
    <3>2. \A k \in 1 .. n : O[k - 1] + SIZEOF_INT = O[i - 1] + SIZEOF_INT => O[k - 1] = O[i - 1]
      BY <3>1 DEF SIZEOF_INT
    <3> QED BY <1>2, <3>2
  <2>3. \A f \in here : f.value = names[i]
    BY <2>2
  <2>4. TextAt(lsa, O[i - 1] + SIZEOF_INT, names[i].size)
        = IF here = {} THEN Garbage ELSE (CHOOSE f \in here : TRUE).value
    BY <1>8 DEF TextAt
  <2> HIDE DEF here
  <2> QED BY <2>1, <2>3, <2>4
<1> QED BY <1>6, <1>9, <1>10 DEF n, O, lsa, sent
\* The neighbour walks from name to name and stores all of them, in their order.
LEMMA StoresWhatWasSent ==
    ASSUME NEW names \in Seq(Words),
           create_packet(names).size <= MAX_LSA_LEN + SIZEOF_INT
    PROVE  store_node_objects(rt_recvfrom(create_packet(names))) = names
<1> DEFINE n == Len(names)
           O == Offsets(names)
           lsa == rt_recvfrom(create_packet(names))
           start == [lsa_index |-> lsa.num_links * SIZEOF_INT, objects |-> <<>>]
           len(r) == LengthAt(lsa, r.lsa_index)
           next(r) == [lsa_index |-> r.lsa_index + SIZEOF_INT + len(r),
                       objects |-> Append(r.objects,
                                          TextAt(lsa, r.lsa_index + SIZEOF_INT, len(r)))]
           Is(g) == g = [i \in 0 .. lsa.num_objects |->
                            IF i = 0
                            THEN [lsa_index |-> lsa.num_links * SIZEOF_INT, objects |-> <<>>]
                            ELSE LET at == g[i - 1].lsa_index
                                     l == LengthAt(lsa, at)
                                 IN  [lsa_index |-> at + SIZEOF_INT + l,
                                      objects |-> Append(g[i - 1].objects,
                                                         TextAt(lsa, at + SIZEOF_INT, l))]]
           first(i) == [k \in 1 .. i |-> names[k]]
           G == [i \in 0 .. n |-> [lsa_index |-> O[i], objects |-> first(i)]]
           W == Walk(lsa)
<1>1. n \in Nat /\ \A i \in 1 .. n : names[i] \in Words /\ names[i].size \in Nat
  BY WordTypes
<1>2. /\ O[0] = (NumLinks - 1) * SIZEOF_INT
      /\ \A i \in 0 .. n : O[i] \in Int
      /\ \A i \in 1 .. n : O[i] = O[i - 1] + (SIZEOF_INT + names[i].size)
  BY OffsetsStep
<1>3. /\ lsa.num_links = NumLinks - 1 /\ lsa.num_objects = n
      /\ \A i \in 1 .. n : LengthAt(lsa, O[i - 1]) = names[i].size
                           /\ TextAt(lsa, O[i - 1] + SIZEOF_INT, names[i].size) = names[i]
  BY ReadsWhatWasWritten
<1>4. names = first(n)
  OBVIOUS
<1>5. W = CHOOSE f : Is(f)
  BY DEF Walk
<1> HIDE DEF n, O, lsa, W
<1>6. \A i \in 0 .. n : first(i) \in Seq(Words) /\ Len(first(i)) = i
  BY <1>1
<1>7. ASSUME NEW i \in 1 .. n PROVE Append(first(i - 1), names[i]) = first(i)
  <2>1. i \in 0 .. n /\ i - 1 \in 0 .. n /\ i \in Nat
    BY <1>1
  <2>2. /\ Append(first(i - 1), names[i]) \in Seq(Words)
        /\ Len(Append(first(i - 1), names[i])) = i
        /\ \A k \in 1 .. i : Append(first(i - 1), names[i])[k] = names[k]
    BY <1>1, <1>6, <2>1
  <2>3. first(i) \in Seq(Words) /\ Len(first(i)) = i /\ \A k \in 1 .. i : first(i)[k] = names[k]
    BY <1>6, <2>1
  <2> HIDE DEF first
  <2> QED BY <2>2, <2>3, SeqEqual
<1> HIDE DEF first
<1>8. G[0] = start
  <2>1. first(0) = << >>
    BY DEF first
  <2>2. G[0] = [lsa_index |-> O[0], objects |-> first(0)]
    BY <1>1
  <2> QED BY <1>2, <1>3, <2>1, <2>2
<1>9. ASSUME NEW i \in 1 .. n PROVE G[i] = next(G[i - 1])
  <2>1. i \in 0 .. n /\ i - 1 \in 0 .. n
    BY <1>1
  <2>2. G[i - 1].lsa_index = O[i - 1] /\ G[i - 1].objects = first(i - 1)
    BY <2>1
  <2>3. G[i] = [lsa_index |-> O[i], objects |-> first(i)]
    BY <2>1
  <2> HIDE DEF G
  <2>4. len(G[i - 1]) = names[i].size
    BY <1>3, <2>2
  <2>5. O[i - 1] + SIZEOF_INT + names[i].size = O[i]
    <3>1. O[i - 1] \in Int /\ names[i].size \in Nat /\ SIZEOF_INT \in Int
      BY <1>1, <1>2, <2>1 DEF SIZEOF_INT
    <3>2. O[i] = O[i - 1] + (SIZEOF_INT + names[i].size)
      BY <1>2
    <3> QED BY <3>1, <3>2
  <2>6. next(G[i - 1]) = [lsa_index |-> O[i - 1] + SIZEOF_INT + names[i].size,
                          objects |-> Append(first(i - 1), names[i])]
    <3> HIDE DEF len
    <3>1. next(G[i - 1])
          = [lsa_index |-> O[i - 1] + SIZEOF_INT + names[i].size,
             objects |-> Append(first(i - 1),
                                TextAt(lsa, O[i - 1] + SIZEOF_INT, names[i].size))]
      BY <2>2, <2>4
    <3> QED BY <1>3, <3>1
  <2> QED BY <1>7, <2>3, <2>5, <2>6
<1>10. \A g : Is(g) <=> g = [i \in 0 .. n |-> IF i = 0 THEN start ELSE next(g[i - 1])]
  BY <1>3
<1> HIDE DEF Is, start, next
<1>11. Is(G)
  <2>1. \A i \in 0 .. n : G[i] = IF i = 0 THEN start ELSE next(G[i - 1])
    <3>1. \A i \in 0 .. n : i # 0 => i \in 1 .. n
      BY <1>1
    <3> HIDE DEF G
    <3> QED BY <1>8, <1>9, <3>1
  <2>2. G = [i \in 0 .. n |-> G[i]]
    OBVIOUS
  <2> HIDE DEF G
  <2>3. G = [i \in 0 .. n |-> IF i = 0 THEN start ELSE next(G[i - 1])]
    BY <2>1, <2>2
  <2> QED BY <1>10, <2>3
<1>12. Is(W)
  <2> HIDE DEF G
  <2> QED BY <1>5, <1>11
<1>13. W = [i \in 0 .. n |-> IF i = 0 THEN start ELSE next(W[i - 1])]
  BY <1>10, <1>12
<1>14. W[0] = start /\ \A i \in 1 .. n : W[i] = next(W[i - 1])
  <2>1. 0 \in 0 .. n /\ \A i \in 1 .. n : i \in 0 .. n /\ i # 0
    BY <1>1
  <2> QED BY <1>13, <2>1
<1>15. \A i \in 0 .. n : W[i] = G[i]
  <2> HIDE DEF G
  <2> DEFINE S == {i \in 0 .. n : W[i] = G[i]}
  <2>1. 0 \in S
    BY <1>1, <1>8, <1>14
  <2>2. \A i \in 1 .. n : i - 1 \in S => i \in S
    BY <1>1, <1>9, <1>14
  <2> HIDE DEF S
  <2>3. \A i \in 0 .. n : i \in S
    BY <1>1, <2>1, <2>2, Induct
  <2> QED BY <2>3 DEF S
<1>16. W[n].objects = first(n)
  <2>1. n \in 0 .. n
    BY <1>1
  <2>2. G[n].objects = first(n)
    BY <2>1
  <2> HIDE DEF G
  <2> QED BY <1>15, <2>1, <2>2
<1>17. store_node_objects(lsa) = W[lsa.num_objects].objects
  BY DEF store_node_objects, W
<1> QED BY <1>3, <1>4, <1>16, <1>17 DEF lsa
-----------------------------------------------------------------------------
(***************************************************************************)
(* The invariant holds.                                                    *)
(***************************************************************************)

LEMMA NamesAreWords ==
    ASSUME NEW table \in Seq(Entries)
    PROVE  NamesOf(table) \in Seq(Words) /\ Len(NamesOf(table)) = Len(table)
<1>1. \A i \in 1 .. Len(table) : table[i].name \in Words
  <2>1. \A i \in 1 .. Len(table) : table[i] \in Entries
    OBVIOUS
  <2>2. \A e \in Entries : e.name \in Words
    BY DEF Entries
  <2> QED BY <2>1, <2>2
<1>2. DOMAIN table = 1 .. Len(table) /\ Len(table) \in Nat
  OBVIOUS
<1> QED BY <1>1, <1>2 DEF NamesOf

LEMMA NodeInitInv == NodeInit => NodeInv
<1> SUFFICES ASSUME NodeInit PROVE NodeInv
  OBVIOUS
<1> USE DEF NodeInit
<1>1. FileOk(lines)
  BY FileAssumption DEF FileOk, Entries
<1>2. TableOk(lines, ol) /\ GolOk(lines, gol)
  BY <1>1, Loaded
<1>3. Kept(lines, ol, added)
  BY DEF Kept
<1>4. StoredIsSent
  BY DEF StoredIsSent
<1> QED BY <1>1, <1>2, <1>3, <1>4 DEF NodeInv

LEMMA NodeNextInv == NodeInv /\ [NodeNext]_nodevars => NodeInv'
<1> SUFFICES ASSUME NodeInv, [NodeNext]_nodevars PROVE NodeInv'
  OBVIOUS
<1>1. /\ FileOk(lines) /\ TableOk(lines, ol) /\ GolOk(lines, gol)
      /\ Kept(lines, ol, added) /\ StoredIsSent
  BY DEF NodeInv
<1>2. SUFFICES /\ FileOk(lines') /\ TableOk(lines', ol') /\ GolOk(lines', gol')
               /\ Kept(lines', ol', added') /\ StoredIsSent'
  BY DEF NodeInv, FileOk, TableOk, GolOk, GolType, Kept
<1>3. UNCHANGED neighbour => StoredIsSent'
  BY <1>1 DEF StoredIsSent
<1>4. ASSUME NEW words \in Uploads, NEW path \in PathNames, Addfile(words, path)
      PROVE  /\ FileOk(lines') /\ TableOk(lines', ol') /\ GolOk(lines', gol')
             /\ Kept(lines', ol', added') /\ StoredIsSent'
  <2> DEFINE request == process_buffer(AddfileWords(words, path))
             l == Line(request.name, request.path)
  <2>1. words \in Seq(Words) /\ words # << >>
    BY TextAssumption
  <2>2. /\ request.name = words[1] /\ request.name \in Words /\ request.path \in Texts
        /\ Len(words) = 1 => request.path = path
    BY <2>1, Parsed
  <2>3. /\ lines' = Append(lines, l) /\ ol' = Append(ol, l)
        /\ gol' = hash_add(gol, {request.name}, Me, 0)
        /\ request.name \notin DOMAIN gol
        /\ UNCHANGED neighbour
        /\ added' = IF Len(words) = 1
                    THEN [w \in DOMAIN added \cup {words[1]} |->
                             IF w = words[1] THEN path ELSE added[w]]
                    ELSE added
    BY <1>4 DEF Addfile, Stores, Appended, Refused, contains_object
  <2> HIDE DEF request
  <2>4. /\ FileOk(lines') /\ TableOk(lines', ol') /\ GolOk(lines', gol')
        /\ Kept(lines', ol', added)
    BY <1>1, <2>2, <2>3, OneMore
  <2>5. ASSUME Len(words) = 1
        PROVE  Kept(lines', ol', [w \in DOMAIN added \cup {words[1]} |->
                                     IF w = words[1] THEN path ELSE added[w]])
    <3>1. l \in Entries /\ l.name = words[1] /\ l.path = path
      BY <2>2, <2>5, LineType
    <3>2. lines \in Seq(Entries) /\ ol \in Seq(Entries) /\ Len(ol) = Len(lines)
      BY <1>1 DEF FileOk, TableOk
    <3> HIDE DEF l
    <3>3. Len(lines) + 1 \in DOMAIN lines' /\ lines'[Len(lines) + 1] = l
          /\ ol'[Len(lines) + 1] = l
      BY <2>3, <3>1, <3>2, AppendFacts
    <3>4. words[1] \in Words
      BY <2>2
    <3> QED BY <2>4, <3>1, <3>3, <3>4, OneMoreAnswered
  <2>6. Kept(lines', ol', added')
    BY <2>3, <2>4, <2>5
  <2> QED BY <1>3, <2>3, <2>4, <2>6
<1>5. ASSUME NEW words \in Uploads, NEW path \in PathNames, AddfileUnanswered(words, path)
      PROVE  /\ FileOk(lines') /\ TableOk(lines', ol') /\ GolOk(lines', gol')
             /\ Kept(lines', ol', added') /\ StoredIsSent'
  <2> DEFINE request == process_buffer(AddfileWords(words, path))
             l == Line(request.name, request.path)
  <2>1. words \in Seq(Words) /\ words # << >>
    BY TextAssumption
  <2>2. request.name \in Words /\ request.path \in Texts
    BY <2>1, Parsed
  <2>3. /\ lines' = Append(lines, l) /\ request.name \notin DOMAIN gol
        /\ ol' = load_node_file(lines') /\ gol' = LoadedGol(lines')
        /\ added' = added /\ UNCHANGED neighbour
    BY <1>5 DEF AddfileUnanswered, Stores, Appended, Refused, contains_object
  <2> HIDE DEF request
  <2>4. FileOk(lines') /\ Kept(lines', Append(ol, l), added)
    BY <1>1, <2>2, <2>3, OneMore
  <2>5. TableOk(lines', ol') /\ GolOk(lines', gol') /\ Kept(lines', ol', added')
    BY <2>3, <2>4, Loaded, LoadedKept
  <2> QED BY <1>3, <2>3, <2>4, <2>5
<1>6. ASSUME NEW w \in Words, Learn(w)
      PROVE  /\ FileOk(lines') /\ TableOk(lines', ol') /\ GolOk(lines', gol')
             /\ Kept(lines', ol', added') /\ StoredIsSent'
  BY <1>1, <1>3, <1>6, GolLearns DEF Learn
<1>7. CASE GiveUp
  BY <1>1, <1>3, <1>7, GolGivesUp DEF GiveUp
<1>8. CASE Flood
  <2>1. UNCHANGED <<lines, ol, gol, added>>
    BY <1>8 DEF Flood, memory
  <2>2. NamesOf(ol) \in Seq(Words)
    BY <1>1, NamesAreWords DEF TableOk
  <2>3. /\ neighbour'.sent = NamesOf(ol)
        /\ neighbour'.size = create_packet(NamesOf(ol)).size
        /\ neighbour'.stored = store_node_objects(rt_recvfrom(create_packet(NamesOf(ol))))
    BY <1>8 DEF Flood
  <2>4. StoredIsSent'
    BY <2>2, <2>3, StoresWhatWasSent DEF StoredIsSent
  <2> QED BY <1>1, <2>1, <2>4
<1>9. CASE Restart
  <2>1. /\ lines' = lines /\ added' = added /\ UNCHANGED neighbour
        /\ ol' = load_node_file(lines) /\ gol' = LoadedGol(lines)
    BY <1>9 DEF Restart
  <2>2. TableOk(lines, ol') /\ GolOk(lines, gol') /\ Kept(lines, ol', added)
    BY <1>1, <2>1, Loaded, LoadedKept
  <2> QED BY <1>1, <1>3, <2>1, <2>2
<1>10. CASE UNCHANGED nodevars
  BY <1>1, <1>3, <1>10 DEF nodevars, memory
<1> QED BY <1>4, <1>5, <1>6, <1>7, <1>8, <1>9, <1>10 DEF NodeNext

LEMMA NodeInvariance == NodeSpec => []NodeInv
BY NodeInitInv, NodeNextInv, PTL DEF NodeSpec

-----------------------------------------------------------------------------
(***************************************************************************)
(* What the runs check, for any words, paths and files.                    *)
(***************************************************************************)

\* The state has its types: however many words an ADDFILE comes in, the name that
\* is stored is a word of a name, and never a length or a path.
THEOREM NodeTypeCorrect == NodeSpec => []NodeTypeOK
<1>1. NodeInv => NodeTypeOK
  BY DEF NodeInv, FileOk, TableOk, GolOk, GolType, Kept, NodeTypeOK
<1> QED BY <1>1, NodeInvariance, PTL

\* A file whose ADDFILE was answered OK is found under its name, with its path,
\* after any restarts and whatever other nodes and clients name in between: for names
\* that fit into name[MAX_OBJ_LEN] and news of other nodes that is not nearer than
\* the file's own cost of 0.
THEOREM AddedFilesSurvive == NodeSpec => []FilesSurviveRestart
<1>1. ASSUME NodeInv, NEW w \in DOMAIN added PROVE RdgetPath(<<w>>) = added[w]
  <2>1. PICK i \in DOMAIN lines : lines[i].name = w /\ ol[i].path = added[w]
    BY <1>1 DEF NodeInv, Kept
  <2>2. added[w] \in PathNames /\ added[w] # Empty
    BY <1>1, ReadBack DEF NodeInv, Kept
  <2>3. lines \in Seq(Entries) /\ ol \in Seq(Entries) /\ Len(ol) = Len(lines)
        /\ \A k \in DOMAIN lines : ol[k].name = lines[k].name
    BY <1>1 DEF NodeInv, FileOk, TableOk
  <2>4. w \in Words
    <3>1. lines[i] \in Entries
      BY <2>3
    <3> QED BY <2>1, <3>1 DEF Entries
  <2>5. process_buffer(RdgetWords(<<w>>)).name = w
    BY <2>4, LookedFor
  <2>6. get_paths(gol, w) = Path(Me, 0) /\ Path(Me, 0).node_id = Me /\ Path(Me, 0) # NULL
    BY <1>1, <2>1, NodeAssumption DEF NodeInv, GolOk, get_paths, Path
  <2> DEFINE hits == {k \in DOMAIN ol : ol[k].name = w}
  <2>7. DOMAIN ol = DOMAIN lines /\ i \in Nat
    BY <2>3
  <2>8. hits = {i}
    BY <1>1, <2>1, <2>3, <2>7 DEF NodeInv, FileOk
  <2>9. get_local_file_path(w) = added[w]
    <3>1. get_local_file_path(w)
          = IF hits = {} THEN Empty
            ELSE ol[CHOOSE k \in hits : \A j \in hits : k <= j].path
      BY DEF get_local_file_path
    <3>2. (CHOOSE k \in hits : \A j \in hits : k <= j) = i
      BY <2>7, <2>8
    <3> QED BY <2>1, <2>8, <3>1, <3>2
  <2> QED BY <2>2, <2>5, <2>6, <2>9 DEF RdgetPath
<1>2. NodeInv => FilesSurviveRestart
  BY <1>1 DEF FilesSurviveRestart
<1> QED BY <1>2, NodeInvariance, PTL

\* The file, the table of local objects and the table of global objects name the
\* same files as this node's, each of them once, for names that fit into the
\* MAX_OBJ_LEN bytes that each of the two tables has for one.
THEOREM TablesAlwaysAgree == NodeSpec => []TablesAgree
<1>1. ASSUME NodeInv PROVE TablesAgree
  <2>1. /\ lines \in Seq(Entries) /\ ol \in Seq(Entries) /\ Len(ol) = Len(lines)
        /\ \A i \in DOMAIN lines : ol[i].name = lines[i].name
        /\ \A i, j \in DOMAIN lines : lines[i].name = lines[j].name => i = j
    BY <1>1 DEF NodeInv, FileOk, TableOk
  <2>2. DOMAIN ol = DOMAIN lines
    BY <2>1
  <2>3. NamesOf(ol) = NamesOf(lines)
    BY <2>1, <2>2 DEF NamesOf
  <2>4. IsInjective(NamesOf(ol))
    BY <2>1, <2>2 DEF NamesOf, IsInjective
  <2>5. ASSUME NEW w \in DOMAIN gol
        PROVE  (gol[w] # NULL /\ gol[w].node_id = Me) <=> \E i \in DOMAIN ol : ol[i].name = w
    <3>1. (gol[w] # NULL /\ gol[w].node_id = Me) => \E i \in DOMAIN ol : ol[i].name = w
      BY <1>1, <2>1, <2>2 DEF NodeInv, GolOk
    <3>2. Path(Me, 0) # NULL /\ Path(Me, 0).node_id = Me
      BY NodeAssumption DEF Path
    <3>3. \A i \in DOMAIN ol : ol[i].name = w => gol[w] = Path(Me, 0)
      BY <1>1, <2>1, <2>2 DEF NodeInv, GolOk
    <3> QED BY <3>1, <3>2, <3>3
  <2> QED BY <2>3, <2>4, <2>5 DEF TablesAgree
<1> QED BY <1>1, NodeInvariance, PTL

\* A neighbour stores the names that were sent, for any number of links and of names
\* shorter than MAX_OBJ_LEN, up to the packet that fits into MAX_LSA_LEN.
THEOREM StoredAsSent == NodeSpec => []StoredIsSent
<1>1. NodeInv => StoredIsSent
  BY DEF NodeInv
<1> QED BY <1>1, NodeInvariance, PTL
=============================================================================
