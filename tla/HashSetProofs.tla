--------------------------- MODULE HashSetProofs ----------------------------
(***************************************************************************)
(* Proofs about HashSet, for any names, buckets and hash function and any  *)
(* room in obj_names: the chains hold one pair of a name, and buckets and  *)
(* array together behave as the table of GlobalObjects.                    *)
(***************************************************************************)
EXTENDS HashSet, FiniteSetTheorems, SequenceTheorems, TLAPS

Buckets == 0 .. HASHSIZE - 1

NamesIn(chain) == {chain[i].obj_name : i \in DOMAIN chain}

\* The names that have a pair.
Named == UNION {NamesIn(hash[b]) : b \in Buckets}

Distinct(chain) ==
    \A i, j \in DOMAIN chain : chain[i].obj_name = chain[j].obj_name => i = j

Homed(b, chain) == \A i \in DOMAIN chain : Bucket[chain[i].obj_name] = b

\* OnePairPerName by chains, and with the names counted rather than the pairs.
HashInv ==
    /\ TypeOK
    /\ \A b \in Buckets : Distinct(hash[b]) /\ Homed(b, hash[b])
    /\ IsFiniteSet(Named) /\ num_objs = Cardinality(Named)

(***************************************************************************)
(* Looking up.                                                             *)
(***************************************************************************)

\* What the operators of HashSet find: the pair of a name that has one, nothing
\* for a name that has none.
Lookups ==
    /\ \A b \in Buckets : \A i \in DOMAIN hash[b] :
           LET o == hash[b][i].obj_name
           IN  /\ o \in Names /\ o \in Named /\ b = Bucket[o]
               /\ link_contains_obj(o) = {i} /\ contains_object(o) = {i}
               /\ get_paths(o) = hash[b][i].path_s
    /\ \A o \in Named : \E b \in Buckets : \E i \in DOMAIN hash[b] : hash[b][i].obj_name = o
    /\ \A o \in Names \ Named : contains_object(o) = {}

LEMMA ChainTypes ==
    ASSUME TypeOK, NEW b \in Buckets
    PROVE  /\ hash[b] \in Seq(Pairs) /\ Len(hash[b]) \in Nat
           /\ DOMAIN hash[b] = 1 .. Len(hash[b])
           /\ \A i \in DOMAIN hash[b] : /\ hash[b][i] \in Pairs
                                        /\ hash[b][i].obj_name \in Names
<1>1. hash[b] \in Seq(Pairs)
  BY DEF TypeOK, Buckets
<1>2. \A i \in DOMAIN hash[b] : hash[b][i] \in Pairs
  BY <1>1
<1> QED BY <1>1, <1>2 DEF Pairs

LEMMA LookupsHold == HashInv => Lookups
<1> SUFFICES ASSUME HashInv PROVE Lookups
  OBVIOUS
<1>1. \A o \in Names : Bucket[o] \in Buckets
  BY ParameterAssumption DEF Buckets
<1>2. ASSUME NEW b \in Buckets, NEW i \in DOMAIN hash[b]
      PROVE  LET o == hash[b][i].obj_name
             IN  /\ o \in Names /\ o \in Named /\ b = Bucket[o]
                 /\ link_contains_obj(o) = {i} /\ contains_object(o) = {i}
                 /\ get_paths(o) = hash[b][i].path_s
  <2> DEFINE o == hash[b][i].obj_name
  <2>1. o \in Names /\ i \in Nat
    BY <1>2, ChainTypes DEF HashInv
  <2>2. b = Bucket[o] /\ o \in Named
    BY <1>2 DEF HashInv, Homed, Named, NamesIn
  <2>3. Found(o) = {i}
    BY <1>2, <2>2 DEF Found, HashInv, Distinct
  <2>4. link_contains_obj(o) = {i}
    BY <2>1, <2>3 DEF link_contains_obj
  <2>5. num_objs # 0
    BY <2>2, FS_EmptySet DEF HashInv
  <2>6. contains_object(o) = {i}
    BY <2>4, <2>5 DEF contains_object
  <2>7. get_paths(o) = hash[b][i].path_s
    BY <2>2, <2>6 DEF get_paths
  <2> QED BY <2>1, <2>2, <2>4, <2>6, <2>7
<1>3. \A o \in Named : \E b \in Buckets : \E i \in DOMAIN hash[b] : hash[b][i].obj_name = o
  BY DEF Named, NamesIn
<1>4. ASSUME NEW o \in Names \ Named PROVE contains_object(o) = {}
  <2>1. Found(o) = {}
    BY <1>1, <1>4 DEF Found, Named, NamesIn
  <2> QED BY <2>1 DEF contains_object, link_contains_obj
<1> QED BY <1>2, <1>3, <1>4 DEF Lookups

(***************************************************************************)
(* The operations.                                                         *)
(***************************************************************************)

\* An operation that rewrites paths and no more.
LEMMA PathsRewritten ==
    ASSUME HashInv, UNCHANGED <<obj_names, num_objs>>,
           hash' \in [Buckets -> Seq(Pairs)],
           \A b \in Buckets :
               /\ DOMAIN hash'[b] = DOMAIN hash[b]
               /\ \A i \in DOMAIN hash[b] : hash'[b][i].obj_name = hash[b][i].obj_name
    PROVE  HashInv' /\ Named' = Named
<1>1. \A b \in Buckets : NamesIn(hash'[b]) = NamesIn(hash[b])
  BY DEF NamesIn
<1>2. Named' = Named
  BY <1>1 DEF Named
<1>3. \A b \in Buckets : Distinct(hash'[b]) /\ Homed(b, hash'[b])
  BY DEF HashInv, Distinct, Homed
<1>4. TypeOK'
  BY DEF HashInv, TypeOK, Buckets
<1> QED BY <1>2, <1>3, <1>4 DEF HashInv

\* An operation on the chain of one bucket.
LEMMA ChainReplaced ==
    ASSUME HashInv, NEW b \in Buckets, NEW chain \in Seq(Pairs),
           Distinct(chain), Homed(b, chain),
           hash' = [hash EXCEPT ![b] = chain]
    PROVE  /\ hash' \in [Buckets -> Seq(Pairs)]
           /\ \A a \in Buckets : Distinct(hash'[a]) /\ Homed(a, hash'[a])
           /\ Named' = (Named \ NamesIn(hash[b])) \cup NamesIn(chain)
<1>1. hash \in [Buckets -> Seq(Pairs)]
  BY DEF HashInv, TypeOK, Buckets
<1>2. hash' \in [Buckets -> Seq(Pairs)]
  BY <1>1
<1>3. \A a \in Buckets : hash'[a] = IF a = b THEN chain ELSE hash[a]
  BY <1>1
<1>4. \A a \in Buckets : Distinct(hash'[a]) /\ Homed(a, hash'[a])
  BY <1>3 DEF HashInv
<1>5. \A a \in Buckets : a # b => NamesIn(hash[a]) \cap NamesIn(hash[b]) = {}
  BY DEF HashInv, Homed, NamesIn
<1>6. Named' = UNION {NamesIn(hash'[a]) : a \in Buckets}
  BY DEF Named
<1>7. Named' = (Named \ NamesIn(hash[b])) \cup NamesIn(chain)
  <2>1. ASSUME NEW o \in Named' PROVE o \in (Named \ NamesIn(hash[b])) \cup NamesIn(chain)
    <3>1. PICK a \in Buckets : o \in NamesIn(hash'[a])
      BY <1>6, <2>1
    <3> QED BY <1>3, <1>5, <3>1 DEF Named
  <2>2. ASSUME NEW o \in Named, o \notin NamesIn(hash[b]) PROVE o \in Named'
    <3>1. PICK a \in Buckets : o \in NamesIn(hash[a])
      BY <2>2 DEF Named
    <3> QED BY <1>3, <1>6, <2>2, <3>1
  <2>3. NamesIn(chain) \subseteq Named'
    BY <1>3, <1>6
  <2> QED BY <2>1, <2>2, <2>3
<1> QED BY <1>2, <1>4, <1>7

\* A pair in front of a chain.
LEMMA Prepended ==
    ASSUME NEW chain \in Seq(Pairs), NEW pair \in Pairs, Distinct(chain),
           pair.obj_name \notin NamesIn(chain)
    PROVE  LET new == <<pair>> \o chain
           IN  /\ new \in Seq(Pairs) /\ Distinct(new)
               /\ NamesIn(new) = NamesIn(chain) \cup {pair.obj_name}
               /\ DOMAIN new = 1 .. Len(chain) + 1
               /\ new[1] = pair
               /\ \A i \in DOMAIN new : i # 1 =>
                      i - 1 \in DOMAIN chain /\ new[i] = chain[i - 1]
<1> DEFINE new == <<pair>> \o chain
<1>1. Len(chain) \in Nat /\ DOMAIN chain = 1 .. Len(chain)
  OBVIOUS
<1>2. new \in Seq(Pairs) /\ DOMAIN new = 1 .. Len(chain) + 1 /\ new[1] = pair
  BY <1>1
<1>3. ASSUME NEW i \in DOMAIN new, i # 1
      PROVE  i - 1 \in DOMAIN chain /\ new[i] = chain[i - 1]
  BY <1>1, <1>2, <1>3
<1>4. \A i \in DOMAIN chain : i + 1 \in DOMAIN new /\ new[i + 1] = chain[i]
  BY <1>1, <1>2, <1>3
<1> HIDE DEF new
<1>5. NamesIn(new) = NamesIn(chain) \cup {pair.obj_name}
  <2>1. NamesIn(new) \subseteq NamesIn(chain) \cup {pair.obj_name}
    BY <1>2, <1>3 DEF NamesIn
  <2>2. NamesIn(chain) \subseteq NamesIn(new)
    BY <1>4 DEF NamesIn
  <2>3. pair.obj_name \in NamesIn(new)
    BY <1>1, <1>2 DEF NamesIn
  <2> QED BY <2>1, <2>2, <2>3
<1>6. Distinct(new)
  <2> SUFFICES ASSUME NEW i \in DOMAIN new, NEW j \in DOMAIN new,
                      new[i].obj_name = new[j].obj_name
               PROVE  i = j
    BY DEF Distinct
  <2>1. CASE i = 1 \/ j = 1
    BY <1>2, <1>3, <2>1 DEF NamesIn
  <2>2. CASE i # 1 /\ j # 1
    <3>1. i - 1 = j - 1
      BY <1>3, <2>2 DEF Distinct
    <3> QED BY <1>1, <1>2, <3>1
  <2> QED BY <2>1, <2>2
<1> QED BY <1>2, <1>3, <1>5, <1>6 DEF new

\* A chain without one of its pairs.
LEMMA Unlinked ==
    ASSUME NEW chain \in Seq(Pairs), NEW i \in DOMAIN chain, Distinct(chain)
    PROVE  LET new == Without(chain, i)
           IN  /\ new \in Seq(Pairs) /\ Distinct(new)
               /\ NamesIn(new) = NamesIn(chain) \ {chain[i].obj_name}
               /\ \A j \in DOMAIN new : \E k \in DOMAIN chain : k # i /\ new[j] = chain[k]
<1> DEFINE new == Without(chain, i)
           at(j) == IF j < i THEN j ELSE j + 1
<1>1. Len(chain) \in Nat /\ DOMAIN chain = 1 .. Len(chain) /\ i \in 1 .. Len(chain)
      /\ \A j \in 1 .. Len(chain) : chain[j] \in Pairs
  OBVIOUS
<1>2. /\ SubSeq(chain, 1, i - 1) \in Seq(Pairs)
      /\ Len(SubSeq(chain, 1, i - 1)) = i - 1
      /\ \A j \in 1 .. i - 1 : SubSeq(chain, 1, i - 1)[j] = chain[j]
  BY <1>1, SubSeqProperties
<1>3. /\ SubSeq(chain, i + 1, Len(chain)) \in Seq(Pairs)
      /\ Len(SubSeq(chain, i + 1, Len(chain))) = Len(chain) - i
      /\ \A j \in 1 .. Len(chain) - i :
             SubSeq(chain, i + 1, Len(chain))[j] = chain[i + j]
  BY <1>1, SubSeqProperties
<1>4. /\ new \in Seq(Pairs) /\ DOMAIN new = 1 .. Len(chain) - 1
      /\ \A j \in DOMAIN new : new[j] = chain[at(j)]
  <2> DEFINE before == SubSeq(chain, 1, i - 1)
             after == SubSeq(chain, i + 1, Len(chain))
  <2>1. new = before \o after
    BY DEF Without
  <2> HIDE DEF before, after
  <2>2. before \in Seq(Pairs) /\ after \in Seq(Pairs) /\ Len(before) = i - 1
        /\ Len(after) = Len(chain) - i
        /\ (\A j \in 1 .. i - 1 : before[j] = chain[j])
        /\ \A j \in 1 .. Len(chain) - i : after[j] = chain[i + j]
    BY <1>2, <1>3 DEF before, after
  <2>3. /\ new \in Seq(Pairs) /\ Len(new) = Len(chain) - 1
        /\ \A j \in 1 .. Len(chain) - 1 :
               new[j] = IF j <= i - 1 THEN before[j] ELSE after[j - (i - 1)]
    <3>1. /\ before \o after \in Seq(Pairs)
          /\ Len(before \o after) = Len(before) + Len(after)
          /\ \A j \in 1 .. Len(before) + Len(after) :
                 (before \o after)[j] =
                     IF j <= Len(before) THEN before[j] ELSE after[j - Len(before)]
      BY <2>2, ConcatProperties
    <3>2. Len(before) + Len(after) = Len(chain) - 1
      BY <1>1, <2>2
    <3> HIDE DEF new
    <3> QED BY <2>1, <2>2, <3>1, <3>2
  <2>4. ASSUME NEW j \in 1 .. Len(chain) - 1 PROVE new[j] = chain[at(j)]
    <3>1. CASE j < i
      BY <1>1, <2>2, <2>3, <3>1
    <3>2. CASE ~(j < i)
      <4>1. j - (i - 1) \in 1 .. Len(chain) - i /\ i + (j - (i - 1)) = j + 1
        BY <1>1, <3>2
      <4>2. after[j - (i - 1)] = chain[j + 1]
        BY <2>2, <4>1
      <4>3. ~(j <= i - 1)
        BY <1>1, <3>2
      <4> QED BY <2>3, <3>2, <4>2, <4>3
    <3> QED BY <3>1, <3>2
  <2> QED BY <1>1, <2>3, <2>4
<1> HIDE DEF new
<1>5. \A j \in DOMAIN new : at(j) \in DOMAIN chain /\ at(j) # i
  BY <1>1, <1>4
<1>6. \A k \in DOMAIN chain : k # i => \E j \in DOMAIN new : at(j) = k
  <2> SUFFICES ASSUME NEW k \in DOMAIN chain, k # i PROVE \E j \in DOMAIN new : at(j) = k
    OBVIOUS
  <2>1. CASE k < i
    BY <1>1, <1>4, <2>1
  <2>2. CASE k > i
    <3>1. k - 1 \in DOMAIN new /\ at(k - 1) = k
      BY <1>1, <1>4, <2>2
    <3> QED BY <3>1
  <2> QED BY <1>1, <2>1, <2>2
<1>7. \A j, k \in DOMAIN new : at(j) = at(k) => j = k
  BY <1>1, <1>4
<1> HIDE DEF at
<1>8. Distinct(new)
  BY <1>4, <1>5, <1>7 DEF Distinct
<1>9. NamesIn(new) = NamesIn(chain) \ {chain[i].obj_name}
  <2>1. ASSUME NEW j \in DOMAIN new
        PROVE  new[j].obj_name \in NamesIn(chain) \ {chain[i].obj_name}
    BY <1>4, <1>5 DEF NamesIn, Distinct
  <2>2. ASSUME NEW k \in DOMAIN chain, chain[k].obj_name # chain[i].obj_name
        PROVE  chain[k].obj_name \in NamesIn(new)
    BY <1>4, <1>6, <2>2 DEF NamesIn
  <2> QED BY <2>1, <2>2 DEF NamesIn
<1> QED BY <1>4, <1>5, <1>8, <1>9 DEF new

(***************************************************************************)
(* The table that the buckets stand for.                                   *)
(***************************************************************************)

Tab == [o \in {n \in Names : contains_object(n) # {}} |-> get_paths(o)]

\* t is that table.
Views(t) ==
    /\ t = [o \in DOMAIN t |-> t[o]] /\ DOMAIN t = Named
    /\ \A b \in Buckets : \A i \in DOMAIN hash[b] :
           t[hash[b][i].obj_name] = hash[b][i].path_s

TabViewed == Views(Tab) /\ \A t : Views(t) => t = Tab

LEMMA TabIsViewed == HashInv => TabViewed
<1> SUFFICES ASSUME HashInv PROVE TabViewed
  OBVIOUS
<1>1. Lookups
  BY LookupsHold
<1>2. Named \subseteq Names
  BY <1>1 DEF Lookups
<1>3. DOMAIN Tab = Named
  BY <1>1, <1>2 DEF Tab, Lookups
<1>4. \A b \in Buckets : \A i \in DOMAIN hash[b] :
          Tab[hash[b][i].obj_name] = hash[b][i].path_s
  BY <1>1, <1>3 DEF Tab, Lookups
<1>5. Tab = [o \in DOMAIN Tab |-> Tab[o]]
  BY DEF Tab
<1>6. ASSUME NEW t, Views(t) PROVE t = Tab
  <2>1. \A o \in Named : t[o] = Tab[o]
    BY <1>1, <1>4, <1>6 DEF Lookups, Views
  <2>2. t = [o \in Named |-> t[o]] /\ Tab = [o \in Named |-> Tab[o]]
    BY <1>3, <1>5, <1>6 DEF Views
  <2> QED BY <2>1, <2>2
<1> QED BY <1>3, <1>4, <1>5, <1>6 DEF TabViewed, Views

\* A step after which t is what the buckets hold makes t the table.
LEMMA TabBecomes ==
    ASSUME HashInv', NEW t, t = [o \in DOMAIN t |-> t[o]], DOMAIN t = Named',
           \A b \in Buckets : \A i \in DOMAIN hash'[b] :
               t[hash'[b][i].obj_name] = hash'[b][i].path_s
    PROVE  Tab' = t
<1>1. TabViewed'
  BY TabIsViewed, PTL
<1>2. (\A u : Views(u) => u = Tab)'
  BY <1>1 DEF TabViewed
<1> QED BY <1>2 DEF Views

LEMMA AllListedIs == HashInv => (AllListed <=> Named \subseteq Listed)
BY DEF AllListed, Named, NamesIn, HashInv, TypeOK, Buckets

LEMMA AllListedKept ==
    ASSUME HashInv, HashInv', Named' = Named, UNCHANGED <<obj_names, num_objs>>
    PROVE  AllListed' = AllListed
<1>1. (AllListed <=> Named \subseteq Listed)'
  BY AllListedIs, PTL
<1>2. AllListed' <=> Named \subseteq Listed
  BY <1>1 DEF Listed
<1> QED BY <1>2, AllListedIs DEF AllListed

LEMMA PathTypes ==
    ASSUME NEW k \in Nodes, NEW c \in Costs, NEW o \in Names
    PROVE  /\ Path(k, c) # NULL /\ c \in Nat
           /\ [obj_name |-> o, path_s |-> Path(k, c)] \in Pairs
BY ParameterAssumption DEF Path, Pairs

-----------------------------------------------------------------------------
LEMMA PathAdded ==
    ASSUME HashInv, NEW o \in Names, NEW k \in Nodes, NEW c \in Costs, AddPath(o, k, c)
    PROVE  HashInv' /\ Table!Add(o, k, c)
<1> DEFINE b == Bucket[o]
<1>1. PICK i \in contains_object(o) :
          hash' = IF Nearer(hash[b][i].path_s, c)
                  THEN [hash EXCEPT ![b][i].path_s = Path(k, c)] ELSE hash
  BY DEF AddPath
<1>2. UNCHANGED <<obj_names, num_objs>>
  BY DEF AddPath
<1>3. b \in Buckets /\ i \in DOMAIN hash[b] /\ hash[b][i].obj_name = o
      /\ o \in Named
  <2>1. b \in Buckets
    BY ParameterAssumption DEF Buckets
  <2>2. i \in Found(o)
    BY <1>1 DEF contains_object, link_contains_obj
  <2> QED BY <2>1, <2>2 DEF Found, Named, NamesIn
<1>4. TabViewed /\ Lookups /\ TypeOK
  BY TabIsViewed, LookupsHold DEF HashInv
<1>5. hash[b] \in Seq(Pairs) /\ hash[b][i] \in Pairs /\ hash \in [Buckets -> Seq(Pairs)]
  BY <1>3, <1>4, ChainTypes DEF TypeOK, Buckets
<1> HIDE DEF b
<1> DEFINE new == IF Nearer(hash[b][i].path_s, c)
                  THEN [hash[b][i] EXCEPT !.path_s = Path(k, c)] ELSE hash[b][i]
<1>6. new \in Pairs /\ new.obj_name = o
      /\ new.path_s = IF Nearer(hash[b][i].path_s, c) THEN Path(k, c) ELSE hash[b][i].path_s
  BY <1>3, <1>5, PathTypes DEF Pairs
<1>7. hash' = [hash EXCEPT ![b] = [hash[b] EXCEPT ![i] = new]]
  <2>1. CASE Nearer(hash[b][i].path_s, c)
    BY <1>1, <2>1
  <2>2. CASE ~Nearer(hash[b][i].path_s, c)
    <3>1. [hash[b] EXCEPT ![i] = new] = hash[b]
      BY <1>3, <1>5, <2>2
    <3> QED BY <1>1, <1>3, <1>5, <2>2, <3>1
  <2> QED BY <2>1, <2>2
<1> HIDE DEF new
<1>8. [hash[b] EXCEPT ![i] = new] \in Seq(Pairs)
  BY <1>3, <1>5, <1>6
<1>9. hash' \in [Buckets -> Seq(Pairs)]
  BY <1>3, <1>5, <1>7, <1>8
<1>10. \A a \in Buckets : DOMAIN hash'[a] = DOMAIN hash[a]
  BY <1>3, <1>5, <1>7
<1>11. \A a \in Buckets : \A j \in DOMAIN hash[a] :
           hash'[a][j] = IF a = b /\ j = i THEN new ELSE hash[a][j]
  BY <1>3, <1>5, <1>7
<1>12. HashInv' /\ Named' = Named
  BY <1>2, <1>3, <1>6, <1>9, <1>10, <1>11, PathsRewritten
<1> DEFINE t == Table!hash_add(Tab, {o}, k, c)
<1>13. DOMAIN Tab = Named
       /\ \A a \in Buckets : \A j \in DOMAIN hash[a] :
              Tab[hash[a][j].obj_name] = hash[a][j].path_s
  BY <1>4 DEF TabViewed, Views
<1>14. /\ t = [x \in Named |-> IF x = o /\ Table!Nearer(Tab[x], c) THEN Path(k, c)
                               ELSE Tab[x]]
  BY <1>3, <1>13 DEF Table!hash_add, Table!Path, Path
<1>15. Table!Nearer(Tab[o], c) <=> Nearer(hash[b][i].path_s, c)
  <2>1. Tab[o] = hash[b][i].path_s
    BY <1>3, <1>13
  <2>2. Tab[o] = NULL \/ (Tab[o].cost \in Nat /\ c \in Nat)
    BY <1>5, <2>1, PathTypes, ParameterAssumption DEF Pairs
  <2> QED BY <2>1, <2>2 DEF Table!Nearer, Nearer
<1> HIDE DEF t
<1>16. ASSUME NEW a \in Buckets, NEW j \in DOMAIN hash'[a]
       PROVE  t[hash'[a][j].obj_name] = hash'[a][j].path_s
  <2>1. j \in DOMAIN hash[a] /\ hash[a][j].obj_name \in Named
    BY <1>4, <1>10 DEF Lookups
  <2>2. CASE a = b /\ j = i
    BY <1>3, <1>6, <1>11, <1>13, <1>14, <1>15, <2>1, <2>2
  <2>3. CASE ~(a = b /\ j = i)
    <3>1. hash'[a][j] = hash[a][j]
      BY <1>11, <2>1, <2>3
    <3>2. hash[a][j].obj_name # o
      BY <1>3, <2>1, <2>3 DEF HashInv, Homed, Distinct, b
    <3> QED BY <1>13, <1>14, <2>1, <3>1, <3>2
  <2> QED BY <2>2, <2>3
<1>17. Tab' = t
  <2>1. t = [x \in DOMAIN t |-> t[x]] /\ DOMAIN t = Named'
    BY <1>12, <1>14
  <2> QED BY <1>12, <1>16, <2>1, TabBecomes
<1>18. AllListed' = AllListed
  BY <1>2, <1>12, AllListedKept
<1> QED BY <1>12, <1>17, <1>18 DEF Table!Add, Tab, t

\* A name that is entered behind the others in obj_names.
LEMMA ListedGrows ==
    ASSUME TypeOK, NEW o \in Names, num_objs < MAXOBJNUM,
           obj_names' = [obj_names EXCEPT ![num_objs] = o], num_objs' = num_objs + 1
    PROVE  /\ Listed' = Listed \cup {o}
           /\ obj_names' \in [0 .. MAXOBJNUM - 1 -> Names \cup {Empty}]
           /\ num_objs' \in 0 .. MAXOBJNUM
<1>1. num_objs \in Nat /\ MAXOBJNUM \in Nat
      /\ obj_names \in [0 .. MAXOBJNUM - 1 -> Names \cup {Empty}]
  BY ParameterAssumption DEF TypeOK
<1>2. num_objs \in 0 .. MAXOBJNUM - 1 /\ num_objs' \in 0 .. MAXOBJNUM
  BY <1>1
<1>3. \A i \in 0 .. MAXOBJNUM - 1 : obj_names'[i] = IF i = num_objs THEN o ELSE obj_names[i]
  BY <1>1
<1>4. 0 .. num_objs' - 1 = (0 .. num_objs - 1) \cup {num_objs}
      /\ 0 .. num_objs \subseteq 0 .. MAXOBJNUM - 1
  BY <1>1
<1>5. Listed' = {obj_names'[i] : i \in (0 .. num_objs - 1) \cup {num_objs}}
  BY <1>4 DEF Listed
<1>6. \A i \in 0 .. num_objs - 1 : obj_names'[i] = obj_names[i]
  BY <1>1, <1>3, <1>4
<1>7. obj_names'[num_objs] = o
  BY <1>2, <1>3
<1> QED BY <1>1, <1>2, <1>5, <1>6, <1>7 DEF Listed

LEMMA PairAdded ==
    ASSUME HashInv, NEW o \in Names, NEW k \in Nodes, NEW c \in Costs, AddPair(o, k, c)
    PROVE  HashInv' /\ Table!Add(o, k, c)
<1> DEFINE b == Bucket[o]
           pair == [obj_name |-> o, path_s |-> Path(k, c)]
           chain == <<pair>> \o hash[b]
<1>1. TabViewed /\ Lookups /\ TypeOK
  BY TabIsViewed, LookupsHold DEF HashInv
<1>2. hash' = [hash EXCEPT ![b] = chain]
      /\ obj_names' = [obj_names EXCEPT ![num_objs] = o] /\ num_objs' = num_objs + 1
  BY DEF AddPair
<1>3. b \in Buckets
  BY ParameterAssumption DEF Buckets
<1>4. o \notin Named
  <2>1. contains_object(o) = {}
    BY DEF AddPair
  <2>2. ASSUME o \in Named PROVE FALSE
    <3>1. PICK a \in Buckets : \E i \in DOMAIN hash[a] : hash[a][i].obj_name = o
      BY <1>1, <2>2 DEF Lookups
    <3>2. PICK i \in DOMAIN hash[a] : hash[a][i].obj_name = o
      BY <3>1
    <3>3. contains_object(hash[a][i].obj_name) = {i}
      BY <1>1 DEF Lookups
    <3> QED BY <2>1, <3>2, <3>3
  <2> QED BY <2>2
<1>5. pair \in Pairs /\ pair.obj_name = o /\ pair.path_s = Path(k, c)
  BY PathTypes
<1>6. NamesIn(hash[b]) \subseteq Named
  BY <1>3 DEF Named
<1>7. hash[b] \in Seq(Pairs) /\ Distinct(hash[b]) /\ Homed(b, hash[b])
      /\ DOMAIN hash[b] = 1 .. Len(hash[b]) /\ Len(hash[b]) \in Nat
      /\ hash \in [Buckets -> Seq(Pairs)]
  BY <1>1, <1>3, ChainTypes DEF HashInv, TypeOK, Buckets
<1> HIDE DEF pair
<1>8. /\ chain \in Seq(Pairs) /\ Distinct(chain)
      /\ NamesIn(chain) = NamesIn(hash[b]) \cup {o}
      /\ DOMAIN chain = 1 .. Len(hash[b]) + 1
      /\ chain[1] = pair
      /\ \A i \in DOMAIN chain : i # 1 =>
             i - 1 \in DOMAIN hash[b] /\ chain[i] = hash[b][i - 1]
  BY <1>4, <1>5, <1>6, <1>7, Prepended
<1> HIDE DEF chain
<1>9. Homed(b, chain)
  <2> HIDE DEF b
  <2>1. \A i \in DOMAIN chain : Bucket[chain[i].obj_name] = b
    BY <1>5, <1>7, <1>8 DEF Homed, b
  <2> QED BY <2>1 DEF Homed
<1>10. /\ hash' \in [Buckets -> Seq(Pairs)]
       /\ \A a \in Buckets : Distinct(hash'[a]) /\ Homed(a, hash'[a])
       /\ Named' = Named \cup {o}
  <2>1. /\ hash' \in [Buckets -> Seq(Pairs)]
        /\ \A a \in Buckets : Distinct(hash'[a]) /\ Homed(a, hash'[a])
        /\ Named' = (Named \ NamesIn(hash[b])) \cup NamesIn(chain)
    BY <1>2, <1>3, <1>8, <1>9, ChainReplaced
  <2> QED BY <1>6, <1>8, <2>1
<1>11. /\ Listed' = Listed \cup {o}
       /\ obj_names' \in [0 .. MAXOBJNUM - 1 -> Names \cup {Empty}]
       /\ num_objs' \in 0 .. MAXOBJNUM
  <2>1. num_objs < MAXOBJNUM
    BY DEF AddPair
  <2> QED BY <1>1, <1>2, <2>1, ListedGrows
<1>12. IsFiniteSet(Named') /\ num_objs' = Cardinality(Named')
  BY <1>2, <1>4, <1>10, FS_AddElement DEF HashInv
<1>13. HashInv'
  BY <1>10, <1>11, <1>12 DEF HashInv, TypeOK, Buckets
<1> DEFINE t == Table!hash_add(Tab, {o}, k, c)
<1>14. DOMAIN Tab = Named
       /\ \A a \in Buckets : \A j \in DOMAIN hash[a] :
              Tab[hash[a][j].obj_name] = hash[a][j].path_s
  BY <1>1 DEF TabViewed, Views
<1>15. t = [x \in Named \cup {o} |-> IF x = o THEN Path(k, c) ELSE Tab[x]]
  BY <1>4, <1>14 DEF Table!hash_add, Table!Path, Path
<1> HIDE DEF t, b
<1>16. ASSUME NEW a \in Buckets, NEW j \in DOMAIN hash'[a]
       PROVE  t[hash'[a][j].obj_name] = hash'[a][j].path_s
  <2>1. hash'[a] = IF a = b THEN chain ELSE hash[a]
    BY <1>2, <1>3, <1>7
  <2>2. ASSUME NEW i \in DOMAIN hash[a]
        PROVE  t[hash[a][i].obj_name] = hash[a][i].path_s
    <3>1. hash[a][i].obj_name \in Named
      BY <1>1 DEF Lookups
    <3> QED BY <1>4, <1>14, <1>15, <3>1
  <2>3. CASE a = b /\ j = 1
    BY <1>5, <1>8, <1>15, <2>1, <2>3
  <2>4. CASE a = b /\ j # 1
    <3>1. j - 1 \in DOMAIN hash[a] /\ hash'[a][j] = hash[a][j - 1]
      BY <1>8, <2>1, <2>4
    <3> QED BY <2>2, <3>1
  <2>5. CASE a # b
    BY <2>1, <2>2, <2>5
  <2> QED BY <2>3, <2>4, <2>5
<1>17. Tab' = t
  <2>1. t = [x \in DOMAIN t |-> t[x]] /\ DOMAIN t = Named'
    BY <1>10, <1>15
  <2> QED BY <1>13, <1>16, <2>1, TabBecomes
<1>18. AllListed' = AllListed
  <2>1. (AllListed <=> Named \subseteq Listed)'
    BY <1>13, AllListedIs, PTL
  <2>2. AllListed <=> Named \subseteq Listed
    BY AllListedIs
  <2>3. AllListed' <=> AllListed
    BY <1>4, <1>10, <1>11, <2>1, <2>2
  <2> QED BY <2>3 DEF AllListed
<1> QED BY <1>13, <1>17, <1>18 DEF Table!Add, Tab, t

\* The paths of the node are removed from the names that are listed.
LEMMA NodeRemoved ==
    ASSUME HashInv, NEW k \in Nodes, hash_remove_node(k)
    PROVE  HashInv' /\ Table!RemoveNode(k)
<1> DEFINE after(pair, i) ==
               IF /\ pair.obj_name \in Listed
                  /\ i \in link_contains_obj(pair.obj_name)
                  /\ pair.path_s # NULL /\ pair.path_s.node_id = k
               THEN [pair EXCEPT !.path_s = NULL] ELSE pair
           found == Named \cap Listed
           t == [o \in DOMAIN Tab |-> IF o \in found
                                      THEN Table!hash_remove_node(Tab, {k})[o] ELSE Tab[o]]
<1>1. TabViewed /\ Lookups /\ TypeOK
  BY TabIsViewed, LookupsHold DEF HashInv
<1>2. DOMAIN hash = Buckets /\ UNCHANGED <<obj_names, num_objs>>
  BY <1>1 DEF TypeOK, Buckets, hash_remove_node
<1>3. hash' = [b \in Buckets |-> [i \in DOMAIN hash[b] |-> after(hash[b][i], i)]]
  BY <1>2 DEF hash_remove_node
<1>4. ASSUME NEW b \in Buckets, NEW i \in DOMAIN hash[b]
      PROVE  /\ after(hash[b][i], i) \in Pairs
             /\ after(hash[b][i], i).obj_name = hash[b][i].obj_name
             /\ after(hash[b][i], i).path_s =
                    IF /\ hash[b][i].obj_name \in Listed
                       /\ hash[b][i].path_s # NULL /\ hash[b][i].path_s.node_id = k
                    THEN NULL ELSE hash[b][i].path_s
  <2>1. hash[b][i] \in Pairs
    BY <1>1, <1>4, ChainTypes
  <2>2. link_contains_obj(hash[b][i].obj_name) = {i}
    BY <1>1, <1>4 DEF Lookups
  <2> QED BY <2>1, <2>2 DEF Pairs
<1> HIDE DEF after
<1>5. ASSUME NEW b \in Buckets
      PROVE  hash'[b] \in Seq(Pairs) /\ DOMAIN hash'[b] = DOMAIN hash[b]
  <2>1. Len(hash[b]) \in Nat /\ DOMAIN hash[b] = 1 .. Len(hash[b])
    BY <1>1, ChainTypes
  <2>2. hash'[b] = [i \in 1 .. Len(hash[b]) |-> after(hash[b][i], i)]
    BY <1>3, <2>1
  <2>3. hash'[b] \in [1 .. Len(hash[b]) -> Pairs]
    BY <1>4, <2>1, <2>2
  <2>4. hash'[b] \in UNION {[1 .. n -> Pairs] : n \in Nat}
    BY <2>1, <2>3
  <2> QED BY <2>1, <2>2, <2>4, SeqDef
<1>6. hash' \in [Buckets -> Seq(Pairs)]
  BY <1>3, <1>5
<1>7. \A b \in Buckets : \A i \in DOMAIN hash[b] : hash'[b][i] = after(hash[b][i], i)
  BY <1>3
<1>8. HashInv' /\ Named' = Named
  BY <1>2, <1>4, <1>5, <1>6, <1>7, PathsRewritten
<1>9. DOMAIN Tab = Named
      /\ \A a \in Buckets : \A j \in DOMAIN hash[a] :
             Tab[hash[a][j].obj_name] = hash[a][j].path_s
  BY <1>1 DEF TabViewed, Views
<1>10. t = [o \in Named |-> IF /\ o \in Listed /\ Tab[o] # NULL /\ Tab[o].node_id = k
                            THEN NULL ELSE Tab[o]]
  BY <1>9 DEF Table!hash_remove_node
<1> HIDE DEF t
<1>11. ASSUME NEW a \in Buckets, NEW j \in DOMAIN hash'[a]
       PROVE  t[hash'[a][j].obj_name] = hash'[a][j].path_s
  <2>1. j \in DOMAIN hash[a] /\ hash[a][j].obj_name \in Named
    BY <1>1, <1>5 DEF Lookups
  <2>2. hash'[a][j].obj_name = hash[a][j].obj_name
        /\ hash'[a][j].path_s =
               IF /\ hash[a][j].obj_name \in Listed
                  /\ hash[a][j].path_s # NULL /\ hash[a][j].path_s.node_id = k
               THEN NULL ELSE hash[a][j].path_s
    BY <1>4, <1>7, <2>1
  <2>3. Tab[hash[a][j].obj_name] = hash[a][j].path_s
    BY <1>9, <2>1
  <2> QED BY <1>10, <2>1, <2>2, <2>3
<1>12. Tab' = t
  <2>1. t = [x \in DOMAIN t |-> t[x]] /\ DOMAIN t = Named'
    BY <1>8, <1>10
  <2> QED BY <1>8, <1>11, <2>1, TabBecomes
<1>13. AllListed' = AllListed /\ (AllListed => found = DOMAIN Tab)
  BY <1>2, <1>8, <1>9, AllListedKept, AllListedIs
<1>14. found \in SUBSET DOMAIN Tab
  BY <1>9
<1> HIDE DEF found
<1> QED BY <1>8, <1>12, <1>13, <1>14 DEF Table!RemoveNode, Tab, t

LEMMA ObjectRemoved ==
    ASSUME HashInv, NEW o \in Names, hash_remove_object(o)
    PROVE  HashInv' /\ Table!RemoveObject(o)
<1> DEFINE b == Bucket[o]
<1>1. TabViewed /\ Lookups /\ TypeOK
  BY TabIsViewed, LookupsHold DEF HashInv
<1>2. PICK i \in contains_object(o) :
          /\ hash' = [hash EXCEPT ![b] = Without(hash[b], i)]
          /\ num_objs' = num_objs - 1
          /\ obj_names' = [j \in DOMAIN obj_names |->
                              IF obj_names[j] = o THEN Empty ELSE obj_names[j]]
  BY DEF hash_remove_object, OneLess
<1>3. b \in Buckets /\ i \in DOMAIN hash[b] /\ hash[b][i].obj_name = o
  <2>1. b \in Buckets
    BY ParameterAssumption DEF Buckets
  <2>2. i \in Found(o)
    BY <1>2 DEF contains_object, link_contains_obj
  <2> QED BY <2>1, <2>2 DEF Found
<1>4. o \in Named
  BY <1>3 DEF Named, NamesIn
<1>5. hash[b] \in Seq(Pairs) /\ Distinct(hash[b]) /\ Homed(b, hash[b])
      /\ hash \in [Buckets -> Seq(Pairs)]
  BY <1>1, <1>3, ChainTypes DEF HashInv, TypeOK, Buckets
<1> HIDE DEF b
<1> DEFINE chain == Without(hash[b], i)
<1>6. /\ chain \in Seq(Pairs) /\ Distinct(chain)
      /\ NamesIn(chain) = NamesIn(hash[b]) \ {o}
      /\ \A j \in DOMAIN chain : \E m \in DOMAIN hash[b] : m # i /\ chain[j] = hash[b][m]
  BY <1>3, <1>5, Unlinked
<1> HIDE DEF chain
<1>7. Homed(b, chain)
  BY <1>5, <1>6 DEF Homed
<1>8. hash' = [hash EXCEPT ![b] = chain]
  BY <1>2 DEF chain
<1>9. /\ hash' \in [Buckets -> Seq(Pairs)]
      /\ \A a \in Buckets : Distinct(hash'[a]) /\ Homed(a, hash'[a])
      /\ Named' = Named \ {o}
  <2>1. /\ hash' \in [Buckets -> Seq(Pairs)]
        /\ \A a \in Buckets : Distinct(hash'[a]) /\ Homed(a, hash'[a])
        /\ Named' = (Named \ NamesIn(hash[b])) \cup NamesIn(chain)
    BY <1>3, <1>6, <1>7, <1>8, ChainReplaced
  <2>2. o \in NamesIn(hash[b]) /\ NamesIn(hash[b]) \subseteq Named
    BY <1>3 DEF NamesIn, Named
  <2> QED BY <1>6, <2>1, <2>2
<1>10. IsFiniteSet(Named') /\ num_objs' = Cardinality(Named')
  BY <1>2, <1>4, <1>9, FS_RemoveElement DEF HashInv
<1>11. num_objs' \in 0 .. MAXOBJNUM
  <2>1. Cardinality(Named') \in Nat
    BY <1>10, FS_CardinalityType
  <2> QED BY <1>1, <1>2, <1>10, <2>1, ParameterAssumption DEF TypeOK
<1>12. obj_names' \in [0 .. MAXOBJNUM - 1 -> Names \cup {Empty}]
  BY <1>1, <1>2 DEF TypeOK
<1>13. HashInv'
  BY <1>9, <1>10, <1>11, <1>12 DEF HashInv, TypeOK, Buckets
<1> DEFINE t == [x \in DOMAIN Tab \ {o} |-> Tab[x]]
<1>14. DOMAIN Tab = Named
       /\ \A a \in Buckets : \A j \in DOMAIN hash[a] :
              Tab[hash[a][j].obj_name] = hash[a][j].path_s
  BY <1>1 DEF TabViewed, Views
<1>15. t = [x \in DOMAIN t |-> t[x]] /\ DOMAIN t = Named'
       /\ \A x \in Named : x # o => t[x] = Tab[x]
  BY <1>9, <1>14
<1> HIDE DEF t
<1>16. ASSUME NEW a \in Buckets, NEW j \in DOMAIN hash'[a]
       PROVE  t[hash'[a][j].obj_name] = hash'[a][j].path_s
  <2>1. hash'[a] = IF a = b THEN chain ELSE hash[a]
    BY <1>3, <1>5, <1>8
  <2>2. \E m \in DOMAIN hash[a] : hash'[a][j] = hash[a][m]
    BY <1>6, <2>1
  <2>3. PICK m \in DOMAIN hash[a] : hash'[a][j] = hash[a][m]
    BY <2>2
  <2>4. hash'[a][j].obj_name \in Named'
    BY DEF Named, NamesIn
  <2>5. hash[a][m].obj_name # o /\ hash[a][m].obj_name \in Named
    BY <1>9, <2>3, <2>4
  <2> QED BY <1>14, <1>15, <2>3, <2>5
<1>17. Tab' = t
  BY <1>13, <1>15, <1>16, TabBecomes
<1>18. AllListed' \in BOOLEAN
  BY DEF AllListed
<1>19. o \in DOMAIN Tab
  BY <1>4, <1>14
<1> QED BY <1>13, <1>17, <1>18, <1>19 DEF Table!RemoveObject, Tab, t

\* Emptied, the table is the one to begin with, and its names are all listed.
LEMMA Emptied ==
    ASSUME init_hash
    PROVE  HashInv /\ Tab = Table!init_hash /\ AllListed
<1>1. \A b \in Buckets : hash[b] = << >>
  BY DEF init_hash, EmptyHash, Buckets
<1>2. Named = {}
  BY <1>1 DEF Named, NamesIn
<1>3. TypeOK
  BY <1>1, ParameterAssumption
     DEF init_hash, EmptyHash, EmptyNames, TypeOK, Buckets
<1>4. HashInv
  BY <1>1, <1>2, <1>3, FS_EmptySet DEF HashInv, Distinct, Homed, init_hash
<1>5. AllListed
  BY <1>2, <1>4, AllListedIs
<1>6. Views(Table!init_hash)
  BY <1>1, <1>2 DEF Views, Table!init_hash
<1>7. Tab = Table!init_hash
  BY <1>4, <1>6, TabIsViewed DEF TabViewed
<1> QED BY <1>4, <1>5, <1>7

-----------------------------------------------------------------------------
\* Every operation keeps the invariant and is one of the abstract table's, or
\* leaves that as it is.
LEMMA StepHash ==
    ASSUME HashInv, [Next]_vars
    PROVE  HashInv' /\ (Table!Next \/ UNCHANGED Table!vars)
<1>1. CASE UNCHANGED vars
  <2>1. HashInv'
    BY <1>1
       DEF vars, HashInv, TypeOK, Named
  <2>2. Tab' = Tab /\ AllListed' = AllListed
    BY <1>1 DEF vars, Tab, contains_object, link_contains_obj, Found, get_paths, AllListed,
                Listed
  <2> QED BY <2>1, <2>2 DEF Table!vars, Tab
<1>2. ASSUME NEW o \in Names, NEW k \in Nodes, NEW c \in Costs, hash_add(o, k, c)
      PROVE  HashInv' /\ Table!Next
  BY <1>2, PathAdded, PairAdded DEF hash_add, Table!Next
<1>3. ASSUME NEW k \in Nodes, hash_remove_node(k)
      PROVE  HashInv' /\ Table!Next
  BY <1>3, NodeRemoved DEF Table!Next
<1>4. ASSUME NEW o \in Names, hash_remove_object(o)
      PROVE  HashInv' /\ Table!Next
  BY <1>4, ObjectRemoved DEF Table!Next
<1>5. CASE collapse
  <2>1. init_hash'
    BY <1>5 DEF collapse, init_hash, EmptyHash, EmptyNames
  <2>2. (HashInv /\ Tab = Table!init_hash /\ AllListed)'
    BY <2>1, Emptied, PTL
  <2>3. Table!Collapse
    BY <2>2 DEF Table!Collapse, Table!init_hash, Tab, AllListed
  <2> QED BY <2>2, <2>3 DEF Table!Next
<1> QED BY <1>1, <1>2, <1>3, <1>4, <1>5 DEF Next

LEMMA InvHolds == Spec => []HashInv
<1>1. init_hash => HashInv
  BY Emptied
<1>2. HashInv /\ [Next]_vars => HashInv'
  BY StepHash
<1> QED BY <1>1, <1>2, PTL DEF Spec

\* Every variable has its type: num_objs, which the code never checks, does not
\* go below 0.
THEOREM HashTypeCorrect == Spec => []TypeOK
<1>1. HashInv => TypeOK
  BY DEF HashInv
<1> QED BY <1>1, InvHolds, PTL

\* As many places in chains as names, when no two pairs have the same name.
LEMMA PlacesCounted ==
    ASSUME HashInv
    PROVE  LET places == UNION {{<<b, i>> : i \in DOMAIN hash[b]} : b \in Buckets}
           IN  Cardinality(places) = Cardinality(Named)
<1> DEFINE places == UNION {{<<b, i>> : i \in DOMAIN hash[b]} : b \in Buckets}
           f == [p \in places |-> hash[p[1]][p[2]].obj_name]
<1>1. \A p \in places : p[1] \in Buckets /\ p[2] \in DOMAIN hash[p[1]]
                        /\ p = <<p[1], p[2]>>
  OBVIOUS
<1>2. \A b \in Buckets : \A i \in DOMAIN hash[b] : <<b, i>> \in places
  OBVIOUS
<1> HIDE DEF places
<1>3. Lookups
  BY LookupsHold
<1>4. f \in [places -> Named]
  BY <1>1, <1>3 DEF Lookups
<1>5. ASSUME NEW o \in Named PROVE \E p \in places : f[p] = o
  <2>1. PICK b \in Buckets : \E i \in DOMAIN hash[b] : hash[b][i].obj_name = o
    BY <1>3 DEF Lookups
  <2>2. PICK i \in DOMAIN hash[b] : hash[b][i].obj_name = o
    BY <2>1
  <2>3. <<b, i>> \in places /\ f[<<b, i>>] = o
    BY <1>2, <2>2
  <2> QED BY <2>3
<1>6. ASSUME NEW p \in places, NEW q \in places, f[p] = f[q] PROVE p = q
  <2>1. hash[p[1]][p[2]].obj_name = hash[q[1]][q[2]].obj_name
    BY <1>6
  <2>2. p[1] = q[1]
    BY <1>1, <2>1 DEF HashInv, Homed
  <2>3. p[2] = q[2]
    BY <1>1, <2>1, <2>2 DEF HashInv, Distinct
  <2> QED BY <1>1, <2>2, <2>3
<1> HIDE DEF f
<1>7. f \in Injection(places, Named) /\ f \in Surjection(places, Named)
  BY <1>4, <1>5, <1>6 DEF Injection, Surjection, IsInjective
<1>8. Cardinality(places) = Cardinality(Named)
  BY <1>7, FS_Injection DEF HashInv
<1> QED BY <1>8 DEF places

\* A name has at most one pair, in its own bucket, and num_objs, which every
\* lookup tests first, counts the pairs (hashset.c:55,79).
THEOREM OnePairPerNameHolds == Spec => []OnePairPerName
<1>1. HashInv => OnePairPerName
  <2> SUFFICES ASSUME HashInv PROVE OnePairPerName
    OBVIOUS
  <2> DEFINE places == UNION {{<<b, i>> : i \in DOMAIN hash[b]} : b \in DOMAIN hash}
  <2>1. DOMAIN hash = Buckets
    BY DEF HashInv, TypeOK, Buckets
  <2>2. \A p \in places : p[1] \in Buckets /\ p[2] \in DOMAIN hash[p[1]]
                          /\ p = <<p[1], p[2]>>
    BY <2>1
  <2>3. num_objs = Cardinality(places)
    BY <2>1, PlacesCounted DEF HashInv
  <2> HIDE DEF places
  <2>4. \A p \in places : Bucket[hash[p[1]][p[2]].obj_name] = p[1]
    BY <2>2 DEF HashInv, Homed
  <2>5. ASSUME NEW p \in places, NEW q \in places,
               hash[p[1]][p[2]].obj_name = hash[q[1]][q[2]].obj_name
        PROVE  p = q
    <3>1. p[1] = q[1]
      BY <2>4, <2>5
    <3>2. p[2] = q[2]
      BY <2>2, <2>5, <3>1 DEF HashInv, Distinct
    <3> QED BY <2>2, <3>1, <3>2
  <2> QED BY <2>3, <2>4, <2>5 DEF OnePairPerName, places
<1> QED BY <1>1, InvHolds, PTL

\* The buckets, the chains and the array obj_names behave as one function from
\* names to nearest paths, whatever names share a bucket (hashset.c:109-263).
THEOREM HashSetIsTable == Spec => IsTable
<1>1. init_hash => Tab = Table!init_hash /\ AllListed
  BY Emptied
<1>2. init_hash => /\ [o \in {n \in Names : contains_object(n) # {}} |-> get_paths(o)]
                         = Table!init_hash
                   /\ AllListed = TRUE
  BY <1>1 DEF Tab, AllListed
<1>3. HashInv /\ [Next]_vars => [Table!Next]_(Table!vars)
  BY StepHash
<1> QED BY <1>2, <1>3, InvHolds, PTL DEF Spec, IsTable, Table!Spec
=============================================================================
