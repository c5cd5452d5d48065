------------------------------ MODULE GraphQlProofs ------------------------------
(***************************************************************************)
(* Proofs about the catalog of a GraphQL API, for any schema of any size,  *)
(* any depth, any decisions and any limits: what discovery offers can be   *)
(* selected and what it does not offer is in the ledger, once; a compile   *)
(* that refuses nothing gives a catalog that can be executed, a curated    *)
(* compile refuses for nothing but what the host can do something about,   *)
(* what diff finds to decide is what compile would refuse, and a candidate *)
(* is refused for nothing that is not the host's to decide.                *)
(*                                                                         *)
(* Then the three who compile, by inductive invariants:                    *)
(*   ReviewInv, of CatalogReview: the inventory file is one that was taken *)
(*   of some schema, but for what was edited of its selections;            *)
(*   DiffInv, of CatalogReview: besides, no root is selected twice, and    *)
(*   the decisions file is one whose entries list their fields; it is also *)
(*   what the candidate needs;                                             *)
(*   LedgerInv, of CatalogReview: the inventory says of each root selected *)
(*   what was discovered for it;                                           *)
(*   BoardInv, of GraphQlDesk: a configuration has a mode for each         *)
(*   argument, and what is compiled is of what the desk shows;             *)
(*   CuratedInv, of CuratedDesk: what is compiled is of the form, and the  *)
(*   meanings in it are the host's.                                        *)
(*                                                                         *)
(* Discovery, paths and filters are recursive functions.  What they return *)
(* is proved level by level, by SetInduction of CatalogProofs.  Of         *)
(* MCReviewTools only the composition ToolsSpec is used: the constants are *)
(* any that satisfy the assumptions.                                       *)
(***************************************************************************)
EXTENDS CatalogProofs, MCReviewTools

-----------------------------------------------------------------------------

(* A list in which no key comes twice. *)
KeyedOnce(key, list) == \A i, j \in DOMAIN list : key[list[i]] = key[list[j]] => i = j

(* Two lists without a key in common. *)
LEMMA JoinedOnce ==
    ASSUME NEW T, NEW s \in Seq(T), NEW t \in Seq(T), NEW key, KeyedOnce(key, s), KeyedOnce(key, t),
           \A x \in Range(s), y \in Range(t) : key[x] # key[y]
    PROVE  KeyedOnce(key, s \o t)
<1> DEFINE u == s \o t
<1>1. /\ DOMAIN s = 1 .. Len(s) /\ DOMAIN t = 1 .. Len(t) /\ Len(s) \in Nat /\ Len(t) \in Nat
      /\ DOMAIN u = 1 .. Len(s) + Len(t)
      /\ \A i \in DOMAIN u : \/ i \in 1 .. Len(s) /\ u[i] = s[i]
                             \/ i - Len(s) \in 1 .. Len(t) /\ u[i] = t[i - Len(s)]
  OBVIOUS
<1>2. \A i \in 1 .. Len(s), j \in 1 .. Len(t) : key[s[i]] # key[t[j]]
  BY <1>1 DEF Range
<1> HIDE DEF u
<1>3. ASSUME NEW i \in DOMAIN u, NEW j \in DOMAIN u, key[u[i]] = key[u[j]] PROVE i = j
  <2>1. CASE i \in 1 .. Len(s) /\ u[i] = s[i] /\ j \in 1 .. Len(s) /\ u[j] = s[j]
    BY <2>1, <1>1, <1>3 DEF KeyedOnce
  <2>2. CASE i - Len(s) \in 1 .. Len(t) /\ u[i] = t[i - Len(s)] /\ j - Len(s) \in 1 .. Len(t) /\ u[j] = t[j - Len(s)]
    <3>1. i - Len(s) = j - Len(s)
      BY <2>2, <1>1, <1>3 DEF KeyedOnce
    <3> QED
      BY <3>1, <1>1
  <2> QED
    BY <1>1, <1>2, <1>3, <2>1, <2>2
<1> QED
  BY <1>3 DEF KeyedOnce, u

(* Lists one after the other. *)
LEMMA FlattenAre ==
    ASSUME NEW T, NEW seqs \in Seq(Seq(T)), NEW key
    PROVE  /\ FlattenSeq(seqs) \in Seq(T)
           /\ Range(FlattenSeq(seqs)) = UNION {Range(seqs[i]) : i \in DOMAIN seqs}
           /\ (/\ \A i \in DOMAIN seqs : KeyedOnce(key, seqs[i])
               /\ \A i, j \in DOMAIN seqs : i # j => \A x \in Range(seqs[i]), y \in Range(seqs[j]) : key[x] # key[y])
              => KeyedOnce(key, FlattenSeq(seqs))
<1> DEFINE n == Len(seqs)
           Apart == /\ \A i \in DOMAIN seqs : KeyedOnce(key, seqs[i])
                    /\ \A i, j \in DOMAIN seqs : i # j => \A x \in Range(seqs[i]), y \in Range(seqs[j]) : key[x] # key[y]
           E(f) == [i \in 1 .. n |-> IF i = 1 THEN seqs[i] ELSE f[i - 1] \o seqs[i]]
           flatten == CHOOSE f : f = E(f)
<1>1. n \in Nat /\ DOMAIN seqs = 1 .. n /\ \A i \in 1 .. n : seqs[i] \in Seq(T)
  OBVIOUS
<1>2. FlattenSeq(seqs) = IF n = 0 THEN seqs ELSE flatten[n]
  BY DEF FlattenSeq
<1>3. CASE n = 0
  <2>1. seqs = <<>> /\ DOMAIN seqs = {} /\ seqs \in Seq(T)
    BY <1>3
  <2> QED
    BY <1>2, <1>3, <2>1 DEF Range, KeyedOnce
<1>4. CASE n > 0
  <2> HIDE DEF n
  <2>1. n - 1 \in Nat /\ 1 \in 1 .. n /\ \A k \in 1 .. n - 1 : k + 1 \in 1 .. n
    BY <1>1, <1>4
  <2>2. \E f : f = E(f)
    <3> DEFINE Q == Seq(T)
               step == [x \in (1 .. n - 1) \X Q |-> x[2] \o seqs[x[1] + 1]]
    <3>1. Steps(n - 1, Q, step)
      BY <1>1, <2>1 DEF Steps
    <3>2. seqs[1] \in Q
      BY <1>1, <2>1
    <3>3. PICK g : Follows(g, n - 1, Q, seqs[1], step)
      <4> HIDE DEF Q, step
      <4> QED
        BY <2>1, <3>1, <3>2, Recursion
    <3>4. ASSUME NEW k \in 1 .. n - 1 PROVE g[k] = g[k - 1] \o seqs[k + 1]
      <4>1. k - 1 \in 0 .. n - 1
        BY <2>1
      <4>2. g[k - 1] \in Q /\ <<k, g[k - 1]>> \in (1 .. n - 1) \X Q
        BY <3>3, <4>1 DEF Follows
      <4> HIDE DEF Q
      <4> QED
        BY <3>3, <4>2 DEF Follows
    <3> DEFINE f == [i \in 1 .. n |-> g[i - 1]]
    <3>5. ASSUME NEW i \in 1 .. n PROVE f[i] = IF i = 1 THEN seqs[i] ELSE f[i - 1] \o seqs[i]
      <4>1. CASE i = 1
        BY <4>1, <3>3 DEF Follows
      <4>2. CASE i # 1
        <5>1. i - 1 \in 1 .. n - 1 /\ i - 1 \in 1 .. n /\ (i - 1) + 1 = i
          BY <4>2, <2>1, <1>1
        <5>2. f[i] = g[i - 1] /\ f[i - 1] = g[(i - 1) - 1]
          BY <5>1
        <5>3. g[i - 1] = g[(i - 1) - 1] \o seqs[(i - 1) + 1]
          BY <3>4, <5>1
        <5> HIDE DEF f
        <5> QED
          BY <4>2, <5>1, <5>2, <5>3
      <4> QED
        BY <4>1, <4>2
    <3>6. f = E(f)
      <4>1. DOMAIN f = 1 .. n /\ f = [i \in 1 .. n |-> f[i]]
        OBVIOUS
      <4> HIDE DEF f
      <4> QED
        BY <3>5, <4>1
    <3> QED
      BY <3>6
  <2>3. flatten[1] = seqs[1] /\ \A k \in 1 .. n - 1 : flatten[k + 1] = flatten[k] \o seqs[k + 1]
    <3>1. flatten = E(flatten)
      BY <2>2
    <3> HIDE DEF flatten
    <3>2. \A f : f = E(f) => f[1] = seqs[1] /\ \A k \in 1 .. n - 1 : f[k + 1] = f[k] \o seqs[k + 1]
      <4> SUFFICES ASSUME NEW f, f = E(f) PROVE f[1] = seqs[1] /\ \A k \in 1 .. n - 1 : f[k + 1] = f[k] \o seqs[k + 1]
        OBVIOUS
      <4>1. \A i \in 1 .. n : f[i] = IF i = 1 THEN seqs[i] ELSE f[i - 1] \o seqs[i]
        OBVIOUS
      <4> HIDE DEF E
      <4>2. \A k \in 1 .. n - 1 : k + 1 # 1 /\ (k + 1) - 1 = k /\ k + 1 \in 1 .. n
        BY <2>1
      <4> QED
        BY <2>1, <4>1, <4>2
    <3> HIDE DEF E
    <3> QED
      BY <3>1, <3>2
  <2> HIDE DEF flatten
  <2> DEFINE Good(k, f) == /\ f \in Seq(T) /\ Range(f) = UNION {Range(seqs[i]) : i \in 1 .. k}
                           /\ (Apart => KeyedOnce(key, f))
             D == {m \in Nat : m < n => Good(m + 1, flatten[m + 1])}
  <2>4. Good(1, flatten[1])
    <3>1. flatten[1] \in Seq(T)
      BY <1>1, <2>1, <2>3
    <3>2. UNION {Range(seqs[i]) : i \in 1 .. 1} = Range(seqs[1])
      OBVIOUS
    <3>3. Apart => KeyedOnce(key, seqs[1])
      BY <1>1, <2>1
    <3> QED
      BY <2>3, <3>1, <3>2, <3>3
  <2>5. ASSUME NEW k \in 1 .. n - 1, Good(k, flatten[k]) PROVE Good(k + 1, flatten[k + 1])
    <3> DEFINE s == flatten[k]
               t == seqs[k + 1]
    <3>1. flatten[k + 1] = s \o t
      BY <2>3
    <3>2. s \in Seq(T) /\ t \in Seq(T) /\ Range(s) = UNION {Range(seqs[i]) : i \in 1 .. k}
      BY <1>1, <2>1, <2>5
    <3>3. Apart => KeyedOnce(key, s) /\ KeyedOnce(key, t) /\ \A x \in Range(s), y \in Range(t) : key[x] # key[y]
      <4> SUFFICES ASSUME Apart PROVE KeyedOnce(key, s) /\ KeyedOnce(key, t) /\ \A x \in Range(s), y \in Range(t) : key[x] # key[y]
        OBVIOUS
      <4>1. KeyedOnce(key, s) /\ KeyedOnce(key, t)
        BY <1>1, <2>1, <2>5
      <4>2. ASSUME NEW x \in Range(s), NEW y \in Range(t) PROVE key[x] # key[y]
        <5>1. PICK i \in 1 .. k : x \in Range(seqs[i])
          BY <3>2
        <5>2. i \in DOMAIN seqs /\ k + 1 \in DOMAIN seqs /\ i # k + 1
          BY <1>1, <2>1
        <5> QED
          BY <5>1, <5>2
      <4> QED
        BY <4>1, <4>2
    <3> HIDE DEF s, t, Apart
    <3>4. s \in Seq(Range(s)) /\ t \in Seq(Range(t))
      BY <3>2, RangeIs
    <3>5. Range(s \o t) = Range(s) \cup Range(t)
      BY <3>4, JoinedRange
    <3>6. UNION {Range(seqs[i]) : i \in 1 .. k + 1} = (UNION {Range(seqs[i]) : i \in 1 .. k}) \cup Range(t)
      <4>1. \A i : i \in 1 .. k + 1 <=> i \in 1 .. k \/ i = k + 1
        BY <2>1
      <4> QED
        BY <4>1 DEF t
    <3>7. s \o t \in Seq(T)
      BY <3>2
    <3>8. Apart => KeyedOnce(key, s \o t)
      BY <3>2, <3>3, JoinedOnce
    <3> QED
      BY <3>1, <3>2, <3>5, <3>6, <3>7, <3>8
  <2>6. n - 1 \in D
    <3> HIDE DEF Good
    <3>1. 0 \in D
      BY <2>4
    <3>2. ASSUME NEW m \in Nat, m \in D PROVE m + 1 \in D
      <4> SUFFICES ASSUME m + 1 < n PROVE Good((m + 1) + 1, flatten[(m + 1) + 1])
        OBVIOUS
      <4>1. m + 1 \in 1 .. n - 1 /\ m < n
        BY <1>1
      <4> QED
        BY <3>2, <4>1, <2>5
    <3> HIDE DEF D
    <3> QED
      BY <2>1, <3>1, <3>2, SetInduction
  <2>7. Good(n, flatten[n])
    <3>1. n - 1 < n /\ (n - 1) + 1 = n
      BY <1>1
    <3> HIDE DEF Good
    <3> QED
      BY <2>6, <3>1
  <2>8. FlattenSeq(seqs) = flatten[n]
    BY <1>2, <1>4
  <2> QED
    BY <1>1, <2>7, <2>8
<1> QED
  BY <1>1, <1>3, <1>4

-----------------------------------------------------------------------------
(* What discovery finds: it is typed, and what it offers can be selected. *)

(* What the fields of a schema, and what discovery finds in it, are made of. *)
FieldsIn(s) == UNION {Range(FieldsOf(s, t)) : t \in DOMAIN s.types}
NamesIn(s) == {f.name : f \in FieldsIn(s)}
LeavesIn(s) == [path : Seq(NamesIn(s)), type : DOMAIN s.types, meaning : {f.meaning : f \in FieldsIn(s)}]
EndReasons == {"depth", "recursion", "required-argument", "union", "interface-implementation"}
CutsIn(s) == [path : Seq(NamesIn(s)), reason : EndReasons]
FoundIn(s) == [offered : Seq(LeavesIn(s)), cut : SUBSET CutsIn(s)]

(* A name occurs once in a list. *)
LEMMA NamedIs ==
    ASSUME NEW list, NamesOnce(list)
    PROVE  /\ list \in Seq(Range(list))
           /\ \A i, j \in DOMAIN list : list[i].name = list[j].name => i = j
           /\ \A x, y \in Range(list) : x.name = y.name => x = y
           /\ \A x \in Range(list) : (CHOOSE y \in Range(list) : y.name = x.name) = x
<1>1. list \in Seq(Range(list)) /\ \A i, j \in DOMAIN list : list[i].name = list[j].name => i = j
  BY DEF NamesOnce, Repeats, IsInjective
<1>2. \A x, y \in Range(list) : x.name = y.name => x = y
  BY <1>1 DEF Range
<1>3. ASSUME NEW x \in Range(list) PROVE (CHOOSE y \in Range(list) : y.name = x.name) = x
  <2> DEFINE c == CHOOSE y \in Range(list) : y.name = x.name
  <2>1. c \in Range(list) /\ c.name = x.name
    OBVIOUS
  <2> HIDE DEF c
  <2> QED
    BY <1>2, <2>1 DEF c
<1> QED
  BY <1>1, <1>2, <1>3

(* The fields of a type. *)
LEMMA FieldIs ==
    ASSUME NEW s, IsSchema(s), NEW t \in DOMAIN s.types
    PROVE  /\ FieldsOf(s, t) \in Seq(FieldsIn(s)) /\ DOMAIN FieldsOf(s, t) = 1 .. Len(FieldsOf(s, t))
           /\ Names(s, t) \subseteq NamesIn(s)
           /\ \A i, j \in DOMAIN FieldsOf(s, t) : FieldsOf(s, t)[i].name = FieldsOf(s, t)[j].name => i = j
           /\ \A f \in Range(FieldsOf(s, t)) :
                /\ FieldNamed(s, t, f.name) = f /\ IsComposite(s, t) /\ f.type \in DOMAIN s.types
                /\ f.name \in Names(s, t) /\ f.name \in NamesIn(s) /\ f \in FieldsIn(s)
<1> DEFINE fields == FieldsOf(s, t)
<1>1. NamesOnce(fields) /\ (fields # <<>> => IsComposite(s, t)) /\ \A f \in Range(fields) : f.type \in DOMAIN s.types
  BY DEF IsSchema
<1>2. Range(fields) \subseteq FieldsIn(s)
  BY DEF FieldsIn
<1>3. Names(s, t) = {f.name : f \in Range(fields)}
  BY DEF Names
<1>4. \A n : FieldNamed(s, t, n) = CHOOSE f \in Range(fields) : f.name = n
  BY DEF FieldNamed
<1> HIDE DEF fields
<1>5. /\ fields \in Seq(Range(fields))
      /\ \A i, j \in DOMAIN fields : fields[i].name = fields[j].name => i = j
      /\ \A f \in Range(fields) : (CHOOSE y \in Range(fields) : y.name = f.name) = f
  BY <1>1, NamedIs
<1>6. fields \in Seq(FieldsIn(s)) /\ DOMAIN fields = 1 .. Len(fields)
  BY <1>2, <1>5
<1>7. \A f \in Range(fields) : fields # <<>>
  BY <1>5 DEF Range
<1>8. Names(s, t) \subseteq NamesIn(s)
  BY <1>2, <1>3 DEF NamesIn
<1>9. \A f \in Range(fields) :
        /\ FieldNamed(s, t, f.name) = f /\ IsComposite(s, t) /\ f.type \in DOMAIN s.types
        /\ f.name \in Names(s, t) /\ f.name \in NamesIn(s) /\ f \in FieldsIn(s)
  <2> SUFFICES ASSUME NEW f \in Range(fields)
               PROVE  /\ FieldNamed(s, t, f.name) = f /\ IsComposite(s, t) /\ f.type \in DOMAIN s.types
                      /\ f.name \in Names(s, t) /\ f.name \in NamesIn(s) /\ f \in FieldsIn(s)
    OBVIOUS
  <2>1. FieldNamed(s, t, f.name) = f
    BY <1>4, <1>5
  <2>2. f.name \in Names(s, t) /\ f \in FieldsIn(s)
    BY <1>2, <1>3
  <2> QED
    BY <1>1, <1>7, <1>8, <2>1, <2>2
<1> QED
  BY <1>5, <1>6, <1>8, <1>9 DEF fields

(* Entries of the ledger. *)
LEMMA CutsTyped ==
    ASSUME NEW s, NEW names \in SUBSET NamesIn(s), NEW reason \in EndReasons
    PROVE  Cuts(names, reason) \in SUBSET CutsIn(s)
<1>1. \A n \in names : [path |-> <<n>>, reason |-> reason] \in CutsIn(s)
  BY DEF CutsIn
<1> QED
  BY <1>1 DEF Cuts

(* What a field leads to by itself. *)
LEMMA EndTyped ==
    ASSUME NEW s, IsSchema(s), NEW t \in DOMAIN s.types, NEW f \in Range(FieldsOf(s, t))
    PROVE  End(s, f) \in FoundIn(s)
<1>1. f.type \in DOMAIN s.types /\ f.name \in NamesIn(s) /\ f \in FieldsIn(s)
  BY FieldIs
<1>2. <<>> \in Seq(LeavesIn(s)) /\ {} \in SUBSET CutsIn(s)
  OBVIOUS
<1>3. Leaf(f) \in FoundIn(s)
  <2>1. [path |-> <<f.name>>, type |-> f.type, meaning |-> f.meaning] \in LeavesIn(s)
    BY <1>1 DEF LeavesIn
  <2> DEFINE leaf == [path |-> <<f.name>>, type |-> f.type, meaning |-> f.meaning]
  <2> HIDE DEF leaf
  <2>2. <<leaf>> \in Seq(LeavesIn(s))
    BY <2>1 DEF leaf
  <2> QED
    BY <1>2, <2>2 DEF Leaf, Found, FoundIn, leaf
<1>4. \A reason \in EndReasons : Found(<<>>, Cuts({f.name}, reason)) \in FoundIn(s)
  BY <1>1, <1>2, CutsTyped DEF Found, FoundIn
<1>5. "required-argument" \in EndReasons /\ "union" \in EndReasons
  BY DEF EndReasons
<1> QED
  BY <1>3, <1>4, <1>5 DEF End

(* What is found below a field, seen from above it. *)
LEMMA BelowTyped ==
    ASSUME NEW s, NEW n \in NamesIn(s), NEW found \in FoundIn(s)
    PROVE  /\ Below(n, found) \in FoundIn(s)
           /\ DOMAIN Below(n, found).offered = DOMAIN found.offered
           /\ \A i \in DOMAIN found.offered :
                Below(n, found).offered[i] = [path |-> <<n>> \o found.offered[i].path, type |-> found.offered[i].type,
                                              meaning |-> found.offered[i].meaning]
<1> DEFINE lead(x) == [x EXCEPT !.path = <<n>> \o @]
           offered == [i \in DOMAIN found.offered |-> lead(found.offered[i])]
           cut == {lead(c) : c \in found.cut}
<1>1. found.offered \in Seq(LeavesIn(s)) /\ found.cut \in SUBSET CutsIn(s)
  BY DEF FoundIn
<1>2. Below(n, found) = [offered |-> offered, cut |-> cut]
  BY DEF Below, Found
<1>3. \A x \in LeavesIn(s) : /\ lead(x) = [path |-> <<n>> \o x.path, type |-> x.type, meaning |-> x.meaning]
                             /\ lead(x) \in LeavesIn(s)
  <2> SUFFICES ASSUME NEW x \in LeavesIn(s)
               PROVE  /\ lead(x) = [path |-> <<n>> \o x.path, type |-> x.type, meaning |-> x.meaning]
                      /\ lead(x) \in LeavesIn(s)
    OBVIOUS
  <2>1. /\ x = [path |-> x.path, type |-> x.type, meaning |-> x.meaning]
        /\ x.path \in Seq(NamesIn(s)) /\ x.type \in DOMAIN s.types /\ x.meaning \in {f.meaning : f \in FieldsIn(s)}
    BY DEF LeavesIn
  <2>2. <<n>> \o x.path \in Seq(NamesIn(s))
    BY <2>1
  <2>3. lead(x) = [path |-> <<n>> \o x.path, type |-> x.type, meaning |-> x.meaning]
    <3>1. \A p : [x EXCEPT !.path = p] = [path |-> p, type |-> x.type, meaning |-> x.meaning]
      BY <2>1
    <3> QED
      BY <3>1
  <2> HIDE DEF lead
  <2> QED
    BY <2>1, <2>2, <2>3 DEF LeavesIn
<1>4. \A x \in CutsIn(s) : lead(x) \in CutsIn(s)
  BY DEF CutsIn
<1> HIDE DEF lead
<1>5. cut \in SUBSET CutsIn(s)
  BY <1>1, <1>4
<1>6. /\ DOMAIN found.offered = 1 .. Len(found.offered) /\ Len(found.offered) \in Nat
      /\ \A i \in DOMAIN found.offered : found.offered[i] \in LeavesIn(s)
  BY <1>1
<1>7. offered \in Seq(LeavesIn(s))
  BY <1>3, <1>6
<1>8. \A i \in DOMAIN found.offered :
         offered[i] = [path |-> <<n>> \o found.offered[i].path, type |-> found.offered[i].type,
                       meaning |-> found.offered[i].meaning]
  BY <1>3, <1>6
<1>9. DOMAIN offered = DOMAIN found.offered
  OBVIOUS
<1> HIDE DEF offered, cut
<1> QED
  BY <1>2, <1>5, <1>7, <1>8, <1>9 DEF FoundIn

(* What is found at one level. *)
LEMMA LevelTyped ==
    ASSUME NEW s, IsSchema(s), NEW t \in DOMAIN s.types, NEW above, NEW m \in Nat, NEW found,
           DOMAIN found = 1 .. m, \A i \in 1 .. m : found[i] \in FoundIn(s)
    PROVE  /\ Level(s, t, above, found) \in FoundIn(s)
           /\ [i \in DOMAIN found |-> found[i].offered] \in Seq(Seq(LeavesIn(s)))
<1> DEFINE lists == [i \in DOMAIN found |-> found[i].offered]
<1>1. \A i \in 1 .. m : found[i].offered \in Seq(LeavesIn(s)) /\ found[i].cut \in SUBSET CutsIn(s)
  BY DEF FoundIn
<1>2. lists \in Seq(Seq(LeavesIn(s)))
  BY <1>1
<1> HIDE DEF lists
<1>3. FlattenSeq(lists) \in Seq(LeavesIn(s))
  BY <1>2, FlattenAre
<1>4. Cuts(Names(s, t), "recursion") \in SUBSET CutsIn(s)
  BY FieldIs, CutsTyped DEF EndReasons
<1>5. Cuts(ImplementationOnly(s, t), "interface-implementation") \in SUBSET CutsIn(s)
  <2>1. ImplementationOnly(s, t) \subseteq NamesIn(s)
    <3>1. \A i \in s.types[t].implementedBy : Names(s, i) \subseteq NamesIn(s)
      BY FieldIs DEF IsSchema
    <3> QED
      BY <3>1 DEF ImplementationOnly
  <2> QED
    BY <2>1, CutsTyped DEF EndReasons
<1>6. UNION {found[i].cut : i \in DOMAIN found} \in SUBSET CutsIn(s)
  BY <1>1
<1>7. Level(s, t, above, found) =
        IF t \in above THEN [offered |-> <<>>, cut |-> Cuts(Names(s, t), "recursion")]
        ELSE [offered |-> FlattenSeq(lists),
              cut |-> Cuts(ImplementationOnly(s, t), "interface-implementation") \cup UNION {found[i].cut : i \in DOMAIN found}]
  BY DEF Level, Found, lists
<1>8. <<>> \in Seq(LeavesIn(s))
  OBVIOUS
<1> QED
  BY <1>2, <1>3, <1>4, <1>5, <1>6, <1>7, <1>8 DEF FoundIn, lists

(* Where discovery may be: at a type, so far above the bottom, below the types it came through. *)
Places(s) == (DOMAIN s.types) \X (SUBSET DOMAIN s.types)
FoundAlong(s, next, p) ==
    [i \in DOMAIN FieldsOf(s, p[1]) |->
        IF Ends(s, FieldsOf(s, p[1])[i]) THEN End(s, FieldsOf(s, p[1])[i])
        ELSE Below(FieldsOf(s, p[1])[i].name, next[<<FieldsOf(s, p[1])[i].type, p[2] \cup {p[1]}>>])]
AtBottom(s, p) == Found(<<>>, Cuts(Names(s, p[1]), "depth"))
(* The walk, level by level. *)
WalkLevels(s, depth, levels) ==
    /\ levels \in [0 .. depth -> [Places(s) -> FoundIn(s)]]
    /\ \A p \in Places(s) : levels[0][p] = AtBottom(s, p)
    /\ \A k \in 1 .. depth, p \in Places(s) : levels[k][p] = Level(s, p[1], p[2], FoundAlong(s, levels[k - 1], p))

(* What is found along the fields of a type, and at a level, is found in the schema. *)
LEMMA AlongTyped ==
    ASSUME NEW s, IsSchema(s), NEW next \in [Places(s) -> FoundIn(s)], NEW p \in Places(s)
    PROVE  LET found == FoundAlong(s, next, p) IN
           /\ DOMAIN found = 1 .. Len(FieldsOf(s, p[1])) /\ Len(FieldsOf(s, p[1])) \in Nat
           /\ \A i \in DOMAIN found : found[i] \in FoundIn(s)
           /\ Level(s, p[1], p[2], found) \in FoundIn(s)
           /\ [i \in DOMAIN found |-> found[i].offered] \in Seq(Seq(LeavesIn(s)))
<1> DEFINE fields == FieldsOf(s, p[1])
           found == FoundAlong(s, next, p)
           below(i) == next[<<fields[i].type, p[2] \cup {p[1]}>>]
<1>1. p[1] \in DOMAIN s.types /\ p[2] \in SUBSET DOMAIN s.types
  BY DEF Places
<1>2. fields \in Seq(FieldsIn(s)) /\ DOMAIN fields = 1 .. Len(fields) /\ Len(fields) \in Nat
  BY <1>1, FieldIs
<1>3. \A i \in DOMAIN fields : fields[i] \in Range(fields)
  BY DEF Range
<1>4. \A i \in DOMAIN fields : fields[i].type \in DOMAIN s.types /\ fields[i].name \in NamesIn(s)
  BY <1>1, <1>3, FieldIs
<1>5. \A i \in DOMAIN fields : End(s, fields[i]) \in FoundIn(s)
  BY <1>1, <1>3, EndTyped
<1>6. \A i \in DOMAIN fields : below(i) \in FoundIn(s)
  <2>1. \A i \in DOMAIN fields : <<fields[i].type, p[2] \cup {p[1]}>> \in Places(s)
    BY <1>1, <1>4 DEF Places
  <2> QED
    BY <2>1
<1>7. \A i \in DOMAIN fields : Below(fields[i].name, below(i)) \in FoundIn(s)
  BY <1>4, <1>6, BelowTyped
<1>8. found = [i \in DOMAIN fields |-> IF Ends(s, fields[i]) THEN End(s, fields[i]) ELSE Below(fields[i].name, below(i))]
  BY DEF FoundAlong
<1> HIDE DEF found, below, fields
<1>9. DOMAIN found = 1 .. Len(fields) /\ \A i \in 1 .. Len(fields) : found[i] \in FoundIn(s)
  BY <1>2, <1>5, <1>7, <1>8
<1>10. /\ Level(s, p[1], p[2], found) \in FoundIn(s)
       /\ [i \in DOMAIN found |-> found[i].offered] \in Seq(Seq(LeavesIn(s)))
  BY <1>1, <1>2, <1>9, LevelTyped
<1> QED
  BY <1>2, <1>9, <1>10 DEF found, fields

(* Discovery finds what its levels find. *)
LEMMA WalkIs ==
    ASSUME NEW s, IsSchema(s), NEW depth \in Nat
    PROVE  \E levels : /\ WalkLevels(s, depth, levels)
                       /\ \A t \in DOMAIN s.types : Walk(s, t, depth) = levels[depth][<<t, {}>>]
<1> DEFINE T == DOMAIN s.types
           P == Places(s)
           Q == [P -> FoundIn(s)]
           base == [p \in P |-> AtBottom(s, p)]
           step == [x \in (1 .. depth) \X Q |-> [p \in P |-> Level(s, p[1], p[2], FoundAlong(s, x[2], p))]]
<1>1. base \in Q
  <2>1. \A p \in P : AtBottom(s, p) \in FoundIn(s)
    <3> SUFFICES ASSUME NEW p \in P PROVE AtBottom(s, p) \in FoundIn(s)
      OBVIOUS
    <3>1. Names(s, p[1]) \in SUBSET NamesIn(s)
      BY FieldIs DEF Places
    <3>2. Cuts(Names(s, p[1]), "depth") \in SUBSET CutsIn(s)
      BY <3>1, CutsTyped DEF EndReasons
    <3> QED
      BY <3>2 DEF AtBottom, Found, FoundIn
  <2> QED
    BY <2>1
<1>2. \A k \in 1 .. depth, next \in Q : step[<<k, next>>] = [p \in P |-> Level(s, p[1], p[2], FoundAlong(s, next, p))]
  OBVIOUS
<1>3. Steps(depth, Q, step)
  <2>1. \A next \in Q, p \in P : Level(s, p[1], p[2], FoundAlong(s, next, p)) \in FoundIn(s)
    BY AlongTyped
  <2>2. ASSUME NEW k \in 1 .. depth, NEW next \in Q PROVE step[<<k, next>>] \in Q
    <3>1. step[<<k, next>>] = [p \in P |-> Level(s, p[1], p[2], FoundAlong(s, next, p))]
      BY <1>2
    <3>2. \A p \in P : Level(s, p[1], p[2], FoundAlong(s, next, p)) \in FoundIn(s)
      BY <2>1
    <3> HIDE DEF P, step
    <3> QED
      BY <3>1, <3>2
  <2> HIDE DEF Q, step
  <2> QED
    BY <2>2 DEF Steps
<1>4. PICK levels : Follows(levels, depth, Q, base, step)
  <2> HIDE DEF Q, base, step
  <2> QED
    BY <1>1, <1>3, Recursion
<1>5. levels \in [0 .. depth -> Q] /\ levels[0] = base
  BY <1>4 DEF Follows
<1>6. \A k \in 1 .. depth : levels[k] = [p \in P |-> Level(s, p[1], p[2], FoundAlong(s, levels[k - 1], p))]
  <2> SUFFICES ASSUME NEW k \in 1 .. depth PROVE levels[k] = [p \in P |-> Level(s, p[1], p[2], FoundAlong(s, levels[k - 1], p))]
    OBVIOUS
  <2>1. k - 1 \in 0 .. depth
    OBVIOUS
  <2>2. levels[k - 1] \in Q
    BY <1>5, <2>1
  <2>3. levels[k] = step[<<k, levels[k - 1]>>]
    BY <1>4 DEF Follows
  <2> HIDE DEF Q, P, step
  <2> QED
    BY <1>2, <2>2, <2>3
<1> HIDE DEF step, base
<1>7. \A p \in P : levels[0][p] = AtBottom(s, p)
  BY <1>5 DEF base
<1>8. \A k \in 1 .. depth, p \in P : levels[k][p] = Level(s, p[1], p[2], FoundAlong(s, levels[k - 1], p))
  <2> HIDE DEF P
  <2> QED
    BY <1>6
<1>9. WalkLevels(s, depth, levels)
  BY <1>5, <1>7, <1>8 DEF WalkLevels
<1> DEFINE Where == (0 .. depth) \X T \X (SUBSET T)
           fields(w) == FieldsOf(s, w[2])
           E(f) == [w \in Where |->
                        IF w[1] = 0 THEN Found(<<>>, Cuts(Names(s, w[2]), "depth"))
                        ELSE Level(s, w[2], w[3],
                                [i \in DOMAIN fields(w) |->
                                    IF Ends(s, fields(w)[i]) THEN End(s, fields(w)[i])
                                    ELSE Below(fields(w)[i].name, f[<<w[1] - 1, fields(w)[i].type, w[3] \cup {w[2]}>>])])]
           walk == CHOOSE f : f = E(f)
<1>10. \A t : Walk(s, t, depth) = walk[<<depth, t, {}>>]
  BY DEF Walk
<1> DEFINE g == [w \in Where |-> levels[w[1]][<<w[2], w[3]>>]]
<1>11. ASSUME NEW w \in Where
       PROVE  g[w] = IF w[1] = 0 THEN Found(<<>>, Cuts(Names(s, w[2]), "depth"))
                     ELSE Level(s, w[2], w[3],
                                [i \in DOMAIN fields(w) |->
                                    IF Ends(s, fields(w)[i]) THEN End(s, fields(w)[i])
                                    ELSE Below(fields(w)[i].name, g[<<w[1] - 1, fields(w)[i].type, w[3] \cup {w[2]}>>])])
  <2> DEFINE p == <<w[2], w[3]>>
  <2>1. w[1] \in 0 .. depth /\ w[2] \in T /\ w[3] \in SUBSET T
    OBVIOUS
  <2>2. p \in P /\ p[1] = w[2] /\ p[2] = w[3]
    BY <2>1 DEF Places
  <2>3. g[w] = levels[w[1]][p]
    OBVIOUS
  <2>4. CASE w[1] = 0
    BY <1>7, <2>2, <2>3, <2>4 DEF AtBottom
  <2>5. CASE w[1] # 0
    <3>1. w[1] \in 1 .. depth /\ w[1] - 1 \in 0 .. depth
      BY <2>1, <2>5
    <3>2. g[w] = Level(s, w[2], w[3], FoundAlong(s, levels[w[1] - 1], p))
      <4> HIDE DEF p, g
      <4> QED
        BY <1>8, <2>2, <2>3, <3>1
    <3>3. ASSUME NEW i \in DOMAIN fields(w)
          PROVE  g[<<w[1] - 1, fields(w)[i].type, w[3] \cup {w[2]}>>] = levels[w[1] - 1][<<fields(w)[i].type, p[2] \cup {p[1]}>>]
      <4>1. fields(w)[i].type \in T
        BY <2>1, FieldIs DEF Range
      <4> DEFINE ty == fields(w)[i].type
                 ab == w[3] \cup {w[2]}
      <4>2. ty \in T /\ ab \in SUBSET T
        BY <2>1, <4>1
      <4> HIDE DEF ty, ab
      <4>3. <<w[1] - 1, ty, ab>> \in Where
        BY <3>1, <4>2
      <4>4. g[<<w[1] - 1, ty, ab>>] = levels[w[1] - 1][<<ty, ab>>]
        BY <4>3
      <4> HIDE DEF g, p
      <4> QED
        BY <2>2, <4>4 DEF ty, ab
    <3> HIDE DEF g
    <3>4. FoundAlong(s, levels[w[1] - 1], p) =
            [i \in DOMAIN fields(w) |->
                IF Ends(s, fields(w)[i]) THEN End(s, fields(w)[i])
                ELSE Below(fields(w)[i].name, g[<<w[1] - 1, fields(w)[i].type, w[3] \cup {w[2]}>>])]
      <4> HIDE DEF p
      <4> QED
        BY <2>2, <3>3 DEF FoundAlong
    <3> QED
      BY <2>5, <3>2, <3>4
  <2> QED
    BY <2>4, <2>5
<1>12. g = E(g)
  <2>1. g = [w \in Where |-> g[w]]
    OBVIOUS
  <2> HIDE DEF g, Where, fields
  <2> QED
    BY <1>11, <2>1
<1>13. walk = E(walk)
  <2> HIDE DEF E
  <2> QED
    BY <1>12
<1> HIDE DEF walk, g
<1>14. ASSUME NEW w \in Where
       PROVE  walk[w] = IF w[1] = 0 THEN Found(<<>>, Cuts(Names(s, w[2]), "depth"))
                        ELSE Level(s, w[2], w[3],
                                [i \in DOMAIN fields(w) |->
                                    IF Ends(s, fields(w)[i]) THEN End(s, fields(w)[i])
                                    ELSE Below(fields(w)[i].name, walk[<<w[1] - 1, fields(w)[i].type, w[3] \cup {w[2]}>>])])
  <2> HIDE DEF Where, fields
  <2>1. \A f : f = E(f) =>
            f[w] = IF w[1] = 0 THEN Found(<<>>, Cuts(Names(s, w[2]), "depth"))
                   ELSE Level(s, w[2], w[3],
                            [i \in DOMAIN fields(w) |->
                                IF Ends(s, fields(w)[i]) THEN End(s, fields(w)[i])
                                ELSE Below(fields(w)[i].name, f[<<w[1] - 1, fields(w)[i].type, w[3] \cup {w[2]}>>])])
    OBVIOUS
  <2> HIDE DEF E
  <2> QED
    BY <1>13, <2>1
<1> HIDE DEF E
<1> DEFINE Same(k) == \A t \in T, above \in SUBSET T : walk[<<k, t, above>>] = levels[k][<<t, above>>]
           D == {k \in Nat : k <= depth => Same(k)}
<1>15. Same(0)
  <2> SUFFICES ASSUME NEW t \in T, NEW above \in SUBSET T PROVE walk[<<0, t, above>>] = levels[0][<<t, above>>]
    OBVIOUS
  <2>1. <<0, t, above>> \in Where /\ <<t, above>> \in P
    BY DEF Places
  <2> QED
    BY <2>1, <1>7, <1>14 DEF AtBottom
<1>16. ASSUME NEW k \in Nat, k + 1 <= depth, Same(k) PROVE Same(k + 1)
  <2> SUFFICES ASSUME NEW t \in T, NEW above \in SUBSET T PROVE walk[<<k + 1, t, above>>] = levels[k + 1][<<t, above>>]
    OBVIOUS
  <2> DEFINE w == <<k + 1, t, above>>
             p == <<t, above>>
  <2>1. w \in Where /\ p \in P /\ w[1] = k + 1 /\ w[2] = t /\ w[3] = above /\ p[1] = t /\ p[2] = above
    <3>1. k + 1 \in 0 .. depth
      BY <1>16
    <3> QED
      BY <3>1 DEF Places
  <2>2. k + 1 \in 1 .. depth /\ k + 1 # 0 /\ (k + 1) - 1 = k
    BY <1>16
  <2> HIDE DEF w, p
  <2>3. walk[w] = Level(s, t, above,
                        [i \in DOMAIN FieldsOf(s, t) |->
                            IF Ends(s, FieldsOf(s, t)[i]) THEN End(s, FieldsOf(s, t)[i])
                            ELSE Below(FieldsOf(s, t)[i].name, walk[<<k, FieldsOf(s, t)[i].type, above \cup {t}>>])])
    BY <1>14, <2>1, <2>2
  <2>4. levels[k + 1][p] = Level(s, t, above, FoundAlong(s, levels[k], p))
    BY <1>8, <2>1, <2>2
  <2>5. \A i \in DOMAIN FieldsOf(s, t) :
            walk[<<k, FieldsOf(s, t)[i].type, above \cup {t}>>] = levels[k][<<FieldsOf(s, t)[i].type, above \cup {t}>>]
    <3>1. \A i \in DOMAIN FieldsOf(s, t) : FieldsOf(s, t)[i].type \in T
      BY FieldIs DEF Range
    <3> QED
      BY <3>1, <1>16
  <2>6. FoundAlong(s, levels[k], p) =
            [i \in DOMAIN FieldsOf(s, t) |->
                IF Ends(s, FieldsOf(s, t)[i]) THEN End(s, FieldsOf(s, t)[i])
                ELSE Below(FieldsOf(s, t)[i].name, walk[<<k, FieldsOf(s, t)[i].type, above \cup {t}>>])]
    BY <2>1, <2>5 DEF FoundAlong
  <2> QED
    BY <2>3, <2>4, <2>6 DEF w, p
<1>17. depth \in D
  <2> HIDE DEF Same
  <2>1. 0 \in D /\ \A k \in Nat : k \in D => k + 1 \in D
    BY <1>15, <1>16
  <2> HIDE DEF D
  <2> QED
    BY <2>1, SetInduction
<1>18. \A t \in T : Walk(s, t, depth) = levels[depth][<<t, {}>>]
  <2>1. Same(depth)
    <3> HIDE DEF Same
    <3> QED
      BY <1>17
  <2> QED
    BY <1>10, <2>1
<1> QED
  BY <1>9, <1>18

(* The types along a path. *)
LEMMA AlongIs ==
    ASSUME NEW s, IsSchema(s), NEW t \in DOMAIN s.types, NEW X, NEW path \in Seq(X)
    PROVE  LET along == Along(s, t, path) IN
           /\ Len(path) \in Nat /\ DOMAIN path = 1 .. Len(path)
           /\ along[0] = t
           /\ \A k \in 1 .. Len(path) : along[k] = Into(s, along[k - 1], path[k])
<1> DEFINE n == Len(path)
           Q == DOMAIN s.types \cup {None}
           step == [x \in (1 .. n) \X Q |-> Into(s, x[2], path[x[1]])]
           E(f) == [k \in 0 .. n |-> IF k = 0 THEN t ELSE Into(s, f[k - 1], path[k])]
           along == CHOOSE f : f = E(f)
<1>1. n \in Nat /\ DOMAIN path = 1 .. n
  OBVIOUS
<1>2. Along(s, t, path) = along
  BY DEF Along
<1> HIDE DEF n
<1>3. \A m : \A at \in Q : Into(s, at, m) \in Q
  <2> SUFFICES ASSUME NEW at \in Q, NEW m, at # None, m \in Names(s, at) PROVE FieldNamed(s, at, m).type \in Q
    BY DEF Into
  <2>1. PICK f \in Range(FieldsOf(s, at)) : m = f.name
    BY DEF Names
  <2> QED
    BY <2>1, FieldIs
<1>4. Steps(n, Q, step)
  <2> HIDE DEF Q
  <2> QED
    BY <1>3 DEF Steps
<1>5. t \in Q
  OBVIOUS
<1>6. PICK g : Follows(g, n, Q, t, step)
  <2> HIDE DEF Q, step
  <2> QED
    BY <1>1, <1>4, <1>5, Recursion
<1>7. \A k \in 1 .. n : g[k] = Into(s, g[k - 1], path[k])
  <2> SUFFICES ASSUME NEW k \in 1 .. n PROVE g[k] = Into(s, g[k - 1], path[k])
    OBVIOUS
  <2>1. k - 1 \in 0 .. n
    BY <1>1
  <2>2. g[k - 1] \in Q /\ <<k, g[k - 1]>> \in (1 .. n) \X Q
    BY <1>6, <2>1 DEF Follows
  <2> HIDE DEF Q
  <2> QED
    BY <1>6, <2>2 DEF Follows
<1>8. g = E(g)
  <2> HIDE DEF Q
  <2>1. g = [k \in 0 .. n |-> g[k]] /\ g[0] = t
    BY <1>6 DEF Follows
  <2>2. \A k \in 0 .. n : k # 0 => k \in 1 .. n
    BY <1>1
  <2> QED
    BY <1>7, <2>1, <2>2
<1>9. along = E(along)
  <2> HIDE DEF E
  <2> QED
    BY <1>8
<1> HIDE DEF along
<1>10. \A k \in 0 .. n : along[k] = IF k = 0 THEN t ELSE Into(s, along[k - 1], path[k])
  <2>1. \A f : f = E(f) => \A k \in 0 .. n : f[k] = IF k = 0 THEN t ELSE Into(s, f[k - 1], path[k])
    OBVIOUS
  <2> HIDE DEF E
  <2> QED
    BY <1>9, <2>1
<1>11. 0 \in 0 .. n /\ \A k \in 1 .. n : k \in 0 .. n /\ k # 0
  BY <1>1
<1> QED
  BY <1>1, <1>2, <1>10, <1>11 DEF n

(* The path of a field and on. *)
LEMMA LongerPath ==
    ASSUME NEW X, NEW n \in X, NEW p \in Seq(X)
    PROVE  LET path == <<n>> \o p IN
           /\ path \in Seq(X) /\ Len(path) = Len(p) + 1 /\ Len(p) \in Nat
           /\ path[1] = n /\ \A k \in 1 .. Len(p) : path[k + 1] = p[k]
  OBVIOUS

(* A field that one can go into leads along. *)
LEMMA AlongBelow ==
    ASSUME NEW s, IsSchema(s), NEW t \in DOMAIN s.types, NEW f \in Range(FieldsOf(s, t)), NEW p \in Seq(NamesIn(s))
    PROVE  \A k \in 0 .. Len(p) : Along(s, t, <<f.name>> \o p)[k + 1] = Along(s, f.type, p)[k]
<1> DEFINE path == <<f.name>> \o p
           long == Along(s, t, path)
           short == Along(s, f.type, p)
<1>1. /\ f.type \in DOMAIN s.types /\ f.name \in NamesIn(s) /\ f.name \in Names(s, t) /\ IsComposite(s, t)
      /\ FieldNamed(s, t, f.name) = f /\ t # None
  BY FieldIs DEF IsSchema
<1>2. /\ path \in Seq(NamesIn(s)) /\ Len(path) = Len(p) + 1 /\ Len(p) \in Nat
      /\ path[1] = f.name /\ \A k \in 1 .. Len(p) : path[k + 1] = p[k]
  BY <1>1, LongerPath
<1> HIDE DEF path
<1>3. long[0] = t /\ \A k \in 1 .. Len(path) : long[k] = Into(s, long[k - 1], path[k])
  BY <1>2, AlongIs
<1>4. short[0] = f.type /\ \A k \in 1 .. Len(p) : short[k] = Into(s, short[k - 1], p[k])
  BY <1>1, AlongIs
<1> HIDE DEF long, short
<1> DEFINE D == {k \in Nat : k <= Len(p) => long[k + 1] = short[k]}
<1>5. 0 \in D
  <2>1. 1 \in 1 .. Len(path) /\ 1 - 1 = 0
    BY <1>2
  <2>2. long[1] = Into(s, t, f.name)
    BY <1>2, <1>3, <2>1
  <2> QED
    BY <1>1, <1>4, <2>2 DEF Into
<1>6. ASSUME NEW k \in Nat, k \in D PROVE k + 1 \in D
  <2> SUFFICES ASSUME k + 1 <= Len(p) PROVE long[(k + 1) + 1] = short[k + 1]
    OBVIOUS
  <2>1. k + 1 \in 1 .. Len(p) /\ (k + 1) + 1 \in 1 .. Len(path) /\ (k + 1) - 1 = k /\ ((k + 1) + 1) - 1 = k + 1
    BY <1>2
  <2>2. long[(k + 1) + 1] = Into(s, long[k + 1], path[(k + 1) + 1])
    BY <1>3, <2>1
  <2>3. short[k + 1] = Into(s, short[k], p[k + 1])
    BY <1>4, <2>1
  <2>4. long[k + 1] = short[k]
    BY <1>2, <1>6
  <2> QED
    BY <1>2, <2>1, <2>2, <2>3, <2>4
<1>7. Nat \subseteq D
  <2> HIDE DEF D
  <2> QED
    BY <1>5, <1>6, SetInduction
<1> QED
  BY <1>2, <1>7 DEF long, short, path

(* A leaf can be selected, and what can be selected below a field can be from above it. *)
LEMMA SelectableLeaf ==
    ASSUME NEW s, IsSchema(s), NEW t \in DOMAIN s.types, NEW f \in Range(FieldsOf(s, t)), ~f.needs, IsLeaf(s, f.type)
    PROVE  Selectable(s, t, <<f.name>>)
<1> DEFINE along == Along(s, t, <<f.name>>)
<1>1. /\ f.type \in DOMAIN s.types /\ f.name \in NamesIn(s) /\ f.name \in Names(s, t) /\ IsComposite(s, t)
      /\ FieldNamed(s, t, f.name) = f /\ t # None /\ f.type # None
  BY FieldIs DEF IsSchema
<1>2. <<f.name>> \in Seq(NamesIn(s)) /\ Len(<<f.name>>) = 1 /\ <<f.name>>[1] = f.name /\ DOMAIN <<f.name>> = {1}
  BY <1>1
<1>3. along[0] = t /\ along[1] = Into(s, t, f.name)
  <2>1. along[0] = t /\ \A k \in 1 .. 1 : along[k] = Into(s, along[k - 1], <<f.name>>[k])
    <3> DEFINE path == <<f.name>>
    <3>1. path \in Seq(NamesIn(s)) /\ Len(path) = 1
      BY <1>2
    <3> HIDE DEF path, along
    <3>2. Along(s, t, path)[0] = t /\ \A k \in 1 .. 1 : Along(s, t, path)[k] = Into(s, Along(s, t, path)[k - 1], path[k])
      BY <3>1, AlongIs
    <3> QED
      BY <3>2 DEF path, along
  <2>2. 1 \in 1 .. 1 /\ 1 - 1 = 0
    OBVIOUS
  <2> HIDE DEF along
  <2> QED
    BY <1>2, <2>1, <2>2
<1>4. along[1] = f.type
  BY <1>1, <1>3 DEF Into
<1> QED
  BY <1>1, <1>2, <1>3, <1>4 DEF Selectable

(* What can be selected below a field can be selected from above it. *)
LEMMA SelectableBelow ==
    ASSUME NEW s, IsSchema(s), NEW t \in DOMAIN s.types, NEW f \in Range(FieldsOf(s, t)), ~f.needs,
           NEW p \in Seq(NamesIn(s)), Selectable(s, f.type, p)
    PROVE  Selectable(s, t, <<f.name>> \o p)
<1> DEFINE path == <<f.name>> \o p
           long == Along(s, t, path)
           short == Along(s, f.type, p)
<1>1. f.type \in DOMAIN s.types /\ f.name \in NamesIn(s) /\ FieldNamed(s, t, f.name) = f
  BY FieldIs
<1>2. /\ path \in Seq(NamesIn(s)) /\ Len(path) = Len(p) + 1 /\ Len(p) \in Nat /\ DOMAIN path = 1 .. Len(path)
      /\ path[1] = f.name /\ \A k \in 1 .. Len(p) : path[k + 1] = p[k]
  BY <1>1, LongerPath
<1>3. long[0] = t /\ \A k \in 0 .. Len(p) : long[k + 1] = short[k]
  <2>1. \A k \in 0 .. Len(p) : long[k + 1] = short[k]
    BY AlongBelow
  <2> HIDE DEF path
  <2>2. long[0] = t
    BY <1>2, AlongIs
  <2> QED
    BY <2>1, <2>2
<1>4. /\ short[Len(p)] # None /\ IsLeaf(s, short[Len(p)])
      /\ \A k \in 1 .. Len(p) : ~FieldNamed(s, short[k - 1], p[k]).needs
  <2>1. DOMAIN p = 1 .. Len(p)
    OBVIOUS
  <2> QED
    BY <2>1 DEF Selectable
<1> HIDE DEF path, long, short
<1>5. long[Len(path)] # None /\ IsLeaf(s, long[Len(path)])
  BY <1>2, <1>3, <1>4
<1>6. ASSUME NEW k \in 1 .. Len(path) PROVE ~FieldNamed(s, long[k - 1], path[k]).needs
  <2>1. CASE k = 1
    BY <1>1, <1>2, <1>3, <2>1
  <2>2. CASE k # 1
    <3>1. k - 1 \in 1 .. Len(p) /\ (k - 1) - 1 \in 0 .. Len(p) /\ (k - 1) + 1 = k /\ ((k - 1) - 1) + 1 = k - 1
      BY <1>2, <2>2
    <3>2. long[k - 1] = short[(k - 1) - 1] /\ path[k] = p[k - 1]
      <4>1. long[((k - 1) - 1) + 1] = short[(k - 1) - 1] /\ path[(k - 1) + 1] = p[k - 1]
        BY <1>2, <1>3, <3>1
      <4> QED
        BY <3>1, <4>1
    <3>3. ~FieldNamed(s, short[(k - 1) - 1], p[k - 1]).needs
      BY <1>4, <3>1
    <3> QED
      BY <3>2, <3>3
  <2> QED
    BY <2>1, <2>2
<1> QED
  BY <1>2, <1>5, <1>6 DEF Selectable, long, path

(* What is on offer below a type: it can be selected, and a path comes once. *)
PathOf(s) == [x \in LeavesIn(s) |-> x.path]
Sound(s, t, offered) ==
    /\ offered \in Seq(LeavesIn(s))
    /\ \A x \in Range(offered) : Selectable(s, t, x.path)
    /\ KeyedOnce(PathOf(s), offered)
Through(s, t, n, offered) == Sound(s, t, offered) /\ \A x \in Range(offered) : x.path[1] = n

(* A leaf on offer, by its parts. *)
LEMMA LeafIs ==
    ASSUME NEW s, NEW x \in LeavesIn(s)
    PROVE  /\ x = [path |-> x.path, type |-> x.type, meaning |-> x.meaning] /\ PathOf(s)[x] = x.path
           /\ x.path \in Seq(NamesIn(s)) /\ x.type \in DOMAIN s.types
  BY DEF LeavesIn, PathOf

(* A field that is not gone into offers itself, or nothing. *)
LEMMA EndSound ==
    ASSUME NEW s, IsSchema(s), NEW t \in DOMAIN s.types, NEW f \in Range(FieldsOf(s, t))
    PROVE  Through(s, t, f.name, End(s, f).offered)
<1>1. End(s, f).offered \in Seq(LeavesIn(s))
  BY EndTyped DEF FoundIn
<1>2. CASE End(s, f).offered = <<>>
  BY <1>1, <1>2 DEF Through, Sound, KeyedOnce, Range
<1>3. CASE End(s, f).offered # <<>>
  <2> DEFINE leaf == [path |-> <<f.name>>, type |-> f.type, meaning |-> f.meaning]
  <2>1. ~f.needs /\ IsLeaf(s, f.type) /\ End(s, f).offered = <<leaf>>
    BY <1>3 DEF End, Found, Leaf
  <2>2. Selectable(s, t, leaf.path)
    BY <2>1, SelectableLeaf
  <2>3. leaf.path[1] = f.name
    OBVIOUS
  <2> HIDE DEF leaf
  <2>4. Range(<<leaf>>) = {leaf} /\ DOMAIN <<leaf>> = {1}
    BY DEF Range
  <2> QED
    BY <1>1, <2>1, <2>2, <2>3, <2>4 DEF Through, Sound, KeyedOnce
<1> QED
  BY <1>2, <1>3

(* Two paths that go on from one field are one if they go on alike. *)
LEMMA SameRest ==
    ASSUME NEW X, NEW n \in X, NEW p \in Seq(X), NEW q \in Seq(X), <<n>> \o p = <<n>> \o q
    PROVE  p = q
<1>1. Len(p) = Len(q)
  BY LongerPath
<1>2. \A k \in 1 .. Len(p) : p[k] = q[k]
  BY <1>1, LongerPath
<1>3. /\ Len(p) \in Nat /\ p = [k \in 1 .. Len(p) |-> p[k]] /\ q = [k \in 1 .. Len(q) |-> q[k]]
  OBVIOUS
<1> QED
  BY <1>1, <1>2, <1>3

(* What a field offers, seen from above it. *)
LEMMA BelowSound ==
    ASSUME NEW s, IsSchema(s), NEW t \in DOMAIN s.types, NEW f \in Range(FieldsOf(s, t)), ~f.needs,
           NEW found \in FoundIn(s), Sound(s, f.type, found.offered)
    PROVE  Through(s, t, f.name, Below(f.name, found).offered)
<1> DEFINE n == f.name
           old == found.offered
           new == Below(n, found).offered
<1>1. n \in NamesIn(s) /\ f.type \in DOMAIN s.types
  BY FieldIs
<1>2. /\ Below(n, found) \in FoundIn(s) /\ DOMAIN new = DOMAIN old
      /\ \A i \in DOMAIN old : new[i] = [path |-> <<n>> \o old[i].path, type |-> old[i].type, meaning |-> old[i].meaning]
  BY <1>1, BelowTyped
<1>3. new \in Seq(LeavesIn(s)) /\ old \in Seq(LeavesIn(s))
  BY <1>2 DEF FoundIn, Sound
<1>4. /\ \A i \in DOMAIN old : old[i] \in LeavesIn(s) /\ new[i] \in LeavesIn(s) /\ old[i] \in Range(old)
      /\ \A x \in Range(new) : \E i \in DOMAIN old : x = new[i]
  BY <1>2, <1>3 DEF Range
<1>5. \A x \in Range(old) : Selectable(s, f.type, x.path)
  BY DEF Sound
<1>6. KeyedOnce(PathOf(s), old)
  BY DEF Sound
<1> HIDE DEF new, old, n
<1>7. ASSUME NEW i \in DOMAIN old
      PROVE  /\ new[i].path = <<n>> \o old[i].path /\ old[i].path \in Seq(NamesIn(s)) /\ new[i].path[1] = n
             /\ Selectable(s, t, new[i].path)
             /\ PathOf(s)[new[i]] = new[i].path /\ PathOf(s)[old[i]] = old[i].path
  <2>1. new[i].path = <<n>> \o old[i].path
    BY <1>2
  <2>2. old[i].path \in Seq(NamesIn(s)) /\ PathOf(s)[new[i]] = new[i].path /\ PathOf(s)[old[i]] = old[i].path
    BY <1>4, LeafIs
  <2>3. Selectable(s, t, <<n>> \o old[i].path)
    BY <1>4, <1>5, <2>2, SelectableBelow DEF n
  <2>4. (<<n>> \o old[i].path)[1] = n
    BY <1>1, <2>2, LongerPath
  <2> QED
    BY <2>1, <2>2, <2>3, <2>4
<1>8. \A x \in Range(new) : Selectable(s, t, x.path) /\ x.path[1] = n
  BY <1>4, <1>7
<1>9. KeyedOnce(PathOf(s), new)
  <2> SUFFICES ASSUME NEW i \in DOMAIN old, NEW j \in DOMAIN old, PathOf(s)[new[i]] = PathOf(s)[new[j]] PROVE i = j
    BY <1>2 DEF KeyedOnce
  <2>1. <<n>> \o old[i].path = <<n>> \o old[j].path
    BY <1>7
  <2>2. old[i].path = old[j].path
    BY <1>1, <1>7, <2>1, SameRest
  <2> QED
    BY <1>6, <1>7, <2>2 DEF KeyedOnce
<1> QED
  BY <1>3, <1>8, <1>9 DEF Through, Sound, new, n

(* One level of the walk. *)
LEMMA LevelSound ==
    ASSUME NEW s, IsSchema(s), NEW next \in [Places(s) -> FoundIn(s)], NEW p \in Places(s),
           \A q \in Places(s) : Sound(s, q[1], next[q].offered)
    PROVE  Sound(s, p[1], Level(s, p[1], p[2], FoundAlong(s, next, p)).offered)
<1> DEFINE t == p[1]
           above == p[2]
           fields == FieldsOf(s, t)
           found == FoundAlong(s, next, p)
           lists == [i \in DOMAIN found |-> found[i].offered]
<1>1. t \in DOMAIN s.types /\ above \in SUBSET DOMAIN s.types
  BY DEF Places
<1>2. /\ fields \in Seq(FieldsIn(s)) /\ DOMAIN fields = 1 .. Len(fields) /\ Len(fields) \in Nat
      /\ \A i \in DOMAIN fields : fields[i] \in Range(fields)
      /\ \A i, j \in DOMAIN fields : fields[i].name = fields[j].name => i = j
      /\ \A f \in Range(fields) : f.type \in DOMAIN s.types
  BY <1>1, FieldIs DEF Range
<1>3. /\ DOMAIN found = DOMAIN fields
      /\ lists \in Seq(Seq(LeavesIn(s)))
      /\ Level(s, t, above, found) \in FoundIn(s)
  BY <1>2, AlongTyped
<1>4. \A i \in DOMAIN fields :
        found[i] = IF Ends(s, fields[i]) THEN End(s, fields[i])
                   ELSE Below(fields[i].name, next[<<fields[i].type, above \cup {t}>>])
  BY DEF FoundAlong
<1>5. Level(s, t, above, found).offered = IF t \in above THEN <<>> ELSE FlattenSeq(lists)
  BY DEF Level, Found
<1>6. lists = [i \in DOMAIN fields |-> found[i].offered]
  BY <1>3
<1> HIDE DEF found, lists, fields
<1>7. ASSUME NEW i \in DOMAIN fields PROVE Through(s, t, fields[i].name, lists[i])
  <2> DEFINE f == fields[i]
             q == <<f.type, above \cup {t}>>
  <2>1. f \in Range(FieldsOf(s, t)) /\ f.type \in DOMAIN s.types
    BY <1>2 DEF fields
  <2>2. q \in Places(s) /\ q[1] = f.type
    BY <1>1, <2>1 DEF Places
  <2>3. lists[i] = IF Ends(s, f) THEN End(s, f).offered ELSE Below(f.name, next[q]).offered
    BY <1>4, <1>6
  <2> HIDE DEF q, f
  <2>4. Through(s, t, f.name, End(s, f).offered)
    BY <1>1, <2>1, EndSound
  <2>5. ~Ends(s, f) => Through(s, t, f.name, Below(f.name, next[q]).offered)
    <3> SUFFICES ASSUME ~f.needs PROVE Through(s, t, f.name, Below(f.name, next[q]).offered)
      BY DEF Ends
    <3>1. next[q] \in FoundIn(s) /\ Sound(s, f.type, next[q].offered)
      BY <2>2
    <3> QED
      BY <1>1, <2>1, <3>1, BelowSound
  <2> QED
    BY <2>3, <2>4, <2>5 DEF f
<1>8. DOMAIN lists = DOMAIN fields
  BY <1>6
<1>9. \A i \in DOMAIN lists : KeyedOnce(PathOf(s), lists[i])
  BY <1>7, <1>8 DEF Through, Sound
<1>10. ASSUME NEW i \in DOMAIN lists, NEW j \in DOMAIN lists, i # j, NEW x \in Range(lists[i]), NEW y \in Range(lists[j])
       PROVE  PathOf(s)[x] # PathOf(s)[y]
  <2>1. Through(s, t, fields[i].name, lists[i]) /\ Through(s, t, fields[j].name, lists[j])
    BY <1>7, <1>8
  <2>2. x.path[1] = fields[i].name /\ y.path[1] = fields[j].name
    BY <2>1 DEF Through
  <2>3. lists[i] \in Seq(LeavesIn(s)) /\ lists[j] \in Seq(LeavesIn(s))
    BY <2>1 DEF Through, Sound
  <2>4. x \in LeavesIn(s) /\ y \in LeavesIn(s)
    BY <2>3, RangeIs
  <2>5. PathOf(s)[x] = x.path /\ PathOf(s)[y] = y.path
    BY <2>4, LeafIs
  <2>6. fields[i].name # fields[j].name
    BY <1>2, <1>8, <1>10
  <2> QED
    BY <2>2, <2>5, <2>6
<1>11. /\ FlattenSeq(lists) \in Seq(LeavesIn(s))
       /\ Range(FlattenSeq(lists)) = UNION {Range(lists[i]) : i \in DOMAIN lists}
       /\ KeyedOnce(PathOf(s), FlattenSeq(lists))
  <2>1. /\ FlattenSeq(lists) \in Seq(LeavesIn(s))
        /\ Range(FlattenSeq(lists)) = UNION {Range(lists[i]) : i \in DOMAIN lists}
    BY <1>3, FlattenAre
  <2>2. KeyedOnce(PathOf(s), FlattenSeq(lists))
    BY <1>3, <1>9, <1>10, FlattenAre
  <2> QED
    BY <2>1, <2>2
<1>12. \A x \in Range(FlattenSeq(lists)) : Selectable(s, t, x.path)
  <2>1. \A i \in DOMAIN lists : \A x \in Range(lists[i]) : Selectable(s, t, x.path)
    BY <1>7, <1>8 DEF Through, Sound
  <2> QED
    BY <1>11, <2>1
<1>13. Sound(s, t, FlattenSeq(lists))
  BY <1>11, <1>12 DEF Sound
<1>14. Sound(s, t, <<>>)
  BY DEF Sound, KeyedOnce, Range
<1> QED
  BY <1>5, <1>13, <1>14 DEF found

(* Whatever discovery offers can be selected, and a path comes once. *)
LEMMA WalkSound ==
    ASSUME NEW s, IsSchema(s), NEW depth \in Nat, NEW t \in DOMAIN s.types
    PROVE  Sound(s, t, Walk(s, t, depth).offered)
<1>1. PICK levels : /\ WalkLevels(s, depth, levels)
                    /\ \A at \in DOMAIN s.types : Walk(s, at, depth) = levels[depth][<<at, {}>>]
  BY WalkIs
<1> DEFINE Fine(k) == \A p \in Places(s) : Sound(s, p[1], levels[k][p].offered)
           D == {k \in Nat : k <= depth => Fine(k)}
<1>2. \A k \in 0 .. depth : levels[k] \in [Places(s) -> FoundIn(s)]
  BY <1>1 DEF WalkLevels
<1>3. Fine(0)
  <2>1. \A at : Sound(s, at, <<>>)
    BY DEF Sound, KeyedOnce, Range
  <2>2. \A p \in Places(s) : levels[0][p] = AtBottom(s, p)
    BY <1>1 DEF WalkLevels
  <2>3. \A p \in Places(s) : AtBottom(s, p).offered = <<>>
    BY DEF AtBottom, Found
  <2> QED
    BY <2>1, <2>2, <2>3
<1>4. ASSUME NEW k \in Nat, k + 1 <= depth, Fine(k) PROVE Fine(k + 1)
  <2>1. k \in 0 .. depth /\ k + 1 \in 1 .. depth /\ (k + 1) - 1 = k
    BY <1>4
  <2>2. levels[k] \in [Places(s) -> FoundIn(s)]
    BY <1>2, <2>1
  <2>3. \A p \in Places(s) : levels[k + 1][p] = Level(s, p[1], p[2], FoundAlong(s, levels[k], p))
    BY <1>1, <2>1 DEF WalkLevels
  <2>4. \A p \in Places(s) : Sound(s, p[1], Level(s, p[1], p[2], FoundAlong(s, levels[k], p)).offered)
    BY <1>4, <2>2, LevelSound
  <2> QED
    BY <2>3, <2>4
<1>5. depth \in D
  <2> HIDE DEF Fine
  <2>1. 0 \in D /\ \A k \in Nat : k \in D => k + 1 \in D
    BY <1>3, <1>4
  <2> HIDE DEF D
  <2> QED
    BY <2>1, SetInduction
<1>6. Fine(depth)
  <2> HIDE DEF Fine
  <2> QED
    BY <1>5
<1>7. <<t, {}>> \in Places(s)
  BY DEF Places
<1> QED
  BY <1>1, <1>6, <1>7

-----------------------------------------------------------------------------
(* What a compile refuses. *)

(* Reasons to refuse, looked for one after the other. *)
Reasons == Seq(GraphQlRefusals)

(* A check that fails gives its reason. *)
LEMMA FaultIs ==
    ASSUME NEW why \in GraphQlRefusals, NEW fails \in BOOLEAN
    PROVE  Fault(why, fails) \in Reasons /\ (Fault(why, fails) = <<>> <=> ~fails)
  BY DEF Fault, Reasons

(* Checks one after the other. *)
LEMMA JoinedReasons ==
    ASSUME NEW s \in Reasons, NEW t \in Reasons
    PROVE  /\ s \o t \in Reasons /\ (s \o t = <<>> <=> s = <<>> /\ t = <<>>)
           /\ (s = <<>> => s \o t = t) /\ (t = <<>> => s \o t = s)
  BY DEF Reasons

(* The first reason is one of those there are. *)
LEMMA FirstReason ==
    ASSUME NEW s \in Reasons, s # <<>>
    PROVE  Head(s) \in GraphQlRefusals /\ Head(s) # None
  BY GraphQlCompileAssumption DEF Reasons

(* What passes the checks of a decisions file. *)
FileStands(s, inv, d) ==
    /\ Parses(d) /\ s = inv.schema /\ inv.hash = ReviewHash(s, inv.selections, inv.depth)
    /\ Bound(inv, d) /\ Len(d.queries) = Cardinality(Approves(d)) /\ Gone(inv, d) = {}

(* The file is refused unless it stands. *)
LEMMA FileFaultsAre ==
    ASSUME NEW s, NEW inv, NEW d
    PROVE  FileFaults(s, inv, d) \in Reasons /\ (FileFaults(s, inv, d) = <<>> <=> FileStands(s, inv, d))
<1> DEFINE b1 == ~Parses(d)
           b2 == s # inv.schema
           b3 == inv.hash # ReviewHash(s, inv.selections, inv.depth)
           b4 == ~Bound(inv, d)
           b5 == Len(d.queries) # Cardinality(Approves(d))
           b6 == Gone(inv, d) # {}
           f1 == Fault("file", b1)
           f2 == Fault("another schema", b2)
           f3 == Fault("edited inventory", b3)
           f4 == Fault("another inventory", b4)
           f5 == Fault("repeated capability", b5)
           f6 == Fault("unknown capability", b6)
<1>1. FileFaults(s, inv, d) = f1 \o f2 \o f3 \o f4 \o f5 \o f6
  BY DEF FileFaults
<1>2. FileStands(s, inv, d) <=> ~b1 /\ ~b2 /\ ~b3 /\ ~b4 /\ ~b5 /\ ~b6
  BY DEF FileStands
<1>3. b1 \in BOOLEAN /\ b2 \in BOOLEAN /\ b3 \in BOOLEAN /\ b4 \in BOOLEAN /\ b5 \in BOOLEAN /\ b6 \in BOOLEAN
  OBVIOUS
<1> HIDE DEF b1, b2, b3, b4, b5, b6
<1>4. /\ f1 \in Reasons /\ (f1 = <<>> <=> ~b1) /\ f2 \in Reasons /\ (f2 = <<>> <=> ~b2)
      /\ f3 \in Reasons /\ (f3 = <<>> <=> ~b3) /\ f4 \in Reasons /\ (f4 = <<>> <=> ~b4)
      /\ f5 \in Reasons /\ (f5 = <<>> <=> ~b5) /\ f6 \in Reasons /\ (f6 = <<>> <=> ~b6)
  BY <1>3, FaultIs DEF GraphQlRefusals
<1> HIDE DEF f1, f2, f3, f4, f5, f6
<1>5. f1 \o f2 \o f3 \in Reasons /\ (f1 \o f2 \o f3 = <<>> <=> f1 = <<>> /\ f2 = <<>> /\ f3 = <<>>)
  <2>1. f1 \o f2 \in Reasons /\ (f1 \o f2 = <<>> <=> f1 = <<>> /\ f2 = <<>>)
    BY <1>4, JoinedReasons
  <2> QED
    BY <1>4, <2>1, JoinedReasons
<1>6. f1 \o f2 \o f3 \o f4 \in Reasons /\ (f1 \o f2 \o f3 \o f4 = <<>> <=> f1 \o f2 \o f3 = <<>> /\ f4 = <<>>)
  BY <1>4, <1>5, JoinedReasons
<1>7. /\ f1 \o f2 \o f3 \o f4 \o f5 \in Reasons
      /\ f1 \o f2 \o f3 \o f4 \o f5 = <<>> <=> f1 \o f2 \o f3 \o f4 = <<>> /\ f5 = <<>>
  BY <1>4, <1>6, JoinedReasons
<1>8. /\ f1 \o f2 \o f3 \o f4 \o f5 \o f6 \in Reasons
      /\ f1 \o f2 \o f3 \o f4 \o f5 \o f6 = <<>> <=> f1 \o f2 \o f3 \o f4 \o f5 = <<>> /\ f6 = <<>>
  BY <1>4, <1>7, JoinedReasons
<1> QED
  BY <1>1, <1>2, <1>4, <1>5, <1>6, <1>7, <1>8

(* What passes the checks of an entry, its custom scalars apart. *)
EntryStands(s, sel, seen, q) ==
    LET root == Root(s, sel.field)
        args == {a.name : a \in Range(seen.args)}
        rows == HasEnvelope(s, root, sel.rows)
    IN  /\ IsUniqueSubset(q.args, args) /\ q.identity \subseteq args
        /\ IsUniqueSubset(q.fields, Range(Paths(seen.found.offered))) /\ IsUniqueSubset(q.required, Range(q.fields))
        /\ Range(q.args) \cap q.identity = {} /\ sel.purpose /\ Unowned(root, q) = {}
        /\ ~(Longest(q.fields) > q.levels) /\ ~(Len(q.fields) > q.count)
        /\ ~(q.identity # {} /\ ~q.session)
        /\ ~(rows /\ ShapeFor(sel, q) \in RecordShapes)
        /\ ~(sel.shape \in ListShapes /\ ~rows /\ ~root.list)

(* So is an entry, but for a scalar. *)
LEMMA EntryFaultsAre ==
    ASSUME NEW s, NEW sel, NEW seen, NEW q
    PROVE  LET faults == EntryFaults(s, sel, seen, q) IN
           /\ faults \in Reasons
           /\ faults = <<>> => EntryStands(s, sel, seen, q)
           /\ EntryStands(s, sel, seen, q) => faults = <<>> \/ Head(faults) = "scalar"
<1> DEFINE root == Root(s, sel.field)
           args == {a.name : a \in Range(seen.args)}
           rows == HasEnvelope(s, root, sel.rows)
           b1 == ~IsUniqueSubset(q.args, args)
           b2 == ~(q.identity \subseteq args)
           b3 == ~IsUniqueSubset(q.fields, Range(Paths(seen.found.offered)))
           b4 == ~IsUniqueSubset(q.required, Range(q.fields))
           b5 == Range(q.args) \cap q.identity # {}
           b6 == ~sel.purpose
           b7 == Unowned(root, q) # {}
           b8 == Longest(q.fields) > q.levels
           b9 == Len(q.fields) > q.count
           b10 == q.identity # {} /\ ~q.session
           b11 == rows /\ ShapeFor(sel, q) \in RecordShapes
           b12 == sel.shape \in ListShapes /\ ~rows /\ ~root.list
           b13 == ~(ScalarsOf(s, seen, q) \subseteq sel.scalars)
           f1 == Fault("visitor argument", b1)
           f2 == Fault("identity argument", b2)
           f3 == Fault("output field", b3)
           f4 == Fault("required field", b4)
           f5 == Fault("two owners", b5)
           f6 == Fault("purpose", b6)
           f7 == Fault("no owner", b7)
           f8 == Fault("depth", b8)
           f9 == Fault("count", b9)
           f10 == Fault("session", b10)
           f11 == Fault("one record", b11)
           f12 == Fault("no rows", b12)
           f13 == Fault("scalar", b13)
           five == f1 \o f2 \o f3 \o f4 \o f5
           ten == five \o f6 \o f7 \o f8 \o f9 \o f10
<1>1. EntryFaults(s, sel, seen, q) = ten \o f11 \o f12 \o f13
  BY DEF EntryFaults
<1>2. EntryStands(s, sel, seen, q) <=>
        ~b1 /\ ~b2 /\ ~b3 /\ ~b4 /\ ~b5 /\ ~b6 /\ ~b7 /\ ~b8 /\ ~b9 /\ ~b10 /\ ~b11 /\ ~b12
  BY DEF EntryStands
<1>3. /\ b1 \in BOOLEAN /\ b2 \in BOOLEAN /\ b3 \in BOOLEAN /\ b4 \in BOOLEAN /\ b5 \in BOOLEAN
      /\ b6 \in BOOLEAN /\ b7 \in BOOLEAN /\ b8 \in BOOLEAN /\ b9 \in BOOLEAN /\ b10 \in BOOLEAN
      /\ b11 \in BOOLEAN /\ b12 \in BOOLEAN /\ b13 \in BOOLEAN
  OBVIOUS
<1> HIDE DEF b1, b2, b3, b4, b5, b6, b7, b8, b9, b10, b11, b12, b13
<1>4. /\ f1 \in Reasons /\ (f1 = <<>> <=> ~b1) /\ f2 \in Reasons /\ (f2 = <<>> <=> ~b2)
      /\ f3 \in Reasons /\ (f3 = <<>> <=> ~b3) /\ f4 \in Reasons /\ (f4 = <<>> <=> ~b4)
      /\ f5 \in Reasons /\ (f5 = <<>> <=> ~b5) /\ f6 \in Reasons /\ (f6 = <<>> <=> ~b6)
  BY <1>3, FaultIs DEF GraphQlRefusals
<1>5. /\ f7 \in Reasons /\ (f7 = <<>> <=> ~b7) /\ f8 \in Reasons /\ (f8 = <<>> <=> ~b8)
      /\ f9 \in Reasons /\ (f9 = <<>> <=> ~b9) /\ f10 \in Reasons /\ (f10 = <<>> <=> ~b10)
      /\ f11 \in Reasons /\ (f11 = <<>> <=> ~b11) /\ f12 \in Reasons /\ (f12 = <<>> <=> ~b12)
      /\ f13 \in Reasons
  BY <1>3, FaultIs DEF GraphQlRefusals
<1>12. f13 = <<>> \/ Head(f13) = "scalar"
  BY DEF Fault
<1> HIDE DEF f1, f2, f3, f4, f5, f6, f7, f8, f9, f10, f11, f12, f13
<1>6. five \in Reasons /\ (five = <<>> <=> f1 = <<>> /\ f2 = <<>> /\ f3 = <<>> /\ f4 = <<>> /\ f5 = <<>>)
  <2>1. f1 \o f2 \in Reasons /\ (f1 \o f2 = <<>> <=> f1 = <<>> /\ f2 = <<>>)
    BY <1>4, JoinedReasons
  <2>2. f1 \o f2 \o f3 \in Reasons /\ (f1 \o f2 \o f3 = <<>> <=> f1 \o f2 = <<>> /\ f3 = <<>>)
    BY <1>4, <2>1, JoinedReasons
  <2>3. f1 \o f2 \o f3 \o f4 \in Reasons /\ (f1 \o f2 \o f3 \o f4 = <<>> <=> f1 \o f2 \o f3 = <<>> /\ f4 = <<>>)
    BY <1>4, <2>2, JoinedReasons
  <2>4. five \in Reasons /\ (five = <<>> <=> f1 \o f2 \o f3 \o f4 = <<>> /\ f5 = <<>>)
    BY <1>4, <2>3, JoinedReasons
  <2> QED
    BY <2>1, <2>2, <2>3, <2>4
<1> HIDE DEF five
<1>7. ten \in Reasons /\ (ten = <<>> <=> five = <<>> /\ f6 = <<>> /\ f7 = <<>> /\ f8 = <<>> /\ f9 = <<>> /\ f10 = <<>>)
  <2>1. five \o f6 \in Reasons /\ (five \o f6 = <<>> <=> five = <<>> /\ f6 = <<>>)
    BY <1>4, <1>6, JoinedReasons
  <2>2. five \o f6 \o f7 \in Reasons /\ (five \o f6 \o f7 = <<>> <=> five \o f6 = <<>> /\ f7 = <<>>)
    BY <1>5, <2>1, JoinedReasons
  <2>3. five \o f6 \o f7 \o f8 \in Reasons /\ (five \o f6 \o f7 \o f8 = <<>> <=> five \o f6 \o f7 = <<>> /\ f8 = <<>>)
    BY <1>5, <2>2, JoinedReasons
  <2>4. /\ five \o f6 \o f7 \o f8 \o f9 \in Reasons
        /\ five \o f6 \o f7 \o f8 \o f9 = <<>> <=> five \o f6 \o f7 \o f8 = <<>> /\ f9 = <<>>
    BY <1>5, <2>3, JoinedReasons
  <2>5. ten \in Reasons /\ (ten = <<>> <=> five \o f6 \o f7 \o f8 \o f9 = <<>> /\ f10 = <<>>)
    BY <1>5, <2>4, JoinedReasons
  <2> QED
    BY <2>1, <2>2, <2>3, <2>4, <2>5
<1> HIDE DEF ten
<1>8. ten \o f11 \in Reasons /\ (ten \o f11 = <<>> <=> ten = <<>> /\ f11 = <<>>)
  BY <1>5, <1>7, JoinedReasons
<1>9. ten \o f11 \o f12 \in Reasons /\ (ten \o f11 \o f12 = <<>> <=> ten \o f11 = <<>> /\ f12 = <<>>)
  BY <1>5, <1>8, JoinedReasons
<1>10. /\ ten \o f11 \o f12 \o f13 \in Reasons
       /\ ten \o f11 \o f12 \o f13 = <<>> => ten \o f11 \o f12 = <<>>
       /\ ten \o f11 \o f12 = <<>> => ten \o f11 \o f12 \o f13 = f13
  BY <1>5, <1>9, JoinedReasons
<1>11. /\ ten \o f11 \o f12 \o f13 = <<>> => EntryStands(s, sel, seen, q)
       /\ EntryStands(s, sel, seen, q) => ten \o f11 \o f12 \o f13 = f13
  BY <1>2, <1>4, <1>5, <1>6, <1>7, <1>8, <1>9, <1>10
<1> QED
  BY <1>1, <1>10, <1>11, <1>12

(* What passes the checks of the whole catalog. *)
CatalogStands(inv, d) ==
    \A i \in DOMAIN inv.selections :
        /\ inv.selections[i].matchKey # None => Contains(EntryFor(d, inv.selections[i].field).fields, inv.selections[i].matchKey)
        /\ \A p \in Range(EntryFor(d, inv.selections[i].field).fields) :
              Meaning(d, inv.selections[i], inv.reviews[i], p) # Unknown

(* So is the catalog. *)
LEMMA CatalogFaultsAre ==
    ASSUME NEW s, NEW inv, NEW d
    PROVE  CatalogFaults(s, inv, d) \in Reasons /\ (CatalogFaults(s, inv, d) = <<>> <=> CatalogStands(inv, d))
<1> DEFINE keyless == \E i \in DOMAIN inv.selections :
                        /\ inv.selections[i].matchKey # None
                        /\ ~Contains(EntryFor(d, inv.selections[i].field).fields, inv.selections[i].matchKey)
           meant == \E i \in DOMAIN inv.selections : \E p \in Range(EntryFor(d, inv.selections[i].field).fields) :
                        Meaning(d, inv.selections[i], inv.reviews[i], p) = Unknown
           f1 == Fault("match key", keyless)
           f2 == Fault("meaning", meant)
<1>1. CatalogFaults(s, inv, d) = f1 \o f2
  BY DEF CatalogFaults
<1>2. CatalogStands(inv, d) <=> ~keyless /\ ~meant
  BY DEF CatalogStands
<1>3. keyless \in BOOLEAN /\ meant \in BOOLEAN
  OBVIOUS
<1> HIDE DEF keyless, meant
<1>4. f1 \in Reasons /\ (f1 = <<>> <=> ~keyless) /\ f2 \in Reasons /\ (f2 = <<>> <=> ~meant)
  BY <1>3, FaultIs DEF GraphQlRefusals
<1> HIDE DEF f1, f2
<1>5. f1 \o f2 \in Reasons /\ (f1 \o f2 = <<>> <=> f1 = <<>> /\ f2 = <<>>)
  BY <1>4, JoinedReasons
<1> QED
  BY <1>1, <1>2, <1>4, <1>5

(* What a compile that refuses nothing has seen. *)
SelectionStands(s, inv, d, i) ==
    LET sel == inv.selections[i] IN
    /\ Entries(d, sel.field) # <<>> /\ EntryStands(s, sel, inv.reviews[i], EntryFor(d, sel.field))
    /\ ~Conflicts(s, inv, d, i)

(* A selection is refused for its entry, or for a conflict. *)
LEMMA SelectionFaultsAre ==
    ASSUME NEW s, NEW inv, NEW d, NEW i
    PROVE  LET faults == SelectionFaults(s, inv, d, i) IN
           /\ faults \in Reasons
           /\ faults = <<>> => SelectionStands(s, inv, d, i)
           /\ SelectionStands(s, inv, d, i) => faults = <<>> \/ Head(faults) = "scalar"
<1> DEFINE sel == inv.selections[i]
           own == EntryFaults(s, sel, inv.reviews[i], EntryFor(d, sel.field))
           last == Fault("conflicting data type", Conflicts(s, inv, d, i))
           stands == EntryStands(s, sel, inv.reviews[i], EntryFor(d, sel.field))
<1>1. SelectionFaults(s, inv, d, i) = IF Entries(d, sel.field) = <<>> THEN <<"no entry">> ELSE IF own # <<>> THEN own ELSE last
  BY DEF SelectionFaults
<1>2. own \in Reasons /\ (own = <<>> => stands) /\ (stands => own = <<>> \/ Head(own) = "scalar")
  BY EntryFaultsAre
<1>3. Conflicts(s, inv, d, i) \in BOOLEAN
  BY DEF Conflicts
<1>4. last \in Reasons /\ (last = <<>> <=> ~Conflicts(s, inv, d, i))
  BY <1>3, FaultIs DEF GraphQlRefusals
<1>5. <<"no entry">> \in Reasons /\ <<"no entry">> # <<>>
  BY DEF Reasons, GraphQlRefusals
<1>6. SelectionStands(s, inv, d, i) <=> Entries(d, sel.field) # <<>> /\ stands /\ ~Conflicts(s, inv, d, i)
  BY DEF SelectionStands
<1> HIDE DEF own, last, stands
<1>7. CASE Entries(d, sel.field) = <<>>
  BY <1>1, <1>5, <1>6, <1>7
<1>8. CASE Entries(d, sel.field) # <<>> /\ own # <<>>
  <2>1. SelectionFaults(s, inv, d, i) = own
    BY <1>1, <1>8
  <2> QED
    BY <1>2, <1>6, <1>8, <2>1
<1>9. CASE Entries(d, sel.field) # <<>> /\ own = <<>>
  <2>1. SelectionFaults(s, inv, d, i) = last
    BY <1>1, <1>9
  <2> QED
    BY <1>2, <1>4, <1>6, <1>9, <2>1
<1> QED
  BY <1>7, <1>8, <1>9

(* The loop ends at a selection that is refused. *)
LEMMA FirstRefusedIs ==
    ASSUME NEW s, NEW inv, NEW d, NEW n \in Nat, DOMAIN inv.selections = 1 .. n,
           \E i \in 1 .. n : SelectionFaults(s, inv, d, i) # <<>>
    PROVE  /\ FirstRefused(s, inv, d) \in 1 .. n
           /\ SelectionFaults(s, inv, d, FirstRefused(s, inv, d)) # <<>>
<1> DEFINE faults(i) == SelectionFaults(s, inv, d, i)
           Bad == {i \in 1 .. n : faults(i) # <<>>}
<1>1. \E least \in Bad : \A i \in Bad : least <= i
  <2>1. Bad \in SUBSET Nat /\ Bad # {}
    OBVIOUS
  <2> HIDE DEF Bad
  <2> QED
    BY <2>1, LeastOf
<1>2. PICK least \in Bad : \A i \in Bad : least <= i
  BY <1>1
<1>3. \A k \in 1 .. least - 1 : k \in 1 .. n /\ ~(least <= k)
  OBVIOUS
<1>4. \E i \in DOMAIN inv.selections : faults(i) # <<>> /\ \A k \in 1 .. i - 1 : faults(k) = <<>>
  BY <1>2, <1>3
<1> QED
  BY <1>4 DEF FirstRefused

(* A compile refuses nothing of what stands, and nothing else passes it, scalars apart. *)
LEMMA RefusalIs ==
    ASSUME NEW s, NEW inv, NEW d, NEW n \in Nat, DOMAIN inv.selections = 1 .. n
    PROVE  /\ Refusal(s, inv, d) = None =>
                /\ FileStands(s, inv, d) /\ CatalogStands(inv, d)
                /\ \A i \in 1 .. n : SelectionStands(s, inv, d, i)
           /\ (/\ FileStands(s, inv, d) /\ CatalogStands(inv, d)
               /\ \A i \in 1 .. n : SelectionStands(s, inv, d, i)) => Refusal(s, inv, d) \in {None, "scalar"}
<1> DEFINE faults(i) == SelectionFaults(s, inv, d, i)
           first == FirstRefused(s, inv, d)
<1>1. FileFaults(s, inv, d) \in Reasons /\ CatalogFaults(s, inv, d) \in Reasons /\ \A i : faults(i) \in Reasons
  BY FileFaultsAre, CatalogFaultsAre, SelectionFaultsAre
<1>2. Refusal(s, inv, d) =
        IF FileFaults(s, inv, d) # <<>> THEN Head(FileFaults(s, inv, d))
        ELSE IF \E i \in 1 .. n : faults(i) # <<>> THEN Head(faults(first))
        ELSE IF CatalogFaults(s, inv, d) # <<>> THEN Head(CatalogFaults(s, inv, d)) ELSE None
  BY DEF Refusal
<1>3. (\E i \in 1 .. n : faults(i) # <<>>) => first \in 1 .. n /\ faults(first) # <<>>
  BY FirstRefusedIs
<1>4. ASSUME Refusal(s, inv, d) = None
      PROVE  /\ FileStands(s, inv, d) /\ CatalogStands(inv, d)
             /\ \A i \in 1 .. n : SelectionStands(s, inv, d, i)
  <2>1. FileFaults(s, inv, d) = <<>>
    BY <1>1, <1>2, <1>4, FirstReason
  <2>2. ~ \E i \in 1 .. n : faults(i) # <<>>
    <3> SUFFICES ASSUME \E i \in 1 .. n : faults(i) # <<>> PROVE FALSE
      OBVIOUS
    <3> QED
      BY <1>1, <1>2, <1>3, <1>4, <2>1, FirstReason
  <2>3. CatalogFaults(s, inv, d) = <<>>
    BY <1>1, <1>2, <1>4, <2>1, <2>2, FirstReason
  <2> QED
    BY <2>1, <2>2, <2>3, FileFaultsAre, CatalogFaultsAre, SelectionFaultsAre
<1>5. ASSUME FileStands(s, inv, d), CatalogStands(inv, d), \A i \in 1 .. n : SelectionStands(s, inv, d, i)
      PROVE  Refusal(s, inv, d) \in {None, "scalar"}
  <2>1. FileFaults(s, inv, d) = <<>> /\ CatalogFaults(s, inv, d) = <<>>
    BY <1>5, FileFaultsAre, CatalogFaultsAre
  <2>2. \A i \in 1 .. n : faults(i) = <<>> \/ Head(faults(i)) = "scalar"
    BY <1>5, SelectionFaultsAre
  <2>3. CASE \E i \in 1 .. n : faults(i) # <<>>
    BY <1>2, <1>3, <2>1, <2>2, <2>3
  <2>4. CASE ~ \E i \in 1 .. n : faults(i) # <<>>
    BY <1>2, <2>1, <2>4
  <2> QED
    BY <2>3, <2>4
<1> QED
  BY <1>4, <1>5

(* The roots of a schema, and the rows they deliver. *)
RootsOf(s) == {r.name : r \in Range(s.roots)}

(* A root goes by its name. *)
LEMMA RootIs ==
    ASSUME NEW s, IsSchema(s), NEW r \in Range(s.roots)
    PROVE  Root(s, r.name) = r /\ r.type \in DOMAIN s.types /\ NamesOnce(r.args) /\ r.name \in RootsOf(s)
<1>1. NamesOnce(s.roots) /\ r.type \in DOMAIN s.types /\ NamesOnce(r.args)
  BY DEF IsSchema
<1> QED
  BY <1>1, NamedIs DEF Root, RootsOf

(* A field is of a type there is. *)
LEMMA FieldTyped ==
    ASSUME NEW s, IsSchema(s), NEW t \in DOMAIN s.types, NEW n \in Names(s, t)
    PROVE  FieldNamed(s, t, n).type \in DOMAIN s.types
<1>1. PICK f \in Range(FieldsOf(s, t)) : n = f.name
  BY DEF Names
<1> QED
  BY <1>1, FieldIs

(* So are the rows of a root. *)
LEMMA RowTyped ==
    ASSUME NEW s, IsSchema(s), NEW r \in Range(s.roots), NEW rows, rows = None \/ EnvelopeAllowed(s, r, rows)
    PROVE  RowType(s, r, rows) \in DOMAIN s.types
<1>1. r.type \in DOMAIN s.types
  BY RootIs
<1>2. CASE rows # None
  <2>1. rows \in Names(s, r.type)
    BY <1>2 DEF EnvelopeAllowed
  <2> QED
    BY <1>1, <1>2, <2>1, FieldTyped DEF RowType
<1>3. CASE rows = None
  <2> DEFINE edge == FieldNamed(s, r.type, "edges").type
  <2>1. ASSUME Connection(s, r.type) # None PROVE Connection(s, r.type) \in DOMAIN s.types
    <3>1. /\ "edges" \in Names(s, r.type) /\ "node" \in Names(s, edge)
          /\ Connection(s, r.type) = FieldNamed(s, edge, "node").type
      BY <2>1 DEF Connection
    <3>2. edge \in DOMAIN s.types
      BY <1>1, <3>1, FieldTyped
    <3> HIDE DEF edge
    <3>3. FieldNamed(s, edge, "node").type \in DOMAIN s.types
      BY <3>1, <3>2, FieldTyped
    <3> QED
      BY <3>1, <3>3
  <2> QED
    BY <1>1, <1>3, <2>1 DEF RowType
<1> QED
  BY <1>2, <1>3

(* What is offered for a root can be selected from its rows. *)
LEMMA DiscoveredSound ==
    ASSUME NEW s, IsSchema(s), NEW depth \in Nat, NEW r, NEW rows, RowType(s, r, rows) \in DOMAIN s.types
    PROVE  Sound(s, RowType(s, r, rows), Discovered(s, r, rows, depth).offered)
<1>1. CASE IsComposite(s, r.type)
  BY <1>1, WalkSound DEF Discovered
<1>2. CASE ~IsComposite(s, r.type)
  <2>1. Discovered(s, r, rows, depth).offered = <<>>
    BY <1>2 DEF Discovered, Found
  <2> QED
    BY <2>1 DEF Sound, KeyedOnce, Range
<1> QED
  BY <1>1, <1>2

(* An inventory as it was taken, whatever was done to its selections since. *)
IsSelections(s, sels) ==
    /\ sels \in Seq(Range(sels))
    /\ \A i \in DOMAIN sels : sels[i].field \in RootsOf(s) /\ RowType(s, Root(s, sels[i].field), sels[i].rows) \in DOMAIN s.types
TakenOf(inv, s, sels, depth) ==
    /\ IsSchema(s) /\ depth \in Nat /\ IsSelections(s, sels)
    /\ inv.hash = ReviewHash(s, sels, depth) /\ inv.reviews = [i \in DOMAIN sels |-> Review(s, sels[i], depth)]
    /\ DOMAIN inv.selections = DOMAIN sels

(* A compile that refuses nothing gives a catalog that can be executed. *)
LEMMA CompileExecutes ==
    ASSUME NEW s, NEW inv, NEW d, NEW s0, NEW sels, NEW depth, TakenOf(inv, s0, sels, depth), Refusal(s, inv, d) = None
    PROVE  Executable(Compiled(s, inv, d))
<1> DEFINE count == Len(sels)
           sel(i) == inv.selections[i]
           entry(i) == EntryFor(d, sel(i).field)
           catalog == Compiled(s, inv, d)
<1>1. sels \in Seq(Range(sels)) /\ count \in Nat /\ DOMAIN sels = 1 .. count /\ DOMAIN inv.selections = 1 .. count
  BY DEF TakenOf, IsSelections
<1>2. FileStands(s, inv, d) /\ CatalogStands(inv, d) /\ \A i \in 1 .. count : SelectionStands(s, inv, d, i)
  BY <1>1, RefusalIs
<1>3. <<s0, sels, depth>> = <<s, inv.selections, inv.depth>>
  BY <1>2 DEF TakenOf, FileStands, ReviewHash
<1>4. s0 = s /\ sels = inv.selections
  BY <1>3
<1>5. ASSUME NEW i \in 1 .. count
      PROVE  /\ EntryStands(s, sel(i), inv.reviews[i], entry(i)) /\ ~Conflicts(s, inv, d, i)
             /\ inv.reviews[i] = Review(s, sel(i), depth)
             /\ RowType(s, Root(s, sel(i).field), sel(i).rows) \in DOMAIN s.types
  BY <1>1, <1>2, <1>4, <1>5 DEF SelectionStands, TakenOf, IsSelections
<1>6. ASSUME NEW n \in Capabilities(inv)
      PROVE  \E i \in 1 .. count :
                /\ sel(i).field = n /\ catalog.capabilities[n].purpose = sel(i).purpose
                /\ catalog.capabilities[n].rows = sel(i).rows /\ catalog.capabilities[n].fields = entry(i).fields
                /\ catalog.capabilities[n].args = entry(i).args /\ catalog.capabilities[n].identity = entry(i).identity
                /\ catalog.capabilities[n].session = entry(i).session
                /\ catalog.capabilities[n].dataType = sel(i).dataType /\ catalog.capabilities[n].type = TypeAt(s, inv, d, i)
  <2> DEFINE i == CHOOSE k \in DOMAIN inv.selections : inv.selections[k].field = n
  <2>1. \E k \in DOMAIN inv.selections : inv.selections[k].field = n
    BY <1>1 DEF Capabilities, Range
  <2>2. i \in 1 .. count /\ sel(i).field = n
    BY <1>1, <2>1
  <2>3. catalog.capabilities[n] =
          [rows |-> sel(i).rows, purpose |-> sel(i).purpose, shape |-> ShapeFor(sel(i), EntryFor(d, n)),
           args |-> EntryFor(d, n).args, identity |-> EntryFor(d, n).identity, session |-> EntryFor(d, n).session,
           fields |-> EntryFor(d, n).fields, required |-> EntryFor(d, n).required, scalars |-> sel(i).scalars,
           dataType |-> sel(i).dataType, type |-> TypeAt(s, inv, d, i)]
    BY DEF Compiled
  <2> HIDE DEF i, catalog
  <2> QED
    BY <2>2, <2>3
<1>7. catalog.schema = s /\ DOMAIN catalog.capabilities = Capabilities(inv)
  BY DEF Compiled
<1> HIDE DEF catalog
<1>8. ASSUME NEW i \in 1 .. count, NEW p \in Range(entry(i).fields)
      PROVE  Selectable(s, RowType(s, Root(s, sel(i).field), sel(i).rows), p)
  <2> DEFINE offered == Discovered(s, Root(s, sel(i).field), sel(i).rows, depth).offered
             t == RowType(s, Root(s, sel(i).field), sel(i).rows)
  <2>1. Sound(s, t, offered)
    BY <1>4, <1>5, DiscoveredSound DEF TakenOf
  <2>2. inv.reviews[i].found.offered = offered
    <3>1. Review(s, sel(i), depth).found.offered = offered
      BY DEF Review
    <3> HIDE DEF offered, t, sel, entry
    <3> QED
      BY <3>1, <1>5
  <2> HIDE DEF offered, t
  <2>3. p \in Range(Paths(offered))
    BY <1>5, <2>2 DEF EntryStands, IsUniqueSubset
  <2>4. \E x \in Range(offered) : p = x.path
    BY <2>3 DEF Paths, Range
  <2> QED
    BY <2>1, <2>4 DEF Sound, t
<1>9. ASSUME NEW i \in 1 .. count
      PROVE  LET type == TypeAt(s, inv, d, i) IN
             /\ type.matchKey = sel(i).matchKey
             /\ \A p \in Range(entry(i).fields) : type.fields[p] # Unknown
             /\ type.matchKey # None => Contains(entry(i).fields, type.matchKey)
  <2> DEFINE type == TypeAt(s, inv, d, i)
  <2>1. /\ type.matchKey = sel(i).matchKey
        /\ type.fields = [p \in Range(entry(i).fields) |-> Meaning(d, sel(i), inv.reviews[i], p)]
    BY DEF TypeAt, DataType
  <2>2. /\ sel(i).matchKey # None => Contains(entry(i).fields, sel(i).matchKey)
        /\ \A p \in Range(entry(i).fields) : Meaning(d, sel(i), inv.reviews[i], p) # Unknown
    BY <1>1, <1>2 DEF CatalogStands
  <2> HIDE DEF type
  <2> QED
    BY <2>1, <2>2 DEF type
<1>10. ASSUME NEW i \in 1 .. count
       PROVE  /\ sel(i).purpose
              /\ \A a \in Range(Root(s, sel(i).field).args) :
                    a.required => ((a.name \in Range(entry(i).args)) # (a.name \in entry(i).identity))
              /\ entry(i).identity # {} => entry(i).session
  <2>1. /\ sel(i).purpose /\ (entry(i).identity # {} => entry(i).session)
        /\ Unowned(Root(s, sel(i).field), entry(i)) = {} /\ Range(entry(i).args) \cap entry(i).identity = {}
    BY <1>5 DEF EntryStands
  <2>2. ASSUME NEW a \in Range(Root(s, sel(i).field).args), a.required
        PROVE  a.name \in Range(entry(i).args) \cup entry(i).identity
    BY <2>1, <2>2 DEF Unowned, Owned
  <2> QED
    BY <2>1, <2>2
<1>11. ASSUME NEW i \in 1 .. count, NEW k \in 1 .. count, sel(k).dataType = sel(i).dataType
       PROVE  TypeAt(s, inv, d, k) = TypeAt(s, inv, d, i)
  <2>1. CASE k < i
    <3>1. k \in 1 .. i - 1
      BY <2>1
    <3> QED
      BY <3>1, <1>5, <1>11 DEF Conflicts
  <2>2. CASE i < k
    <3>1. i \in 1 .. k - 1
      BY <2>2
    <3> QED
      BY <3>1, <1>5, <1>11 DEF Conflicts
  <2>3. CASE i = k
    BY <2>3
  <2> QED
    BY <2>1, <2>2, <2>3
<1>12. ASSUME NEW n \in Capabilities(inv)
       PROVE  LET c == catalog.capabilities[n] IN
              /\ c.purpose
              /\ \A p \in Range(c.fields) : Selectable(s, RowType(s, Root(s, n), c.rows), p) /\ c.type.fields[p] # Unknown
              /\ c.type.matchKey # None => Contains(c.fields, c.type.matchKey)
              /\ \A a \in Range(Root(s, n).args) : a.required => ((a.name \in Range(c.args)) # (a.name \in c.identity))
              /\ c.identity # {} => c.session
  <2> DEFINE c == catalog.capabilities[n]
  <2>1. PICK i \in 1 .. count :
          /\ sel(i).field = n /\ c.purpose = sel(i).purpose /\ c.rows = sel(i).rows /\ c.fields = entry(i).fields
          /\ c.args = entry(i).args /\ c.identity = entry(i).identity /\ c.session = entry(i).session
          /\ c.type = TypeAt(s, inv, d, i)
    BY <1>6
  <2> HIDE DEF c
  <2>2. \A p \in Range(c.fields) : Selectable(s, RowType(s, Root(s, n), c.rows), p)
    BY <1>8, <2>1
  <2>3. /\ \A p \in Range(c.fields) : c.type.fields[p] # Unknown
        /\ c.type.matchKey # None => Contains(c.fields, c.type.matchKey)
    BY <1>9, <2>1
  <2>4. /\ c.purpose /\ (c.identity # {} => c.session)
        /\ \A a \in Range(Root(s, n).args) : a.required => ((a.name \in Range(c.args)) # (a.name \in c.identity))
    BY <1>10, <2>1
  <2> QED
    BY <2>2, <2>3, <2>4 DEF c
<1>13. ASSUME NEW n \in Capabilities(inv), NEW m \in Capabilities(inv),
              catalog.capabilities[m].dataType = catalog.capabilities[n].dataType
       PROVE  catalog.capabilities[m].type = catalog.capabilities[n].type
  <2>1. PICK i \in 1 .. count : catalog.capabilities[n].dataType = sel(i).dataType
                                /\ catalog.capabilities[n].type = TypeAt(s, inv, d, i)
    BY <1>6
  <2>2. PICK k \in 1 .. count : catalog.capabilities[m].dataType = sel(k).dataType
                                /\ catalog.capabilities[m].type = TypeAt(s, inv, d, k)
    BY <1>6
  <2>3. sel(k).dataType = sel(i).dataType
    BY <1>13, <2>1, <2>2
  <2> QED
    BY <1>11, <2>1, <2>2, <2>3
<1> QED
  BY <1>7, <1>12, <1>13 DEF Executable, catalog

(* An inventory of some of the roots of a schema. *)
LEMMA SomeRoots ==
    ASSUME NEW s, IsSchema(s), NEW S
    PROVE  /\ Only(s.roots, S) \in Seq(Range(s.roots))
           /\ Range(Only(s.roots, S)) = {r \in Range(s.roots) : r \in S}
           /\ DOMAIN Only(s.roots, S) = 1 .. Len(Only(s.roots, S)) /\ Len(Only(s.roots, S)) \in Nat
           /\ \A i \in DOMAIN Only(s.roots, S) : Only(s.roots, S)[i] \in Range(s.roots) /\ Only(s.roots, S)[i] \in S
<1> DEFINE some == Only(s.roots, S)
<1>1. s.roots \in Seq(Range(s.roots))
  BY DEF IsSchema, NamesOnce
<1>2. some \in Seq(Range(s.roots)) /\ Range(some) = {r \in Range(s.roots) : r \in S}
  BY <1>1, OnlyAre
<1> HIDE DEF some
<1>3. /\ DOMAIN some = 1 .. Len(some) /\ Len(some) \in Nat
      /\ \A i \in DOMAIN some : some[i] \in Range(some)
  BY <1>2 DEF Range
<1> QED
  BY <1>2, <1>3 DEF some

IsInventory(inv) ==
    inv = [schema |-> inv.schema, depth |-> inv.depth, selections |-> inv.selections, hash |-> inv.hash, reviews |-> inv.reviews]

(* An inventory that was just taken. *)
LEMMA InventoryTaken ==
    ASSUME NEW s, IsSchema(s), NEW depth \in Nat, NEW roots \in Seq(Range(s.roots)), NEW sels,
           DOMAIN sels = DOMAIN roots,
           \A i \in DOMAIN roots : /\ sels[i].field = roots[i].name
                                   /\ sels[i].rows = None \/ EnvelopeAllowed(s, roots[i], sels[i].rows),
           sels = [i \in DOMAIN roots |-> sels[i]]
    PROVE  TakenOf(InventoryOf(s, sels, depth), s, sels, depth) /\ IsInventory(InventoryOf(s, sels, depth))
<1>1. DOMAIN roots = 1 .. Len(roots) /\ Len(roots) \in Nat /\ \A i \in DOMAIN roots : roots[i] \in Range(s.roots)
  OBVIOUS
<1>2. sels \in Seq(Range(sels))
  BY <1>1 DEF Range
<1>3. ASSUME NEW i \in DOMAIN sels
      PROVE  sels[i].field \in RootsOf(s) /\ RowType(s, Root(s, sels[i].field), sels[i].rows) \in DOMAIN s.types
  <2>1. roots[i] \in Range(s.roots) /\ sels[i].field = roots[i].name
    BY <1>1
  <2>2. Root(s, roots[i].name) = roots[i] /\ roots[i].name \in RootsOf(s)
    BY <2>1, RootIs
  <2>3. RowType(s, roots[i], sels[i].rows) \in DOMAIN s.types
    BY <2>1, RowTyped
  <2> QED
    BY <2>1, <2>2, <2>3
<1>4. IsSelections(s, sels)
  BY <1>2, <1>3 DEF IsSelections
<1> QED
  BY <1>4 DEF TakenOf, InventoryOf, IsInventory

(* The inventory of a curated compile is one. *)
LEMMA CuratedTaken ==
    ASSUME NEW s, IsSchema(s), NEW o, o.depth \in Nat
    PROVE  LET included == Included(s, o)
               sels == [i \in DOMAIN included |-> CuratedSelection(s, o, included[i])]
           IN  /\ CuratedInventory(s, o) = InventoryOf(s, sels, o.depth)
               /\ TakenOf(CuratedInventory(s, o), s, sels, o.depth)
<1> DEFINE roots == CuratedRoots(s, o)
           included == Included(s, o)
           sels == [i \in DOMAIN included |-> CuratedSelection(s, o, included[i])]
<1>1. roots \in Seq(Range(s.roots))
  BY SomeRoots DEF CuratedRoots
<1>2. included \in Seq(Range(s.roots))
  <2> HIDE DEF roots
  <2>1. \A S : Only(roots, S) \in Seq(Range(s.roots))
    BY <1>1, OnlyAre
  <2> QED
    BY <2>1 DEF Included, AllWithinLimits, roots
<1>3. CuratedInventory(s, o) = InventoryOf(s, sels, o.depth)
  BY DEF CuratedInventory
<1> HIDE DEF included
<1>4. /\ DOMAIN sels = DOMAIN included /\ sels = [i \in DOMAIN included |-> sels[i]]
      /\ \A i \in DOMAIN included : sels[i].field = included[i].name /\ sels[i].rows = None
  BY DEF CuratedSelection
<1> HIDE DEF sels
<1>5. TakenOf(InventoryOf(s, sels, o.depth), s, sels, o.depth)
  BY <1>2, <1>4, InventoryTaken
<1> QED
  BY <1>3, <1>5 DEF sels, included

(* A curated compile gives a catalog that can be executed. *)
LEMMA CuratedExecutes ==
    ASSUME NEW s, IsSchema(s), NEW o, o.depth \in Nat, CuratedRefusal(s, o) = None
    PROVE  Executable(Compiled(s, CuratedInventory(s, o), CuratedDecisions(s, o)))
<1>1. Refusal(s, CuratedInventory(s, o), CuratedDecisions(s, o)) = None
  BY GraphQlCompileAssumption DEF CuratedRefusal, CuratedRefusals
<1> QED
  BY <1>1, CuratedTaken, CompileExecutes

-----------------------------------------------------------------------------
(* A review from the command line. *)

(* The inventory at hand was taken of a schema, and only its selections were edited. *)
ReviewInv ==
    /\ schema \in Schemas
    /\ inventory # None =>
        IsInventory(inventory) /\ TakenOf(inventory, inventory.hash[1], inventory.hash[2], inventory.hash[3])
    /\ CompiledStands

(* Every command and every edit of a file keeps it. *)
LEMMA ReviewNext == ReviewInv /\ [CliNext]_cliVars => ReviewInv'
<1> SUFFICES ASSUME ReviewInv, [CliNext]_cliVars PROVE ReviewInv'
  OBVIOUS
<1> DEFINE Taken(inv) == inv # None => IsInventory(inv) /\ TakenOf(inv, inv.hash[1], inv.hash[2], inv.hash[3])
<1>1. schema \in Schemas /\ IsSchema(schema) /\ Taken(inventory) /\ CompiledStands
  BY CatalogReviewAssumption DEF ReviewInv
<1>2. ReviewInv' <=> schema' \in Schemas /\ Taken(inventory') /\ CompiledStands'
  BY DEF ReviewInv
<1>3. artifact' = artifact => CompiledStands'
  BY <1>1 DEF CompiledStands
<1> HIDE DEF Taken
<1>4. ASSUME NEW s \in Schemas, Upstream(s) PROVE ReviewInv'
  BY <1>1, <1>2, <1>3, <1>4 DEF Upstream
<1>5. ASSUME NEW o \in InventoryOptions, TakeInventory(o) PROVE ReviewInv'
  <2> DEFINE roots == Chosen(schema, o)
             sels == SelectionsFor(schema, o)
             inv == InventoryOf(schema, sels, o.depth)
  <2>1. o.depth \in Nat
    BY CatalogReviewAssumption
  <2>2. roots \in Seq(Range(schema.roots)) /\ \A i \in DOMAIN roots : roots[i] \in Range(schema.roots)
    BY <1>1, SomeRoots DEF Chosen
  <2>3. sels = [i \in DOMAIN roots |-> Selection(schema, roots[i], o)]
    BY DEF SelectionsFor
  <2> HIDE DEF roots
  <2>4. DOMAIN sels = DOMAIN roots /\ sels = [i \in DOMAIN roots |-> sels[i]] /\ \A i \in DOMAIN roots : sels[i].field = roots[i].name
    BY <2>3 DEF Selection
  <2> HIDE DEF sels
  <2>5. ASSUME NEW i \in DOMAIN roots PROVE sels[i].rows = None \/ EnvelopeAllowed(schema, roots[i], sels[i].rows)
    <3>1. sels[i] \in Range(sels)
      BY <2>4 DEF Range
    <3>2. sels[i].rows # None => EnvelopeAllowed(schema, Root(schema, sels[i].field), sels[i].rows)
      BY <1>5, <3>1 DEF TakeInventory, Inventoriable, sels
    <3>3. Root(schema, roots[i].name) = roots[i]
      BY <1>1, <2>2, RootIs
    <3> QED
      BY <2>4, <3>2, <3>3
  <2>6. TakenOf(inv, schema, sels, o.depth) /\ IsInventory(inv)
    BY <1>1, <2>1, <2>2, <2>4, <2>5, InventoryTaken
  <2>7. inv.hash[1] = schema /\ inv.hash[2] = sels /\ inv.hash[3] = o.depth
    BY DEF InventoryOf, ReviewHash
  <2>8. inventory' = inv /\ schema' = schema /\ artifact' = artifact
    BY <1>5 DEF TakeInventory, sels
  <2> HIDE DEF inv
  <2>9. Taken(inv)
    BY <2>6, <2>7 DEF Taken
  <2> QED
    BY <1>1, <1>2, <1>3, <2>8, <2>9
<1>6. ASSUME NEW i, NEW shape, inventory # None, EditInventory(i, shape) PROVE ReviewInv'
  <2>1. IsInventory(inventory) /\ TakenOf(inventory, inventory.hash[1], inventory.hash[2], inventory.hash[3])
    BY <1>1, <1>6 DEF Taken
  <2>2. inventory' = [inventory EXCEPT !.selections[i].shape = shape] /\ schema' = schema /\ artifact' = artifact
    BY <1>6 DEF EditInventory
  <2> DEFINE edited == [inventory.selections EXCEPT ![i].shape = shape]
  <2>3. inventory' = [inventory EXCEPT !.selections = edited]
    BY <2>2
  <2>4. DOMAIN edited = DOMAIN inventory.selections
    OBVIOUS
  <2> HIDE DEF edited
  <2>5. /\ inventory'.hash = inventory.hash /\ inventory'.reviews = inventory.reviews
        /\ inventory'.selections = edited /\ IsInventory(inventory')
    BY <2>1, <2>3 DEF IsInventory
  <2>6. TakenOf(inventory', inventory'.hash[1], inventory'.hash[2], inventory'.hash[3])
    BY <2>1, <2>4, <2>5 DEF TakenOf
  <2> QED
    BY <1>1, <1>2, <1>3, <2>2, <2>5, <2>6 DEF Taken
<1>7. ASSUME NEW check \in BOOLEAN, TakeCandidate(check) PROVE ReviewInv'
  BY <1>1, <1>2, <1>3, <1>7 DEF TakeCandidate
<1>8. CASE EditDecisions
  BY <1>1, <1>2, <1>3, <1>8 DEF EditDecisions
<1>9. CASE Migrate \/ MigrateAndRebind
  BY <1>1, <1>2, <1>3, <1>9 DEF Migrate, MigrateAndRebind
<1>10. CASE Compile
  <2>1. TakenOf(inventory, inventory.hash[1], inventory.hash[2], inventory.hash[3])
    BY <1>1, <1>10 DEF Taken, Compile
  <2>2. Refusal(schema, inventory, decisions) = None
    BY <1>10 DEF Compile
  <2>3. Executable(Compiled(schema, inventory, decisions))
    BY <2>1, <2>2, CompileExecutes
  <2>4. artifact' = Compiled(schema, inventory, decisions) /\ schema' = schema /\ inventory' = inventory
    BY <1>10 DEF Compile
  <2> QED
    BY <1>1, <1>2, <2>3, <2>4 DEF CompiledStands
<1>11. ASSUME NEW o \in CuratedOptions, Curate(o) PROVE ReviewInv'
  <2>1. o.depth \in Nat
    BY CatalogReviewAssumption
  <2>2. Executable(Compiled(schema, CuratedInventory(schema, o), CuratedDecisions(schema, o)))
    BY <1>1, <1>11, <2>1, CuratedExecutes DEF Curate
  <2>3. artifact' = Compiled(schema, CuratedInventory(schema, o), CuratedDecisions(schema, o)) /\ schema' = schema /\ inventory' = inventory
    BY <1>11 DEF Curate
  <2> QED
    BY <1>1, <1>2, <2>2, <2>3 DEF CompiledStands
<1>12. CASE UNCHANGED cliVars
  BY <1>1, <1>2, <1>3, <1>12 DEF cliVars
<1> QED
  BY <1>4, <1>5, <1>6, <1>7, <1>8, <1>9, <1>10, <1>11, <1>12 DEF CliNext

(* A catalog compiled from the command line can be executed, whatever was edited and however the schema moved on. *)
THEOREM CompiledAlwaysStands == CliSpec => []CompiledStands
<1>1. CliInit => ReviewInv
  BY DEF CliInit, ReviewInv, CompiledStands
<1>2. ReviewInv => CompiledStands
  BY DEF ReviewInv
<1> QED
  BY <1>1, <1>2, ReviewNext, PTL DEF CliSpec

(* The entry that decides on a capability. *)
LEMMA EntryIs ==
    ASSUME NEW T, NEW d, d.queries \in Seq(T), NEW n, Entries(d, n) # <<>>
    PROVE  EntryFor(d, n) \in Range(d.queries) /\ EntryFor(d, n).capability = n
<1> DEFINE S == {q \in Range(d.queries) : q.capability = n}
           entries == Only(d.queries, S)
<1>1. entries \in Seq(T) /\ Range(entries) = {q \in Range(d.queries) : q \in S}
  BY OnlyAre
<1>2. entries = Entries(d, n)
  BY DEF Entries
<1> HIDE DEF entries, S
<1>3. Head(entries) \in Range(entries)
  BY <1>1, <1>2 DEF Range
<1> QED
  BY <1>1, <1>2, <1>3 DEF EntryFor, S

-----------------------------------------------------------------------------
(* The desk of a GraphQL API. *)

(* A query is configured with a mode for each of its arguments. *)
ArgumentNames(r) == {a.name : a \in Range(r.args)}
HasModes(config, names) == "modes" \in DOMAIN config /\ DOMAIN config.modes = names
BoardInv ==
    /\ board.schema \in BoardSchemas \cup {None} /\ board.depth \in Nat
    /\ board = [schema |-> board.schema, depth |-> board.depth, title |-> board.title, chosen |-> board.chosen,
                editing |-> board.editing, configs |-> board.configs]
    /\ Loaded => /\ DOMAIN board.configs = RootNames(board.schema)
                 /\ \A n \in RootNames(board.schema) : HasModes(board.configs[n], ArgumentNames(Root(board.schema, n)))
    /\ CompiledIsShown

(* What the desk compiles of, root by root. *)
LEMMA BoardTaken ==
    ASSUME BoardInv, Loaded
    PROVE  /\ IsSchema(board.schema) /\ board.depth \in Nat
           /\ BoardRoots \in Seq(Range(board.schema.roots))
           /\ \A i \in DOMAIN BoardRoots :
                /\ BoardRoots[i] \in Range(board.schema.roots) /\ BoardRoots[i].name \in board.chosen
                /\ Root(board.schema, BoardRoots[i].name) = BoardRoots[i]
                /\ BoardInventory.selections[i] =
                      BoardSelection(board.schema, board.depth, BoardRoots[i], board.configs[BoardRoots[i].name])
                /\ BoardDecisions.queries[i] = BoardEntry(BoardRoots[i], board.configs[BoardRoots[i].name])
           /\ DOMAIN BoardInventory.selections = DOMAIN BoardRoots /\ DOMAIN BoardDecisions.queries = DOMAIN BoardRoots
           /\ TakenOf(BoardInventory, board.schema, BoardInventory.selections, board.depth)
<1> DEFINE s == board.schema
           S == {r \in Range(s.roots) : r.name \in board.chosen}
           roots == BoardRoots
           sels == [i \in DOMAIN roots |-> BoardSelection(s, board.depth, roots[i], board.configs[roots[i].name])]
<1>1. IsSchema(s) /\ board.depth \in Nat
  BY GraphQlDeskAssumption DEF BoardInv, Loaded
<1>2. roots = Only(s.roots, S)
  BY DEF BoardRoots
<1>3. roots \in Seq(Range(s.roots)) /\ \A i \in DOMAIN roots : roots[i] \in Range(s.roots) /\ roots[i] \in S
  <2> HIDE DEF S, roots
  <2> QED
    BY <1>1, <1>2, SomeRoots
<1>4. BoardInventory = InventoryOf(s, sels, board.depth)
  BY DEF BoardInventory
<1>5. BoardDecisions.queries = [i \in DOMAIN roots |-> BoardEntry(roots[i], board.configs[roots[i].name])]
  BY DEF BoardDecisions
<1>6. \A i \in DOMAIN roots : Root(s, roots[i].name) = roots[i] /\ roots[i].name \in board.chosen
  BY <1>1, <1>3, RootIs
<1> HIDE DEF roots
<1>7. /\ DOMAIN sels = DOMAIN roots /\ sels = [i \in DOMAIN roots |-> sels[i]]
      /\ \A i \in DOMAIN roots : sels[i].field = roots[i].name /\ sels[i].rows = None
      /\ \A i \in DOMAIN roots : sels[i] = BoardSelection(s, board.depth, roots[i], board.configs[roots[i].name])
  BY DEF BoardSelection
<1> HIDE DEF sels
<1>8. TakenOf(InventoryOf(s, sels, board.depth), s, sels, board.depth)
  BY <1>1, <1>3, <1>7, InventoryTaken
<1>9. InventoryOf(s, sels, board.depth).selections = sels
  BY DEF InventoryOf
<1> QED
  BY <1>1, <1>3, <1>4, <1>5, <1>6, <1>7, <1>8, <1>9 DEF roots

(* A compile at the desk gives what is configured there. *)
LEMMA BoardShows ==
    ASSUME BoardInv, Loaded, BoardCompiles
    PROVE  LET catalog == Compiled(board.schema, BoardInventory, BoardDecisions) IN
           /\ catalog.schema = board.schema /\ DOMAIN catalog.capabilities # {} /\ Executable(catalog)
           /\ \A n \in DOMAIN catalog.capabilities : AsConfigured(catalog.capabilities[n], n)
<1> DEFINE s == board.schema
           inv == BoardInventory
           d == BoardDecisions
           roots == BoardRoots
           sel(i) == inv.selections[i]
           entry(i) == EntryFor(d, sel(i).field)
           catalog == Compiled(s, inv, d)
<1>1. /\ IsSchema(s) /\ board.depth \in Nat
      /\ roots \in Seq(Range(s.roots))
      /\ \A i \in DOMAIN roots :
           /\ roots[i] \in Range(s.roots) /\ roots[i].name \in board.chosen
           /\ Root(s, roots[i].name) = roots[i]
           /\ sel(i) = BoardSelection(s, board.depth, roots[i], board.configs[roots[i].name])
           /\ d.queries[i] = BoardEntry(roots[i], board.configs[roots[i].name])
      /\ DOMAIN inv.selections = DOMAIN roots /\ DOMAIN d.queries = DOMAIN roots
      /\ TakenOf(inv, s, inv.selections, board.depth)
  BY BoardTaken
<1>2. Refusal(s, inv, d) = None /\ inv.selections # <<>>
  BY DEF BoardCompiles, Inventoriable
<1>3. Executable(catalog)
  BY <1>1, <1>2, CompileExecutes
<1>4. DOMAIN roots = 1 .. Len(roots) /\ Len(roots) \in Nat
  BY <1>1
<1>5. d.queries \in Seq(Range(d.queries))
  BY <1>4 DEF BoardDecisions, Range
<1> HIDE DEF inv, d, roots
<1>6. \A i \in DOMAIN roots : SelectionStands(s, inv, d, i)
  BY <1>1, <1>2, <1>4, RefusalIs
<1>7. catalog.schema = s /\ DOMAIN catalog.capabilities = Capabilities(inv)
  BY DEF Compiled
<1>8. Capabilities(inv) # {}
  <2>1. inv.selections \in Seq(Range(inv.selections))
    BY <1>1 DEF TakenOf, IsSelections
  <2>2. 1 \in DOMAIN inv.selections
    BY <1>2, <2>1
  <2> QED
    BY <2>2 DEF Capabilities, Range
<1>9. ASSUME NEW n \in Capabilities(inv) PROVE AsConfigured(catalog.capabilities[n], n)
  <2> DEFINE i == CHOOSE k \in DOMAIN inv.selections : inv.selections[k].field = n
             q == EntryFor(d, n)
             c == catalog.capabilities[n]
             config == board.configs[n]
             r == Root(s, n)
  <2>1. \E k \in DOMAIN inv.selections : inv.selections[k].field = n
    BY DEF Capabilities, Range
  <2>2. i \in DOMAIN roots /\ sel(i).field = n
    BY <1>1, <2>1
  <2>3. /\ c.args = q.args /\ c.identity = q.identity /\ c.session = q.session /\ c.fields = q.fields
        /\ c.required = q.required /\ c.shape = ShapeFor(sel(i), q) /\ c.type = TypeAt(s, inv, d, i)
    BY DEF Compiled
  <2> HIDE DEF i, c, catalog
  <2>4. roots[i].name = n /\ n \in board.chosen /\ roots[i] = r /\ r \in Range(s.roots)
    <3>1. sel(i) = BoardSelection(s, board.depth, roots[i], board.configs[roots[i].name])
      BY <1>1, <2>2
    <3>2. sel(i).field = roots[i].name
      BY <3>1 DEF BoardSelection
    <3>3. roots[i].name = n
      BY <2>2, <3>2
    <3> QED
      BY <1>1, <2>2, <3>3
  <2>5. q = BoardEntry(r, config)
    <3>1. Entries(d, n) # <<>>
      BY <1>6, <2>2 DEF SelectionStands
    <3>2. q \in Range(d.queries) /\ q.capability = n
      BY <1>5, <3>1, EntryIs
    <3>3. PICK j \in DOMAIN roots : q = BoardEntry(roots[j], board.configs[roots[j].name])
      BY <1>1, <3>2 DEF Range
    <3>4. roots[j].name = n
      <4>1. \A x, y : BoardEntry(x, y).capability = x.name
        BY DEF BoardEntry
      <4> HIDE DEF q
      <4> QED
        BY <3>2, <3>3, <4>1
    <3>5. roots[j] = r
      BY <1>1, <3>4
    <3> QED
      BY <3>3, <3>4, <3>5
  <2>6. n \in RootNames(s) /\ DOMAIN config.modes = ArgumentNames(r)
    BY <2>4 DEF RootNames, BoardInv, HasModes
  <2>7. Range(q.args) = {a \in DOMAIN config.modes : config.modes[a] = "visitor"}
    <3> DEFINE V == {a \in Range(r.args) : config.modes[a.name] = "visitor"}
               visitor == Only(r.args, V)
    <3>1. r.args \in Seq(Range(r.args))
      BY <1>1, <2>4, RootIs DEF NamesOnce
    <3>2. Range(visitor) = {a \in Range(r.args) : a \in V}
      <4> HIDE DEF V
      <4> QED
        BY <3>1, OnlyAre
    <3>3. q.args = [k \in DOMAIN visitor |-> visitor[k].name]
      BY <2>5 DEF BoardEntry
    <3> HIDE DEF visitor
    <3>4. Range(q.args) = {a.name : a \in Range(visitor)}
      BY <3>3 DEF Range
    <3> QED
      BY <2>6, <3>2, <3>4 DEF ArgumentNames
  <2>8. /\ q.identity = {a \in DOMAIN config.modes : config.modes[a] = "identity"}
        /\ q.fields = config.fields /\ q.required = config.required /\ q.session = config.session /\ q.shape = None
    BY <2>5 DEF BoardEntry
  <2>9. sel(i) = BoardSelection(s, board.depth, r, config)
    BY <1>1, <2>2, <2>4
  <2>10. c.shape = config.shape
    BY <2>3, <2>8, <2>9 DEF ShapeFor, BoardSelection
  <2>11. EntryStands(s, sel(i), inv.reviews[i], q)
    BY <1>6, <2>2 DEF SelectionStands
  <2>12. Range(q.required) \subseteq Range(q.fields)
    BY <2>11 DEF EntryStands, IsUniqueSubset
  <2>13. ASSUME NEW p \in Range(q.fields) \cap DOMAIN config.meanings
         PROVE  c.type.fields[p] = config.meanings[p]
    <3> DEFINE offered == Discovered(s, r, None, board.depth).offered
    <3>1. inv.reviews[i].found.offered = offered
      <4>1. inv.reviews[i] = Review(s, sel(i), board.depth)
        BY <1>1, <2>2 DEF TakenOf
      <4>2. Review(s, sel(i), board.depth).found = Discovered(s, Root(s, sel(i).field), sel(i).rows, board.depth)
        BY DEF Review
      <4>3. sel(i).rows = None
        BY <2>9 DEF BoardSelection
      <4> QED
        BY <2>2, <4>1, <4>2, <4>3
    <3> HIDE DEF offered
    <3>2. p \in Range(Paths(offered))
      BY <2>11, <3>1 DEF EntryStands, IsUniqueSubset
    <3>3. sel(i).told = [x \in Range(Paths(offered)) |-> Given(config.meanings, x, (CHOOSE f \in Range(offered) : f.path = x).meaning)]
      BY <2>9 DEF BoardSelection, offered
    <3>4. Given(sel(i).told, p, Given(d.meanings, <<sel(i).field, p>>, OfferedAt(inv.reviews[i], p).meaning)) = config.meanings[p]
      BY <3>2, <3>3 DEF Given
    <3>5. TypeAt(s, inv, d, i).fields = [x \in Range(q.fields) |-> Meaning(d, sel(i), inv.reviews[i], x)]
      BY <2>2 DEF TypeAt, DataType
    <3> QED
      BY <2>3, <3>4, <3>5 DEF Meaning
  <2> QED
    BY <2>3, <2>4, <2>7, <2>8, <2>10, <2>12, <2>13 DEF AsConfigured, c
<1> QED
  BY <1>3, <1>7, <1>8, <1>9 DEF catalog, inv, d

(* What changes neither a configuration nor what is compiled leaves shown what was. *)
LEMMA StillShown ==
    ASSUME CompiledIsShown, built' \in {built, None}, sent' \subseteq sent,
           built' # None => /\ board'.schema = board.schema /\ board'.title = board.title
                            /\ board'.configs = board.configs /\ board.chosen \subseteq board'.chosen
    PROVE  CompiledIsShown'
<1>1. ASSUME built' # None, NEW c, NEW n, AsConfigured(c, n) PROVE AsConfigured(c, n)'
  BY <1>1 DEF AsConfigured
<1>2. built' # None => built' = built
  OBVIOUS
<1> QED
  BY <1>1, <1>2 DEF CompiledIsShown

(* What an editor makes of a configuration has a mode for each argument. *)
LEMMA EditsHaveModes ==
    ASSUME NEW config, NEW names, HasModes(config, names), NEW offered, NEW edited \in ConfigurationEdits(config, offered)
    PROVE  HasModes(edited, names)
<1>1. ASSUME NEW arg, NEW mode PROVE HasModes(WithMode(config, arg, mode), names)
  BY DEF WithMode, HasModes
<1>2. ASSUME NEW p PROVE HasModes(WithField(config, p), names) /\ HasModes(WithRequired(config, p), names)
  BY DEF WithField, WithRequired, HasModes
<1>3. ASSUME NEW p, NEW meaning PROVE HasModes(WithMeaning(config, p, meaning), names)
  BY DEF WithMeaning, HasModes
<1>4. ASSUME NEW paths PROVE HasModes(WithAll(config, paths), names) /\ HasModes(Cleared(config), names)
  BY DEF WithAll, Cleared, HasModes
<1>5. ASSUME NEW x \in Settings(config) PROVE HasModes(x, names)
  BY <1>5 DEF Settings, HasModes
<1>6. \/ \E arg, mode : edited = WithMode(config, arg, mode)
      \/ \E p : edited = WithField(config, p) \/ edited = WithRequired(config, p)
      \/ \E p, meaning : edited = WithMeaning(config, p, meaning)
      \/ \E paths : edited = WithAll(config, paths)
      \/ edited = Cleared(config)
      \/ edited \in Settings(config)
  BY DEF ConfigurationEdits
<1> QED
  BY <1>1, <1>2, <1>3, <1>4, <1>5, <1>6

(* A schema that is loaded starts with configurations for all of its arguments. *)
LEMMA LoadedModes ==
    ASSUME NEW s \in BoardSchemas, LoadSchema(s), BoardInv
    PROVE  BoardInv'
<1> DEFINE configs == [n \in RootNames(s) |-> DefaultQueryConfiguration(s, Root(s, n), board.depth)]
<1>1. /\ board' = [board EXCEPT !.schema = s, !.chosen = {}, !.editing = None, !.configs = configs]
      /\ built' = None /\ sent' = sent
  BY DEF LoadSchema, ResetCompilation
<1>2. \A n \in RootNames(s) : HasModes(configs[n], ArgumentNames(Root(s, n)))
  BY DEF DefaultQueryConfiguration, HasModes, ArgumentNames
<1>3. DOMAIN configs = RootNames(s)
  OBVIOUS
<1> HIDE DEF configs
<1>4. /\ board'.schema = s /\ board'.depth = board.depth /\ board'.configs = configs
      /\ board' = [schema |-> board'.schema, depth |-> board'.depth, title |-> board'.title, chosen |-> board'.chosen,
                   editing |-> board'.editing, configs |-> board'.configs]
  BY <1>1 DEF BoardInv
<1>5. CompiledIsShown'
  BY <1>1, StillShown DEF BoardInv
<1> QED
  BY <1>2, <1>3, <1>4, <1>5 DEF BoardInv, Loaded

(* An edit of one configuration keeps the modes of them all. *)
LEMMA UpdatedModes ==
    ASSUME BoardInv, NEW n, NEW config, UpdateQuery(n, config),
           n \in RootNames(board.schema) => HasModes(config, ArgumentNames(Root(board.schema, n)))
    PROVE  BoardInv'
<1>1. board' = [board EXCEPT !.configs[n] = config] /\ built' = None /\ sent' = sent
  BY DEF UpdateQuery, ResetCompilation
<1>2. CompiledIsShown'
  BY <1>1, StillShown DEF BoardInv
<1> DEFINE configs == [board.configs EXCEPT ![n] = config]
<1>3. board' = [board EXCEPT !.configs = configs]
  BY <1>1
<1>4. DOMAIN configs = DOMAIN board.configs /\ \A m \in DOMAIN board.configs : configs[m] = IF m = n THEN config ELSE board.configs[m]
  OBVIOUS
<1> HIDE DEF configs
<1>5. /\ board'.schema = board.schema /\ board'.depth = board.depth /\ board'.configs = configs
      /\ board' = [schema |-> board'.schema, depth |-> board'.depth, title |-> board'.title, chosen |-> board'.chosen,
                   editing |-> board'.editing, configs |-> board'.configs]
  BY <1>3 DEF BoardInv
<1> QED
  BY <1>2, <1>4, <1>5 DEF BoardInv, Loaded

(* The rest of the steps leave the configurations alone. *)
LEMMA OtherwiseInv ==
    ASSUME BoardInv, CompiledIsShown',
           NEW depth \in Nat, NEW title, NEW chosen, NEW editing,
           board' = [board EXCEPT !.depth = depth, !.title = title, !.chosen = chosen, !.editing = editing]
    PROVE  BoardInv'
<1>1. /\ board'.schema = board.schema /\ board'.depth \in Nat /\ board'.configs = board.configs
      /\ board' = [schema |-> board'.schema, depth |-> board'.depth, title |-> board'.title, chosen |-> board'.chosen,
                   editing |-> board'.editing, configs |-> board'.configs]
  BY DEF BoardInv
<1> QED
  BY <1>1 DEF BoardInv, Loaded

(* Every step at the desk keeps it. *)
LEMMA BoardNextInv == BoardInv /\ [BoardNext]_boardVars => BoardInv'
<1> SUFFICES ASSUME BoardInv, [BoardNext]_boardVars PROVE BoardInv'
  OBVIOUS
<1> USE DEF BoardAct
<1>1. CompiledIsShown /\ board.depth \in Nat
      /\ board = [schema |-> board.schema, depth |-> board.depth, title |-> board.title, chosen |-> board.chosen,
                  editing |-> board.editing, configs |-> board.configs]
  BY DEF BoardInv
<1>2. ASSUME board' = board, built' \in {built, None}, sent' \subseteq sent PROVE BoardInv'
  <2>1. CompiledIsShown'
    BY <1>1, <1>2, StillShown
  <2> QED
    BY <1>2, <2>1 DEF BoardInv, Loaded
<1>3. ASSUME NEW s \in BoardSchemas, LoadSchema(s) PROVE BoardInv'
  BY <1>3, LoadedModes
<1>4. ASSUME NEW depth \in Depths, SetDiscoveryDepth(depth) PROVE BoardInv'
  <2>1. board' = [board EXCEPT !.depth = depth] /\ built' = built /\ sent' = sent
    BY <1>4 DEF SetDiscoveryDepth
  <2>2. CompiledIsShown'
    BY <1>1, <2>1, StillShown
  <2>3. board' = [board EXCEPT !.depth = depth, !.title = board.title, !.chosen = board.chosen, !.editing = board.editing]
    BY <1>1, <2>1
  <2>4. depth \in Nat
    BY GraphQlDeskAssumption
  <2> QED
    BY <2>2, <2>3, <2>4, OtherwiseInv
<1>5. CASE ClassifyQueriesAgain
  BY <1>2, <1>5 DEF ClassifyQueriesAgain
<1>6. ASSUME NEW call, QueriesProgress(call) PROVE BoardInv'
  BY <1>2, <1>6 DEF QueriesProgress
<1>7. ASSUME NEW call, NEW reads, QueriesClassified(call, reads) PROVE BoardInv'
  <2> DEFINE chosen == board.chosen \cup (reads \cap call.names)
  <2>1. board' = [board EXCEPT !.chosen = chosen] /\ built' = built /\ sent' = sent
    BY <1>7 DEF QueriesClassified
  <2>2. board.chosen \subseteq chosen
    OBVIOUS
  <2> HIDE DEF chosen
  <2>3. CompiledIsShown'
    BY <1>1, <2>1, <2>2, StillShown
  <2>4. board' = [board EXCEPT !.depth = board.depth, !.title = board.title, !.chosen = chosen, !.editing = board.editing]
    BY <1>1, <2>1
  <2> QED
    BY <1>1, <2>3, <2>4, OtherwiseInv
<1>8. ASSUME NEW call, NEW batchInFlight, QueriesUnclassified(call, batchInFlight) PROVE BoardInv'
  BY <1>2, <1>8 DEF QueriesUnclassified
<1>9. CASE EditCatalog
  <2>1. board' = [board EXCEPT !.title = "second"] /\ built' = None /\ sent' = sent
    BY <1>9 DEF EditCatalog, ResetCompilation
  <2>2. CompiledIsShown'
    BY <1>1, <2>1, StillShown
  <2>3. board' = [board EXCEPT !.depth = board.depth, !.title = "second", !.chosen = board.chosen, !.editing = board.editing]
    BY <1>1, <2>1
  <2> QED
    BY <1>1, <2>2, <2>3, OtherwiseInv
<1>10. ASSUME NEW n, ToggleQuery(n) PROVE BoardInv'
  <2>1. board' = [board EXCEPT !.chosen = Toggled(board.chosen, n), !.editing = n] /\ built' = None /\ sent' = sent
    BY <1>10 DEF ToggleQuery, ResetCompilation
  <2>2. CompiledIsShown'
    BY <1>1, <2>1, StillShown
  <2>3. board' = [board EXCEPT !.depth = board.depth, !.title = board.title, !.chosen = Toggled(board.chosen, n), !.editing = n]
    BY <1>1, <2>1
  <2> QED
    BY <1>1, <2>2, <2>3, OtherwiseInv
<1>11. ASSUME NEW n, Configure(n) PROVE BoardInv'
  <2>1. board' = [board EXCEPT !.editing = n] /\ built' = built /\ sent' = sent
    BY <1>11 DEF Configure
  <2>2. CompiledIsShown'
    BY <1>1, <2>1, StillShown
  <2>3. board' = [board EXCEPT !.depth = board.depth, !.title = board.title, !.chosen = board.chosen, !.editing = n]
    BY <1>1, <2>1
  <2> QED
    BY <1>1, <2>2, <2>3, OtherwiseInv
<1>12. ASSUME Loaded, NEW config \in ConfigurationEdits(board.configs[Editing], OfferedOn(board.schema, Editing, board.depth)),
              UpdateQuery(Editing, config)
       PROVE  BoardInv'
  <2>1. Editing \in RootNames(board.schema) =>
          HasModes(board.configs[Editing], ArgumentNames(Root(board.schema, Editing)))
    BY <1>12 DEF BoardInv
  <2>2. Editing \in RootNames(board.schema) => HasModes(config, ArgumentNames(Root(board.schema, Editing)))
    BY <1>12, <2>1, EditsHaveModes
  <2> QED
    BY <1>12, <2>2, UpdatedModes
<1>13. ASSUME NEW n, RequestFieldProposals(n) PROVE BoardInv'
  BY <1>2, <1>13 DEF RequestFieldProposals
<1>14. ASSUME Loaded, ApplyFieldProposals(Editing) PROVE BoardInv'
  <2> DEFINE old == board.configs[Editing]
             new == SelectSeq(proposals[Editing], LAMBDA p : ~Contains(old.fields, p))
             config == [old EXCEPT !.fields = @ \o new]
  <2>1. UpdateQuery(Editing, config)
    BY <1>14 DEF ApplyFieldProposals
  <2>2. Editing \in RootNames(board.schema) => HasModes(old, ArgumentNames(Root(board.schema, Editing)))
    BY <1>14 DEF BoardInv
  <2>3. \A x : HasModes(old, ArgumentNames(Root(board.schema, Editing)))
                 => HasModes([old EXCEPT !.fields = x], ArgumentNames(Root(board.schema, Editing)))
    BY DEF HasModes
  <2>4. \E x : config = [old EXCEPT !.fields = x]
    OBVIOUS
  <2> HIDE DEF old, config
  <2> QED
    BY <2>1, <2>2, <2>3, <2>4, UpdatedModes
<1>15. CASE FieldsProposed \/ ProposalsFailed \/ EditEndpoint
  BY <1>2, <1>15 DEF FieldsProposed, ProposalsFailed, EditEndpoint
<1>16. CASE CompileBoard
  <2>1. board' = board /\ sent' = sent /\ Loaded
    BY <1>16 DEF CompileBoard
  <2> DEFINE catalog == Compiled(board.schema, BoardInventory, BoardDecisions)
  <2>2. built' = IF BoardCompiles THEN [title |-> board.title, catalog |-> catalog] ELSE None
    BY <1>16 DEF CompileBoard
  <2>3. CASE ~BoardCompiles
    BY <1>2, <2>1, <2>2, <2>3
  <2>4. CASE BoardCompiles
    <3>1. /\ catalog.schema = board.schema /\ DOMAIN catalog.capabilities # {} /\ Executable(catalog)
          /\ \A n \in DOMAIN catalog.capabilities : AsConfigured(catalog.capabilities[n], n)
      BY <2>1, <2>4, BoardShows
    <3> HIDE DEF catalog
    <3>2. built'.catalog = catalog /\ built'.title = board.title
      BY <2>2, <2>4
    <3>3. \A c, n : AsConfigured(c, n) => AsConfigured(c, n)'
      BY <2>1 DEF AsConfigured
    <3>4. CompiledIsShown'
      BY <1>1, <2>1, <3>1, <3>2, <3>3 DEF CompiledIsShown
    <3> QED
      BY <2>1, <3>4 DEF BoardInv, Loaded
  <2> QED
    BY <2>3, <2>4
<1>17. CASE PublishBoard
  <2> DEFINE post == [id |-> boardActs, schema |-> board.schema, catalog |-> built.catalog]
  <2>1. board' = board /\ built' = built /\ built # None /\ sent' = sent \cup {post}
    BY <1>17 DEF PublishBoard
  <2>2. post.schema = post.catalog.schema /\ Executable(post.catalog)
    BY <1>1, <2>1 DEF CompiledIsShown
  <2> HIDE DEF post
  <2>3. \A c, n : AsConfigured(c, n) => AsConfigured(c, n)'
    BY <2>1 DEF AsConfigured
  <2>4. CompiledIsShown'
    BY <1>1, <2>1, <2>2, <2>3 DEF CompiledIsShown
  <2> QED
    BY <2>1, <2>4 DEF BoardInv, Loaded
<1>18. ASSUME NEW post, NEW ok, BoardAnswered(post, ok) PROVE BoardInv'
  BY <1>2, <1>18 DEF BoardAnswered
<1>19. CASE UNCHANGED boardVars
  BY <1>2, <1>19 DEF boardVars
<1>20. ASSUME BoardNext PROVE BoardInv'
  BY <1>3, <1>4, <1>5, <1>6, <1>7, <1>8, <1>9, <1>10, <1>11, <1>12, <1>13, <1>14, <1>15, <1>16, <1>17, <1>18, <1>20 DEF BoardNext
<1> QED
  BY <1>19, <1>20

(* What is compiled at the desk is what it shows, whatever is answered while the reviewer works on. *)
THEOREM DeskShowsCompiled == BoardSpec => []CompiledIsShown
<1>1. BoardInit => BoardInv
  BY GraphQlDeskAssumption DEF BoardInit, BoardInv, CompiledIsShown, Loaded
<1>2. BoardInv => CompiledIsShown
  BY DEF BoardInv
<1> QED
  BY <1>1, <1>2, BoardNextInv, PTL DEF BoardSpec

-----------------------------------------------------------------------------
(* A curated compile. *)

(* A list without a key twice has none twice where it is filtered. *)
LEMMA OnlyOnce ==
    ASSUME NEW T, NEW list \in Seq(T), NEW S, NEW key, KeyedOnce(key, list)
    PROVE  KeyedOnce(key, Only(list, S))
<1> DEFINE n == Len(list)
           Q == Seq(T)
<1>1. n \in Nat /\ DOMAIN list = 1 .. n /\ \A k \in 1 .. n : list[k] \in T
  OBVIOUS
<1>2. PICK only : /\ only[0] = <<>> /\ Only(list, S) = only[n]
                  /\ \A k \in 1 .. n : only[k] = IF list[k] \in S THEN Append(only[k - 1], list[k]) ELSE only[k - 1]
  <2>1. \E only : Filters(only, list, S)
    BY OnlySteps, Zenon
  <2> QED
    BY <2>1 DEF Filters
<1>3. \A i, j \in 1 .. n : key[list[i]] = key[list[j]] => i = j
  BY <1>1 DEF KeyedOnce
<1> HIDE DEF n
<1> DEFINE Good(k, s) == /\ s \in Q /\ \A i, j \in 1 .. Len(s) : key[s[i]] = key[s[j]] => i = j
                         /\ \A i \in 1 .. Len(s) : \E j \in 1 .. k : s[i] = list[j]
           D == {k \in Nat : k <= n => Good(k, only[k])}
<1>4. 0 \in D
  <2>1. Good(0, <<>>)
    OBVIOUS
  <2> HIDE DEF Good
  <2> QED
    BY <1>2, <2>1
<1>5. ASSUME NEW k \in Nat, k \in D PROVE k + 1 \in D
  <2> SUFFICES ASSUME k + 1 <= n PROVE Good(k + 1, only[k + 1])
    OBVIOUS
  <2> DEFINE s == only[k]
             t == only[k + 1]
             x == list[k + 1]
  <2> SUFFICES Good(k + 1, t)
    OBVIOUS
  <2>1. Good(k, s)
    BY <1>5, <1>1
  <2>2. t = IF x \in S THEN Append(s, x) ELSE s
    <3>1. k + 1 \in 1 .. n /\ (k + 1) - 1 = k
      BY <1>1
    <3> QED
      BY <1>2, <3>1
  <2>3. x \in T /\ s \in Seq(T)
    BY <1>1, <2>1
  <2>4. k + 1 \in 1 .. k + 1 /\ k + 1 \in 1 .. n /\ \A j \in 1 .. k : j \in 1 .. k + 1 /\ j \in 1 .. n /\ j # k + 1
    BY <1>1
  <2>5. CASE x \notin S
    <3>1. t = s
      BY <2>2, <2>5
    <3> HIDE DEF s, t
    <3> QED
      BY <2>1, <2>4, <3>1
  <2>6. CASE x \in S
    <3>1. t = Append(s, x)
      BY <2>2, <2>6
    <3> HIDE DEF t
    <3>2. /\ t \in Q /\ Len(t) = Len(s) + 1 /\ t[Len(s) + 1] = x /\ Len(s) \in Nat
          /\ \A i \in 1 .. Len(s) : t[i] = s[i]
      BY <2>3, <3>1
    <3> HIDE DEF s
    <3>3. \A i \in 1 .. Len(t) : i \in 1 .. Len(s) \/ i = Len(s) + 1
      BY <3>2
    <3>4. ASSUME NEW i \in 1 .. Len(s) PROVE (\E j \in 1 .. k + 1 : t[i] = list[j]) /\ key[t[i]] # key[x]
      <4>1. PICK j \in 1 .. k : s[i] = list[j]
        BY <2>1
      <4>2. key[list[j]] # key[list[k + 1]]
        BY <1>3, <2>4
      <4> QED
        BY <2>4, <3>2, <4>1, <4>2
    <3>5. \E j \in 1 .. k + 1 : t[Len(s) + 1] = list[j]
      BY <2>4, <3>2
    <3>6. ASSUME NEW i \in 1 .. Len(t), NEW j \in 1 .. Len(t), key[t[i]] = key[t[j]] PROVE i = j
      <4>1. CASE i \in 1 .. Len(s) /\ j \in 1 .. Len(s)
        BY <2>1, <3>2, <3>6, <4>1
      <4>2. CASE i \in 1 .. Len(s) /\ j = Len(s) + 1
        BY <3>2, <3>4, <3>6, <4>2
      <4>3. CASE j \in 1 .. Len(s) /\ i = Len(s) + 1
        BY <3>2, <3>4, <3>6, <4>3
      <4> QED
        BY <3>3, <4>1, <4>2, <4>3
    <3> QED
      BY <3>2, <3>3, <3>4, <3>5, <3>6
  <2> HIDE DEF Good, t, x
  <2> QED
    BY <2>5, <2>6
<1>6. Good(n, only[n])
  <2>1. n \in D
    <3> HIDE DEF D
    <3> QED
      BY <1>1, <1>4, <1>5, SetInduction
  <2> QED
    BY <1>1, <2>1
<1> DEFINE s == only[n]
<1>7. KeyedOnce(key, s)
  <2>1. Good(n, s)
    BY <1>6
  <2>2. DOMAIN s = 1 .. Len(s)
    BY <1>6
  <2> HIDE DEF s
  <2> QED
    BY <2>1, <2>2 DEF KeyedOnce
<1> QED
  BY <1>2, <1>7

(* What a curated compile makes of a root: the fields that can be placed, each once. *)
LEMMA UnderstoodIs ==
    ASSUME NEW s, IsSchema(s), NEW o, o.depth \in Nat, NEW r \in Range(s.roots)
    PROVE  LET offered == Discovered(s, r, None, o.depth).offered
               fields == Understood(s, o, r)
           IN  /\ fields \in Seq(LeavesIn(s)) /\ Range(fields) = {f \in Range(offered) : CuratedMeaning(o, r, f) # Unknown}
               /\ Range(Paths(fields)) = {f.path : f \in Range(fields)} /\ Range(Paths(fields)) \subseteq Range(Paths(offered))
               /\ ~Repeats(Paths(fields)) /\ (Paths(fields) = <<>> => fields = <<>>)
               /\ \A p : Contains(Paths(fields), p) <=> p \in Range(Paths(fields))
               /\ \A f, g \in Range(offered) : f.path = g.path => f = g
<1> DEFINE offered == Discovered(s, r, None, o.depth).offered
           S == {f \in Range(offered) : CuratedMeaning(o, r, f) # Unknown}
           fields == Understood(s, o, r)
<1>1. Sound(s, RowType(s, r, None), offered)
  BY RowTyped, DiscoveredSound
<1>2. offered \in Seq(LeavesIn(s)) /\ KeyedOnce(PathOf(s), offered)
  BY <1>1 DEF Sound
<1>3. fields = Only(offered, S)
  BY DEF Understood
<1> HIDE DEF offered, fields
<1>4. fields \in Seq(LeavesIn(s)) /\ Range(fields) = {f \in Range(offered) : f \in S} /\ KeyedOnce(PathOf(s), fields)
  <2> HIDE DEF S
  <2> QED
    BY <1>2, <1>3, OnlyAre, OnlyOnce
<1>5. DOMAIN fields = 1 .. Len(fields) /\ Len(fields) \in Nat /\ \A i \in DOMAIN fields : fields[i] \in LeavesIn(s) /\ fields[i] \in Range(fields)
  BY <1>4 DEF Range
<1>6. \A i \in DOMAIN fields : PathOf(s)[fields[i]] = fields[i].path
  BY <1>5, LeafIs
<1>7. Paths(fields) = [i \in DOMAIN fields |-> fields[i].path]
  BY DEF Paths
<1>8. ~Repeats(Paths(fields))
  BY <1>4, <1>6, <1>7 DEF KeyedOnce, Repeats, IsInjective
<1>9. Range(Paths(fields)) = {f.path : f \in Range(fields)}
  BY <1>5, <1>7 DEF Range
<1>10. Range(Paths(offered)) = {f.path : f \in Range(offered)}
  BY DEF Paths, Range
<1>11. Paths(fields) = <<>> => fields = <<>>
  <2>1. Paths(fields) = <<>> => DOMAIN fields = {}
    BY <1>7
  <2> QED
    BY <1>4, <2>1
<1>12. \A p : Contains(Paths(fields), p) <=> p \in Range(Paths(fields))
  <2>1. Len(Paths(fields)) = Len(fields) /\ DOMAIN Paths(fields) = 1 .. Len(fields)
    BY <1>5, <1>7
  <2> QED
    BY <2>1 DEF Contains, Range
<1>13. ASSUME NEW f \in Range(offered), NEW g \in Range(offered), f.path = g.path PROVE f = g
  <2>1. PICK i \in DOMAIN offered : f = offered[i]
    BY DEF Range
  <2>2. PICK j \in DOMAIN offered : g = offered[j]
    BY DEF Range
  <2>3. f \in LeavesIn(s) /\ g \in LeavesIn(s)
    BY <1>2, RangeIs
  <2>4. PathOf(s)[f] = PathOf(s)[g]
    BY <1>13, <2>3, LeafIs
  <2> QED
    BY <1>2, <2>1, <2>2, <2>4 DEF KeyedOnce
<1> QED
  BY <1>4, <1>8, <1>9, <1>10, <1>11, <1>12, <1>13 DEF offered, fields

(* The roots a curated compile includes. *)
LEMMA IncludedIs ==
    ASSUME NEW s, IsSchema(s), NEW o
    PROVE  LET included == Included(s, o) IN
           /\ DOMAIN included = 1 .. Len(included) /\ Len(included) \in Nat
           /\ \A i \in DOMAIN included : included[i] \in Range(s.roots) /\ included[i] \in Range(included)
           /\ Range(included) = {r \in Range(CuratedRoots(s, o)) : WithinLimits(s, o, r)}
           /\ Range(CuratedRoots(s, o)) \subseteq Range(s.roots)
           /\ \A i, j \in DOMAIN included : included[i].name = included[j].name => i = j
           /\ \A q, r \in Range(s.roots) : q.name = r.name => q = r
<1> DEFINE roots == CuratedRoots(s, o)
           included == Included(s, o)
           name == [r \in Range(s.roots) |-> r.name]
           S == {r \in Range(s.roots) : Supported(s, r, None, o.depth)}
           W == {r \in Range(roots) : WithinLimits(s, o, r)}
<1>1. /\ s.roots \in Seq(Range(s.roots)) /\ \A i, j \in DOMAIN s.roots : s.roots[i].name = s.roots[j].name => i = j
      /\ \A q, r \in Range(s.roots) : q.name = r.name => q = r
  BY NamedIs DEF IsSchema
<1>2. KeyedOnce(name, s.roots)
  BY <1>1 DEF KeyedOnce, Range
<1>3. roots = Only(s.roots, S) /\ included = Only(roots, W)
  BY DEF CuratedRoots, Included, AllWithinLimits
<1> HIDE DEF roots, included, name, S
<1>4. roots \in Seq(Range(s.roots)) /\ KeyedOnce(name, roots) /\ Range(roots) \subseteq Range(s.roots)
  BY <1>1, <1>2, <1>3, OnlyAre, OnlyOnce
<1>5. included \in Seq(Range(s.roots)) /\ KeyedOnce(name, included) /\ Range(included) = {r \in Range(roots) : r \in W}
  <2> HIDE DEF W
  <2> QED
    BY <1>3, <1>4, OnlyAre, OnlyOnce
<1>6. /\ DOMAIN included = 1 .. Len(included) /\ Len(included) \in Nat
      /\ \A i \in DOMAIN included : included[i] \in Range(s.roots) /\ included[i] \in Range(included)
  BY <1>5 DEF Range
<1>7. \A i, j \in DOMAIN included : included[i].name = included[j].name => i = j
  BY <1>5, <1>6 DEF KeyedOnce, name
<1> QED
  BY <1>1, <1>4, <1>5, <1>6, <1>7 DEF roots, included

(* The entry it makes up passes the checks. *)
LEMMA CuratedEntryStands ==
    ASSUME NEW s, IsSchema(s), NEW o, o.depth \in Nat, NEW r \in Range(s.roots), WithinLimits(s, o, r)
    PROVE  LET sel == CuratedSelection(s, o, r) IN EntryStands(s, sel, Review(s, sel, o.depth), CuratedEntry(s, o, r))
<1> DEFINE sel == CuratedSelection(s, o, r)
           q == CuratedEntry(s, o, r)
           seen == Review(s, sel, o.depth)
           fields == Paths(Understood(s, o, r))
           offered == Discovered(s, r, None, o.depth).offered
<1>1. Root(s, r.name) = r /\ NamesOnce(r.args)
  BY RootIs
<1>2. /\ sel.field = r.name /\ sel.rows = None /\ sel.purpose = TRUE /\ sel.shape = SuggestedShape(s, r)
  BY DEF CuratedSelection
<1>3. /\ q.args = [i \in DOMAIN r.args |-> r.args[i].name] /\ q.identity = {} /\ q.shape = None
      /\ q.fields = fields /\ q.levels = o.levels /\ q.count = o.count
      /\ q.required = IF Contains(fields, Id) THEN <<Id>> ELSE <<>>
  BY DEF CuratedEntry
<1>4. seen.args = r.args /\ seen.found = Discovered(s, r, None, o.depth)
  <2>1. \A x : Review(s, x, o.depth).args = Root(s, x.field).args /\ Review(s, x, o.depth).found = Discovered(s, Root(s, x.field), x.rows, o.depth)
    BY DEF Review
  <2> HIDE DEF sel
  <2> QED
    BY <1>1, <1>2, <2>1
<1>5. /\ Range(fields) \subseteq Range(Paths(offered)) /\ ~Repeats(fields)
      /\ \A p : Contains(fields, p) <=> p \in Range(fields)
  BY UnderstoodIs
<1>6. ~(Len(fields) > o.count) /\ ~(Longest(fields) > o.levels)
  BY DEF WithinLimits
<1> HIDE DEF sel, q, seen, fields
<1>7. Range(q.args) = {a.name : a \in Range(seen.args)} /\ ~Repeats(q.args)
  <2>1. ~Repeats(q.args)
    BY <1>1, <1>3 DEF NamesOnce
  <2>2. Range(q.args) = {a.name : a \in Range(r.args)}
    BY <1>3 DEF Range
  <2> QED
    BY <1>4, <2>1, <2>2
<1>8. IsUniqueSubset(q.fields, Range(Paths(seen.found.offered)))
  BY <1>3, <1>4, <1>5 DEF IsUniqueSubset
<1>9. IsUniqueSubset(q.required, Range(q.fields))
  <2>1. CASE Contains(fields, Id)
    <3>1. Range(<<Id>>) = {Id} /\ ~Repeats(<<Id>>)
      BY DEF Range, Repeats, IsInjective
    <3> QED
      BY <1>3, <1>5, <2>1, <3>1 DEF IsUniqueSubset
  <2>2. CASE ~Contains(fields, Id)
    <3>1. Range(<<>>) = {} /\ ~Repeats(<<>>)
      BY DEF Range, Repeats, IsInjective
    <3> QED
      BY <1>3, <2>2, <3>1 DEF IsUniqueSubset
  <2> QED
    BY <2>1, <2>2
<1>10. Unowned(r, q) = {}
  BY <1>4, <1>7 DEF Unowned, Owned
<1>11. /\ ~(HasEnvelope(s, r, None) /\ ShapeFor(sel, q) \in RecordShapes)
       /\ ~(sel.shape \in ListShapes /\ ~HasEnvelope(s, r, None) /\ ~r.list)
  BY <1>2, <1>3 DEF HasEnvelope, ShapeFor, SuggestedShape, RecordShapes, ListShapes
<1> QED
  BY <1>1, <1>2, <1>3, <1>6, <1>7, <1>8, <1>9, <1>10, <1>11 DEF EntryStands, IsUniqueSubset, sel, q, seen, fields

(* A curated compile that gets as far as the compile proper: every root is understood. *)
IsPolicy(o) == o.depth \in Nat /\ o.levels \in 1 .. MaxLevels /\ o.count \in 1 .. MaxFields
AllUnderstood(s, o) == \A r \in Range(CuratedRoots(s, o)) : ~ExposesIdentity(r) /\ Understood(s, o, r) # <<>>

(* The inventory and the decisions it makes up, root by root. *)
LEMMA CuratedParts ==
    ASSUME NEW s, IsSchema(s), NEW o, IsPolicy(o)
    PROVE  LET included == Included(s, o)
               inv == CuratedInventory(s, o)
               d == CuratedDecisions(s, o)
           IN  /\ DOMAIN inv.selections = DOMAIN included /\ DOMAIN d.queries = DOMAIN included /\ d.queries \in Seq(Range(d.queries))
               /\ \A i \in DOMAIN included :
                    /\ included[i] \in Range(s.roots) /\ WithinLimits(s, o, included[i])
                    /\ included[i] \in Range(CuratedRoots(s, o))
                    /\ inv.selections[i] = CuratedSelection(s, o, included[i]) /\ inv.selections[i].field = included[i].name
                    /\ inv.reviews[i] = Review(s, inv.selections[i], o.depth)
                    /\ d.queries[i] = CuratedEntry(s, o, included[i]) /\ d.queries[i].capability = included[i].name
                    /\ Entries(d, included[i].name) # <<>>
                    /\ EntryFor(d, included[i].name) = CuratedEntry(s, o, included[i])
               /\ inv.schema = s /\ inv.hash = ReviewHash(s, inv.selections, inv.depth) /\ d.hash = inv.hash
               /\ Capabilities(inv) = {r.name : r \in Range(included)} /\ Approves(d) = {r.name : r \in Range(included)}
<1> DEFINE included == Included(s, o)
           inv == CuratedInventory(s, o)
           d == CuratedDecisions(s, o)
           sels == [i \in DOMAIN included |-> CuratedSelection(s, o, included[i])]
<1>1. /\ DOMAIN included = 1 .. Len(included) /\ Len(included) \in Nat
      /\ \A i \in DOMAIN included : included[i] \in Range(s.roots) /\ included[i] \in Range(included)
      /\ Range(included) = {r \in Range(CuratedRoots(s, o)) : WithinLimits(s, o, r)}
      /\ \A i, j \in DOMAIN included : included[i].name = included[j].name => i = j
  BY IncludedIs
<1>2. inv = InventoryOf(s, sels, o.depth)
  BY DEF CuratedInventory
<1>3. d.hash = inv.hash /\ d.queries = [i \in DOMAIN included |-> CuratedEntry(s, o, included[i])]
  BY DEF CuratedDecisions
<1>4. /\ inv.schema = s /\ inv.depth = o.depth /\ inv.selections = sels /\ inv.hash = ReviewHash(s, sels, o.depth)
      /\ inv.reviews = [i \in DOMAIN sels |-> Review(s, sels[i], o.depth)]
  BY <1>2 DEF InventoryOf
<1>5. \A r : CuratedSelection(s, o, r).field = r.name /\ CuratedEntry(s, o, r).capability = r.name
  BY DEF CuratedSelection, CuratedEntry
<1> HIDE DEF included, inv, d
<1>6. \A i \in DOMAIN included :
        /\ inv.selections[i] = CuratedSelection(s, o, included[i]) /\ inv.selections[i].field = included[i].name
        /\ inv.reviews[i] = Review(s, inv.selections[i], o.depth)
        /\ d.queries[i] = CuratedEntry(s, o, included[i]) /\ d.queries[i].capability = included[i].name
  BY <1>3, <1>4, <1>5
<1>7. DOMAIN inv.selections = DOMAIN included /\ DOMAIN d.queries = DOMAIN included
  BY <1>3, <1>4
<1>8. Capabilities(inv) = {r.name : r \in Range(included)} /\ Approves(d) = {r.name : r \in Range(included)}
  BY <1>6, <1>7 DEF Capabilities, Approves, Range
<1>9. d.queries \in Seq(Range(d.queries))
  BY <1>1, <1>3 DEF Range
<1>10. ASSUME NEW i \in DOMAIN included
       PROVE  Entries(d, included[i].name) # <<>> /\ EntryFor(d, included[i].name) = CuratedEntry(s, o, included[i])
  <2> DEFINE n == included[i].name
             S == {q \in Range(d.queries) : q.capability = n}
  <2>1. d.queries[i] \in Range(d.queries) /\ d.queries[i].capability = n
    BY <1>6, <1>7 DEF Range
  <2>2. Entries(d, n) = Only(d.queries, S)
    BY DEF Entries
  <2>3. d.queries[i] \in S
    BY <2>1
  <2> HIDE DEF S, n
  <2>4. Range(Entries(d, n)) = {q \in Range(d.queries) : q \in S}
    BY <1>9, <2>2, OnlyAre
  <2>5. Entries(d, n) # <<>>
    <3>1. Range(<<>>) = {}
      BY DEF Range
    <3> QED
      BY <2>1, <2>3, <2>4, <3>1
  <2>6. EntryFor(d, n) \in Range(d.queries) /\ EntryFor(d, n).capability = n
    BY <1>9, <2>5, EntryIs
  <2>7. PICK j \in DOMAIN included : EntryFor(d, n) = d.queries[j]
    BY <1>7, <2>6 DEF Range
  <2>8. j = i
    BY <1>1, <1>6, <2>6, <2>7 DEF n
  <2> QED
    BY <1>6, <2>5, <2>7, <2>8 DEF n
<1>11. \A i \in DOMAIN included :
        included[i] \in Range(s.roots) /\ WithinLimits(s, o, included[i]) /\ included[i] \in Range(CuratedRoots(s, o))
  BY <1>1
<1>12. inv.hash = ReviewHash(s, inv.selections, inv.depth)
  BY <1>4
<1> QED
  BY <1>3, <1>4, <1>6, <1>7, <1>8, <1>9, <1>10, <1>11, <1>12 DEF included, inv, d

(* It refuses for nothing but a custom scalar that has no mapping. *)
LEMMA CuratedCompiles ==
    ASSUME NEW s, IsSchema(s), NEW o, IsPolicy(o), AllUnderstood(s, o)
    PROVE  Refusal(s, CuratedInventory(s, o), CuratedDecisions(s, o)) \in {None, "scalar"}
<1> DEFINE included == Included(s, o)
           inv == CuratedInventory(s, o)
           d == CuratedDecisions(s, o)
           n == Len(included)
<1>1. /\ DOMAIN inv.selections = DOMAIN included /\ DOMAIN d.queries = DOMAIN included /\ d.queries \in Seq(Range(d.queries))
      /\ \A i \in DOMAIN included :
           /\ included[i] \in Range(s.roots) /\ WithinLimits(s, o, included[i]) /\ included[i] \in Range(CuratedRoots(s, o))
           /\ inv.selections[i] = CuratedSelection(s, o, included[i]) /\ inv.selections[i].field = included[i].name
           /\ inv.reviews[i] = Review(s, inv.selections[i], o.depth)
           /\ d.queries[i] = CuratedEntry(s, o, included[i]) /\ d.queries[i].capability = included[i].name
           /\ Entries(d, included[i].name) # <<>>
           /\ EntryFor(d, included[i].name) = CuratedEntry(s, o, included[i])
      /\ inv.schema = s /\ inv.hash = ReviewHash(s, inv.selections, inv.depth) /\ d.hash = inv.hash
      /\ Capabilities(inv) = {r.name : r \in Range(included)} /\ Approves(d) = {r.name : r \in Range(included)}
  BY CuratedParts
<1>2. /\ DOMAIN included = 1 .. n /\ n \in Nat
      /\ \A i, j \in DOMAIN included : included[i].name = included[j].name => i = j
  BY IncludedIs
<1> HIDE DEF included, inv, d, n
<1>3. o.depth \in Nat /\ o.levels \in 1 .. MaxLevels /\ o.count \in 1 .. MaxFields
  BY DEF IsPolicy
<1>4. \A r : /\ CuratedEntry(s, o, r).levels = o.levels /\ CuratedEntry(s, o, r).count = o.count
             /\ CuratedEntry(s, o, r).fields = Paths(Understood(s, o, r))
             /\ CuratedSelection(s, o, r).dataType = r.name
             /\ CuratedSelection(s, o, r).matchKey = IF Contains(Paths(Understood(s, o, r)), Id) THEN Id ELSE None
             /\ CuratedSelection(s, o, r).told =
                  [p \in Range(Paths(Understood(s, o, r))) |->
                      CuratedMeaning(o, r, CHOOSE f \in Range(Understood(s, o, r)) : f.path = p)]
  BY DEF CuratedEntry, CuratedSelection
<1>5. Parses(d)
  <2>1. ASSUME NEW q \in Range(d.queries)
        PROVE  q.fields # <<>> /\ q.levels \in 1 .. MaxLevels /\ q.count \in 1 .. MaxFields
    <3>1. PICK i \in DOMAIN included : q = CuratedEntry(s, o, included[i])
      BY <1>1 DEF Range
    <3>2. Understood(s, o, included[i]) # <<>>
      BY <1>1 DEF AllUnderstood
    <3>3. Paths(Understood(s, o, included[i])) # <<>>
      BY <1>1, <1>3, <3>2, UnderstoodIs
    <3> QED
      BY <1>3, <1>4, <3>1, <3>3
  <2> QED
    BY <2>1 DEF Parses
<1>6. Len(d.queries) = Cardinality(Approves(d))
  <2> DEFINE name == [i \in 1 .. n |-> included[i].name]
  <2>1. Approves(d) = {included[i].name : i \in 1 .. n}
    BY <1>1, <1>2 DEF Range
  <2>2. name \in Bijection(1 .. n, Approves(d))
    BY <1>2, <2>1 DEF Bijection, Injection, Surjection, IsInjective
  <2>3. IsFiniteSet(1 .. n) /\ Cardinality(1 .. n) = n
    BY <1>2, FS_Interval
  <2>4. Cardinality(Approves(d)) = n
    BY <2>2, <2>3, FS_Bijection DEF ExistsBijection
  <2>5. Len(d.queries) = n
    BY <1>1, <1>2
  <2> QED
    BY <2>4, <2>5
<1>7. FileStands(s, inv, d)
  BY <1>1, <1>5, <1>6 DEF FileStands, Bound, Gone
<1>8. ASSUME NEW i \in DOMAIN included PROVE SelectionStands(s, inv, d, i)
  <2>1. EntryStands(s, inv.selections[i], inv.reviews[i], EntryFor(d, inv.selections[i].field))
    BY <1>1, <1>3, CuratedEntryStands
  <2>2. ~Conflicts(s, inv, d, i)
    <3>1. \A k \in DOMAIN included : inv.selections[k].dataType = included[k].name
      BY <1>1, <1>4
    <3>2. \A k \in 1 .. i - 1 : k \in DOMAIN included /\ k # i
      BY <1>2
    <3> QED
      BY <1>2, <3>1, <3>2 DEF Conflicts
  <2> QED
    BY <1>1, <2>1, <2>2 DEF SelectionStands
<1>9. ASSUME NEW i \in DOMAIN included
      PROVE  LET sel == inv.selections[i]
                 q == EntryFor(d, inv.selections[i].field)
             IN  /\ sel.matchKey # None => Contains(q.fields, sel.matchKey)
                 /\ \A p \in Range(q.fields) : Meaning(d, sel, inv.reviews[i], p) # Unknown
  <2> DEFINE r == included[i]
             sel == inv.selections[i]
             q == EntryFor(d, inv.selections[i].field)
             fields == Understood(s, o, r)
  <2>1. /\ q.fields = Paths(fields) /\ sel.matchKey = IF Contains(Paths(fields), Id) THEN Id ELSE None
        /\ sel.told = [p \in Range(Paths(fields)) |-> CuratedMeaning(o, r, CHOOSE f \in Range(fields) : f.path = p)]
    <3>1. q = CuratedEntry(s, o, r) /\ sel = CuratedSelection(s, o, r)
      BY <1>1
    <3> HIDE DEF q, sel, r
    <3> QED
      BY <1>4, <3>1
  <2>2. /\ Range(Paths(fields)) = {f.path : f \in Range(fields)}
        /\ \A f \in Range(fields) : CuratedMeaning(o, r, f) # Unknown
    BY <1>1, <1>3, UnderstoodIs
  <2> HIDE DEF fields, sel, q, r
  <2>3. ASSUME NEW p \in Range(Paths(fields))
        PROVE  CuratedMeaning(o, r, CHOOSE f \in Range(fields) : f.path = p) # Unknown
    BY <2>2
  <2>4. ASSUME NEW p \in Range(q.fields) PROVE Meaning(d, sel, inv.reviews[i], p) # Unknown
    BY <2>1, <2>3 DEF Meaning, Given
  <2> QED
    BY <2>1, <2>4 DEF sel, q
<1>10. CatalogStands(inv, d)
  BY <1>1, <1>9 DEF CatalogStands
<1>11. DOMAIN inv.selections = 1 .. n /\ n \in Nat
  BY <1>1, <1>2
<1>12. \A i \in 1 .. n : SelectionStands(s, inv, d, i)
  BY <1>2, <1>8
<1> QED
  BY <1>7, <1>10, <1>11, <1>12, RefusalIs DEF inv, d

(* What a curated compile refuses for, and what it has asked by the time it does not. *)
LEMMA CuratedRefusesFor ==
    ASSUME NEW s, IsSchema(s), NEW o, IsPolicy(o)
    PROVE  /\ CuratedRefusal(s, o) \in CuratedRefusals \cup {None, "scalar"}
           /\ CuratedRefusal(s, o) = None => AllUnderstood(s, o)
<1> DEFINE roots == CuratedRoots(s, o)
           S == {r \in Range(roots) : ExposesIdentity(r) \/ Understood(s, o, r) = <<>>}
           refused == Only(roots, S)
           compile == Refusal(s, CuratedInventory(s, o), CuratedDecisions(s, o))
           stray == \E key \in DOMAIN o.meanings : ~OverrideMatches(s, o, key) \/ o.meanings[key] = Unknown
           first == IF ExposesIdentity(Head(refused)) THEN "identity argument" ELSE "nothing understood"
           empty == Included(s, o) = <<>>
<1>1. refused = <<>> => AllUnderstood(s, o)
  <2>1. roots \in Seq(Range(s.roots))
    BY SomeRoots DEF CuratedRoots
  <2> HIDE DEF roots
  <2>2. Range(refused) = {r \in Range(roots) : r \in S}
    <3> HIDE DEF S
    <3> QED
      BY <2>1, OnlyAre
  <2>3. Range(<<>>) = {}
    BY DEF Range
  <2> HIDE DEF refused
  <2>4. ASSUME refused = <<>>, NEW r \in Range(roots) PROVE ~ExposesIdentity(r) /\ Understood(s, o, r) # <<>>
    BY <2>2, <2>3, <2>4
  <2> QED
    BY <2>4 DEF AllUnderstood, roots
<1>2. AllUnderstood(s, o) => compile \in {None, "scalar"}
  BY CuratedCompiles
<1>3. CuratedRefusal(s, o) =
        CASE roots = <<>> -> "nothing supported"
          [] stray -> "stray decision"
          [] refused # <<>> -> first
          [] empty -> "nothing fits"
          [] OTHER -> compile
  BY DEF CuratedRefusal
<1>4. first \in {"identity argument", "nothing understood"}
  OBVIOUS
<1> HIDE DEF roots, refused, compile, stray, first, empty
<1>5. CuratedRefusal(s, o) \in CuratedRefusals \/ (refused = <<>> /\ CuratedRefusal(s, o) = compile)
  BY <1>3, <1>4 DEF CuratedRefusals
<1> QED
  BY <1>1, <1>2, <1>5, GraphQlCompileAssumption

(* A curated catalog has every query within the limits, whole. *)
LEMMA CuratedHolds ==
    ASSUME NEW s, IsSchema(s), NEW o, IsPolicy(o), AllUnderstood(s, o)
    PROVE  HoldsEverything(s, o, Compiled(s, CuratedInventory(s, o), CuratedDecisions(s, o)))
<1> DEFINE included == Included(s, o)
           inv == CuratedInventory(s, o)
           d == CuratedDecisions(s, o)
           caps == Compiled(s, inv, d).capabilities
<1>1. /\ \A i \in DOMAIN included : EntryFor(d, included[i].name) = CuratedEntry(s, o, included[i])
      /\ Capabilities(inv) = {r.name : r \in Range(included)}
  BY CuratedParts
<1>2. /\ Range(included) = {r \in Range(CuratedRoots(s, o)) : WithinLimits(s, o, r)}
      /\ Range(CuratedRoots(s, o)) \subseteq Range(s.roots)
      /\ \A q, r \in Range(s.roots) : q.name = r.name => q = r
  BY IncludedIs
<1>3. /\ DOMAIN caps = Capabilities(inv)
      /\ \A n \in Capabilities(inv) : caps[n].args = EntryFor(d, n).args /\ caps[n].fields = EntryFor(d, n).fields
  BY DEF Compiled
<1>4. o.depth \in Nat
  BY DEF IsPolicy
<1> HIDE DEF included, inv, d, caps
<1> SUFFICES ASSUME NEW r \in Range(CuratedRoots(s, o))
             PROVE  /\ \A a \in Range(r.args) : ~a.identity
                    /\ r.name \in DOMAIN caps <=> WithinLimits(s, o, r)
                    /\ r.name \in DOMAIN caps =>
                        /\ Range(caps[r.name].args) = {a.name : a \in Range(r.args)}
                        /\ \A f \in Range(Discovered(s, r, None, o.depth).offered) :
                            Contains(caps[r.name].fields, f.path) <=> CuratedMeaning(o, r, f) # Unknown
  BY DEF HoldsEverything, caps, inv, d
<1>5. \A a \in Range(r.args) : ~a.identity
  BY DEF AllUnderstood, ExposesIdentity
<1>6. r.name \in DOMAIN caps <=> WithinLimits(s, o, r)
  BY <1>1, <1>2, <1>3
<1>7. ASSUME r.name \in DOMAIN caps
      PROVE  /\ Range(caps[r.name].args) = {a.name : a \in Range(r.args)}
             /\ \A f \in Range(Discovered(s, r, None, o.depth).offered) :
                    Contains(caps[r.name].fields, f.path) <=> CuratedMeaning(o, r, f) # Unknown
  <2>1. r \in Range(included)
    BY <1>2, <1>6, <1>7
  <2>2. PICK i \in DOMAIN included : r = included[i]
    BY <2>1 DEF Range
  <2>3. EntryFor(d, r.name) = CuratedEntry(s, o, r)
    BY <1>1, <2>2
  <2>4. caps[r.name].args = CuratedEntry(s, o, r).args /\ caps[r.name].fields = CuratedEntry(s, o, r).fields
    BY <1>3, <1>7, <2>3
  <2>5. caps[r.name].args = [k \in DOMAIN r.args |-> r.args[k].name] /\ caps[r.name].fields = Paths(Understood(s, o, r))
    BY <2>4 DEF CuratedEntry
  <2> DEFINE fields == Understood(s, o, r)
             offered == Discovered(s, r, None, o.depth).offered
  <2>6. /\ Range(fields) = {f \in Range(offered) : CuratedMeaning(o, r, f) # Unknown}
        /\ Range(Paths(fields)) = {f.path : f \in Range(fields)}
        /\ \A p : Contains(Paths(fields), p) <=> p \in Range(Paths(fields))
        /\ \A f, g \in Range(offered) : f.path = g.path => f = g
    BY <1>2, <1>4, UnderstoodIs
  <2> HIDE DEF fields, offered
  <2>7. Range(caps[r.name].args) = {a.name : a \in Range(r.args)}
    BY <2>5 DEF Range
  <2>8. ASSUME NEW f \in Range(offered)
        PROVE  Contains(Paths(fields), f.path) <=> CuratedMeaning(o, r, f) # Unknown
    BY <2>6
  <2> QED
    BY <2>5, <2>7, <2>8 DEF fields, offered
<1> QED
  BY <1>5, <1>6, <1>7

-----------------------------------------------------------------------------
(* The desk of a curated API. *)

(* What is compiled was compiled of the schema and the policy on the form, with what the
   host decided; a post took what was compiled. *)
IsForm(f) ==
    /\ f = [schema |-> f.schema, depth |-> f.depth, scalars |-> f.scalars, session |-> f.session, title |-> f.title]
    /\ f.schema \in CuratedSchemas \cup {None} /\ f.depth \in CuratedDepths
CuratedInv ==
    /\ IsForm(form)
    /\ result # None => form.schema \in CuratedSchemas
    /\ CuratedStands

(* A compile, with whatever the host has decided by then, keeps it. *)
LEMMA Compiling ==
    ASSUME CuratedInv, form.schema \in CuratedSchemas, CompileWith(decided'), form' = form, released' = released
    PROVE  CuratedInv'
<1> DEFINE s == form.schema
           o == PolicyWith(IF gaps = {} THEN decided' ELSE Restricted(decided', gaps))
           why == CuratedRefusal(s, o)
           catalog == Compiled(s, CuratedInventory(s, o), CuratedDecisions(s, o))
<1>1. IsSchema(s) /\ form.depth \in CuratedDepths /\ IsForm(form)
  BY CuratedDeskAssumption DEF CuratedInv, IsForm
<1>2. \A m : /\ PolicyWith(m).depth = form.depth /\ PolicyWith(m).levels = form.depth /\ PolicyWith(m).count = SharedCount
             /\ PolicyWith(m).meanings = m
  BY DEF PolicyWith
<1>3. IsPolicy(o)
  <2>1. form.depth \in 1 .. MaxLevels /\ SharedCount \in 1 .. MaxFields
    BY <1>1, CuratedDeskAssumption
  <2>2. /\ o.depth = form.depth /\ o.levels = form.depth /\ o.count = SharedCount
    BY <1>2
  <2> HIDE DEF o
  <2> QED
    BY <2>1, <2>2 DEF IsPolicy
<1>4. /\ trouble' = why /\ unheard' = {}
      /\ result' = IF why # None THEN None ELSE [title |-> form.title, options |-> o, catalog |-> catalog]
  BY DEF CompileWith, CompileUnder
<1>5. o = PolicyWith(o.meanings)
  BY <1>2
<1>6. \A key \in DOMAIN o.meanings : key \in DOMAIN decided' /\ o.meanings[key] = decided'[key]
  <2>1. o.meanings = IF gaps = {} THEN decided' ELSE Restricted(decided', gaps)
    BY <1>2
  <2> HIDE DEF o
  <2> QED
    BY <2>1 DEF Restricted
<1> HIDE DEF s, o, why, catalog
<1>7. why \in CuratedRefusals \cup {None, "scalar"} /\ (why = None => AllUnderstood(s, o))
  BY <1>1, <1>3, CuratedRefusesFor DEF why
<1>8. why = None => HoldsEverything(s, o, catalog) /\ Executable(catalog) /\ catalog.schema = s
  <2>1. why = None => HoldsEverything(s, o, catalog)
    BY <1>1, <1>3, <1>7, CuratedHolds DEF catalog
  <2>2. why = None => Executable(catalog)
    BY <1>1, <1>3, CuratedExecutes DEF catalog, why, IsPolicy
  <2>3. catalog.schema = s
    BY DEF catalog, Compiled
  <2> QED
    BY <2>1, <2>2, <2>3
<1>11. ASSUME result' # None
       PROVE  LET p == result'.options IN
              /\ result'.catalog.schema = form.schema /\ result'.title = form.title
              /\ p = PolicyWith(p.meanings)
              /\ \A key \in DOMAIN p.meanings \ unheard' : key \in DOMAIN decided' /\ p.meanings[key] = decided'[key]
              /\ HoldsEverything(form.schema, p, result'.catalog) /\ Executable(result'.catalog)
  <2>1. why = None
    BY <1>4, <1>11
  <2>2. result'.title = form.title /\ result'.options = o /\ result'.catalog = catalog
    BY <1>4, <2>1
  <2> QED
    BY <1>5, <1>6, <1>8, <2>1, <2>2 DEF s
<1>12. \A post \in released' : post.schema = post.catalog.schema /\ Executable(post.catalog)
  BY DEF CuratedInv, CuratedStands
<1>13. trouble' \in {None, "nothing supported", "stray decision", "identity argument", "nothing understood",
                     "nothing fits", "scalar"}
  BY <1>4, <1>7 DEF CuratedRefusals
<1>14. CuratedStands'
  BY <1>11, <1>12, <1>13 DEF CuratedStands, PolicyWith
<1> QED
  BY <1>1, <1>14 DEF CuratedInv, IsForm

(* So does a decision on what is on the list, compiled or not. *)
LEMMA Deciding ==
    ASSUME CuratedInv, Listed, NEW next, Decides(next),
           \A key \in DOMAIN decided \ gaps : key \in DOMAIN next /\ next[key] = decided[key]
    PROVE  CuratedInv'
<1>1. /\ decided' = next /\ form' = form /\ released' = released /\ result # None
      /\ IF confirmed THEN CompileWith(next)
         ELSE unheard' = unheard \cup gaps /\ UNCHANGED <<result, trouble, gaps>>
  BY DEF Decides, Listed
<1>2. form.schema \in CuratedSchemas
  BY <1>1 DEF CuratedInv
<1>3. CASE confirmed
  <2>1. CompileWith(decided')
    BY <1>1, <1>3
  <2> QED
    BY <1>1, <1>2, <2>1, Compiling
<1>4. CASE ~confirmed
  <2>1. unheard' = unheard \cup gaps /\ result' = result /\ trouble' = trouble
    BY <1>1, <1>4
  <2>2. \A key \in DOMAIN result.options.meanings \ unheard :
            key \in DOMAIN decided /\ result.options.meanings[key] = decided[key]
    BY <1>1 DEF CuratedInv, CuratedStands
  <2>3. \A key \in DOMAIN result.options.meanings \ unheard' :
            key \in DOMAIN decided' /\ result.options.meanings[key] = decided'[key]
    BY <1>1, <2>1, <2>2
  <2> QED
    BY <1>1, <2>1, <2>3 DEF CuratedInv, CuratedStands, IsForm, PolicyWith
<1> QED
  BY <1>3, <1>4

(* Every step at the desk keeps it. *)
LEMMA CuratedInvNext == CuratedInv /\ [CuratedNext]_curatedVars => CuratedInv'
<1> SUFFICES ASSUME CuratedInv, [CuratedNext]_curatedVars PROVE CuratedInv'
  OBVIOUS
<1>1. IsForm(form) /\ (result # None => form.schema \in CuratedSchemas) /\ CuratedStands
  BY DEF CuratedInv
<1>2. ASSUME UNCHANGED <<form, decided, result, trouble, unheard, released>> PROVE CuratedInv'
  BY <1>1, <1>2 DEF CuratedInv, CuratedStands, IsForm, PolicyWith
<1>3. ASSUME result' = None, trouble' \in {None, trouble}, released' = released, IsForm(form') PROVE CuratedInv'
  BY <1>1, <1>3 DEF CuratedInv, CuratedStands, IsForm
<1>4. ASSUME NEW s \in CuratedSchemas, LoadCurated(s) PROVE CuratedInv'
  <2>1. form' = [form EXCEPT !.schema = s, !.scalars = CustomScalars(s, form.depth)]
    BY <1>4 DEF LoadCurated
  <2>2. IsForm(form')
    BY <1>1, <2>1 DEF IsForm
  <2> QED
    BY <1>3, <1>4, <2>2 DEF LoadCurated
<1>5. ASSUME NEW edited \in FormEdits, EditForm(edited) PROVE CuratedInv'
  <2>1. \/ \E d \in CuratedDepths : edited = [form EXCEPT !.depth = d]
        \/ edited = [form EXCEPT !.session = ~@] \/ edited = [form EXCEPT !.title = "second"]
        \/ edited = [form EXCEPT !.scalars = {}]
    BY <1>5 DEF FormEdits
  <2>2. IsForm(edited)
    BY <1>1, <2>1 DEF IsForm
  <2> QED
    BY <1>3, <1>5, <2>2 DEF EditForm
<1>6. CASE Confirm
  BY <1>2, <1>6 DEF Confirm
<1>7. CASE CompileCurated
  <2>1. form' = form /\ released' = released /\ decided' = decided /\ CompileWith(decided) /\ form.schema # None
    BY <1>7 DEF CompileCurated
  <2>2. CompileWith(decided')
    BY <2>1
  <2>3. form.schema \in CuratedSchemas
    BY <1>1, <2>1 DEF IsForm
  <2> QED
    BY <2>1, <2>2, <2>3, Compiling
<1>8. ASSUME NEW key \in gaps, NEW meaning, DecideSemanticType(key, meaning) PROVE CuratedInv'
  <2> DEFINE next == IF meaning = None THEN Restricted(decided, DOMAIN decided \ {key}) ELSE Over([k \in {key} |-> meaning], decided)
  <2>1. Listed /\ Decides(next)
    BY <1>8 DEF DecideSemanticType
  <2>2. \A k \in DOMAIN decided \ gaps : k \in DOMAIN next /\ next[k] = decided[k]
    <3>1. CASE meaning = None
      <4>1. next = [k \in DOMAIN decided \cap (DOMAIN decided \ {key}) |-> decided[k]]
        BY <3>1 DEF Restricted
      <4> QED
        BY <4>1
    <3>2. CASE meaning # None
      <4>1. next = [k \in {key} \cup DOMAIN decided |-> IF k \in {key} THEN meaning ELSE decided[k]]
        BY <3>2 DEF Over
      <4> QED
        BY <4>1
    <3> QED
      BY <3>1, <3>2
  <2> HIDE DEF next
  <2> QED
    BY <2>1, <2>2, Deciding
<1>9. CASE AcceptAllSuggestions
  <2> DEFINE next == Over(decided, suggested)
  <2>1. Listed /\ Decides(next)
    BY <1>9 DEF AcceptAllSuggestions
  <2>2. \A k \in DOMAIN decided \ gaps : k \in DOMAIN next /\ next[k] = decided[k]
    BY DEF Over
  <2> HIDE DEF next
  <2> QED
    BY <2>1, <2>2, Deciding
<1>10. CASE RequestSuggestions
  BY <1>2, <1>10 DEF RequestSuggestions
<1>11. ASSUME NEW ask \in asked, SuggestionsAnswered(ask) \/ SuggestionsFailed(ask) PROVE CuratedInv'
  BY <1>2, <1>11 DEF SuggestionsAnswered, SuggestionsFailed
<1>12. ASSUME UNCHANGED <<form, decided, result, trouble, unheard>>,
              \A post \in released' : post.schema = post.catalog.schema /\ Executable(post.catalog)
       PROVE  CuratedInv'
  BY <1>1, <1>12 DEF CuratedInv, CuratedStands, IsForm, PolicyWith
<1>13. CASE PublishCurated
  <2>1. /\ result # None
        /\ released' = released \cup {[id |-> curatedActs, schema |-> form.schema, catalog |-> result.catalog]}
    BY <1>13 DEF PublishCurated
  <2>2. result.catalog.schema = form.schema /\ Executable(result.catalog)
    BY <1>1, <2>1 DEF CuratedStands
  <2> DEFINE new == [id |-> curatedActs, schema |-> form.schema, catalog |-> result.catalog]
  <2>3. new.schema = new.catalog.schema /\ Executable(new.catalog)
    BY <2>2
  <2>4. released' = released \cup {new}
    BY <2>1
  <2>5. \A post \in released : post.schema = post.catalog.schema /\ Executable(post.catalog)
    BY <1>1 DEF CuratedStands
  <2> HIDE DEF new
  <2>6. \A post \in released' : post.schema = post.catalog.schema /\ Executable(post.catalog)
    BY <2>3, <2>4, <2>5
  <2> QED
    BY <1>12, <1>13, <2>6 DEF PublishCurated
<1>14. CASE EditDestination
  BY <1>2, <1>14 DEF EditDestination
<1>15. ASSUME NEW post \in released, NEW ok \in BOOLEAN, CuratedAnswered(post, ok) PROVE CuratedInv'
  <2>1. released' \subseteq released
    BY <1>15 DEF CuratedAnswered
  <2>2. \A p \in released' : p.schema = p.catalog.schema /\ Executable(p.catalog)
    BY <1>1, <2>1 DEF CuratedStands
  <2> QED
    BY <1>12, <1>15, <2>2 DEF CuratedAnswered
<1>16. CASE UNCHANGED curatedVars
  BY <1>2, <1>16 DEF curatedVars
<1> QED
  BY <1>4, <1>5, <1>6, <1>7, <1>8, <1>9, <1>10, <1>11, <1>13, <1>14, <1>15, <1>16 DEF CuratedNext

(* A curated catalog is what the host confirmed, whole, and nothing that cannot be executed
   is on its way; a compile refuses for nothing the host can do nothing about. *)
THEOREM CuratedAlwaysStands == CuratedSpec => []CuratedStands
<1>1. CuratedInit => CuratedInv
  <2> SUFFICES ASSUME CuratedInit PROVE CuratedInv
    OBVIOUS
  <2>1. (CHOOSE d \in CuratedDepths : TRUE) \in CuratedDepths
    BY CuratedDeskAssumption
  <2>2. IsForm(form)
    BY <2>1 DEF CuratedInit, IsForm
  <2>3. result = None /\ trouble = None /\ released = {}
    BY DEF CuratedInit
  <2> QED
    BY <2>2, <2>3 DEF CuratedInv, CuratedStands
<1>2. CuratedInv => CuratedStands
  BY DEF CuratedInv
<1> QED
  BY <1>1, <1>2, CuratedInvNext, PTL DEF CuratedSpec

-----------------------------------------------------------------------------
(* What diff says, and what compile does. *)

(* A list is one of what is in it. *)
LEMMA OfItsOwn == ASSUME NEW T, NEW list \in Seq(T) PROVE list \in Seq(Range(list)) /\ Range(list) \subseteq T
  BY DEF Range

(* A check that passes adds no reason; one that may fail adds its own. *)
LEMMA FaultAmong ==
    ASSUME NEW A, NEW why, NEW fails \in BOOLEAN, fails => why \in A
    PROVE  Fault(why, fails) \in Seq(A)
  BY DEF Fault

(* A decisions file that decides on no capability twice. *)
LEMMA EntriesOnce ==
    ASSUME NEW d, d.queries \in Seq(Range(d.queries)), Len(d.queries) = Cardinality(Approves(d)),
           NEW p \in Range(d.queries), NEW q \in Range(d.queries), p.capability = q.capability
    PROVE  p = q
<1> DEFINE n == Len(d.queries)
           name == [i \in 1 .. n |-> d.queries[i].capability]
<1>1. n \in Nat /\ DOMAIN d.queries = 1 .. n
  OBVIOUS
<1>2. PICK i \in 1 .. n : p = d.queries[i]
  BY <1>1 DEF Range
<1>3. PICK j \in 1 .. n : q = d.queries[j]
  BY <1>1 DEF Range
<1>4. name \in Surjection(1 .. n, Approves(d))
  BY <1>1 DEF Surjection, Approves, Range
<1>5. IsFiniteSet(1 .. n) /\ Cardinality(1 .. n) = n
  BY <1>1, FS_Interval
<1>6. name \in Injection(1 .. n, Approves(d))
  <2> HIDE DEF n, name
  <2> QED
    BY <1>1, <1>4, <1>5, FS_Surjection DEF n
<1>7. name[i] = name[j]
  BY <1>2, <1>3
<1>8. i = j
  <2> HIDE DEF name, n
  <2> QED
    BY <1>6, <1>7 DEF Injection, IsInjective
<1> QED
  BY <1>2, <1>3, <1>8

(* Of a file that is bound to the inventory and names nothing it does not have, the checks
   of the file find something else. *)
LEMMA FileFaultsOtherwise ==
    ASSUME NEW s, NEW inv, NEW d, Bound(inv, d), Gone(inv, d) = {}
    PROVE  FileFaults(s, inv, d) \in Seq({"file", "another schema", "edited inventory", "repeated capability"})
<1> DEFINE A == {"file", "another schema", "edited inventory", "repeated capability"}
           b1 == ~Parses(d)
           b2 == s # inv.schema
           b3 == inv.hash # ReviewHash(s, inv.selections, inv.depth)
           b4 == ~Bound(inv, d)
           b5 == Len(d.queries) # Cardinality(Approves(d))
           b6 == Gone(inv, d) # {}
           f1 == Fault("file", b1)
           f2 == Fault("another schema", b2)
           f3 == Fault("edited inventory", b3)
           f4 == Fault("another inventory", b4)
           f5 == Fault("repeated capability", b5)
           f6 == Fault("unknown capability", b6)
<1>1. FileFaults(s, inv, d) = f1 \o f2 \o f3 \o f4 \o f5 \o f6
  BY DEF FileFaults
<1>2. /\ b1 \in BOOLEAN /\ b2 \in BOOLEAN /\ b3 \in BOOLEAN /\ b4 \in BOOLEAN /\ b5 \in BOOLEAN /\ b6 \in BOOLEAN
      /\ ~b4 /\ ~b6
  BY DEF Bound
<1> HIDE DEF b1, b2, b3, b4, b5, b6
<1>3. /\ f1 \in Seq(A) /\ f2 \in Seq(A) /\ f3 \in Seq(A) /\ f4 \in Seq(A) /\ f5 \in Seq(A) /\ f6 \in Seq(A)
  BY <1>2, FaultAmong
<1> HIDE DEF f1, f2, f3, f4, f5, f6, A
<1>4. f1 \o f2 \o f3 \o f4 \o f5 \o f6 \in Seq(A)
  BY <1>3
<1> QED
  BY <1>1, <1>4 DEF A

(* Of an entry whose fields are there and come once, the checks find something else. *)
EntryReasons ==
    {"visitor argument", "identity argument", "output field", "required field", "two owners", "purpose", "no owner",
     "depth", "count", "session", "one record", "no rows", "scalar"}

(* The reasons an entry is refused for are among these; if its fields are there and come once, it is not refused for them. *)
LEMMA EntryFaultsAmong ==
    ASSUME NEW s, NEW sel, NEW seen, NEW q
    PROVE  LET faults == EntryFaults(s, sel, seen, q) IN
           /\ faults \in Seq(EntryReasons)
           /\ IsUniqueSubset(q.fields, Range(Paths(seen.found.offered))) => faults \in Seq(EntryReasons \ {"output field"})
<1> DEFINE root == Root(s, sel.field)
           args == {a.name : a \in Range(seen.args)}
           rows == HasEnvelope(s, root, sel.rows)
           b1 == ~IsUniqueSubset(q.args, args)
           b2 == ~(q.identity \subseteq args)
           b3 == ~IsUniqueSubset(q.fields, Range(Paths(seen.found.offered)))
           b4 == ~IsUniqueSubset(q.required, Range(q.fields))
           b5 == Range(q.args) \cap q.identity # {}
           b6 == ~sel.purpose
           b7 == Unowned(root, q) # {}
           b8 == Longest(q.fields) > q.levels
           b9 == Len(q.fields) > q.count
           b10 == q.identity # {} /\ ~q.session
           b11 == rows /\ ShapeFor(sel, q) \in RecordShapes
           b12 == sel.shape \in ListShapes /\ ~rows /\ ~root.list
           b13 == ~(ScalarsOf(s, seen, q) \subseteq sel.scalars)
           f1 == Fault("visitor argument", b1)
           f2 == Fault("identity argument", b2)
           f3 == Fault("output field", b3)
           f4 == Fault("required field", b4)
           f5 == Fault("two owners", b5)
           f6 == Fault("purpose", b6)
           f7 == Fault("no owner", b7)
           f8 == Fault("depth", b8)
           f9 == Fault("count", b9)
           f10 == Fault("session", b10)
           f11 == Fault("one record", b11)
           f12 == Fault("no rows", b12)
           f13 == Fault("scalar", b13)
<1>1. EntryFaults(s, sel, seen, q) = f1 \o f2 \o f3 \o f4 \o f5 \o f6 \o f7 \o f8 \o f9 \o f10 \o f11 \o f12 \o f13
  BY DEF EntryFaults
<1>2. /\ b1 \in BOOLEAN /\ b2 \in BOOLEAN /\ b3 \in BOOLEAN /\ b4 \in BOOLEAN /\ b5 \in BOOLEAN /\ b6 \in BOOLEAN
      /\ b7 \in BOOLEAN /\ b8 \in BOOLEAN /\ b9 \in BOOLEAN /\ b10 \in BOOLEAN /\ b11 \in BOOLEAN /\ b12 \in BOOLEAN
      /\ b13 \in BOOLEAN
  OBVIOUS
<1>3. IsUniqueSubset(q.fields, Range(Paths(seen.found.offered))) => ~b3
  OBVIOUS
<1> HIDE DEF b1, b2, b3, b4, b5, b6, b7, b8, b9, b10, b11, b12, b13
<1>4. ASSUME NEW A \in SUBSET EntryReasons, EntryReasons \ {"output field"} \subseteq A, b3 => "output field" \in A
      PROVE  f1 \o f2 \o f3 \o f4 \o f5 \o f6 \o f7 \o f8 \o f9 \o f10 \o f11 \o f12 \o f13 \in Seq(A)
  <2>1. /\ {"visitor argument", "identity argument", "required field", "two owners", "purpose", "no owner",
            "depth", "count", "session", "one record", "no rows", "scalar"} \subseteq A
    BY <1>4 DEF EntryReasons
  <2>2. /\ f1 \in Seq(A) /\ f2 \in Seq(A) /\ f4 \in Seq(A) /\ f5 \in Seq(A) /\ f6 \in Seq(A)
        /\ f7 \in Seq(A) /\ f8 \in Seq(A) /\ f9 \in Seq(A) /\ f10 \in Seq(A) /\ f11 \in Seq(A) /\ f12 \in Seq(A)
        /\ f13 \in Seq(A)
    <3>1. \A why \in A : \A fails \in BOOLEAN : Fault(why, fails) \in Seq(A)
      BY FaultAmong
    <3>2. /\ "visitor argument" \in A /\ "identity argument" \in A /\ "required field" \in A /\ "two owners" \in A
          /\ "purpose" \in A /\ "no owner" \in A /\ "depth" \in A /\ "count" \in A /\ "session" \in A
          /\ "one record" \in A /\ "no rows" \in A /\ "scalar" \in A
      BY <2>1
    <3>3. f1 \in Seq(A) /\ f2 \in Seq(A) /\ f4 \in Seq(A) /\ f5 \in Seq(A)
      BY <1>2, <3>1, <3>2
    <3>4. f6 \in Seq(A) /\ f7 \in Seq(A) /\ f8 \in Seq(A) /\ f9 \in Seq(A)
      BY <1>2, <3>1, <3>2
    <3>5. f10 \in Seq(A) /\ f11 \in Seq(A) /\ f12 \in Seq(A) /\ f13 \in Seq(A)
      BY <1>2, <3>1, <3>2
    <3> QED
      BY <3>3, <3>4, <3>5
  <2>3. f3 \in Seq(A)
    BY <1>2, <1>4, FaultAmong
  <2> HIDE DEF f1, f2, f3, f4, f5, f6, f7, f8, f9, f10, f11, f12, f13
  <2>4. \A x, y \in Seq(A) : x \o y \in Seq(A)
    OBVIOUS
  <2>5. f1 \o f2 \o f3 \o f4 \o f5 \in Seq(A)
    BY <2>2, <2>3, <2>4
  <2>6. f1 \o f2 \o f3 \o f4 \o f5 \o f6 \o f7 \o f8 \o f9 \in Seq(A)
    <3> DEFINE g == f1 \o f2 \o f3 \o f4 \o f5
    <3> HIDE DEF g
    <3>1. g \o f6 \o f7 \o f8 \o f9 \in Seq(A)
      BY <2>2, <2>4, <2>5 DEF g
    <3> QED
      BY <3>1 DEF g
  <2>7. f1 \o f2 \o f3 \o f4 \o f5 \o f6 \o f7 \o f8 \o f9 \o f10 \o f11 \o f12 \o f13 \in Seq(A)
    <3> DEFINE g == f1 \o f2 \o f3 \o f4 \o f5 \o f6 \o f7 \o f8 \o f9
    <3> HIDE DEF g
    <3>1. g \o f10 \o f11 \o f12 \o f13 \in Seq(A)
      BY <2>2, <2>4, <2>6 DEF g
    <3> QED
      BY <3>1 DEF g
  <2> QED
    BY <2>7
<1>5. EntryReasons \in SUBSET EntryReasons /\ "output field" \in EntryReasons
      /\ (EntryReasons \ {"output field"}) \in SUBSET EntryReasons
  BY DEF EntryReasons
<1>6. EntryFaults(s, sel, seen, q) \in Seq(EntryReasons)
  BY <1>1, <1>4, <1>5
<1>7. ~b3 => EntryFaults(s, sel, seen, q) \in Seq(EntryReasons \ {"output field"})
  BY <1>1, <1>4, <1>5
<1> QED
  BY <1>3, <1>6, <1>7

(* The head of a list is of what the list is made of. *)
LEMMA HeadAmong == ASSUME NEW A, NEW list \in Seq(A), list # <<>> PROVE Head(list) \in A
  OBVIOUS

(* So are two lists put together. *)
LEMMA PutTogether == ASSUME NEW A, NEW x \in Seq(A), NEW y \in Seq(A) PROVE x \o y \in Seq(A)
  OBVIOUS

(* What is on offer, by its paths. *)
LEMMA OfferedIs ==
    ASSUME NEW s, NEW t, NEW offered, Sound(s, t, offered)
    PROVE  /\ Range(Paths(offered)) = {f.path : f \in Range(offered)}
           /\ \A f, g \in Range(offered) : f.path = g.path => f = g
<1>1. offered \in Seq(LeavesIn(s)) /\ KeyedOnce(PathOf(s), offered)
  BY DEF Sound
<1>2. Range(Paths(offered)) = {f.path : f \in Range(offered)}
  BY DEF Paths, Range
<1>3. ASSUME NEW f \in Range(offered), NEW g \in Range(offered), f.path = g.path PROVE f = g
  <2>1. PICK i \in DOMAIN offered : f = offered[i]
    BY DEF Range
  <2>2. PICK j \in DOMAIN offered : g = offered[j]
    BY DEF Range
  <2>3. f \in LeavesIn(s) /\ g \in LeavesIn(s)
    BY <1>1, RangeIs
  <2>4. PathOf(s)[f] = PathOf(s)[g]
    BY <1>3, <2>3, LeafIs
  <2> QED
    BY <1>1, <2>1, <2>2, <2>4 DEF KeyedOnce
<1> QED
  BY <1>2, <1>3

(* An inventory as the command writes it: no root twice, and no meaning by hand. *)
FieldsOnce(sels) == \A i, j \in DOMAIN sels : sels[i].field = sels[j].field => i = j
NoneTold(sels) == \A i \in DOMAIN sels : sels[i].told = <<>>

(* What is on offer for one of its capabilities, and what a decision on it leaves open. *)
LEMMA OnOffer ==
    ASSUME NEW s, NEW inv, NEW d, TakenOf(inv, s, inv.selections, inv.depth), FieldsOnce(inv.selections),
           NoneTold(inv.selections), IsDecisions(d), NEW i \in DOMAIN inv.selections
    PROVE  /\ inv.selections[i].field \in Capabilities(inv)
           /\ \A q \in Range(d.queries) : q.capability = inv.selections[i].field =>
                /\ MissingIn(inv, q) = Range(q.fields) \ Range(Paths(inv.reviews[i].found.offered))
                /\ \A p \in Range(Paths(inv.reviews[i].found.offered)) \cap Range(q.fields) :
                    /\ Meaning(d, inv.selections[i], inv.reviews[i], p) = Unknown =>
                          p \in NeedsMeaningIn(inv, d, q) \/ Unknown \in Range(d.meanings)
                    /\ p \in NeedsMeaningIn(inv, d, q) => Meaning(d, inv.selections[i], inv.reviews[i], p) = Unknown
                /\ NeedsMeaningIn(inv, d, q) \subseteq Range(Paths(inv.reviews[i].found.offered)) \cap Range(q.fields)
<1> DEFINE sel == inv.selections[i]
           seen == inv.reviews[i]
           offered == seen.found.offered
           n == sel.field
           t == RowType(s, Root(s, sel.field), sel.rows)
<1>1. n \in Capabilities(inv)
  BY DEF Capabilities, Range
<1>2. ReviewOf(inv, n) = seen
  <2>1. \A k \in DOMAIN inv.selections : inv.selections[k].field = n <=> k = i
    BY DEF FieldsOnce
  <2>2. (CHOOSE k \in DOMAIN inv.selections : inv.selections[k].field = n) = i
    <3> HIDE DEF n
    <3> QED
      BY <2>1
  <2> QED
    BY <2>2 DEF ReviewOf
<1>3. Sound(s, t, offered)
  <2>1. IsSchema(s) /\ inv.depth \in Nat /\ seen = Review(s, sel, inv.depth) /\ t \in DOMAIN s.types
    BY DEF TakenOf, IsSelections
  <2>2. Review(s, sel, inv.depth).found.offered = Discovered(s, Root(s, sel.field), sel.rows, inv.depth).offered
    BY DEF Review
  <2>3. Sound(s, t, Discovered(s, Root(s, sel.field), sel.rows, inv.depth).offered)
    BY <2>1, DiscoveredSound
  <2> HIDE DEF t, sel, seen
  <2> QED
    BY <2>1, <2>2, <2>3
<1>4. sel.told = <<>>
  BY DEF NoneTold
<1> HIDE DEF sel, seen, t
<1>5. /\ Range(Paths(offered)) = {f.path : f \in Range(offered)}
      /\ \A f, g \in Range(offered) : f.path = g.path => f = g
  BY <1>3, OfferedIs
<1>6. ASSUME NEW f \in Range(offered) PROVE OfferedAt(seen, f.path) = f
  <2>1. \A g \in Range(offered) : g.path = f.path <=> g = f
    BY <1>5
  <2>2. OfferedAt(seen, f.path) = CHOOSE g \in Range(offered) : g.path = f.path
    BY DEF OfferedAt
  <2> HIDE DEF offered
  <2> QED
    BY <2>1, <2>2
<1>7. ASSUME NEW f \in Range(offered)
      PROVE  Meaning(d, sel, seen, f.path) =
                IF <<n, f.path>> \in DOMAIN d.meanings THEN d.meanings[<<n, f.path>>] ELSE f.meaning
  <2>1. DOMAIN <<>> = {}
    OBVIOUS
  <2>2. Meaning(d, sel, seen, f.path) = Given(d.meanings, <<n, f.path>>, OfferedAt(seen, f.path).meaning)
    BY <1>4, <2>1 DEF Meaning, Given
  <2> QED
    BY <1>6, <2>2 DEF Given
<1> HIDE DEF offered, n
<1>8. ASSUME NEW q \in Range(d.queries), q.capability = n
      PROVE  /\ MissingIn(inv, q) = Range(q.fields) \ Range(Paths(offered))
             /\ \A p \in Range(Paths(offered)) \cap Range(q.fields) :
                 /\ Meaning(d, sel, seen, p) = Unknown => p \in NeedsMeaningIn(inv, d, q) \/ Unknown \in Range(d.meanings)
                 /\ p \in NeedsMeaningIn(inv, d, q) => Meaning(d, sel, seen, p) = Unknown
             /\ NeedsMeaningIn(inv, d, q) \subseteq Range(Paths(offered)) \cap Range(q.fields)
  <2>1. OfferedBy(inv, q.capability) = offered
    BY <1>2, <1>8 DEF OfferedBy, offered
  <2>2. MissingIn(inv, q) = Range(q.fields) \ Range(Paths(offered))
    BY <2>1 DEF MissingIn
  <2>3. NeedsMeaningIn(inv, d, q) =
          {f.path : f \in {g \in Range(offered) :
              Contains(q.fields, g.path) /\ g.meaning = Unknown /\ <<n, g.path>> \notin DOMAIN d.meanings}}
    BY <1>8, <2>1 DEF NeedsMeaningIn
  <2>4. \A p : Contains(q.fields, p) <=> p \in Range(q.fields)
    <3>1. q.fields \in Seq(Range(q.fields))
      BY DEF IsDecisions, IsEntry
    <3> QED
      BY <3>1 DEF Contains, Range
  <2>5. ASSUME NEW p \in Range(Paths(offered)), p \in Range(q.fields)
        PROVE  /\ Meaning(d, sel, seen, p) = Unknown => p \in NeedsMeaningIn(inv, d, q) \/ Unknown \in Range(d.meanings)
               /\ p \in NeedsMeaningIn(inv, d, q) => Meaning(d, sel, seen, p) = Unknown
    <3>1. PICK f \in Range(offered) : p = f.path
      BY <1>5
    <3>2. p \in NeedsMeaningIn(inv, d, q) <=> f.meaning = Unknown /\ <<n, p>> \notin DOMAIN d.meanings
      BY <1>5, <2>3, <2>4, <2>5, <3>1
    <3>3. <<n, p>> \in DOMAIN d.meanings => d.meanings[<<n, p>>] \in Range(d.meanings)
      BY DEF Range
    <3> QED
      BY <1>7, <3>1, <3>2, <3>3
  <2>6. NeedsMeaningIn(inv, d, q) \subseteq Range(Paths(offered)) \cap Range(q.fields)
    BY <1>5, <2>3, <2>4
  <2> QED
    BY <2>2, <2>5, <2>6
<1> QED
  BY <1>1, <1>8 DEF sel, seen, offered, n

(* Where diff finds something to decide, the compile refuses. *)
LEMMA UndecidedIsRefused ==
    ASSUME NEW s, NEW inv, NEW d, TakenOf(inv, s, inv.selections, inv.depth), FieldsOnce(inv.selections),
           NoneTold(inv.selections), IsDecisions(d), MustDecide(inv, d)
    PROVE  Refusal(s, inv, d) # None
<1> SUFFICES ASSUME Refusal(s, inv, d) = None PROVE FALSE
  OBVIOUS
<1> DEFINE n == Len(inv.selections)
<1>1. n \in Nat /\ DOMAIN inv.selections = 1 .. n
  BY DEF TakenOf, IsSelections
<1>2. FileStands(s, inv, d) /\ CatalogStands(inv, d) /\ \A i \in 1 .. n : SelectionStands(s, inv, d, i)
  BY <1>1, RefusalIs
<1>3. d.queries \in Seq(Range(d.queries)) /\ Len(d.queries) = Cardinality(Approves(d)) /\ Gone(inv, d) = {}
  BY <1>2 DEF IsDecisions, FileStands
<1>4. PICK q \in Kept(inv, d) : MissingIn(inv, q) # {} \/ NeedsMeaningIn(inv, d, q) # {}
  BY <1>3 DEF MustDecide, Affected
<1>5. PICK i \in 1 .. n : inv.selections[i].field = q.capability
  BY <1>1 DEF Kept, Capabilities, Range
<1> DEFINE m == inv.selections[i].field
           offered == inv.reviews[i].found.offered
<1>6. SelectionStands(s, inv, d, i)
  BY <1>2
<1>7. EntryFor(d, m) = q
  <2>1. Entries(d, m) # <<>>
    BY <1>6 DEF SelectionStands
  <2>2. EntryFor(d, m) \in Range(d.queries) /\ EntryFor(d, m).capability = m
    BY <1>3, <2>1, EntryIs
  <2>3. q \in Range(d.queries)
    BY <1>4 DEF Kept
  <2> QED
    BY <1>3, <1>5, <2>2, <2>3, EntriesOnce
<1>8. Range(q.fields) \subseteq Range(Paths(offered))
  BY <1>6, <1>7 DEF SelectionStands, EntryStands, IsUniqueSubset
<1>9. \A p \in Range(q.fields) : Meaning(d, inv.selections[i], inv.reviews[i], p) # Unknown
  BY <1>1, <1>2, <1>7 DEF CatalogStands
<1>10. /\ MissingIn(inv, q) = Range(q.fields) \ Range(Paths(offered))
       /\ \A p \in Range(Paths(offered)) \cap Range(q.fields) :
            p \in NeedsMeaningIn(inv, d, q) => Meaning(d, inv.selections[i], inv.reviews[i], p) = Unknown
       /\ NeedsMeaningIn(inv, d, q) \subseteq Range(Paths(offered)) \cap Range(q.fields)
  <2>1. q \in Range(d.queries) /\ q.capability = inv.selections[i].field
    BY <1>4, <1>5 DEF Kept
  <2>2. i \in DOMAIN inv.selections
    BY <1>1
  <2>3. /\ MissingIn(inv, q) = Range(q.fields) \ Range(Paths(inv.reviews[i].found.offered))
        /\ \A p \in Range(Paths(inv.reviews[i].found.offered)) \cap Range(q.fields) :
             p \in NeedsMeaningIn(inv, d, q) => Meaning(d, inv.selections[i], inv.reviews[i], p) = Unknown
        /\ NeedsMeaningIn(inv, d, q) \subseteq Range(Paths(inv.reviews[i].found.offered)) \cap Range(q.fields)
    <3> HIDE DEF n, m, offered
    <3>1. \A x \in Range(d.queries) : x.capability = inv.selections[i].field =>
            /\ MissingIn(inv, x) = Range(x.fields) \ Range(Paths(inv.reviews[i].found.offered))
            /\ \A p \in Range(Paths(inv.reviews[i].found.offered)) \cap Range(x.fields) :
                 /\ Meaning(d, inv.selections[i], inv.reviews[i], p) = Unknown =>
                       p \in NeedsMeaningIn(inv, d, x) \/ Unknown \in Range(d.meanings)
                 /\ p \in NeedsMeaningIn(inv, d, x) => Meaning(d, inv.selections[i], inv.reviews[i], p) = Unknown
            /\ NeedsMeaningIn(inv, d, x) \subseteq Range(Paths(inv.reviews[i].found.offered)) \cap Range(x.fields)
      BY <2>2, OnOffer, Zenon
    <3> QED
      BY <2>1, <3>1
  <2> QED
    BY <2>3
<1> HIDE DEF m, offered, n
<1> QED
  BY <1>4, <1>8, <1>9, <1>10

(* Where it finds nothing, the compile refuses for nothing that it looked at. *)
LEMMA DecidedIsTaken ==
    ASSUME NEW s, NEW inv, NEW d, TakenOf(inv, s, inv.selections, inv.depth), FieldsOnce(inv.selections),
           NoneTold(inv.selections), IsDecisions(d), Bound(inv, d), ~MustDecide(inv, d)
    PROVE  LET why == Refusal(s, inv, d) IN
           /\ why \notin {"another inventory", "unknown capability"}
           /\ why = "no entry" => New(inv, d) # {}
           /\ why = "output field" => \E q \in Range(d.queries) : Repeats(q.fields)
           /\ why = "meaning" => Unknown \in Range(d.meanings)
<1> DEFINE n == Len(inv.selections)
           why == Refusal(s, inv, d)
           faults(i) == SelectionFaults(s, inv, d, i)
           first == FirstRefused(s, inv, d)
           file == FileFaults(s, inv, d)
           catalog == CatalogFaults(s, inv, d)
           Ok == /\ why \notin {"another inventory", "unknown capability"}
                 /\ why = "no entry" => New(inv, d) # {}
                 /\ why = "output field" => \E q \in Range(d.queries) : Repeats(q.fields)
                 /\ why = "meaning" => Unknown \in Range(d.meanings)
<1> SUFFICES Ok
  OBVIOUS
<1>1. n \in Nat /\ DOMAIN inv.selections = 1 .. n
  BY DEF TakenOf, IsSelections
<1>2. why = IF file # <<>> THEN Head(file)
            ELSE IF \E i \in 1 .. n : faults(i) # <<>> THEN Head(faults(first))
            ELSE IF catalog # <<>> THEN Head(catalog) ELSE None
  BY <1>1 DEF Refusal
<1>3. /\ Gone(inv, d) = {}
      /\ \A q \in Kept(inv, d) : MissingIn(inv, q) = {} /\ NeedsMeaningIn(inv, d, q) = {}
  BY DEF MustDecide, Affected
<1>4. d.queries \in Seq(Range(d.queries))
  BY DEF IsDecisions
<1>5. ASSUME NEW i \in 1 .. n, Entries(d, inv.selections[i].field) # <<>>
      PROVE  LET q == EntryFor(d, inv.selections[i].field) IN
             /\ q \in Range(d.queries) /\ Range(q.fields) \subseteq Range(Paths(inv.reviews[i].found.offered))
             /\ \A p \in Range(q.fields) :
                   Meaning(d, inv.selections[i], inv.reviews[i], p) = Unknown => Unknown \in Range(d.meanings)
  <2> DEFINE q == EntryFor(d, inv.selections[i].field)
  <2>1. q \in Range(d.queries) /\ q.capability = inv.selections[i].field
    BY <1>4, <1>5, EntryIs
  <2> HIDE DEF q
  <2>2. /\ inv.selections[i].field \in Capabilities(inv)
        /\ MissingIn(inv, q) = Range(q.fields) \ Range(Paths(inv.reviews[i].found.offered))
        /\ \A p \in Range(Paths(inv.reviews[i].found.offered)) \cap Range(q.fields) :
              Meaning(d, inv.selections[i], inv.reviews[i], p) = Unknown =>
                  p \in NeedsMeaningIn(inv, d, q) \/ Unknown \in Range(d.meanings)
    BY <1>1, <2>1, OnOffer
  <2>3. q \in Kept(inv, d)
    BY <2>1, <2>2 DEF Kept
  <2> QED
    BY <1>3, <2>1, <2>2, <2>3 DEF q
<1>6. CASE file # <<>>
  <2>1. file \in Seq({"file", "another schema", "edited inventory", "repeated capability"})
    BY <1>3, FileFaultsOtherwise
  <2>2. why = Head(file)
    BY <1>2, <1>6
  <2>3. Head(file) \in {"file", "another schema", "edited inventory", "repeated capability"}
    <3> HIDE DEF file
    <3> QED
      BY <1>6, <2>1, HeadAmong
  <2> HIDE DEF why
  <2> QED
    BY <2>2, <2>3
<1>7. CASE file = <<>> /\ \E i \in 1 .. n : faults(i) # <<>>
  <2>1. first \in 1 .. n /\ faults(first) # <<>>
    BY <1>1, <1>7, FirstRefusedIs
  <2>2. why = Head(faults(first))
    BY <1>2, <1>7
  <2> DEFINE sel == inv.selections[first]
             seen == inv.reviews[first]
             q == EntryFor(d, sel.field)
             own == EntryFaults(s, sel, seen, q)
             last == Fault("conflicting data type", Conflicts(s, inv, d, first))
  <2>3. faults(first) = IF Entries(d, sel.field) = <<>> THEN <<"no entry">> ELSE IF own # <<>> THEN own ELSE last
    BY DEF SelectionFaults
  <2>4. /\ own \in Seq(EntryReasons)
        /\ IsUniqueSubset(q.fields, Range(Paths(seen.found.offered))) => own \in Seq(EntryReasons \ {"output field"})
    BY EntryFaultsAmong
  <2>5. Entries(d, sel.field) # <<>> =>
          q \in Range(d.queries) /\ Range(q.fields) \subseteq Range(Paths(seen.found.offered))
    BY <1>5, <2>1
  <2>6. Entries(d, sel.field) = <<>> => New(inv, d) # {}
    <3>1. sel.field \in Capabilities(inv)
      BY <1>1, <2>1 DEF Capabilities, Range
    <3>2. ASSUME Entries(d, sel.field) = <<>>, sel.field \in Approves(d) PROVE FALSE
      <4> DEFINE S == {x \in Range(d.queries) : x.capability = sel.field}
      <4>1. Entries(d, sel.field) = Only(d.queries, S)
        BY DEF Entries
      <4>2. PICK chosen \in Range(d.queries) : chosen \in S
        BY <3>2 DEF Approves
      <4> HIDE DEF S
      <4>3. Range(<<>>) = {x \in Range(d.queries) : x \in S}
        BY <1>4, <3>2, <4>1, OnlyAre
      <4>4. Range(<<>>) = {}
        BY DEF Range
      <4> QED
        BY <4>2, <4>3, <4>4
    <3> QED
      BY <3>1, <3>2 DEF New
  <2>7. last # <<>> => Head(last) = "conflicting data type"
    <3> DEFINE B == Conflicts(s, inv, d, first)
    <3>1. last = IF B THEN <<"conflicting data type">> ELSE <<>>
      BY DEF Fault
    <3>2. Head(<<"conflicting data type">>) = "conflicting data type"
      OBVIOUS
    <3> HIDE DEF B, last, own, first
    <3> QED
      BY <3>1, <3>2
  <2> HIDE DEF sel, seen, own, last, why, first, faults
  <2>8. CASE Entries(d, sel.field) = <<>>
    <3>1. faults(first) = <<"no entry">>
      BY <2>3, <2>8
    <3>2. Head(<<"no entry">>) = "no entry"
      OBVIOUS
    <3>3. why = "no entry"
      BY <2>2, <3>1, <3>2
    <3> QED
      BY <2>6, <2>8, <3>3
  <2>9. CASE Entries(d, sel.field) # <<>> /\ own # <<>>
    <3>1. why = Head(own) /\ why \in EntryReasons
      <4>1. faults(first) = own
        BY <2>3, <2>9
      <4>2. Head(own) \in EntryReasons
        BY <2>4, <2>9, HeadAmong
      <4> QED
        BY <2>2, <4>1, <4>2
    <3>2. why = "output field" => ~IsUniqueSubset(q.fields, Range(Paths(seen.found.offered)))
      <4>1. ASSUME own \in Seq(EntryReasons \ {"output field"}) PROVE Head(own) \in EntryReasons \ {"output field"}
        BY <2>9, <4>1, HeadAmong
      <4> QED
        BY <2>4, <3>1, <4>1
    <3>3. why = "output field" => q \in Range(d.queries) /\ Repeats(q.fields)
      BY <2>5, <2>9, <3>2 DEF IsUniqueSubset
    <3>4. why \in {"visitor argument", "identity argument", "output field", "required field", "two owners", "purpose",
                   "no owner", "depth", "count", "session", "one record", "no rows", "scalar"}
      BY <3>1 DEF EntryReasons
    <3> QED
      BY <3>3, <3>4
  <2>10. CASE Entries(d, sel.field) # <<>> /\ own = <<>>
    <3>1. why = "conflicting data type"
      BY <2>1, <2>2, <2>3, <2>7, <2>10
    <3> QED
      BY <3>1
  <2> QED
    BY <2>8, <2>9, <2>10
<1>8. CASE file = <<>> /\ ~ \E i \in 1 .. n : faults(i) # <<>>
  <2> DEFINE keyless == \E i \in DOMAIN inv.selections :
                          /\ inv.selections[i].matchKey # None
                          /\ ~Contains(EntryFor(d, inv.selections[i].field).fields, inv.selections[i].matchKey)
             meant == \E i \in DOMAIN inv.selections : \E p \in Range(EntryFor(d, inv.selections[i].field).fields) :
                          Meaning(d, inv.selections[i], inv.reviews[i], p) = Unknown
  <2>1. catalog = Fault("match key", keyless) \o Fault("meaning", meant)
    BY DEF CatalogFaults
  <2>2. \A i \in 1 .. n : Entries(d, inv.selections[i].field) # <<>>
    <3>1. \A i \in 1 .. n : SelectionStands(s, inv, d, i)
      BY <1>8, SelectionFaultsAre
    <3> QED
      BY <3>1 DEF SelectionStands
  <2>3. meant => Unknown \in Range(d.meanings)
    BY <1>1, <1>5, <2>2
  <2>4. keyless \in BOOLEAN /\ meant \in BOOLEAN
    OBVIOUS
  <2> HIDE DEF keyless, meant
  <2> DEFINE A == {"match key"} \cup {x \in {"meaning"} : meant}
  <2>5. catalog \in Seq(A)
    <3>1. Fault("match key", keyless) \in Seq(A) /\ Fault("meaning", meant) \in Seq(A)
      BY <2>4, FaultAmong
    <3> HIDE DEF A, catalog
    <3> QED
      BY <2>1, <3>1, PutTogether
  <2>6. catalog # <<>> => Head(catalog) \in A
    <3> HIDE DEF A, catalog
    <3> QED
      BY <2>5, HeadAmong
  <2>7. why = None \/ why \in A
    BY <1>2, <1>8, <2>6
  <2>8. None \notin {"another inventory", "unknown capability", "no entry", "output field", "meaning"}
    BY GraphQlCompileAssumption DEF GraphQlRefusals
  <2> HIDE DEF why
  <2> QED
    BY <2>3, <2>7, <2>8
<1> QED
  BY <1>6, <1>7, <1>8

(* A file with other entries. *)
LEMMA EntriesReplaced ==
    ASSUME NEW d, IsDecisions(d), NEW T, NEW queries \in Seq(T), \A i \in DOMAIN queries : IsEntry(queries[i])
    PROVE  IsDecisions([d EXCEPT !.queries = queries])
<1> DEFINE e == [d EXCEPT !.queries = queries]
<1>1. e.queries = queries /\ DOMAIN e = DOMAIN d
  BY DEF IsDecisions
<1>2. queries \in Seq(Range(queries))
  BY OfItsOwn
<1> HIDE DEF e
<1>3. \A q \in Range(e.queries) : IsEntry(q)
  BY <1>1 DEF Range
<1>4. IsDecisions(e)
  BY <1>1, <1>2, <1>3 DEF IsDecisions
<1> QED
  BY <1>4 DEF e

(* A file of decisions, entry by entry. *)
LEMMA EntriesAre == ASSUME NEW d, IsDecisions(d) PROVE d.queries \in Seq(Range(d.queries)) /\ \A i \in DOMAIN d.queries : IsEntry(d.queries[i])
  BY DEF IsDecisions, Range

(* An entry with other lists of fields. *)
LEMMA EntryOf ==
    ASSUME NEW q, IsEntry(q), NEW A, NEW fields \in Seq(A), NEW B, NEW required \in Seq(B)
    PROVE  IsEntry([q EXCEPT !.fields = fields, !.required = required])
<1> DEFINE e == [q EXCEPT !.fields = fields, !.required = required]
<1>1. DOMAIN e = DOMAIN q /\ e.fields = fields /\ e.required = required
  BY DEF IsEntry
<1>2. fields \in Seq(Range(fields)) /\ required \in Seq(Range(required))
  BY OfItsOwn
<1> HIDE DEF e
<1> QED
  BY <1>1, <1>2 DEF IsEntry, e

(* The edits of an entry leave an entry. *)
LEMMA EntryEdited ==
    ASSUME NEW q, IsEntry(q), NEW seen, NEW e \in EntryEdits(q, seen)
    PROVE  IsEntry(e)
<1>1. /\ {"capability", "fields", "required"} \subseteq DOMAIN q
      /\ q.fields \in Seq(Range(q.fields)) /\ q.required \in Seq(Range(q.required))
  BY DEF IsEntry
<1>2. ASSUME NEW p PROVE IsEntry(Less(q, p))
  <2>1. /\ Without(q.fields, p) \in Seq(Range(q.fields)) /\ Without(q.required, p) \in Seq(Range(q.required))
    BY <1>1, OnlyAre DEF Without
  <2> DEFINE less == Less(q, p)
  <2>2. DOMAIN less = DOMAIN q /\ less.fields = Without(q.fields, p) /\ less.required = Without(q.required, p)
    BY <1>1 DEF Less
  <2>3. less.fields \in Seq(Range(less.fields)) /\ less.required \in Seq(Range(less.required))
    <3> HIDE DEF less
    <3> QED
      BY <2>1, <2>2, OfItsOwn
  <2> HIDE DEF less
  <2>4. IsEntry(less)
    BY <1>1, <2>2, <2>3 DEF IsEntry
  <2> QED
    BY <2>4 DEF less
<1>3. ASSUME NEW p PROVE IsEntry(More(q, p))
  <2> DEFINE m == More(q, p)
             longer == Append(q.fields, p)
  <2>1. DOMAIN m = DOMAIN q /\ m.fields = longer /\ m.required = q.required
    BY <1>1 DEF More
  <2>2. longer \in Seq(Range(q.fields) \cup {p})
    BY <1>1
  <2> HIDE DEF m, longer
  <2>3. longer \in Seq(Range(longer))
    BY <2>2, OfItsOwn
  <2> QED
    BY <1>1, <2>1, <2>3 DEF IsEntry, m
<1>4. ASSUME NEW x PROVE /\ IsEntry([q EXCEPT !.args = x]) /\ IsEntry([q EXCEPT !.identity = x])
                         /\ IsEntry([q EXCEPT !.shape = x]) /\ IsEntry([q EXCEPT !.session = x])
                         /\ IsEntry([q EXCEPT !.levels = x])
  BY <1>1 DEF IsEntry
<1>5. /\ \A a : IsEntry([q EXCEPT !.args = Append(@, a.name)])
      /\ \A a : IsEntry([q EXCEPT !.identity = @ \cup {a.name}])
  <2>1. ASSUME NEW a PROVE [q EXCEPT !.args = Append(@, a.name)] = [q EXCEPT !.args = Append(q.args, a.name)]
    BY <1>1
  <2>2. ASSUME NEW a PROVE [q EXCEPT !.identity = @ \cup {a.name}] = [q EXCEPT !.identity = q.identity \cup {a.name}]
    BY <1>1
  <2> QED
    BY <1>4, <2>1, <2>2
<1>6. \/ \E p : e = Less(q, p)
      \/ \E p : e = More(q, p)
      \/ \E a : e = [q EXCEPT !.args = Append(@, a.name)]
      \/ \E a : e = [q EXCEPT !.identity = @ \cup {a.name}]
      \/ \E x : e = [q EXCEPT !.shape = x]
      \/ e = [q EXCEPT !.session = FALSE]
      \/ e = [q EXCEPT !.levels = 1]
  BY DEF EntryEdits
<1> QED
  BY <1>2, <1>3, <1>4, <1>5, <1>6

(* So do the edits of the file, and the commands that write it back. *)
LEMMA FileEdited ==
    ASSUME NEW inv, NEW d, IsDecisions(d), NEW e \in Edits(inv, d)
    PROVE  IsDecisions(e)
<1>1. d.queries \in Seq(Range(d.queries)) /\ \A i \in DOMAIN d.queries : IsEntry(d.queries[i])
  BY EntriesAre
<1>2. ASSUME NEW i \in DOMAIN d.queries PROVE IsDecisions(Dropped(d, i))
  <2> DEFINE rest == RemoveAt(d.queries, i)
             n == Len(d.queries)
  <2>1. n \in Nat /\ DOMAIN d.queries = 1 .. n /\ i \in 1 .. n
    BY <1>1
  <2>2. /\ SubSeq(d.queries, 1, i - 1) \in Seq(Range(d.queries)) /\ SubSeq(d.queries, i + 1, n) \in Seq(Range(d.queries))
    BY <1>1, <2>1
  <2>3. rest \in Seq(Range(d.queries))
    BY <2>2 DEF RemoveAt
  <2> HIDE DEF rest
  <2>4. \A k \in DOMAIN rest : IsEntry(rest[k])
    <3>1. \A q \in Range(d.queries) : IsEntry(q)
      BY <1>1 DEF Range
    <3> QED
      BY <2>3, <3>1
  <2>5. IsDecisions([d EXCEPT !.queries = rest])
    BY <2>3, <2>4, EntriesReplaced
  <2>6. Dropped(d, i) = [d EXCEPT !.queries = rest]
    BY DEF IsDecisions, Dropped, rest
  <2> QED
    BY <2>5, <2>6
<1>3. ASSUME NEW i \in DOMAIN d.queries, NEW q, IsEntry(q) PROVE IsDecisions(Rewritten(d, i, q))
  <2> DEFINE queries == [d.queries EXCEPT ![i] = q]
  <2>1. queries \in Seq(Range(d.queries) \cup {q})
    BY <1>1
  <2>2. \A k \in DOMAIN queries : IsEntry(queries[k])
    BY <1>1, <1>3
  <2> HIDE DEF queries
  <2>3. IsDecisions([d EXCEPT !.queries = queries])
    BY <2>1, <2>2, EntriesReplaced
  <2>4. Rewritten(d, i, q) = [d EXCEPT !.queries = queries]
    BY DEF IsDecisions, Rewritten, queries
  <2> QED
    BY <2>3, <2>4
<1>4. ASSUME NEW key, NEW meaning PROVE IsDecisions(Decided(d, key, meaning))
  <2> DEFINE f == Decided(d, key, meaning)
  <2>1. f.queries = d.queries /\ DOMAIN f = DOMAIN d
    BY DEF Decided, IsDecisions
  <2> HIDE DEF f
  <2> QED
    BY <2>1 DEF IsDecisions, f
<1> DEFINE cut == {Dropped(d, i) : i \in DOMAIN d.queries}
           some == {k \in DOMAIN d.queries : d.queries[k].capability \in Capabilities(inv)}
           at(i) == {Rewritten(d, i, q) : q \in EntryEdits(d.queries[i], ReviewOf(inv, d.queries[i].capability))}
           edited == UNION {at(i) : i \in some}
           told == {Decided(d, key, meaning) : key \in Undecided(inv), meaning \in {"number", Unknown}}
<1>5. CASE e \in cut
  BY <1>2, <1>5
<1>6. CASE e \in edited
  <2>1. PICK i \in some : e \in at(i)
    <3> HIDE DEF at, some
    <3> QED
      BY <1>6
  <2>2. PICK q \in EntryEdits(d.queries[i], ReviewOf(inv, d.queries[i].capability)) : e = Rewritten(d, i, q)
    BY <2>1
  <2>3. i \in DOMAIN d.queries /\ IsEntry(d.queries[i])
    BY <1>1, <2>1
  <2>4. IsEntry(q)
    BY <2>2, <2>3, EntryEdited
  <2>5. IsDecisions(Rewritten(d, i, q))
    BY <1>3, <2>3, <2>4
  <2> QED
    BY <2>2, <2>5, Zenon
<1>7. CASE e \in told
  BY <1>4, <1>7
<1>8. e \in cut \cup edited \cup told
  <2>1. Edits(inv, d) = cut \cup edited \cup told
    BY DEF Edits
  <2> HIDE DEF cut, edited, told
  <2> QED
    BY <2>1
<1>9. e \in cut \/ e \in edited \/ e \in told
  <2> HIDE DEF cut, edited, told
  <2> QED
    BY <1>8
<1> HIDE DEF cut, edited, told
<1> QED
  BY <1>5, <1>6, <1>7, <1>9

(* A file that is migrated is one. *)
LEMMA FileMigrated == ASSUME NEW d, IsDecisions(d) PROVE IsDecisions(Migrated(d))
<1> DEFINE moved(q) == [q EXCEPT !.fields = RowRelatives(@), !.required = RowRelatives(@)]
           queries == [i \in DOMAIN d.queries |-> moved(d.queries[i])]
           n == Len(d.queries)
<1>1. d.queries \in Seq(Range(d.queries)) /\ \A i \in DOMAIN d.queries : IsEntry(d.queries[i])
  BY EntriesAre
<1>2. ASSUME NEW A, NEW paths \in Seq(A) PROVE RowRelatives(paths) \in Seq({RowRelative(p) : p \in A})
  BY DEF RowRelatives
<1>3. ASSUME NEW q, IsEntry(q) PROVE IsEntry(moved(q))
  <2>1. q.fields \in Seq(Range(q.fields)) /\ q.required \in Seq(Range(q.required))
    BY <1>3 DEF IsEntry
  <2>2. moved(q) = [q EXCEPT !.fields = RowRelatives(q.fields), !.required = RowRelatives(q.required)]
    BY <1>3 DEF IsEntry
  <2> HIDE DEF moved
  <2>3. /\ RowRelatives(q.fields) \in Seq({RowRelative(p) : p \in Range(q.fields)})
        /\ RowRelatives(q.required) \in Seq({RowRelative(p) : p \in Range(q.required)})
    BY <1>2, <2>1
  <2>4. IsEntry([q EXCEPT !.fields = RowRelatives(q.fields), !.required = RowRelatives(q.required)])
    BY <1>3, <2>3, EntryOf
  <2> QED
    BY <2>2, <2>4, Zenon
<1> HIDE DEF moved
<1>4. n \in Nat /\ DOMAIN d.queries = 1 .. n
  BY <1>1
<1>5. queries \in Seq(Range(queries)) /\ \A i \in DOMAIN queries : IsEntry(queries[i])
  BY <1>1, <1>3, <1>4 DEF Range
<1>6. Migrated(d) = [d EXCEPT !.queries = queries]
  BY DEF Migrated, moved
<1> HIDE DEF queries
<1> QED
  BY <1>5, <1>6, EntriesReplaced

(* So is one that is re-bound. *)
LEMMA FileRebound == ASSUME NEW inv, NEW d, IsDecisions(d) PROVE IsDecisions(Rebound(inv, d))
<1> DEFINE f == Rebound(inv, d)
<1>1. f.queries = d.queries /\ DOMAIN f = DOMAIN d
  BY DEF Rebound, IsDecisions
<1> HIDE DEF f
<1> QED
  BY <1>1 DEF IsDecisions, f

(* What the candidate command writes is a file of decisions. *)
LEMMA CandidateFieldsAre ==
    ASSUME NEW T, NEW offered \in Seq(T)
    PROVE  CandidateFields(offered) \in Seq(Range(CandidateFields(offered)))
<1> DEFINE eligible == Only(offered, {f \in Range(offered) : Len(f.path) <= MaxLevels})
           kept == SelectWithinBudget(eligible, MaxFields)
           most == Only(eligible, Range(kept))
<1>1. eligible \in Seq(T)
  BY OnlyAre
<1>2. CandidateFields(offered) = IF Len(eligible) <= MaxFields THEN Paths(eligible) ELSE Paths(most)
  BY DEF CandidateFields
<1> HIDE DEF eligible
<1>3. most \in Seq(T)
  <2> HIDE DEF kept
  <2> QED
    BY <1>1, OnlyAre
<1> HIDE DEF most
<1>4. ASSUME NEW list \in Seq(T) PROVE Paths(list) \in Seq({x.path : x \in T})
  BY DEF Paths
<1>5. CandidateFields(offered) \in Seq({x.path : x \in T})
  BY <1>1, <1>2, <1>3, <1>4
<1> QED
  BY <1>5, OfItsOwn

(* The candidate is a file of decisions. *)
LEMMA CandidateIs ==
    ASSUME NEW s, NEW inv, NEW sels, NEW depth, TakenOf(inv, s, sels, depth)
    PROVE  IsDecisions(Candidate(inv))
<1> DEFINE queries == [i \in DOMAIN inv.selections |-> CandidateEntry(inv.selections[i], inv.reviews[i])]
           c == Candidate(inv)
           n == Len(sels)
<1>1. n \in Nat /\ DOMAIN sels = 1 .. n /\ DOMAIN inv.selections = 1 .. n
  BY DEF TakenOf, IsSelections
<1>2. ASSUME NEW i \in DOMAIN inv.selections
      PROVE  IsEntry(CandidateEntry(inv.selections[i], inv.reviews[i]))
  <2> DEFINE offered == inv.reviews[i].found.offered
             fields == CandidateFields(offered)
             q == CandidateEntry(inv.selections[i], inv.reviews[i])
  <2>1. offered \in Seq(LeavesIn(s))
    <3>1. IsSchema(s) /\ depth \in Nat /\ RowType(s, Root(s, sels[i].field), sels[i].rows) \in DOMAIN s.types
      BY DEF TakenOf, IsSelections
    <3>2. Sound(s, RowType(s, Root(s, sels[i].field), sels[i].rows),
                Discovered(s, Root(s, sels[i].field), sels[i].rows, depth).offered)
      BY <3>1, DiscoveredSound
    <3>3. inv.reviews[i] = Review(s, sels[i], depth)
      BY DEF TakenOf
    <3>4. Review(s, sels[i], depth).found = Discovered(s, Root(s, sels[i].field), sels[i].rows, depth)
      BY DEF Review
    <3> QED
      BY <3>2, <3>3, <3>4 DEF Sound
  <2> HIDE DEF offered
  <2>2. fields \in Seq(Range(fields))
    BY <2>1, CandidateFieldsAre
  <2> HIDE DEF fields
  <2>3. /\ {"capability", "fields", "required"} \subseteq DOMAIN q /\ q.fields = fields
        /\ q.required = IF Contains(fields, Id) THEN <<Id>> ELSE <<>>
    BY DEF CandidateEntry, fields, offered
  <2>4. <<Id>> \in Seq(Range(<<Id>>)) /\ <<>> \in Seq(Range(<<>>))
    BY DEF Range
  <2> HIDE DEF q
  <2>5. q.required \in Seq(Range(q.required))
    BY <2>3, <2>4
  <2> QED
    BY <2>2, <2>3, <2>5 DEF IsEntry, q
<1>3. DOMAIN c = {"hash", "meanings", "queries"} /\ c.queries = queries
  BY DEF Candidate
<1>4. queries \in Seq(Range(queries)) /\ \A q \in Range(queries) : IsEntry(q)
  <2>1. DOMAIN queries = 1 .. n /\ \A i \in 1 .. n : IsEntry(queries[i])
    BY <1>1, <1>2
  <2>2. queries = [i \in 1 .. n |-> queries[i]]
    BY <1>1
  <2> HIDE DEF queries, n
  <2> QED
    BY <1>1, <2>1, <2>2 DEF Range
<1> HIDE DEF c, queries
<1> QED
  BY <1>3, <1>4 DEF IsDecisions, c

-----------------------------------------------------------------------------
(* The inventory at hand is one the command took, but for the shapes a reviewer gave it;
   the decisions at hand are a file of entries. *)
IsProposal(sel) == {"field", "told"} \subseteq DOMAIN sel /\ sel.told = <<>>
Proposes(sels) == FieldsOnce(sels) /\ \A i \in DOMAIN sels : IsProposal(sels[i])
DiffInv ==
    /\ ReviewInv
    /\ inventory # None => Proposes(inventory.selections)
    /\ decisions # None => IsDecisions(decisions)

(* The selections the inventory command makes. *)
LEMMA ProposalsFor ==
    ASSUME NEW s, IsSchema(s), NEW o PROVE Proposes(SelectionsFor(s, o))
<1> DEFINE S == {r \in Range(s.roots) : r.name \in o.wanted /\ Supported(s, r, None, o.depth)}
           roots == Chosen(s, o)
           sels == SelectionsFor(s, o)
           name == [r \in Range(s.roots) |-> r.name]
<1>1. /\ s.roots \in Seq(Range(s.roots)) /\ \A i, j \in DOMAIN s.roots : s.roots[i].name = s.roots[j].name => i = j
  BY NamedIs DEF IsSchema
<1>2. KeyedOnce(name, s.roots)
  BY <1>1 DEF KeyedOnce, Range
<1>3. roots = Only(s.roots, S)
  BY DEF Chosen
<1> HIDE DEF roots, name, S
<1>4. roots \in Seq(Range(s.roots)) /\ KeyedOnce(name, roots)
  BY <1>1, <1>2, <1>3, OnlyAre, OnlyOnce
<1>5. \A i \in DOMAIN roots : roots[i] \in Range(s.roots)
  BY <1>4
<1>6. sels = [i \in DOMAIN roots |-> Selection(s, roots[i], o)]
  BY DEF SelectionsFor, roots
<1> HIDE DEF sels
<1>7. \A r : Selection(s, r, o).field = r.name /\ IsProposal(Selection(s, r, o))
  BY DEF Selection, IsProposal
<1>8. DOMAIN sels = DOMAIN roots /\ \A i \in DOMAIN sels : sels[i].field = name[roots[i]] /\ IsProposal(sels[i])
  BY <1>5, <1>6, <1>7 DEF name
<1> QED
  BY <1>4, <1>8 DEF Proposes, FieldsOnce, KeyedOnce, sels

(* A shape written into one of them leaves the rest. *)
LEMMA ProposalsEdited ==
    ASSUME NEW sels, Proposes(sels), NEW i, NEW shape
    PROVE  Proposes([sels EXCEPT ![i].shape = shape])
<1> DEFINE edited == [sels EXCEPT ![i].shape = shape]
           sel == [sels[i] EXCEPT !.shape = shape]
<1>1. DOMAIN edited = DOMAIN sels /\ \A k \in DOMAIN sels : edited[k] = IF k = i THEN sel ELSE sels[k]
  OBVIOUS
<1>2. i \in DOMAIN sels => DOMAIN sel = DOMAIN sels[i] /\ sel.field = sels[i].field /\ sel.told = sels[i].told
  BY DEF Proposes, IsProposal
<1> HIDE DEF edited, sel
<1>3. \A k \in DOMAIN edited : edited[k].field = sels[k].field /\ IsProposal(edited[k])
  BY <1>1, <1>2 DEF Proposes, IsProposal
<1> QED
  BY <1>1, <1>3 DEF Proposes, FieldsOnce, edited

(* Every command and every edit of a file keeps it. *)
LEMMA DiffNext == DiffInv /\ [CliNext]_cliVars => DiffInv'
<1> SUFFICES ASSUME DiffInv, [CliNext]_cliVars PROVE DiffInv'
  OBVIOUS
<1> DEFINE Whole(inv) == inv # None => Proposes(inv.selections)
           Filed(d) == d # None => IsDecisions(d)
<1>1. ReviewInv /\ Whole(inventory) /\ Filed(decisions) /\ IsSchema(schema)
  BY CatalogReviewAssumption DEF DiffInv, ReviewInv
<1>2. ReviewInv'
  BY <1>1, ReviewNext
<1>3. DiffInv' <=> ReviewInv' /\ Whole(inventory') /\ Filed(decisions')
  BY DEF DiffInv
<1>4. inventory # None => TakenOf(inventory, inventory.hash[1], inventory.hash[2], inventory.hash[3])
  BY <1>1 DEF ReviewInv
<1> HIDE DEF Whole, Filed
<1>5. inventory' = inventory /\ decisions' = decisions => DiffInv'
  BY <1>1, <1>2, <1>3
<1>6. ASSUME NEW s \in Schemas, Upstream(s) PROVE DiffInv'
  BY <1>5, <1>6 DEF Upstream
<1>7. ASSUME NEW o \in InventoryOptions, TakeInventory(o) PROVE DiffInv'
  <2>1. inventory'.selections = SelectionsFor(schema, o) /\ decisions' = decisions
    BY <1>7 DEF TakeInventory, InventoryOf
  <2>2. Proposes(SelectionsFor(schema, o))
    BY <1>1, ProposalsFor
  <2> QED
    BY <1>1, <1>2, <1>3, <2>1, <2>2 DEF Whole
<1>8. ASSUME NEW i, NEW shape, inventory # None, EditInventory(i, shape) PROVE DiffInv'
  <2>1. inventory' = [inventory EXCEPT !.selections[i].shape = shape] /\ decisions' = decisions
    BY <1>8 DEF EditInventory
  <2>2. IsInventory(inventory) /\ Proposes(inventory.selections)
    BY <1>1, <1>8 DEF ReviewInv, Whole
  <2> DEFINE edited == [inventory.selections EXCEPT ![i].shape = shape]
  <2>3. inventory' = [inventory EXCEPT !.selections = edited]
    BY <2>1
  <2>4. Proposes(edited)
    BY <2>2, ProposalsEdited
  <2> HIDE DEF edited
  <2>5. inventory'.selections = edited
    BY <2>2, <2>3 DEF IsInventory
  <2> QED
    BY <1>1, <1>2, <1>3, <2>1, <2>4, <2>5 DEF Whole
<1>9. ASSUME NEW check \in BOOLEAN, TakeCandidate(check) PROVE DiffInv'
  <2>1. IsDecisions(Candidate(inventory))
    BY <1>4, <1>9, CandidateIs DEF TakeCandidate
  <2>2. inventory' = inventory /\ decisions' = Candidate(inventory)
    BY <1>9 DEF TakeCandidate
  <2> QED
    BY <1>1, <1>2, <1>3, <2>1, <2>2 DEF Filed
<1>10. CASE EditDecisions
  <2>1. IsDecisions(decisions) /\ decisions' \in Edits(inventory, decisions) /\ inventory' = inventory
    BY <1>1, <1>10 DEF EditDecisions, Filed
  <2>2. IsDecisions(decisions')
    BY <2>1, FileEdited
  <2> QED
    BY <1>1, <1>2, <1>3, <2>1, <2>2 DEF Filed
<1>11. CASE Migrate
  <2>1. IsDecisions(decisions) /\ decisions' = Migrated(decisions) /\ inventory' = inventory
    BY <1>1, <1>11 DEF Migrate, Filed
  <2> QED
    BY <1>1, <1>2, <1>3, <2>1, FileMigrated DEF Filed
<1>12. CASE MigrateAndRebind
  <2>1. IsDecisions(decisions) /\ decisions' = Rebound(inventory, Migrated(decisions)) /\ inventory' = inventory
    BY <1>1, <1>12 DEF MigrateAndRebind, Filed
  <2>2. IsDecisions(Rebound(inventory, Migrated(decisions)))
    BY <2>1, FileMigrated, FileRebound
  <2> QED
    BY <1>1, <1>2, <1>3, <2>1, <2>2 DEF Filed
<1>13. CASE Compile
  BY <1>5, <1>13 DEF Compile
<1>14. ASSUME NEW o \in CuratedOptions, Curate(o) PROVE DiffInv'
  BY <1>5, <1>14 DEF Curate
<1>15. CASE UNCHANGED cliVars
  BY <1>5, <1>15 DEF cliVars
<1> QED
  BY <1>6, <1>7, <1>8, <1>9, <1>10, <1>11, <1>12, <1>13, <1>14, <1>15 DEF CliNext

(* Over an inventory of the schema in hand, diff foretells what compile does. *)
LEMMA DiffInvForetells == DiffInv => DiffForetells
<1> SUFFICES ASSUME DiffInv, InHand, Bound(inventory, decisions)
             PROVE  LET why == Refusal(schema, inventory, decisions) IN
                    IF MustDecide(inventory, decisions) THEN why # None
                    ELSE /\ why \notin {"another inventory", "unknown capability"}
                         /\ why = "no entry" => New(inventory, decisions) # {}
                         /\ why = "output field" => \E q \in Range(decisions.queries) : Repeats(q.fields)
                         /\ why = "meaning" => Unknown \in Range(decisions.meanings)
  BY DEF DiffForetells
<1>1. /\ inventory # None /\ IsDecisions(decisions)
      /\ FieldsOnce(inventory.selections) /\ NoneTold(inventory.selections)
  BY DEF DiffInv, InHand, Proposes, NoneTold, IsProposal
<1>2. TakenOf(inventory, inventory.hash[1], inventory.hash[2], inventory.hash[3])
  BY <1>1 DEF DiffInv, ReviewInv
<1>3. inventory.hash[1] = schema /\ inventory.hash[2] = inventory.selections /\ inventory.hash[3] = inventory.depth
  BY DEF InHand, ReviewHash
<1>4. TakenOf(inventory, schema, inventory.selections, inventory.depth)
  BY <1>2, <1>3
<1>5. MustDecide(inventory, decisions) => Refusal(schema, inventory, decisions) # None
  BY <1>1, <1>4, UndecidedIsRefused
<1>6. ~MustDecide(inventory, decisions) =>
         LET why == Refusal(schema, inventory, decisions) IN
         /\ why \notin {"another inventory", "unknown capability"}
         /\ why = "no entry" => New(inventory, decisions) # {}
         /\ why = "output field" => \E q \in Range(decisions.queries) : Repeats(q.fields)
         /\ why = "meaning" => Unknown \in Range(decisions.meanings)
  BY <1>1, <1>4, DecidedIsTaken
<1> QED
  BY <1>5, <1>6

(* What diff says, compile does, whatever was edited, migrated or re-bound before. *)
THEOREM DiffAlwaysForetells == CliSpec => []DiffForetells
<1>1. CliInit => DiffInv
  BY CatalogReviewAssumption DEF CliInit, DiffInv, ReviewInv, CompiledStands
<1> QED
  BY <1>1, DiffInvForetells, DiffNext, PTL DEF CliSpec

-----------------------------------------------------------------------------
(* The candidate: what the command writes for a host to cut down. *)

(* The longest of some paths, or one level if there is none. *)
LEMMA LongestIs ==
    ASSUME NEW X, NEW paths \in Seq(Seq(X))
    PROVE  /\ Longest(paths) \in {1} \cup {Len(p) : p \in Range(paths)} /\ Longest(paths) \in Nat
           /\ 1 <= Longest(paths) /\ \A p \in Range(paths) : Len(p) <= Longest(paths)
<1> DEFINE n == Len(paths)
           upto(k) == {1} \cup {Len(paths[i]) : i \in 1 .. k}
           lengths == {1} \cup {Len(p) : p \in Range(paths)}
           HasMost(S) == \E most \in S : \A m \in S : m <= most
           D == {k \in Nat : k <= n => HasMost(upto(k))}
<1>1. n \in Nat /\ DOMAIN paths = 1 .. n /\ \A i \in 1 .. n : Len(paths[i]) \in Nat
  <2>1. \A p \in Seq(X) : Len(p) \in Nat
    OBVIOUS
  <2> QED
    BY <2>1
<1>2. upto(n) = lengths /\ \A k \in 0 .. n : upto(k) \in SUBSET Nat
  <2>1. Range(paths) = {paths[i] : i \in 1 .. n}
    BY <1>1 DEF Range
  <2>2. \A k \in 0 .. n : \A i \in 1 .. k : i \in 1 .. n
    BY <1>1
  <2> HIDE DEF n
  <2>3. upto(n) = lengths
    BY <2>1
  <2>4. \A k \in 0 .. n : upto(k) \in SUBSET Nat
    BY <1>1, <2>2
  <2> QED
    BY <2>3, <2>4
<1> HIDE DEF n, lengths
<1>3. 0 \in D
  <2>1. upto(0) = {1}
    OBVIOUS
  <2> HIDE DEF upto
  <2> QED
    BY <2>1
<1>4. ASSUME NEW k \in Nat, k \in D PROVE k + 1 \in D
  <2> SUFFICES ASSUME k + 1 <= n PROVE HasMost(upto(k + 1))
    OBVIOUS
  <2>1. k \in 0 .. n /\ k + 1 \in 1 .. n /\ \A i : i \in 1 .. k + 1 <=> i \in 1 .. k \/ i = k + 1
    BY <1>1
  <2>2. upto(k + 1) = upto(k) \cup {Len(paths[k + 1])}
    BY <2>1
  <2>3. upto(k) \in SUBSET Nat /\ Len(paths[k + 1]) \in Nat
    BY <1>1, <1>2, <2>1
  <2>4. HasMost(upto(k))
    BY <1>4, <1>1, <2>1
  <2> HIDE DEF upto
  <2>5. PICK most \in upto(k) : \A m \in upto(k) : m <= most
    BY <2>4
  <2>6. CASE Len(paths[k + 1]) <= most
    BY <2>2, <2>3, <2>5, <2>6
  <2>7. CASE ~(Len(paths[k + 1]) <= most)
    BY <2>2, <2>3, <2>5, <2>7
  <2> QED
    BY <2>6, <2>7
<1>5. HasMost(lengths)
  <2>1. n \in D
    <3> HIDE DEF D
    <3> QED
      BY <1>1, <1>3, <1>4, SetInduction
  <2> HIDE DEF upto
  <2> QED
    BY <1>1, <1>2, <2>1
<1>6. Longest(paths) = CHOOSE most \in lengths : \A m \in lengths : m <= most
  BY DEF Longest, lengths
<1>7. Longest(paths) \in lengths /\ \A m \in lengths : m <= Longest(paths)
  BY <1>5, <1>6
<1>8. lengths \in SUBSET Nat /\ 1 \in lengths
  <2>1. n \in 0 .. n
    BY <1>1
  <2>2. 1 \in upto(n) /\ upto(n) \in SUBSET Nat
    BY <1>2, <2>1
  <2> HIDE DEF upto
  <2> QED
    BY <1>2, <2>2
<1> QED
  BY <1>7, <1>8 DEF lengths

(* A list in which nothing comes twice is as long as it has members. *)
LEMMA LengthOnce ==
    ASSUME NEW T, NEW list \in Seq(T), \A i, j \in DOMAIN list : list[i] = list[j] => i = j
    PROVE  Len(list) = Cardinality(Range(list)) /\ IsFiniteSet(Range(list))
<1> DEFINE n == Len(list)
           S == Range(list)
           f == [i \in 1 .. n |-> list[i]]
<1>1. n \in Nat /\ DOMAIN list = 1 .. n
  OBVIOUS
<1>2. f \in Bijection(1 .. n, S)
  BY <1>1 DEF Bijection, Injection, Surjection, IsInjective, Range
<1>3. IsFiniteSet(1 .. n) /\ Cardinality(1 .. n) = n
  BY <1>1, FS_Interval
<1> HIDE DEF n, S, f
<1>4. ExistsBijection(1 .. n, S)
  BY <1>2 DEF ExistsBijection
<1>5. IsFiniteSet(S) /\ Cardinality(S) = Cardinality(1 .. n)
  BY <1>3, <1>4, FS_Bijection
<1> QED
  BY <1>3, <1>5 DEF n, S

(* What is filtered keeps its order. *)
LEMMA OnlyOrdered ==
    ASSUME NEW T, NEW list \in Seq(T), NEW S
    PROVE  \A i, j \in DOMAIN Only(list, S) : i < j =>
              \E k, m \in DOMAIN list : k < m /\ Only(list, S)[i] = list[k] /\ Only(list, S)[j] = list[m]
<1> DEFINE n == Len(list)
           Q == Seq(T)
<1>1. n \in Nat /\ DOMAIN list = 1 .. n /\ \A k \in 1 .. n : list[k] \in T
  OBVIOUS
<1>2. PICK only : /\ only[0] = <<>> /\ Only(list, S) = only[n]
                  /\ \A k \in 1 .. n : only[k] = IF list[k] \in S THEN Append(only[k - 1], list[k]) ELSE only[k - 1]
  <2>1. \E only : Filters(only, list, S)
    BY OnlySteps, Zenon
  <2> QED
    BY <2>1 DEF Filters
<1> HIDE DEF n
<1> DEFINE Good(k, s) == /\ s \in Q /\ \A i \in 1 .. Len(s) : \E a \in 1 .. k : s[i] = list[a]
                         /\ \A i, j \in 1 .. Len(s) : i < j => \E a, b \in 1 .. k : a < b /\ s[i] = list[a] /\ s[j] = list[b]
           D == {k \in Nat : k <= n => Good(k, only[k])}
<1>3. 0 \in D
  <2>1. Good(0, <<>>)
    OBVIOUS
  <2> HIDE DEF Good
  <2> QED
    BY <1>2, <2>1
<1>4. ASSUME NEW k \in Nat, k \in D PROVE k + 1 \in D
  <2> SUFFICES ASSUME k + 1 <= n PROVE Good(k + 1, only[k + 1])
    OBVIOUS
  <2> DEFINE s == only[k]
             t == only[k + 1]
             x == list[k + 1]
  <2> SUFFICES Good(k + 1, t)
    OBVIOUS
  <2>1. Good(k, s)
    <3> HIDE DEF Good
    <3> QED
      BY <1>4, <1>1
  <2>2. t = IF x \in S THEN Append(s, x) ELSE s
    <3>1. k + 1 \in 1 .. n /\ (k + 1) - 1 = k
      BY <1>1
    <3> QED
      BY <1>2, <3>1
  <2>3. x \in T /\ s \in Seq(T)
    BY <1>1, <2>1
  <2>4. k + 1 \in 1 .. k + 1 /\ \A a \in 1 .. k : a \in 1 .. k + 1 /\ a < k + 1
    BY <1>1
  <2>5. CASE x \notin S
    <3>1. t = s
      BY <2>2, <2>5
    <3> HIDE DEF s, t
    <3> QED
      BY <2>1, <2>4, <3>1
  <2>6. CASE x \in S
    <3>1. t = Append(s, x)
      BY <2>2, <2>6
    <3> HIDE DEF t
    <3>2. /\ t \in Q /\ Len(t) = Len(s) + 1 /\ t[Len(s) + 1] = x /\ Len(s) \in Nat
          /\ \A i \in 1 .. Len(s) : t[i] = s[i]
      BY <2>3, <3>1
    <3> HIDE DEF s
    <3>3. \A i \in 1 .. Len(t) : i \in 1 .. Len(s) \/ i = Len(s) + 1
      BY <3>2
    <3>4. ASSUME NEW i \in 1 .. Len(t) PROVE \E a \in 1 .. k + 1 : t[i] = list[a]
      <4>1. CASE i \in 1 .. Len(s)
        <5>1. PICK a \in 1 .. k : s[i] = list[a]
          BY <2>1, <4>1
        <5> QED
          BY <2>4, <3>2, <4>1, <5>1
      <4> QED
        BY <2>4, <3>2, <3>3, <4>1
    <3>5. ASSUME NEW i \in 1 .. Len(t), NEW j \in 1 .. Len(t), i < j
          PROVE  \E a, b \in 1 .. k + 1 : a < b /\ t[i] = list[a] /\ t[j] = list[b]
      <4>1. i \in 1 .. Len(s)
        BY <3>2, <3>3, <3>5
      <4>2. CASE j \in 1 .. Len(s)
        <5>1. PICK a \in 1 .. k, b \in 1 .. k : a < b /\ s[i] = list[a] /\ s[j] = list[b]
          BY <2>1, <3>5, <4>1, <4>2
        <5> QED
          BY <2>4, <3>2, <4>1, <4>2, <5>1
      <4>3. CASE j = Len(s) + 1
        <5>1. PICK a \in 1 .. k : s[i] = list[a]
          BY <2>1, <4>1
        <5> QED
          BY <2>4, <3>2, <4>1, <4>3, <5>1
      <4> QED
        BY <3>3, <4>2, <4>3
    <3> QED
      BY <3>2, <3>4, <3>5
  <2> HIDE DEF Good, t, x
  <2> QED
    BY <2>5, <2>6
<1>5. Good(n, only[n])
  <2>1. n \in D
    <3> HIDE DEF D
    <3> QED
      BY <1>1, <1>3, <1>4, SetInduction
  <2> QED
    BY <1>1, <2>1
<1> DEFINE s == only[n]
<1>6. \A i, j \in DOMAIN s : i < j => \E a, b \in DOMAIN list : a < b /\ s[i] = list[a] /\ s[j] = list[b]
  <2>1. Good(n, s)
    BY <1>5
  <2>2. DOMAIN s = 1 .. Len(s)
    BY <1>5
  <2> HIDE DEF s
  <2> QED
    BY <1>1, <2>1, <2>2
<1> QED
  BY <1>2, <1>6

(* Leaves that stand together: each with itself, and like the other. *)
LEMMA TogetherIs ==
    /\ \A p : Together(p, p)
    /\ \A p, q : Together(p, q) => Together(q, p)
    /\ \A p, q, r : Together(p, q) /\ Together(q, r) => Together(p, r)
  BY DEF Together

(* What is offered, and how it is grouped: a group for each first, and a first for each. *)
IsOffer(s, offered) ==
    /\ offered \in Seq(LeavesIn(s)) /\ KeyedOnce(PathOf(s), offered)
    /\ \A f \in Range(offered) : Len(f.path) \in 1 .. MaxLevels
LEMMA FirstsAre ==
    ASSUME NEW s, NEW offered, IsOffer(s, offered)
    PROVE  /\ Firsts(offered) \subseteq Range(offered)
           /\ \A f \in Range(offered) : \E g \in Firsts(offered) : Together(f.path, g.path)
           /\ \A f, g \in Firsts(offered) : Together(f.path, g.path) => f = g
<1> DEFINE n == Len(offered)
           IsFirst(i) == \A j \in 1 .. i - 1 : ~Together(offered[j].path, offered[i].path)
<1>1. n \in Nat /\ DOMAIN offered = 1 .. n /\ Range(offered) = {offered[i] : i \in 1 .. n}
  BY DEF IsOffer, Range
<1>2. Firsts(offered) = {offered[i] : i \in {k \in 1 .. n : IsFirst(k)}}
  BY <1>1 DEF Firsts
<1> HIDE DEF n
<1>3. ASSUME NEW i \in 1 .. n PROVE \E g \in Firsts(offered) : Together(offered[i].path, g.path)
  <2> DEFINE Like == {k \in 1 .. n : Together(offered[k].path, offered[i].path)}
  <2>1. i \in Like /\ Like \in SUBSET Nat
    BY <1>1, TogetherIs
  <2>2. \E k \in Like : \A m \in Like : k <= m
    <3> HIDE DEF Like
    <3> QED
      BY <2>1, LeastOf
  <2>3. PICK k \in Like : \A m \in Like : k <= m
    BY <2>2
  <2>4. IsFirst(k)
    <3> SUFFICES ASSUME NEW j \in 1 .. k - 1, Together(offered[j].path, offered[k].path) PROVE FALSE
      OBVIOUS
    <3>1. j \in 1 .. n /\ ~(k <= j)
      BY <1>1
    <3>2. Together(offered[j].path, offered[i].path)
      BY TogetherIs
    <3> QED
      BY <2>3, <3>1, <3>2
  <2>5. offered[k] \in Firsts(offered)
    BY <1>2, <2>4
  <2> QED
    BY <2>5, TogetherIs
<1>4. ASSUME NEW i \in 1 .. n, NEW k \in 1 .. n, IsFirst(i), IsFirst(k), Together(offered[i].path, offered[k].path) PROVE i = k
  <2>1. CASE i < k
    <3>1. i \in 1 .. k - 1
      BY <1>1, <2>1
    <3> QED
      BY <1>4, <3>1
  <2>2. CASE k < i
    <3>1. k \in 1 .. i - 1
      BY <1>1, <2>2
    <3> QED
      BY <1>4, <3>1, TogetherIs
  <2> QED
    BY <1>1, <2>1, <2>2
<1> HIDE DEF IsFirst
<1>5. \A f, g \in Firsts(offered) : Together(f.path, g.path) => f = g
  BY <1>2, <1>4
<1> QED
  BY <1>1, <1>2, <1>3, <1>5

(* The firsts, listed level by level. *)
LEMMA ByLevelAre ==
    ASSUME NEW s, NEW offered, IsOffer(s, offered)
    PROVE  /\ ByLevel(offered) \in Seq(LeavesIn(s)) /\ Range(ByLevel(offered)) = Firsts(offered)
           /\ KeyedOnce(PathOf(s), ByLevel(offered))
<1> DEFINE At(level) == {f \in Firsts(offered) : Len(f.path) = level}
           lists == [level \in 1 .. MaxLevels |-> Only(offered, At(level))]
<1>1. offered \in Seq(LeavesIn(s)) /\ KeyedOnce(PathOf(s), offered) /\ MaxLevels \in Nat
  BY GraphQlCatalogAssumption DEF IsOffer
<1>2. Firsts(offered) \subseteq Range(offered) /\ Range(offered) \subseteq LeavesIn(s)
  BY <1>1, FirstsAre, RangeIs
<1>3. ASSUME NEW S
      PROVE  /\ Only(offered, S) \in Seq(LeavesIn(s)) /\ Range(Only(offered, S)) = {f \in Range(offered) : f \in S}
             /\ KeyedOnce(PathOf(s), Only(offered, S))
  BY <1>1, OnlyAre, OnlyOnce
<1>4. ByLevel(offered) = FlattenSeq(lists)
  BY DEF ByLevel
<1>5. DOMAIN lists = 1 .. MaxLevels /\ \A level \in 1 .. MaxLevels : lists[level] = Only(offered, At(level))
  OBVIOUS
<1>6. lists \in Seq(Seq(LeavesIn(s)))
  <2>1. \A level \in 1 .. MaxLevels : Only(offered, At(level)) \in Seq(LeavesIn(s))
    BY <1>3
  <2> HIDE DEF At
  <2> QED
    BY <1>1, <2>1
<1> HIDE DEF lists
<1>7. \A level \in 1 .. MaxLevels : Range(lists[level]) = At(level) /\ KeyedOnce(PathOf(s), lists[level])
  <2> SUFFICES ASSUME NEW level \in 1 .. MaxLevels PROVE Range(lists[level]) = At(level) /\ KeyedOnce(PathOf(s), lists[level])
    OBVIOUS
  <2>1. At(level) \subseteq Range(offered)
    BY <1>2
  <2> HIDE DEF At
  <2> QED
    BY <1>3, <1>5, <2>1
<1>8. ASSUME NEW i \in DOMAIN lists, NEW j \in DOMAIN lists, i # j, NEW x \in Range(lists[i]), NEW y \in Range(lists[j])
      PROVE  PathOf(s)[x] # PathOf(s)[y]
  <2>1. x \in Firsts(offered) /\ y \in Firsts(offered) /\ Len(x.path) = i /\ Len(y.path) = j
    BY <1>5, <1>7
  <2>2. PathOf(s)[x] = x.path /\ PathOf(s)[y] = y.path
    BY <1>2, <2>1, LeafIs
  <2> QED
    BY <1>8, <2>1, <2>2
<1>9. UNION {Range(lists[i]) : i \in DOMAIN lists} = Firsts(offered)
  <2>1. \A f \in Firsts(offered) : Len(f.path) \in 1 .. MaxLevels /\ f \in At(Len(f.path))
    BY <1>2 DEF IsOffer
  <2>2. \A level : At(level) \subseteq Firsts(offered)
    OBVIOUS
  <2> HIDE DEF At
  <2> QED
    BY <1>5, <1>7, <2>1, <2>2
<1>10. FlattenSeq(lists) \in Seq(LeavesIn(s)) /\ Range(FlattenSeq(lists)) = UNION {Range(lists[i]) : i \in DOMAIN lists}
  BY <1>6, FlattenAre
<1>11. KeyedOnce(PathOf(s), FlattenSeq(lists))
  <2>1. \A i \in DOMAIN lists : KeyedOnce(PathOf(s), lists[i])
    BY <1>5, <1>7
  <2> QED
    BY <1>6, <1>8, <2>1, FlattenAre
<1> QED
  BY <1>4, <1>9, <1>10, <1>11

(* A group, and when two of them have something in common. *)
LEMMA GroupIs ==
    ASSUME NEW s, NEW offered, IsOffer(s, offered), NEW f
    PROVE  /\ GroupOf(offered, f) \in Seq(LeavesIn(s)) /\ KeyedOnce(PathOf(s), GroupOf(offered, f))
           /\ Range(GroupOf(offered, f)) = {g \in Range(offered) : Together(g.path, f.path)}
<1> DEFINE S == {g \in Range(offered) : Together(g.path, f.path)}
<1>1. GroupOf(offered, f) = Only(offered, S) /\ S \subseteq Range(offered)
  BY DEF GroupOf
<1>2. offered \in Seq(LeavesIn(s)) /\ KeyedOnce(PathOf(s), offered)
  BY DEF IsOffer
<1> HIDE DEF S
<1>3. Only(offered, S) \in Seq(LeavesIn(s)) /\ Range(Only(offered, S)) = {x \in Range(offered) : x \in S}
  BY <1>2, OnlyAre
<1>4. KeyedOnce(PathOf(s), Only(offered, S))
  BY <1>2, OnlyOnce
<1> QED
  BY <1>1, <1>3, <1>4 DEF S

(* How groups are taken, one after the other. *)
Fills(kept, offered, budget) ==
    LET firsts == ByLevel(offered) IN
    /\ kept[0] = <<>> /\ SelectWithinBudget(offered, budget) = kept[Len(firsts)]
    /\ \A k \in 1 .. Len(firsts) :
          kept[k] = IF Len(kept[k - 1]) + Len(GroupOf(offered, firsts[k])) > budget THEN kept[k - 1]
                    ELSE kept[k - 1] \o GroupOf(offered, firsts[k])
LEMMA SelectSteps ==
    ASSUME NEW s, NEW offered, IsOffer(s, offered), NEW budget
    PROVE  \E kept : Fills(kept, offered, budget)
<1> DEFINE firsts == ByLevel(offered)
           n == Len(firsts)
           Q == Seq(LeavesIn(s))
           group(k) == GroupOf(offered, firsts[k])
           Then(k, c) == IF Len(c) + Len(group(k)) > budget THEN c ELSE c \o group(k)
           E(f) == [k \in 0 .. n |-> IF k = 0 THEN <<>> ELSE Then(k, f[k - 1])]
           kept == CHOOSE f : f = E(f)
<1>1. n \in Nat /\ \A k : group(k) \in Q
  <2>1. firsts \in Q
    BY ByLevelAre
  <2> QED
    BY <2>1, GroupIs
<1>2. SelectWithinBudget(offered, budget) = kept[n]
  BY DEF SelectWithinBudget
<1> HIDE DEF n, group
<1>3. \A k \in 1 .. n, c \in Q : Then(k, c) \in Q
  BY <1>1
<1>4. \E f : f = E(f)
  <2> DEFINE step == [x \in (1 .. n) \X Q |-> Then(x[1], x[2])]
  <2>1. Steps(n, Q, step)
    <3> HIDE DEF Then, Q
    <3> QED
      BY <1>3 DEF Steps
  <2>2. <<>> \in Q
    OBVIOUS
  <2>3. PICK f : Follows(f, n, Q, <<>>, step)
    <3> HIDE DEF Q, step
    <3> QED
      BY <1>1, <2>1, <2>2, Recursion
  <2>4. ASSUME NEW k \in 1 .. n PROVE f[k] = Then(k, f[k - 1])
    <3>1. k - 1 \in 0 .. n
      BY <1>1
    <3>2. f[k - 1] \in Q /\ <<k, f[k - 1]>> \in (1 .. n) \X Q
      BY <2>3, <3>1 DEF Follows
    <3> HIDE DEF Q, Then
    <3> QED
      BY <2>3, <3>2 DEF Follows
  <2>5. f = [k \in 0 .. n |-> f[k]] /\ f[0] = <<>>
    <3> HIDE DEF Q, step
    <3> QED
      BY <2>3 DEF Follows
  <2>6. \A k \in 0 .. n : k # 0 => k \in 1 .. n
    BY <1>1
  <2> HIDE DEF Then
  <2>7. f = E(f)
    BY <2>4, <2>5, <2>6
  <2> QED
    BY <2>7
<1>5. kept = E(kept)
  <2> HIDE DEF E
  <2> QED
    BY <1>4
<1> HIDE DEF kept, Then
<1>6. kept[0] = <<>> /\ \A k \in 1 .. n : kept[k] = Then(k, kept[k - 1])
  <2>1. \A k \in 0 .. n : kept[k] = IF k = 0 THEN <<>> ELSE Then(k, kept[k - 1])
    BY <1>5
  <2>2. 0 \in 0 .. n /\ \A k \in 1 .. n : k \in 0 .. n /\ k # 0
    BY <1>1
  <2> HIDE DEF E
  <2> QED
    BY <2>1, <2>2
<1> QED
  BY <1>2, <1>6 DEF Fills, Then, n, group

(* Within a budget: groups whole or not at all, and none left out that still fits. *)
LEMMA SelectIs ==
    ASSUME NEW s, NEW offered, IsOffer(s, offered), NEW budget \in Nat
    PROVE  LET kept == SelectWithinBudget(offered, budget) IN
           /\ kept \in Seq(LeavesIn(s)) /\ KeyedOnce(PathOf(s), kept) /\ Len(kept) <= budget
           /\ Range(kept) \subseteq Range(offered)
           /\ \A f, g \in Range(offered) : Together(f.path, g.path) => (f \in Range(kept) <=> g \in Range(kept))
           /\ \A f \in Range(offered) \ Range(kept) :
                 Len(kept) + Cardinality({g \in Range(offered) : Together(g.path, f.path)}) > budget
<1> DEFINE firsts == ByLevel(offered)
           n == Len(firsts)
           Q == Seq(LeavesIn(s))
           group(k) == GroupOf(offered, firsts[k])
           Like(f) == {g \in Range(offered) : Together(g.path, f.path)}
<1>1. PICK kept : /\ kept[0] = <<>> /\ SelectWithinBudget(offered, budget) = kept[n]
                  /\ \A k \in 1 .. n : kept[k] = IF Len(kept[k - 1]) + Len(group(k)) > budget THEN kept[k - 1]
                                                 ELSE kept[k - 1] \o group(k)
  <2>1. \E kept : Fills(kept, offered, budget)
    BY SelectSteps, Zenon
  <2> QED
    BY <2>1 DEF Fills
<1>2. /\ n \in Nat /\ DOMAIN firsts = 1 .. n /\ \A k \in 1 .. n : firsts[k] \in Firsts(offered)
      /\ \A f \in Firsts(offered) : \E k \in 1 .. n : f = firsts[k]
      /\ \A i, j \in 1 .. n : firsts[i] = firsts[j] => i = j
  <2>1. firsts \in Q /\ Range(firsts) = Firsts(offered) /\ KeyedOnce(PathOf(s), firsts)
    BY ByLevelAre
  <2> HIDE DEF firsts
  <2>2. n \in Nat /\ DOMAIN firsts = 1 .. n
    BY <2>1
  <2> QED
    BY <2>1, <2>2 DEF Range, KeyedOnce
<1>3. ASSUME NEW k \in 1 .. n
      PROVE  /\ group(k) \in Q /\ KeyedOnce(PathOf(s), group(k)) /\ Range(group(k)) = Like(firsts[k])
             /\ Len(group(k)) = Cardinality(Like(firsts[k])) /\ Len(group(k)) \in Nat
  <2>1. group(k) \in Q /\ KeyedOnce(PathOf(s), group(k)) /\ Range(group(k)) = Like(firsts[k])
    BY GroupIs
  <2> HIDE DEF group
  <2>2. Len(group(k)) = Cardinality(Range(group(k)))
    BY <2>1, LengthOnce DEF KeyedOnce
  <2>3. Len(group(k)) \in Nat
    BY <2>1
  <2> HIDE DEF Like
  <2> QED
    BY <2>1, <2>2, <2>3
<1>4. ASSUME NEW f \in Range(offered) PROVE \E k \in 1 .. n : Like(f) = Like(firsts[k]) /\ f \in Like(firsts[k])
  <2>1. PICK g \in Firsts(offered) : Together(f.path, g.path)
    BY FirstsAre
  <2>2. PICK k \in 1 .. n : g = firsts[k]
    BY <1>2, <2>1
  <2>3. Like(f) = Like(g) /\ f \in Like(g)
    BY <2>1, TogetherIs
  <2> HIDE DEF Like, firsts, n
  <2> QED
    BY <2>2, <2>3
<1>5. ASSUME NEW i \in 1 .. n, NEW k \in 1 .. n, i # k PROVE Like(firsts[i]) \cap Like(firsts[k]) = {}
  <2> SUFFICES ASSUME NEW f, Together(f.path, firsts[i].path), Together(f.path, firsts[k].path) PROVE FALSE
    OBVIOUS
  <2>1. Together(firsts[i].path, firsts[k].path)
    BY TogetherIs
  <2>2. firsts[i] = firsts[k]
    BY <1>2, <2>1, FirstsAre
  <2> QED
    BY <1>2, <1>5, <2>2
<1>6. \A k \in 1 .. n : Like(firsts[k]) \subseteq Range(offered)
  OBVIOUS
<1> HIDE DEF n, firsts, group, Like
<1> DEFINE Taken(k, c) == {i \in 1 .. k : Like(firsts[i]) \subseteq Range(c)}
           Good(k, c) == /\ c \in Q /\ KeyedOnce(PathOf(s), c) /\ Len(c) <= budget
                         /\ \A f \in Range(c) : \E i \in 1 .. k : f \in Like(firsts[i])
                         /\ \A i \in 1 .. k : \/ Like(firsts[i]) \subseteq Range(c)
                                              \/ Like(firsts[i]) \cap Range(c) = {} /\ Len(c) + Len(group(i)) > budget
           D == {k \in Nat : k <= n => Good(k, kept[k])}
<1>7. 0 \in D
  <2>1. <<>> \in Q /\ KeyedOnce(PathOf(s), <<>>) /\ Len(<<>>) <= budget /\ Range(<<>>) = {} /\ 1 .. 0 = {}
    BY DEF KeyedOnce, Range
  <2>2. Good(0, <<>>)
    BY <2>1
  <2> HIDE DEF Good
  <2> QED
    BY <1>1, <2>2
<1>8. ASSUME NEW k \in Nat, k \in D PROVE k + 1 \in D
  <2> SUFFICES ASSUME k + 1 <= n PROVE Good(k + 1, kept[k + 1])
    OBVIOUS
  <2> DEFINE c == kept[k]
             g == group(k + 1)
             L == Like(firsts[k + 1])
  <2>1. Good(k, c)
    <3> HIDE DEF Good
    <3> QED
      BY <1>2, <1>8
  <2>2. k + 1 \in 1 .. n /\ (k + 1) - 1 = k /\ \A i : i \in 1 .. k + 1 <=> i \in 1 .. k \/ i = k + 1
    BY <1>2
  <2>3. \A i \in 1 .. k : i \in 1 .. n /\ i # k + 1
    BY <1>2
  <2>4. kept[k + 1] = IF Len(c) + Len(g) > budget THEN c ELSE c \o g
    BY <1>1, <2>2
  <2>5. g \in Q /\ KeyedOnce(PathOf(s), g) /\ Range(g) = L /\ Len(g) \in Nat
    BY <1>3, <2>2
  <2>6. \A i \in 1 .. k : Like(firsts[i]) \cap L = {}
    BY <1>5, <2>2, <2>3
  <2>7. c \in Q /\ Len(c) \in Nat /\ Range(c) \cap L = {}
    BY <2>1, <2>6
  <2>8. CASE Len(c) + Len(g) > budget
    <3>1. kept[k + 1] = c
      BY <2>4, <2>8
    <3> HIDE DEF c
    <3>2. L \cap Range(c) = {} /\ Len(c) + Len(group(k + 1)) > budget
      BY <2>7, <2>8
    <3> QED
      BY <2>1, <2>2, <3>1, <3>2
  <2>9. CASE ~(Len(c) + Len(g) > budget)
    <3> DEFINE d == c \o g
    <3>1. kept[k + 1] = d
      BY <2>4, <2>9
    <3> HIDE DEF c, g
    <3>2. d \in Q /\ Len(d) = Len(c) + Len(g) /\ Len(d) <= budget
      BY <2>5, <2>7, <2>9
    <3>3. c \in Seq(Range(c)) /\ g \in Seq(Range(g)) /\ Range(c) \subseteq LeavesIn(s) /\ Range(g) \subseteq LeavesIn(s)
      BY <2>5, <2>7, RangeIs
    <3>4. Range(d) = Range(c) \cup L
      BY <2>5, <3>3, JoinedRange
    <3>5. KeyedOnce(PathOf(s), d)
      <4>1. \A f \in Range(offered), h \in Range(offered) : PathOf(s)[f] = PathOf(s)[h] => f = h
        <5>1. KeyedOnce(PathOf(s), offered)
          BY DEF IsOffer
        <5> QED
          BY <5>1 DEF KeyedOnce, Range
      <4>2. Range(c) \subseteq Range(offered) /\ Range(g) \subseteq Range(offered)
        BY <1>6, <2>1, <2>2, <2>3, <2>5
      <4>3. \A x \in Range(c), y \in Range(g) : PathOf(s)[x] # PathOf(s)[y]
        BY <2>5, <2>7, <4>1, <4>2
      <4>4. KeyedOnce(PathOf(s), c)
        BY <2>1
      <4> QED
        BY <2>5, <2>7, <4>3, <4>4, JoinedOnce
    <3> HIDE DEF d
    <3>6. \A f \in Range(d) : \E i \in 1 .. k + 1 : f \in Like(firsts[i])
      BY <2>1, <2>2, <3>4
    <3>7. ASSUME NEW i \in 1 .. k
          PROVE  \/ Like(firsts[i]) \subseteq Range(d)
                 \/ Like(firsts[i]) \cap Range(d) = {} /\ Len(d) + Len(group(i)) > budget
      <4>1. CASE Like(firsts[i]) \subseteq Range(c)
        BY <3>4, <4>1
      <4>2. CASE Like(firsts[i]) \cap Range(c) = {} /\ Len(c) + Len(group(i)) > budget
        <5>1. Like(firsts[i]) \cap Range(d) = {}
          BY <2>6, <3>4, <4>2
        <5>2. Len(group(i)) \in Nat
          BY <1>3, <2>3
        <5>3. Len(d) + Len(group(i)) > budget
          BY <2>5, <2>7, <3>2, <4>2, <5>2
        <5> QED
          BY <5>1, <5>3
      <4> QED
        BY <2>1, <4>1, <4>2
    <3>8. Like(firsts[k + 1]) \subseteq Range(d)
      BY <3>4
    <3> HIDE DEF L
    <3>9. \A i \in 1 .. k + 1 : \/ Like(firsts[i]) \subseteq Range(d)
                                \/ Like(firsts[i]) \cap Range(d) = {} /\ Len(d) + Len(group(i)) > budget
      BY <2>2, <3>7, <3>8
    <3>10. Good(k + 1, d)
      BY <3>2, <3>5, <3>6, <3>9
    <3> HIDE DEF Good
    <3> QED
      BY <3>1, <3>10
  <2> QED
    BY <2>8, <2>9
<1>9. Good(n, kept[n])
  <2> HIDE DEF Good
  <2>1. n \in D
    <3> HIDE DEF D
    <3> QED
      BY <1>2, <1>7, <1>8, SetInduction
  <2> QED
    BY <1>2, <2>1
<1> DEFINE c == kept[n]
<1>10. Good(n, c)
  BY <1>9
<1> HIDE DEF c
<1>11. Range(c) \subseteq Range(offered)
  BY <1>6, <1>10
<1>12. ASSUME NEW f \in Range(offered), NEW g \in Range(offered), Together(f.path, g.path), f \in Range(c) PROVE g \in Range(c)
  <2>1. PICK k \in 1 .. n : Like(f) = Like(firsts[k]) /\ f \in Like(firsts[k])
    BY <1>4
  <2>2. Like(firsts[k]) \subseteq Range(c)
    BY <1>10, <1>12, <2>1
  <2>3. g \in Like(f)
    BY <1>12, TogetherIs DEF Like
  <2> QED
    BY <2>1, <2>2, <2>3
<1>13. ASSUME NEW f \in Range(offered), f \notin Range(c) PROVE Len(c) + Cardinality(Like(f)) > budget
  <2>1. PICK k \in 1 .. n : Like(f) = Like(firsts[k]) /\ f \in Like(firsts[k])
    BY <1>4
  <2>2. Len(c) + Len(group(k)) > budget
    BY <1>10, <1>13, <2>1
  <2> QED
    BY <1>3, <2>1, <2>2
<1>14. \A f, g \in Range(offered) : Together(f.path, g.path) => (f \in Range(c) <=> g \in Range(c))
  BY <1>12, TogetherIs
<1> QED
  BY <1>1, <1>10, <1>11, <1>13, <1>14 DEF c, Like

(* A list of leaves, by their paths. *)
LEMMA PathsAre ==
    ASSUME NEW s, NEW list \in Seq(LeavesIn(s)), KeyedOnce(PathOf(s), list)
    PROVE  /\ Paths(list) \in Seq(Seq(NamesIn(s))) /\ DOMAIN Paths(list) = DOMAIN list /\ Len(Paths(list)) = Len(list)
           /\ \A i \in DOMAIN list : Paths(list)[i] = list[i].path
           /\ Range(Paths(list)) = {f.path : f \in Range(list)} /\ ~Repeats(Paths(list))
           /\ \A p : Contains(Paths(list), p) <=> p \in Range(Paths(list))
           /\ \A f, g \in Range(list) : f.path = g.path => f = g
           /\ \A i, j \in DOMAIN list : list[i].path = list[j].path => i = j
           /\ Len(list) = Cardinality(Range(list)) /\ IsFiniteSet(Range(list))
<1>1. /\ DOMAIN list = 1 .. Len(list) /\ Len(list) \in Nat
      /\ \A i \in DOMAIN list : list[i] \in LeavesIn(s) /\ list[i] \in Range(list)
      /\ \A f \in Range(list) : \E i \in DOMAIN list : f = list[i]
  BY DEF Range
<1>2. \A i \in DOMAIN list : PathOf(s)[list[i]] = list[i].path /\ list[i].path \in Seq(NamesIn(s))
  BY <1>1, LeafIs
<1>3. Paths(list) = [i \in DOMAIN list |-> list[i].path]
  BY DEF Paths
<1>4. \A i, j \in DOMAIN list : list[i].path = list[j].path => i = j
  BY <1>2 DEF KeyedOnce
<1>5. Paths(list) \in Seq(Seq(NamesIn(s))) /\ DOMAIN Paths(list) = DOMAIN list /\ Len(Paths(list)) = Len(list)
  <2>1. \A i \in 1 .. Len(list) : list[i].path \in Seq(NamesIn(s))
    BY <1>1, <1>2
  <2>2. [i \in 1 .. Len(list) |-> list[i].path] \in Seq(Seq(NamesIn(s)))
    BY <1>1, <2>1
  <2> QED
    BY <1>1, <1>3, <2>2
<1>6. Range(Paths(list)) = {f.path : f \in Range(list)}
  BY <1>3 DEF Range
<1>7. ~Repeats(Paths(list))
  BY <1>3, <1>4 DEF Repeats, IsInjective
<1>8. \A p : Contains(Paths(list), p) <=> p \in Range(Paths(list))
  BY <1>1, <1>5 DEF Contains, Range
<1>9. \A f, g \in Range(list) : f.path = g.path => f = g
  BY <1>1, <1>4
<1>10. Len(list) = Cardinality(Range(list)) /\ IsFiniteSet(Range(list))
  <2>1. \A i, j \in DOMAIN list : list[i] = list[j] => i = j
    BY <1>4
  <2> QED
    BY <2>1, LengthOnce
<1> QED
  BY <1>3, <1>4, <1>5, <1>6, <1>7, <1>8, <1>9, <1>10

(* No leaf on offer is the row itself. *)
LEMMA OfferedBelow ==
    ASSUME NEW s, IsSchema(s), NEW depth \in Nat, NEW r, NEW rows, RowType(s, r, rows) \in DOMAIN s.types
    PROVE  \A f \in Range(Discovered(s, r, rows, depth).offered) : Len(f.path) \in Nat /\ f.path # <<>>
<1> DEFINE t == RowType(s, r, rows)
           offered == Discovered(s, r, rows, depth).offered
<1>1. t \in DOMAIN s.types /\ Sound(s, t, offered)
  BY DiscoveredSound
<1>2. \A f \in Range(offered) : f.path \in Seq(NamesIn(s)) /\ Selectable(s, t, f.path)
  BY <1>1, RangeIs, LeafIs DEF Sound
<1> HIDE DEF t, offered
<1>3. CASE IsComposite(s, t)
  <2> SUFFICES ASSUME NEW f \in Range(offered), f.path = <<>> PROVE FALSE
    BY <1>2 DEF offered
  <2>1. Along(s, t, <<>>)[0] = t
    <3> DEFINE none == <<>>
    <3>1. none \in Seq(NamesIn(s))
      OBVIOUS
    <3> HIDE DEF none
    <3>2. Along(s, t, none)[0] = t
      BY <1>1, <3>1, AlongIs
    <3> QED
      BY <3>2 DEF none
  <2>2. IsLeaf(s, t)
    BY <1>2, <2>1 DEF Selectable
  <2> QED
    BY <1>3, <2>2 DEF IsLeaf, IsComposite
<1>4. CASE ~IsComposite(s, t)
  <2>1. FieldsOf(s, t) = <<>>
    BY <1>1, <1>4 DEF IsSchema
  <2>2. Walk(s, t, depth).offered = <<>>
    <3>1. PICK levels : /\ WalkLevels(s, depth, levels)
                        /\ \A at \in DOMAIN s.types : Walk(s, at, depth) = levels[depth][<<at, {}>>]
      BY WalkIs
    <3> DEFINE p == <<t, {}>>
    <3>2. p \in Places(s) /\ p[1] = t /\ p[2] = {}
      BY <1>1 DEF Places
    <3>3. Walk(s, t, depth) = levels[depth][p]
      BY <1>1, <3>1
    <3> HIDE DEF p
    <3>4. CASE depth = 0
      <4>1. levels[0][p] = AtBottom(s, p)
        BY <3>1, <3>2 DEF WalkLevels
      <4>2. Walk(s, t, depth) = AtBottom(s, p)
        BY <3>3, <3>4, <4>1
      <4> QED
        BY <4>2 DEF AtBottom, Found
    <3>5. CASE depth # 0
      <4>1. levels[depth][p] = Level(s, p[1], p[2], FoundAlong(s, levels[depth - 1], p))
        <5>1. depth \in 1 .. depth
          BY <3>5
        <5> QED
          BY <3>1, <3>2, <5>1 DEF WalkLevels
      <4>2. FoundAlong(s, levels[depth - 1], p) = <<>>
        BY <2>1, <3>2 DEF FoundAlong
      <4>3. [i \in DOMAIN <<>> |-> <<>>[i].offered] = <<>>
        OBVIOUS
      <4>4. FlattenSeq(<<>>) = <<>>
        BY DEF FlattenSeq
      <4>5. levels[depth][p].offered = <<>>
        BY <4>1, <4>2, <4>3, <4>4, <3>2 DEF Level, Found
      <4> QED
        BY <3>3, <4>5
    <3> QED
      BY <3>4, <3>5
  <2>3. offered = <<>>
    BY <2>2 DEF Discovered, Found, offered, t
  <2>4. Range(<<>>) = {}
    BY DEF Range
  <2> QED
    BY <2>3, <2>4 DEF offered
<1> QED
  BY <1>3, <1>4

(* What is filtered twice, of what can be approved, is in the order of the whole. *)
LEMMA FilteredInOrder ==
    ASSUME NEW s, NEW all \in Seq(LeavesIn(s)), KeyedOnce(PathOf(s), all), NEW some \in Seq(LeavesIn(s)), NEW S, NEW R,
           some = Only(all, S)
    PROVE  InOrder(Paths(some), Paths(all)) /\ InOrder(Paths(Only(some, R)), Paths(all))
<1> DEFINE few == Only(some, R)
<1>1. few \in Seq(LeavesIn(s))
  BY OnlyAre
<1>2. /\ \A k \in DOMAIN all : Paths(all)[k] = all[k].path
      /\ \A k, m \in DOMAIN all : all[k].path = all[m].path => k = m
      /\ DOMAIN Paths(all) = DOMAIN all /\ DOMAIN all = 1 .. Len(all) /\ Len(all) \in Nat
  BY PathsAre
<1>3. \A i, j \in DOMAIN some : i < j => \E k, m \in DOMAIN all : k < m /\ some[i] = all[k] /\ some[j] = all[m]
  BY OnlyOrdered
<1>4. \A i, j \in DOMAIN few : i < j => \E k, m \in DOMAIN some : k < m /\ few[i] = some[k] /\ few[j] = some[m]
  BY OnlyOrdered
<1> HIDE DEF few
<1>5. ASSUME NEW list \in Seq(LeavesIn(s)),
             \A i, j \in DOMAIN list : i < j => \E k, m \in DOMAIN all : k < m /\ list[i] = all[k] /\ list[j] = all[m]
      PROVE  InOrder(Paths(list), Paths(all))
  <2>1. DOMAIN Paths(list) = DOMAIN list /\ \A i \in DOMAIN list : Paths(list)[i] = list[i].path
    BY DEF Paths
  <2> SUFFICES ASSUME NEW i \in DOMAIN list, NEW j \in DOMAIN list, NEW k \in DOMAIN all, NEW m \in DOMAIN all,
                      i < j, list[i].path = all[k].path, list[j].path = all[m].path
               PROVE  k < m
    BY <1>2, <2>1 DEF InOrder
  <2>2. PICK a \in DOMAIN all, b \in DOMAIN all : a < b /\ list[i] = all[a] /\ list[j] = all[b]
    BY <1>5
  <2>3. a = k /\ b = m
    BY <1>2, <2>2
  <2> QED
    BY <2>2, <2>3
<1>6. InOrder(Paths(some), Paths(all))
  BY <1>3, <1>5
<1>7. \A i, j \in DOMAIN few : i < j => \E k, m \in DOMAIN all : k < m /\ few[i] = all[k] /\ few[j] = all[m]
  BY <1>3, <1>4
<1>8. InOrder(Paths(few), Paths(all))
  BY <1>1, <1>5, <1>7
<1> QED
  BY <1>6, <1>8 DEF few

(* The fields of a candidate, whatever is on offer. *)
LEMMA CandidateFieldsFill ==
    ASSUME NEW s, NEW offered \in Seq(LeavesIn(s)), KeyedOnce(PathOf(s), offered),
           \A f \in Range(offered) : Len(f.path) \in Nat /\ Len(f.path) # 0
    PROVE  LET fields == CandidateFields(offered) IN
           /\ FillsBudget(fields, {p \in Range(Paths(offered)) : Len(p) <= MaxLevels}) /\ InOrder(fields, Paths(offered))
           /\ fields \in Seq(Seq(NamesIn(s))) /\ ~Repeats(fields) /\ \A p : Contains(fields, p) <=> p \in Range(fields)
<1> DEFINE E == {f \in Range(offered) : Len(f.path) <= MaxLevels}
           eligible == Only(offered, E)
           kept == SelectWithinBudget(eligible, MaxFields)
           most == Only(eligible, Range(kept))
           fields == CandidateFields(offered)
           allowed == {p \in Range(Paths(offered)) : Len(p) <= MaxLevels}
           Like(f) == {g \in Range(eligible) : Together(g.path, f.path)}
           Near(p) == {q \in allowed : Together(p, q)}
<1>1. MaxFields \in Nat /\ MaxLevels \in Nat
  BY GraphQlCatalogAssumption
<1>2. fields = IF Len(eligible) <= MaxFields THEN Paths(eligible) ELSE Paths(most)
  BY DEF CandidateFields
<1>3. eligible \in Seq(LeavesIn(s)) /\ KeyedOnce(PathOf(s), eligible) /\ Range(eligible) = E
  <2>1. E \subseteq Range(offered)
    OBVIOUS
  <2> HIDE DEF E
  <2>2. eligible \in Seq(LeavesIn(s)) /\ Range(eligible) = {f \in Range(offered) : f \in E}
    BY OnlyAre
  <2>3. KeyedOnce(PathOf(s), eligible)
    BY OnlyOnce
  <2> QED
    BY <2>1, <2>2, <2>3
<1>4. InOrder(Paths(eligible), Paths(offered)) /\ InOrder(Paths(most), Paths(offered))
  <2> DEFINE R == Range(kept)
  <2> HIDE DEF E, R
  <2>1. InOrder(Paths(eligible), Paths(offered)) /\ InOrder(Paths(Only(eligible, R)), Paths(offered))
    BY <1>3, FilteredInOrder
  <2> QED
    BY <2>1 DEF R
<1>5. allowed = {f.path : f \in Range(eligible)}
  <2>1. Range(Paths(offered)) = {f.path : f \in Range(offered)}
    BY PathsAre
  <2> QED
    BY <1>3, <2>1
<1>6. IsOffer(s, eligible)
  <2>1. \A f \in E : Len(f.path) \in 1 .. MaxLevels
    BY <1>1
  <2> HIDE DEF E
  <2> QED
    BY <1>3, <2>1 DEF IsOffer
<1> HIDE DEF eligible, E
<1>7. /\ kept \in Seq(LeavesIn(s)) /\ KeyedOnce(PathOf(s), kept) /\ Len(kept) <= MaxFields /\ Range(kept) \subseteq Range(eligible)
      /\ \A f, g \in Range(eligible) : Together(f.path, g.path) => (f \in Range(kept) <=> g \in Range(kept))
      /\ \A f \in Range(eligible) \ Range(kept) : Len(kept) + Cardinality(Like(f)) > MaxFields
  BY <1>1, <1>6, SelectIs
<1> HIDE DEF kept
<1>8. most \in Seq(LeavesIn(s)) /\ KeyedOnce(PathOf(s), most) /\ Range(most) = Range(kept)
  <2> DEFINE R == Range(kept)
  <2>1. R \subseteq Range(eligible)
    BY <1>7
  <2> HIDE DEF R
  <2>2. Only(eligible, R) \in Seq(LeavesIn(s)) /\ Range(Only(eligible, R)) = {f \in Range(eligible) : f \in R}
    BY <1>3, OnlyAre
  <2>3. KeyedOnce(PathOf(s), Only(eligible, R))
    BY <1>3, OnlyOnce
  <2> QED
    BY <2>1, <2>2, <2>3 DEF R
<1> HIDE DEF most, Like, allowed
<1>9. Len(most) = Len(kept)
  BY <1>7, <1>8, PathsAre
<1>10. \A f, g \in Range(eligible) : f.path = g.path => f = g
  BY <1>3, PathsAre
<1>11. ASSUME NEW f \in Range(eligible) PROVE Cardinality(Near(f.path)) = Cardinality(Like(f)) /\ Cardinality(Like(f)) \in Nat
  <2> DEFINE path == [g \in Like(f) |-> g.path]
  <2>1. IsFiniteSet(Like(f))
    <3>1. IsFiniteSet(Range(eligible))
      BY <1>3, PathsAre
    <3> QED
      BY <3>1, FS_Subset DEF Like
  <2>2. Near(f.path) = {g.path : g \in Like(f)}
    BY <1>5, TogetherIs DEF Like
  <2>3. \A g, h \in Like(f) : g.path = h.path => g = h
    BY <1>10 DEF Like
  <2> DEFINE L == Like(f)
             N == Near(f.path)
  <2> HIDE DEF L, N
  <2>4. [g \in L |-> g.path] \in Bijection(L, N)
    BY <2>2, <2>3 DEF L, N, Bijection, Injection, Surjection, IsInjective
  <2>5. Cardinality(N) = Cardinality(L)
    BY <2>1, <2>4, FS_Bijection DEF ExistsBijection, L
  <2>6. Cardinality(L) \in Nat
    BY <2>1, FS_CardinalityType DEF L
  <2> QED
    BY <2>5, <2>6 DEF L, N
<1> HIDE DEF Near
<1>12. ASSUME NEW list \in Seq(LeavesIn(s)), KeyedOnce(PathOf(s), list), Range(list) \subseteq Range(eligible), Len(list) <= MaxFields,
              \A f, g \in Range(eligible) : Together(f.path, g.path) => (f \in Range(list) <=> g \in Range(list)),
              \A f \in Range(eligible) \ Range(list) : Len(list) + Cardinality(Like(f)) > MaxFields
       PROVE  /\ FillsBudget(Paths(list), allowed) /\ Paths(list) \in Seq(Seq(NamesIn(s))) /\ ~Repeats(Paths(list))
              /\ \A p : Contains(Paths(list), p) <=> p \in Range(Paths(list))
  <2>1. /\ Range(Paths(list)) = {f.path : f \in Range(list)} /\ Len(Paths(list)) = Len(list)
        /\ Paths(list) \in Seq(Seq(NamesIn(s))) /\ ~Repeats(Paths(list))
        /\ \A p : Contains(Paths(list), p) <=> p \in Range(Paths(list))
    BY <1>12, PathsAre
  <2>2. \A f \in Range(eligible) : f.path \in Range(Paths(list)) <=> f \in Range(list)
    BY <1>10, <1>12, <2>1
  <2>3. Range(Paths(list)) \subseteq allowed
    BY <1>5, <1>12, <2>1
  <2>4. \A p, q \in allowed : Together(p, q) => (p \in Range(Paths(list)) <=> q \in Range(Paths(list)))
    BY <1>5, <1>12, <2>2
  <2>5. \A p \in allowed \ Range(Paths(list)) : Len(list) + Cardinality(Near(p)) > MaxFields
    BY <1>5, <1>11, <1>12, <2>2
  <2> QED
    BY <1>12, <2>1, <2>3, <2>4, <2>5 DEF FillsBudget, Near
<1>13. CASE Len(eligible) <= MaxFields
  <2>1. FillsBudget(Paths(eligible), allowed) /\ Paths(eligible) \in Seq(Seq(NamesIn(s))) /\ ~Repeats(Paths(eligible))
        /\ \A p : Contains(Paths(eligible), p) <=> p \in Range(Paths(eligible))
    BY <1>3, <1>12, <1>13
  <2> QED
    BY <1>2, <1>4, <1>13, <2>1 DEF allowed
<1>14. CASE ~(Len(eligible) <= MaxFields)
  <2>1. FillsBudget(Paths(most), allowed) /\ Paths(most) \in Seq(Seq(NamesIn(s))) /\ ~Repeats(Paths(most))
        /\ \A p : Contains(Paths(most), p) <=> p \in Range(Paths(most))
    BY <1>7, <1>8, <1>9, <1>12
  <2> QED
    BY <1>2, <1>4, <1>14, <2>1 DEF allowed
<1> QED
  BY <1>13, <1>14

(* The reasons that are left to the host, of one entry. *)
HostReasons == {"purpose", "no owner", "one record", "no rows", "scalar"}

(* An entry of the candidate is refused for nothing else. *)
LEMMA CandidateEntryStands ==
    ASSUME NEW s, NEW sel, NEW seen, NEW X,
           LET fields == CandidateFields(seen.found.offered) IN
           /\ fields \in Seq(Seq(X)) /\ ~Repeats(fields) /\ (\A p : Contains(fields, p) <=> p \in Range(fields))
           /\ Range(fields) \subseteq Range(Paths(seen.found.offered))
    PROVE  EntryFaults(s, sel, seen, CandidateEntry(sel, seen)) \in Seq(HostReasons)
<1> DEFINE q == CandidateEntry(sel, seen)
           fields == CandidateFields(seen.found.offered)
           root == Root(s, sel.field)
           args == {a.name : a \in Range(seen.args)}
           rows == HasEnvelope(s, root, sel.rows)
           b1 == ~IsUniqueSubset(q.args, args)
           b2 == ~(q.identity \subseteq args)
           b3 == ~IsUniqueSubset(q.fields, Range(Paths(seen.found.offered)))
           b4 == ~IsUniqueSubset(q.required, Range(q.fields))
           b5 == Range(q.args) \cap q.identity # {}
           b6 == ~sel.purpose
           b7 == Unowned(root, q) # {}
           b8 == Longest(q.fields) > q.levels
           b9 == Len(q.fields) > q.count
           b10 == q.identity # {} /\ ~q.session
           b11 == rows /\ ShapeFor(sel, q) \in RecordShapes
           b12 == sel.shape \in ListShapes /\ ~rows /\ ~root.list
           b13 == ~(ScalarsOf(s, seen, q) \subseteq sel.scalars)
           f1 == Fault("visitor argument", b1)
           f2 == Fault("identity argument", b2)
           f3 == Fault("output field", b3)
           f4 == Fault("required field", b4)
           f5 == Fault("two owners", b5)
           f6 == Fault("purpose", b6)
           f7 == Fault("no owner", b7)
           f8 == Fault("depth", b8)
           f9 == Fault("count", b9)
           f10 == Fault("session", b10)
           f11 == Fault("one record", b11)
           f12 == Fault("no rows", b12)
           f13 == Fault("scalar", b13)
           A == HostReasons
<1>1. EntryFaults(s, sel, seen, q) = f1 \o f2 \o f3 \o f4 \o f5 \o f6 \o f7 \o f8 \o f9 \o f10 \o f11 \o f12 \o f13
  BY DEF EntryFaults
<1>2. /\ q.args = Only(<<"first", "after">>, args) /\ q.identity = {} /\ q.fields = fields
      /\ q.required = (IF Contains(fields, Id) THEN <<Id>> ELSE <<>>)
      /\ q.levels = Longest(fields) /\ q.count = (IF fields = <<>> THEN 1 ELSE Len(fields))
  BY DEF CandidateEntry
<1>3. /\ fields \in Seq(Seq(X)) /\ ~Repeats(fields) /\ (\A p : Contains(fields, p) <=> p \in Range(fields))
      /\ Range(fields) \subseteq Range(Paths(seen.found.offered))
  OBVIOUS
<1> HIDE DEF q, fields, args
<1>4. ~b1
  <2> DEFINE pages == <<"first", "after">>
             itself == [x \in {"first", "after"} |-> x]
  <2>1. pages \in Seq({"first", "after"}) /\ KeyedOnce(itself, pages)
    BY DEF KeyedOnce
  <2> HIDE DEF pages, itself
  <2>2. Only(pages, args) \in Seq({"first", "after"}) /\ Range(Only(pages, args)) \subseteq args
    BY <2>1, OnlyAre
  <2>3. KeyedOnce(itself, Only(pages, args))
    BY <2>1, OnlyOnce
  <2>4. ~Repeats(Only(pages, args))
    BY <2>2, <2>3 DEF KeyedOnce, Repeats, IsInjective, itself
  <2> QED
    BY <1>2, <2>2, <2>4 DEF IsUniqueSubset, pages
<1>5. ~b2 /\ ~b5 /\ ~b10
  BY <1>2
<1>6. ~b3
  BY <1>2, <1>3 DEF IsUniqueSubset
<1>7. ~b4
  <2>1. Range(<<Id>>) = {Id} /\ ~Repeats(<<Id>>)
    BY DEF Range, Repeats, IsInjective
  <2>2. Range(<<>>) = {} /\ ~Repeats(<<>>)
    BY DEF Range, Repeats, IsInjective
  <2> QED
    BY <1>2, <1>3, <2>1, <2>2 DEF IsUniqueSubset
<1>8. ~b8 /\ ~b9
  <2>1. Longest(fields) \in Nat
    BY <1>3, LongestIs
  <2>2. Len(fields) \in Nat /\ (fields = <<>> => Len(fields) = 0)
    BY <1>3
  <2> QED
    BY <1>2, <2>1, <2>2
<1>9. b6 \in BOOLEAN /\ b7 \in BOOLEAN /\ b11 \in BOOLEAN /\ b12 \in BOOLEAN /\ b13 \in BOOLEAN
  OBVIOUS
<1> HIDE DEF b1, b2, b3, b4, b5, b6, b7, b8, b9, b10, b11, b12, b13
<1>10. /\ f1 = <<>> /\ f2 = <<>> /\ f3 = <<>> /\ f4 = <<>> /\ f5 = <<>> /\ f8 = <<>> /\ f9 = <<>> /\ f10 = <<>>
  BY <1>4, <1>5, <1>6, <1>7, <1>8 DEF Fault
<1>11. f6 \in Seq(A) /\ f7 \in Seq(A) /\ f11 \in Seq(A) /\ f12 \in Seq(A) /\ f13 \in Seq(A) /\ <<>> \in Seq(A)
  <2>1. {"purpose", "no owner", "one record", "no rows", "scalar"} \subseteq A
    BY DEF HostReasons
  <2> HIDE DEF A
  <2>2. f6 \in Seq(A) /\ f7 \in Seq(A)
    BY <1>9, <2>1, FaultAmong
  <2>3. f11 \in Seq(A) /\ f12 \in Seq(A) /\ f13 \in Seq(A)
    BY <1>9, <2>1, FaultAmong
  <2>4. <<>> \in Seq(A)
    OBVIOUS
  <2> QED
    BY <2>2, <2>3, <2>4
<1> HIDE DEF f1, f2, f3, f4, f5, f6, f7, f8, f9, f10, f11, f12, f13, A
<1>12. f1 \o f2 \o f3 \o f4 \o f5 \o f6 \o f7 \o f8 \o f9 \o f10 \o f11 \o f12 \o f13 \in Seq(A)
  <2>1. f1 \o f2 \o f3 \o f4 \o f5 = <<>>
    BY <1>10
  <2>2. <<>> \o f6 \o f7 \o <<>> \o <<>> \o <<>> = f6 \o f7 /\ f6 \o f7 \in Seq(A)
    BY <1>11
  <2>3. f6 \o f7 \o f11 \in Seq(A)
    <3> DEFINE g == f6 \o f7
    <3> HIDE DEF g
    <3>1. g \in Seq(A)
      BY <2>2 DEF g
    <3>2. g \o f11 \in Seq(A)
      BY <1>11, <3>1
    <3> QED
      BY <3>2 DEF g
  <2>4. f6 \o f7 \o f11 \o f12 \o f13 \in Seq(A)
    <3> DEFINE g == f6 \o f7 \o f11
    <3> HIDE DEF g
    <3>1. g \in Seq(A)
      BY <2>3 DEF g
    <3>2. g \o f12 \o f13 \in Seq(A)
      BY <1>11, <3>1
    <3> QED
      BY <3>2 DEF g
  <2> QED
    BY <1>10, <2>1, <2>2, <2>4
<1> QED
  BY <1>1, <1>12 DEF q, A

(* Where no two entries decide on one capability, each is the one that decides on it, and
   there are as many as the capabilities approved. *)
LEMMA SoleEntries ==
    ASSUME NEW d, d.queries \in Seq(Range(d.queries)),
           \A i, j \in DOMAIN d.queries : d.queries[i].capability = d.queries[j].capability => i = j
    PROVE  /\ \A i \in DOMAIN d.queries : /\ Entries(d, d.queries[i].capability) # <<>>
                                          /\ EntryFor(d, d.queries[i].capability) = d.queries[i]
           /\ Len(d.queries) = Cardinality(Approves(d))
<1> DEFINE n == Len(d.queries)
<1>1. n \in Nat /\ DOMAIN d.queries = 1 .. n
  OBVIOUS
<1>2. ASSUME NEW i \in DOMAIN d.queries
      PROVE  LET c == d.queries[i].capability IN Entries(d, c) # <<>> /\ EntryFor(d, c) = d.queries[i]
  <2> DEFINE c == d.queries[i].capability
             S == {q \in Range(d.queries) : q.capability = c}
  <2>1. d.queries[i] \in Range(d.queries) /\ d.queries[i] \in S /\ Entries(d, c) = Only(d.queries, S)
    BY DEF Range, Entries
  <2> HIDE DEF S, c
  <2>2. Range(Entries(d, c)) = {q \in Range(d.queries) : q \in S}
    BY <2>1, OnlyAre
  <2>3. Entries(d, c) # <<>>
    <3>1. Range(<<>>) = {}
      BY DEF Range
    <3> QED
      BY <2>1, <2>2, <3>1
  <2>4. EntryFor(d, c) \in Range(d.queries) /\ EntryFor(d, c).capability = c
    BY <2>3, EntryIs
  <2>5. PICK j \in DOMAIN d.queries : EntryFor(d, c) = d.queries[j]
    BY <2>4 DEF Range
  <2>6. j = i
    BY <2>4, <2>5 DEF c
  <2> QED
    BY <2>3, <2>5, <2>6 DEF c
<1>3. n = Cardinality(Approves(d))
  <2> DEFINE name == [i \in 1 .. n |-> d.queries[i].capability]
  <2>1. Approves(d) = {d.queries[i].capability : i \in 1 .. n}
    BY <1>1 DEF Approves, Range
  <2>2. name \in Bijection(1 .. n, Approves(d))
    BY <1>1, <2>1 DEF Bijection, Injection, Surjection, IsInjective
  <2>3. IsFiniteSet(1 .. n) /\ Cardinality(1 .. n) = n
    BY <1>1, FS_Interval
  <2> HIDE DEF name, n
  <2> QED
    BY <2>2, <2>3, FS_Bijection DEF ExistsBijection
<1> QED
  BY <1>2, <1>3

(* The candidate, selection by selection. *)
LEMMA CandidateParts ==
    ASSUME NEW s, NEW inv, TakenOf(inv, s, inv.selections, inv.depth), FieldsOnce(inv.selections)
    PROVE  LET d == Candidate(inv) IN
           /\ d.hash = inv.hash /\ DOMAIN d.queries = DOMAIN inv.selections
           /\ d.queries \in Seq(Range(d.queries)) /\ Gone(inv, d) = {} /\ Len(d.queries) = Cardinality(Approves(d))
           /\ \A i \in DOMAIN inv.selections :
                /\ d.queries[i] = CandidateEntry(inv.selections[i], inv.reviews[i])
                /\ d.queries[i].fields = CandidateFields(inv.reviews[i].found.offered)
                /\ Entries(d, inv.selections[i].field) # <<>> /\ EntryFor(d, inv.selections[i].field) = d.queries[i]
<1> DEFINE d == Candidate(inv)
           n == Len(inv.selections)
           entry(i) == CandidateEntry(inv.selections[i], inv.reviews[i])
<1>1. n \in Nat /\ DOMAIN inv.selections = 1 .. n
  BY DEF TakenOf, IsSelections
<1>2. d.hash = inv.hash /\ d.queries = [i \in 1 .. n |-> entry(i)]
  BY <1>1 DEF Candidate
<1>3. \A i : entry(i).capability = inv.selections[i].field /\ entry(i).fields = CandidateFields(inv.reviews[i].found.offered)
  BY DEF CandidateEntry
<1> HIDE DEF d, n, entry
<1>4. DOMAIN d.queries = 1 .. n /\ \A i \in 1 .. n : d.queries[i] = entry(i)
  BY <1>2
<1>5. d.queries \in Seq(Range(d.queries))
  BY <1>1, <1>2 DEF Range
<1>6. \A i, j \in DOMAIN d.queries : d.queries[i].capability = d.queries[j].capability => i = j
  BY <1>1, <1>3, <1>4 DEF FieldsOnce
<1>7. /\ \A i \in DOMAIN d.queries : /\ Entries(d, d.queries[i].capability) # <<>>
                                     /\ EntryFor(d, d.queries[i].capability) = d.queries[i]
      /\ Len(d.queries) = Cardinality(Approves(d))
  BY <1>5, <1>6, SoleEntries
<1>8. Gone(inv, d) = {}
  BY <1>1, <1>3, <1>4 DEF Gone, Approves, Capabilities, Range
<1> QED
  BY <1>1, <1>2, <1>3, <1>4, <1>5, <1>7, <1>8 DEF d, entry

(* What is on offer to each. *)
LEMMA OnOfferTo ==
    ASSUME NEW s, NEW inv, TakenOf(inv, s, inv.selections, inv.depth), NEW i \in DOMAIN inv.selections
    PROVE  LET offered == inv.reviews[i].found.offered IN
           /\ offered \in Seq(LeavesIn(s)) /\ KeyedOnce(PathOf(s), offered)
           /\ \A f \in Range(offered) : Len(f.path) \in Nat /\ Len(f.path) # 0 /\ f.path \in Seq(NamesIn(s))
<1> DEFINE sel == inv.selections[i]
           r == Root(s, sel.field)
           offered == inv.reviews[i].found.offered
<1>1. IsSchema(s) /\ inv.depth \in Nat /\ RowType(s, r, sel.rows) \in DOMAIN s.types
  BY DEF TakenOf, IsSelections
<1>2. inv.reviews[i] = Review(s, sel, inv.depth)
  BY DEF TakenOf
<1>3. Review(s, sel, inv.depth).found = Discovered(s, r, sel.rows, inv.depth)
  BY DEF Review
<1>4. offered = Discovered(s, r, sel.rows, inv.depth).offered
  BY <1>2, <1>3
<1> HIDE DEF r, sel, offered
<1>5. Sound(s, RowType(s, r, sel.rows), offered)
  BY <1>1, <1>4, DiscoveredSound
<1>6. \A f \in Range(offered) : Len(f.path) \in Nat /\ f.path # <<>>
  BY <1>1, <1>4, OfferedBelow
<1>7. \A f \in Range(offered) : f.path \in Seq(NamesIn(s))
  BY <1>5, RangeIs, LeafIs DEF Sound
<1>8. \A f \in Range(offered) : Len(f.path) # 0
  BY <1>6, <1>7
<1> QED
  BY <1>5, <1>6, <1>7, <1>8 DEF Sound, offered

(* What the file of a candidate can be refused for. *)
LEMMA CandidateFile ==
    ASSUME NEW s, NEW inv, NEW d, s = inv.schema, inv.hash = ReviewHash(s, inv.selections, inv.depth), Bound(inv, d),
           Len(d.queries) = Cardinality(Approves(d)), Gone(inv, d) = {}
    PROVE  FileFaults(s, inv, d) = <<>> \/ (~Parses(d) /\ Head(FileFaults(s, inv, d)) = "file")
<1> DEFINE b1 == ~Parses(d)
           b2 == s # inv.schema
           b3 == inv.hash # ReviewHash(s, inv.selections, inv.depth)
           b4 == ~Bound(inv, d)
           b5 == Len(d.queries) # Cardinality(Approves(d))
           b6 == Gone(inv, d) # {}
<1>1. FileFaults(s, inv, d) =
        Fault("file", b1) \o Fault("another schema", b2) \o Fault("edited inventory", b3)
            \o Fault("another inventory", b4) \o Fault("repeated capability", b5) \o Fault("unknown capability", b6)
  BY DEF FileFaults
<1>2. ~b2 /\ ~b3 /\ ~b4 /\ ~b5 /\ ~b6
  OBVIOUS
<1> HIDE DEF b1, b2, b3, b4, b5, b6
<1>3. /\ Fault("another schema", b2) = <<>> /\ Fault("edited inventory", b3) = <<>>
      /\ Fault("another inventory", b4) = <<>> /\ Fault("repeated capability", b5) = <<>>
      /\ Fault("unknown capability", b6) = <<>>
  BY <1>2 DEF Fault
<1>4. Fault("file", b1) = IF b1 THEN <<"file">> ELSE <<>>
  BY DEF Fault
<1> DEFINE f == Fault("file", b1)
<1>5. FileFaults(s, inv, d) = f \o <<>> \o <<>> \o <<>> \o <<>> \o <<>>
  BY <1>1, <1>3
<1>6. f \in Seq({"file"})
  <2>1. <<"file">> \in Seq({"file"}) /\ <<>> \in Seq({"file"})
    OBVIOUS
  <2> QED
    BY <1>4, <2>1
<1> HIDE DEF f
<1>7. FileFaults(s, inv, d) = f
  <2>1. f \o <<>> = f
    BY <1>6
  <2> QED
    BY <1>5, <2>1
<1>8. CASE b1
  <2>1. FileFaults(s, inv, d) = <<"file">>
    BY <1>4, <1>7, <1>8 DEF f
  <2>2. Head(<<"file">>) = "file"
    OBVIOUS
  <2> QED
    BY <1>8, <2>1, <2>2 DEF b1
<1>9. CASE ~b1
  <2>1. FileFaults(s, inv, d) = <<>>
    BY <1>4, <1>7, <1>9 DEF f
  <2> QED
    BY <2>1
<1> QED
  BY <1>8, <1>9

(* A file whose entries hold fields, as many as there may be and no deeper, parses. *)
LEMMA CandidateParses ==
    ASSUME NEW s, NEW inv, TakenOf(inv, s, inv.selections, inv.depth), FieldsOnce(inv.selections),
           \A i \in DOMAIN inv.selections : Candidate(inv).queries[i].fields # <<>>
    PROVE  Parses(Candidate(inv))
<1> DEFINE d == Candidate(inv)
<1>1. /\ DOMAIN d.queries = DOMAIN inv.selections
      /\ \A i \in DOMAIN inv.selections :
            /\ d.queries[i] = CandidateEntry(inv.selections[i], inv.reviews[i])
            /\ d.queries[i].fields = CandidateFields(inv.reviews[i].found.offered)
  BY CandidateParts
<1> HIDE DEF d
<1>2. ASSUME NEW i \in DOMAIN inv.selections
      PROVE  LET q == d.queries[i] IN q.fields # <<>> /\ q.levels \in 1 .. MaxLevels /\ q.count \in 1 .. MaxFields
  <2> DEFINE offered == inv.reviews[i].found.offered
             fields == CandidateFields(offered)
             q == d.queries[i]
  <2>1. q.fields = fields /\ q.levels = Longest(fields) /\ q.count = IF fields = <<>> THEN 1 ELSE Len(fields)
    <3>1. \A sel, seen : LET e == CandidateEntry(sel, seen)
                             of == CandidateFields(seen.found.offered)
                         IN  e.fields = of /\ e.levels = Longest(of) /\ e.count = IF of = <<>> THEN 1 ELSE Len(of)
      BY DEF CandidateEntry
    <3> QED
      BY <1>1, <3>1
  <2>2. fields # <<>>
    BY <1>1 DEF d
  <2>3. /\ offered \in Seq(LeavesIn(s)) /\ KeyedOnce(PathOf(s), offered)
        /\ \A f \in Range(offered) : Len(f.path) \in Nat /\ Len(f.path) # 0 /\ f.path \in Seq(NamesIn(s))
    BY OnOfferTo
  <2> HIDE DEF q, offered
  <2>4. /\ FillsBudget(fields, {p \in Range(Paths(offered)) : Len(p) <= MaxLevels})
        /\ fields \in Seq(Seq(NamesIn(s)))
    BY <2>3, CandidateFieldsFill
  <2> HIDE DEF fields
  <2>5. Len(fields) <= MaxFields /\ \A p \in Range(fields) : Len(p) <= MaxLevels
    BY <2>4 DEF FillsBudget
  <2>6. MaxFields \in Nat /\ MaxLevels \in Nat /\ 1 <= MaxLevels
    BY GraphQlCatalogAssumption
  <2>7. Longest(fields) \in {1} \cup {Len(p) : p \in Range(fields)} /\ Longest(fields) \in Nat /\ 1 <= Longest(fields)
    BY <2>4, LongestIs
  <2>8. Longest(fields) \in 1 .. MaxLevels
    BY <2>5, <2>6, <2>7
  <2>9. Len(fields) \in 1 .. MaxFields
    BY <2>2, <2>4, <2>5, <2>6
  <2> QED
    BY <2>1, <2>2, <2>8, <2>9 DEF q
<1>3. \A q \in Range(d.queries) : q.fields # <<>> /\ q.levels \in 1 .. MaxLevels /\ q.count \in 1 .. MaxFields
  BY <1>1, <1>2 DEF Range
<1> QED
  BY <1>3 DEF Parses, d

(* What is left of a candidate to refuse. *)
LEMMA CandidateRefusedFor ==
    ASSUME NEW s, NEW inv, TakenOf(inv, s, inv.selections, inv.depth), FieldsOnce(inv.selections), inv.schema = s
    PROVE  LET d == Candidate(inv)
               why == Refusal(s, inv, d)
               offered(i) == Paths(inv.reviews[i].found.offered)
           IN  /\ \A i \in DOMAIN inv.selections :
                    /\ InOrder(d.queries[i].fields, offered(i))
                    /\ FillsBudget(d.queries[i].fields, {p \in Range(offered(i)) : Len(p) <= MaxLevels})
               /\ why \in LeftToTheHost \cup {"file", None}
               /\ why = "file" => \E i \in DOMAIN inv.selections : d.queries[i].fields = <<>>
<1> DEFINE d == Candidate(inv)
           n == Len(inv.selections)
           why == Refusal(s, inv, d)
           faults(i) == SelectionFaults(s, inv, d, i)
           first == FirstRefused(s, inv, d)
           file == FileFaults(s, inv, d)
           catalog == CatalogFaults(s, inv, d)
           bare == \E i \in DOMAIN inv.selections : d.queries[i].fields = <<>>
<1>1. n \in Nat /\ DOMAIN inv.selections = 1 .. n
  BY DEF TakenOf, IsSelections
<1>2. /\ d.hash = inv.hash /\ DOMAIN d.queries = DOMAIN inv.selections
      /\ d.queries \in Seq(Range(d.queries)) /\ Gone(inv, d) = {} /\ Len(d.queries) = Cardinality(Approves(d))
      /\ \A i \in DOMAIN inv.selections :
            /\ d.queries[i] = CandidateEntry(inv.selections[i], inv.reviews[i])
            /\ d.queries[i].fields = CandidateFields(inv.reviews[i].found.offered)
            /\ Entries(d, inv.selections[i].field) # <<>> /\ EntryFor(d, inv.selections[i].field) = d.queries[i]
  BY CandidateParts
<1>3. why = IF file # <<>> THEN Head(file)
            ELSE IF \E i \in 1 .. n : faults(i) # <<>> THEN Head(faults(first))
            ELSE IF catalog # <<>> THEN Head(catalog) ELSE None
  BY <1>1 DEF Refusal
<1>4. ~Parses(d) => bare
  BY CandidateParses
<1>5. ASSUME NEW i \in 1 .. n
      PROVE  LET offered == inv.reviews[i].found.offered
                 fields == CandidateFields(offered)
             IN  /\ FillsBudget(fields, {p \in Range(Paths(offered)) : Len(p) <= MaxLevels}) /\ InOrder(fields, Paths(offered))
                 /\ fields \in Seq(Seq(NamesIn(s))) /\ ~Repeats(fields) /\ \A p : Contains(fields, p) <=> p \in Range(fields)
  <2> DEFINE offered == inv.reviews[i].found.offered
  <2>1. /\ offered \in Seq(LeavesIn(s)) /\ KeyedOnce(PathOf(s), offered)
        /\ \A f \in Range(offered) : Len(f.path) \in Nat /\ Len(f.path) # 0
    BY <1>1, OnOfferTo
  <2> HIDE DEF offered
  <2> QED
    BY <2>1, CandidateFieldsFill DEF offered
<1>6. \A i \in DOMAIN inv.selections :
        LET offered == Paths(inv.reviews[i].found.offered) IN
        /\ InOrder(d.queries[i].fields, offered)
        /\ FillsBudget(d.queries[i].fields, {p \in Range(offered) : Len(p) <= MaxLevels})
  BY <1>1, <1>2, <1>5
<1>7. inv.hash = ReviewHash(s, inv.selections, inv.depth)
  BY DEF TakenOf
<1>8. file = <<>> \/ (~Parses(d) /\ Head(file) = "file")
  <2> HIDE DEF d
  <2> QED
    BY <1>2, <1>7, CandidateFile DEF Bound
<1> HIDE DEF d, n, bare
<1>9. ASSUME NEW i \in 1 .. n
      PROVE  faults(i) \in Seq(HostReasons \cup {"conflicting data type"})
  <2> DEFINE sel == inv.selections[i]
             seen == inv.reviews[i]
             own == EntryFaults(s, sel, seen, EntryFor(d, sel.field))
             last == Fault("conflicting data type", Conflicts(s, inv, d, i))
             fields == CandidateFields(seen.found.offered)
  <2>1. faults(i) = IF own # <<>> THEN own ELSE last
    BY <1>1, <1>2 DEF SelectionFaults
  <2>2. EntryFor(d, sel.field) = CandidateEntry(sel, seen)
    BY <1>1, <1>2
  <2>3. /\ fields \in Seq(Seq(NamesIn(s))) /\ ~Repeats(fields) /\ (\A p : Contains(fields, p) <=> p \in Range(fields))
        /\ Range(fields) \subseteq Range(Paths(seen.found.offered))
    <3> DEFINE all == Range(Paths(seen.found.offered))
               allowed == {p \in all : Len(p) <= MaxLevels}
    <3>1. /\ fields \in Seq(Seq(NamesIn(s))) /\ ~Repeats(fields) /\ (\A p : Contains(fields, p) <=> p \in Range(fields))
          /\ FillsBudget(fields, allowed)
      BY <1>5
    <3>2. Range(fields) \subseteq allowed /\ allowed \subseteq all
      BY <3>1 DEF FillsBudget
    <3> QED
      BY <3>1, <3>2
  <2>4. own \in Seq(HostReasons)
    <3> HIDE DEF sel, seen
    <3> QED
      BY <2>2, <2>3, CandidateEntryStands
  <2>5. last \in Seq({"conflicting data type"})
    <3>1. \A fails \in BOOLEAN : Fault("conflicting data type", fails) \in Seq({"conflicting data type"})
      BY FaultAmong
    <3>2. Conflicts(s, inv, d, i) \in BOOLEAN
      BY DEF Conflicts
    <3> QED
      BY <3>1, <3>2
  <2> HIDE DEF own, last, faults
  <2>6. faults(i) \in Seq(HostReasons) \/ faults(i) \in Seq({"conflicting data type"})
    BY <2>1, <2>4, <2>5
  <2>7. ASSUME NEW A, NEW B, NEW list \in Seq(A) \cup Seq(B) PROVE list \in Seq(A \cup B)
    BY <2>7
  <2> QED
    BY <2>6, <2>7
<1>10. catalog \in Seq({"match key", "meaning"})
  <2> DEFINE keyless == \E i \in DOMAIN inv.selections :
                          /\ inv.selections[i].matchKey # None
                          /\ ~Contains(EntryFor(d, inv.selections[i].field).fields, inv.selections[i].matchKey)
             meant == \E i \in DOMAIN inv.selections : \E p \in Range(EntryFor(d, inv.selections[i].field).fields) :
                          Meaning(d, inv.selections[i], inv.reviews[i], p) = Unknown
             A == {"match key", "meaning"}
  <2>1. catalog = Fault("match key", keyless) \o Fault("meaning", meant)
    BY DEF CatalogFaults
  <2>2. keyless \in BOOLEAN /\ meant \in BOOLEAN
    OBVIOUS
  <2> HIDE DEF keyless, meant
  <2>3. Fault("match key", keyless) \in Seq(A) /\ Fault("meaning", meant) \in Seq(A)
    BY <2>2, FaultAmong
  <2> HIDE DEF A, catalog
  <2> QED
    BY <2>1, <2>3, PutTogether DEF A
<1> DEFINE Left == LeftToTheHost
<1>11. HostReasons \cup {"conflicting data type"} \subseteq Left /\ {"match key", "meaning"} \subseteq Left
  BY DEF HostReasons, LeftToTheHost
<1>12. "file" \notin Left /\ None \notin {"file"}
  BY GraphQlCompileAssumption DEF LeftToTheHost, GraphQlRefusals
<1> DEFINE Ok == why \in Left \cup {"file", None} /\ (why = "file" => bare)
<1>13. (\E i \in 1 .. n : faults(i) # <<>>) => first \in 1 .. n /\ faults(first) # <<>>
  BY <1>1, FirstRefusedIs
<1> HIDE DEF why, file, faults, first, catalog, Left
<1>14. ASSUME file # <<>> PROVE Ok
  <2>1. why = "file" /\ bare
    BY <1>3, <1>4, <1>8, <1>14
  <2> QED
    BY <2>1
<1>15. ASSUME file = <<>>, \E i \in 1 .. n : faults(i) # <<>> PROVE Ok
  <2>1. Head(faults(first)) \in HostReasons \cup {"conflicting data type"}
    BY <1>9, <1>13, <1>15, HeadAmong
  <2> QED
    BY <1>3, <1>11, <1>12, <1>15, <2>1
<1>16. ASSUME file = <<>>, ~ \E i \in 1 .. n : faults(i) # <<>> PROVE Ok
  <2>1. catalog # <<>> => Head(catalog) \in {"match key", "meaning"}
    BY <1>10, HeadAmong
  <2> QED
    BY <1>3, <1>11, <1>12, <1>16, <2>1
<1>17. Ok
  BY <1>14, <1>15, <1>16
<1> QED
  BY <1>6, <1>17 DEF why, d, bare, Left

(* A candidate of an inventory of the schema in hand stands. *)
LEMMA CandidateInvStands == DiffInv => CandidateStands
<1> SUFFICES ASSUME DiffInv, InHand, decisions = Candidate(inventory)
             PROVE  LET why == Refusal(schema, inventory, decisions)
                        offered(i) == Paths(inventory.reviews[i].found.offered)
                    IN  /\ \A i \in DOMAIN inventory.selections :
                            /\ InOrder(decisions.queries[i].fields, offered(i))
                            /\ FillsBudget(decisions.queries[i].fields, {p \in Range(offered(i)) : Len(p) <= MaxLevels})
                        /\ why \in LeftToTheHost \cup {"file", None}
                        /\ why = "file" => \E i \in DOMAIN inventory.selections : decisions.queries[i].fields = <<>>
  BY DEF CandidateStands
<1>1. inventory # None /\ FieldsOnce(inventory.selections) /\ inventory.schema = schema
  BY DEF DiffInv, InHand, Proposes
<1>2. TakenOf(inventory, inventory.hash[1], inventory.hash[2], inventory.hash[3])
  BY <1>1 DEF DiffInv, ReviewInv
<1>3. inventory.hash[1] = schema /\ inventory.hash[2] = inventory.selections /\ inventory.hash[3] = inventory.depth
  BY DEF InHand, ReviewHash
<1>4. TakenOf(inventory, schema, inventory.selections, inventory.depth)
  BY <1>2, <1>3
<1> QED
  BY <1>1, <1>4, CandidateRefusedFor

(* What the command proposes is in order and fills what one capability may hold, and is
   refused only for what is the host's to decide, whatever the inventory is of. *)
THEOREM CandidateAlwaysStands == CliSpec => []CandidateStands
<1>1. CliInit => DiffInv
  BY CatalogReviewAssumption DEF CliInit, DiffInv, ReviewInv, CompiledStands
<1> QED
  BY <1>1, CandidateInvStands, DiffNext, PTL DEF CliSpec

-----------------------------------------------------------------------------
(* The ledger: what each way down from a row meets. *)

(* One sequence begins another if it agrees with it as far as it goes. *)
LEMMA PrefixIs ==
    ASSUME NEW X, NEW p \in Seq(X), NEW q \in Seq(X)
    PROVE  IsPrefix(p, q) <=> Len(p) <= Len(q) /\ \A k \in 1 .. Len(p) : p[k] = q[k]
<1>1. Len(p) \in Nat /\ Len(q) \in Nat /\ p = [k \in 1 .. Len(p) |-> p[k]]
  OBVIOUS
<1>2. CASE Len(p) <= Len(q)
  <2>1. \A r \in Seq(X) : Len(p) <= Len(r) => SubSeq(r, 1, Len(p)) = [k \in 1 .. Len(p) |-> r[k]]
    <3> SUFFICES ASSUME NEW r \in Seq(X), Len(p) <= Len(r) PROVE SubSeq(r, 1, Len(p)) = [k \in 1 .. Len(p) |-> r[k]]
      OBVIOUS
    <3>1. SubSeq(r, 1, Len(p)) \in Seq(X) /\ Len(SubSeq(r, 1, Len(p))) = Len(p) /\ \A k \in 1 .. Len(p) : SubSeq(r, 1, Len(p))[k] = r[k]
      BY <1>1
    <3> DEFINE sub == SubSeq(r, 1, Len(p))
    <3>2. sub = [k \in 1 .. Len(sub) |-> sub[k]]
      BY <3>1
    <3> QED
      BY <3>1, <3>2
  <2>2. SubSeq(p, 1, Len(p)) = [k \in 1 .. Len(p) |-> p[k]] /\ SubSeq(q, 1, Len(p)) = [k \in 1 .. Len(p) |-> q[k]]
    BY <1>1, <1>2, <2>1
  <2> QED
    BY <1>2, <2>2 DEF IsPrefix
<1> QED
  BY <1>1, <1>2 DEF IsPrefix

(* Past its first name, a path begins another as what is left of it begins the rest. *)
LEMMA PrefixBelow ==
    ASSUME NEW X, NEW m \in X, NEW n \in X, NEW p \in Seq(X), NEW rest \in Seq(X)
    PROVE  IsPrefix(<<m>> \o p, <<n>> \o rest) <=> m = n /\ IsPrefix(p, rest)
<1> DEFINE a == <<m>> \o p
           b == <<n>> \o rest
<1>1. /\ a \in Seq(X) /\ Len(a) = Len(p) + 1 /\ Len(p) \in Nat /\ a[1] = m /\ \A k \in 1 .. Len(p) : a[k + 1] = p[k]
      /\ b \in Seq(X) /\ Len(b) = Len(rest) + 1 /\ Len(rest) \in Nat /\ b[1] = n /\ \A k \in 1 .. Len(rest) : b[k + 1] = rest[k]
  BY LongerPath
<1> HIDE DEF a, b
<1>2. IsPrefix(a, b) <=> Len(a) <= Len(b) /\ \A k \in 1 .. Len(a) : a[k] = b[k]
  BY <1>1, PrefixIs
<1>3. IsPrefix(p, rest) <=> Len(p) <= Len(rest) /\ \A k \in 1 .. Len(p) : p[k] = rest[k]
  BY PrefixIs
<1>4. ASSUME IsPrefix(a, b) PROVE m = n /\ IsPrefix(p, rest)
  <2>1. 1 \in 1 .. Len(a) /\ \A k \in 1 .. Len(p) : k + 1 \in 1 .. Len(a) /\ k \in 1 .. Len(rest)
    BY <1>1, <1>2, <1>4
  <2>2. \A k \in 1 .. Len(p) : a[k + 1] = b[k + 1]
    BY <1>2, <1>4, <2>1
  <2> QED
    BY <1>1, <1>2, <1>3, <1>4, <2>1, <2>2
<1>5. ASSUME m = n, IsPrefix(p, rest) PROVE IsPrefix(a, b)
  <2>1. ASSUME NEW k \in 1 .. Len(a) PROVE a[k] = b[k]
    <3>1. CASE k = 1
      BY <1>1, <1>5, <3>1
    <3>2. CASE k # 1
      <4>1. k - 1 \in 1 .. Len(p) /\ k - 1 \in 1 .. Len(rest) /\ (k - 1) + 1 = k
        BY <1>1, <1>3, <1>5, <3>2
      <4>2. a[(k - 1) + 1] = p[k - 1] /\ b[(k - 1) + 1] = rest[k - 1]
        BY <1>1, <4>1
      <4> QED
        BY <1>3, <1>5, <4>1, <4>2
    <3> QED
      BY <3>1, <3>2
  <2> QED
    BY <1>1, <1>2, <1>3, <1>5, <2>1
<1> QED
  BY <1>4, <1>5 DEF a, b

(* A name begins every path that starts with it, and no other. *)
LEMMA PrefixName ==
    ASSUME NEW X, NEW m \in X, NEW n \in X, NEW rest \in Seq(X)
    PROVE  IsPrefix(<<m>>, <<n>> \o rest) <=> m = n
<1>1. <<>> \in Seq(X) /\ <<m>> \o <<>> = <<m>>
  OBVIOUS
<1> DEFINE none == <<>>
<1>2. IsPrefix(none, rest)
  <2>1. none \in Seq(X) /\ Len(none) = 0 /\ Len(rest) \in Nat
    OBVIOUS
  <2> HIDE DEF none
  <2>2. Len(none) <= Len(rest) /\ \A k \in 1 .. Len(none) : none[k] = rest[k]
    BY <2>1
  <2> QED
    BY <2>1, <2>2, PrefixIs
<1>3. IsPrefix(<<m>> \o <<>>, <<n>> \o rest) <=> m = n /\ IsPrefix(<<>>, rest)
  BY <1>1, PrefixBelow
<1> QED
  BY <1>1, <1>2, <1>3

(* A way down from a type, to a leaf or as far as n names. *)
IsWay(s, t, way, n) ==
    LET along == Along(s, t, way) IN
    /\ way \in Seq(NamesIn(s)) /\ Len(way) <= n
    /\ \A k \in 0 .. Len(way) : along[k] \in DOMAIN s.types
    /\ \A k \in 1 .. Len(way) : IsComposite(s, along[k - 1]) /\ way[k] \in Names(s, along[k - 1])
    /\ Len(way) = n \/ ~IsComposite(s, along[Len(way)])

(* The types along a path do not change when it gets longer. *)
LEMMA AlongLonger ==
    ASSUME NEW s, IsSchema(s), NEW t \in DOMAIN s.types, NEW X, NEW path \in Seq(X), NEW n \in X
    PROVE  LET longer == Append(path, n) IN
           /\ longer \in Seq(X) /\ Len(longer) = Len(path) + 1 /\ longer[Len(path) + 1] = n
           /\ \A k \in 1 .. Len(path) : longer[k] = path[k]
           /\ \A k \in 0 .. Len(path) : Along(s, t, longer)[k] = Along(s, t, path)[k]
           /\ Along(s, t, longer)[Len(path) + 1] = Into(s, Along(s, t, path)[Len(path)], n)
<1> DEFINE longer == Append(path, n)
           long == Along(s, t, longer)
           short == Along(s, t, path)
<1>1. /\ longer \in Seq(X) /\ Len(longer) = Len(path) + 1 /\ longer[Len(path) + 1] = n /\ Len(path) \in Nat
      /\ \A k \in 1 .. Len(path) : longer[k] = path[k]
  OBVIOUS
<1> HIDE DEF longer
<1>2. long[0] = t /\ \A k \in 1 .. Len(longer) : long[k] = Into(s, long[k - 1], longer[k])
  BY <1>1, AlongIs
<1>3. short[0] = t /\ \A k \in 1 .. Len(path) : short[k] = Into(s, short[k - 1], path[k])
  BY AlongIs
<1> HIDE DEF long, short
<1> DEFINE D == {k \in Nat : k <= Len(path) => long[k] = short[k]}
<1>4. 0 \in D
  BY <1>2, <1>3
<1>5. ASSUME NEW k \in Nat, k \in D PROVE k + 1 \in D
  <2> SUFFICES ASSUME k + 1 <= Len(path) PROVE long[k + 1] = short[k + 1]
    OBVIOUS
  <2>1. k + 1 \in 1 .. Len(path) /\ k + 1 \in 1 .. Len(longer) /\ (k + 1) - 1 = k
    BY <1>1
  <2>2. long[k + 1] = Into(s, long[k], longer[k + 1]) /\ short[k + 1] = Into(s, short[k], path[k + 1])
    BY <1>2, <1>3, <2>1
  <2>3. long[k] = short[k] /\ longer[k + 1] = path[k + 1]
    BY <1>1, <1>5, <2>1
  <2> QED
    BY <2>2, <2>3
<1>6. Nat \subseteq D
  <2> HIDE DEF D
  <2> QED
    BY <1>4, <1>5, SetInduction
<1>7. \A k \in 0 .. Len(path) : long[k] = short[k]
  BY <1>1, <1>6
<1>8. long[Len(path) + 1] = Into(s, short[Len(path)], n)
  <2>1. Len(path) + 1 \in 1 .. Len(longer) /\ (Len(path) + 1) - 1 = Len(path) /\ Len(path) \in 0 .. Len(path)
    BY <1>1
  <2>2. long[Len(path) + 1] = Into(s, long[Len(path)], longer[Len(path) + 1])
    BY <1>2, <2>1
  <2> QED
    BY <1>1, <1>7, <2>1, <2>2
<1> QED
  BY <1>1, <1>7, <1>8 DEF longer, long, short

(* From a way of n names, one further. *)
LEMMA FurtherIs ==
    ASSUME NEW s, IsSchema(s), NEW t \in DOMAIN s.types, NEW n \in Nat, NEW way, IsWay(s, t, way, n), NEW w \in Further(s, t, way)
    PROVE  IsWay(s, t, w, n + 1)
<1> DEFINE along == Along(s, t, way)
           at == along[Len(way)]
<1>1. /\ way \in Seq(NamesIn(s)) /\ Len(way) <= n /\ Len(way) \in Nat
      /\ \A k \in 0 .. Len(way) : along[k] \in DOMAIN s.types
      /\ \A k \in 1 .. Len(way) : IsComposite(s, along[k - 1]) /\ way[k] \in Names(s, along[k - 1])
      /\ Len(way) = n \/ ~IsComposite(s, at)
  BY DEF IsWay
<1>2. at \in DOMAIN s.types /\ Reached(s, t, way) = at
  BY <1>1 DEF Reached
<1> HIDE DEF at, along
<1>3. CASE ~IsComposite(s, at)
  <2>1. w = way
    BY <1>2, <1>3 DEF Further
  <2>2. IsWay(s, t, way, n + 1)
    BY <1>1, <1>3 DEF IsWay, at, along
  <2> QED
    BY <2>1, <2>2
<1>4. CASE IsComposite(s, at)
  <2>1. PICK x \in Names(s, at) : w = Append(way, x)
    BY <1>2, <1>4 DEF Further
  <2>2. x \in NamesIn(s) /\ FieldNamed(s, at, x).type \in DOMAIN s.types /\ at # None /\ Len(way) = n
    BY <1>1, <1>2, <1>4, FieldIs, FieldTyped DEF IsSchema
  <2> DEFINE long == Along(s, t, w)
  <2>3. /\ w \in Seq(NamesIn(s)) /\ Len(w) = Len(way) + 1 /\ w[Len(way) + 1] = x
        /\ \A k \in 1 .. Len(way) : w[k] = way[k]
        /\ \A k \in 0 .. Len(way) : long[k] = along[k]
        /\ long[Len(way) + 1] = Into(s, at, x)
    BY <1>1, <2>1, <2>2, AlongLonger DEF at, along
  <2>4. long[Len(way) + 1] \in DOMAIN s.types
    BY <1>4, <2>1, <2>2, <2>3 DEF Into
  <2> HIDE DEF long
  <2>5. \A k \in 0 .. Len(w) : long[k] \in DOMAIN s.types
    <3>1. \A k \in 0 .. Len(w) : k \in 0 .. Len(way) \/ k = Len(way) + 1
      BY <1>1, <2>3
    <3> QED
      BY <1>1, <2>3, <2>4, <3>1
  <2>6. ASSUME NEW k \in 1 .. Len(w) PROVE IsComposite(s, long[k - 1]) /\ w[k] \in Names(s, long[k - 1])
    <3>1. CASE k = Len(way) + 1
      <4>1. k - 1 = Len(way) /\ Len(way) \in 0 .. Len(way)
        BY <1>1, <3>1
      <4>2. long[k - 1] = at
        BY <2>3, <4>1 DEF at
      <4> QED
        BY <1>4, <2>1, <2>3, <3>1, <4>2
    <3>2. CASE k # Len(way) + 1
      <4>1. k \in 1 .. Len(way) /\ k - 1 \in 0 .. Len(way)
        BY <1>1, <2>3, <3>2
      <4> QED
        BY <1>1, <2>3, <4>1
    <3> QED
      BY <3>1, <3>2
  <2> QED
    BY <1>1, <2>2, <2>3, <2>5, <2>6 DEF IsWay, long
<1> QED
  BY <1>3, <1>4

(* A path starts at its type. *)
LEMMA AlongStart ==
    ASSUME NEW s, IsSchema(s), NEW t \in DOMAIN s.types, NEW path \in Seq(NamesIn(s))
    PROVE  Along(s, t, path)[0] = t
  BY AlongIs

(* The ways down, so many names long. *)
LEMMA WaysAre ==
    ASSUME NEW s, IsSchema(s), NEW t \in DOMAIN s.types, NEW n \in Nat, NEW way \in Ways(s, t, n)
    PROVE  IsWay(s, t, way, n)
<1> DEFINE E(f) == [k \in 0 .. n |-> IF k = 0 THEN {<<>>} ELSE UNION {Further(s, t, w) : w \in f[k - 1]}]
           ways == CHOOSE f : f = E(f)
           step == [x \in (1 .. n) \X (SUBSET Seq(NamesIn(s))) |-> (UNION {Further(s, t, w) : w \in x[2]}) \cap Seq(NamesIn(s))]
<1>1. Ways(s, t, n) = ways[n]
  BY DEF Ways
<1>2. Steps(n, SUBSET Seq(NamesIn(s)), step)
  BY DEF Steps
<1>3. {<<>>} \in SUBSET Seq(NamesIn(s))
  OBVIOUS
<1>4. PICK g : Follows(g, n, SUBSET Seq(NamesIn(s)), {<<>>}, step)
  <2> HIDE DEF step
  <2> QED
    BY <1>2, <1>3, Recursion
<1>5. /\ g \in [0 .. n -> SUBSET Seq(NamesIn(s))] /\ g[0] = {<<>>}
      /\ \A k \in 1 .. n : g[k] = (UNION {Further(s, t, w) : w \in g[k - 1]}) \cap Seq(NamesIn(s))
  <2>1. g \in [0 .. n -> SUBSET Seq(NamesIn(s))] /\ g[0] = {<<>>}
    BY <1>4 DEF Follows
  <2>2. ASSUME NEW k \in 1 .. n PROVE g[k] = (UNION {Further(s, t, w) : w \in g[k - 1]}) \cap Seq(NamesIn(s))
    <3>1. k - 1 \in 0 .. n
      OBVIOUS
    <3>2. g[k - 1] \in SUBSET Seq(NamesIn(s))
      BY <2>1, <3>1
    <3>3. <<k, g[k - 1]>> \in (1 .. n) \X (SUBSET Seq(NamesIn(s)))
      BY <3>2
    <3>4. g[k] = step[<<k, g[k - 1]>>]
      BY <1>4 DEF Follows
    <3> QED
      BY <3>3, <3>4
  <2> QED
    BY <2>1, <2>2
<1>6. IsWay(s, t, <<>>, 0)
  <2>1. <<>> \in Seq(NamesIn(s)) /\ Len(<<>>) = 0
    OBVIOUS
  <2> DEFINE none == <<>>
  <2> HIDE DEF none
  <2>2. none \in Seq(NamesIn(s)) /\ Len(none) = 0
    BY <2>1 DEF none
  <2>3. Along(s, t, none)[0] = t
    BY <2>2, AlongStart
  <2>4. IsWay(s, t, none, 0)
    BY <2>2, <2>3 DEF IsWay
  <2> QED
    BY <2>4 DEF none
<1> DEFINE D == {k \in Nat : k <= n => \A w \in g[k] : IsWay(s, t, w, k)}
<1>7. 0 \in D
  BY <1>5, <1>6
<1>8. ASSUME NEW k \in Nat, k \in D PROVE k + 1 \in D
  <2> SUFFICES ASSUME k + 1 <= n, NEW w \in g[k + 1] PROVE IsWay(s, t, w, k + 1)
    OBVIOUS
  <2>1. k + 1 \in 1 .. n /\ (k + 1) - 1 = k /\ k <= n
    OBVIOUS
  <2>2. PICK v \in g[k] : w \in Further(s, t, v)
    BY <1>5, <2>1
  <2>3. IsWay(s, t, v, k)
    BY <1>8, <2>1
  <2> QED
    BY <2>2, <2>3, FurtherIs
<1>9. Nat \subseteq D
  <2> HIDE DEF D
  <2> QED
    BY <1>7, <1>8, SetInduction
<1>10. \A k \in 0 .. n : \A w \in g[k] : IsWay(s, t, w, k)
  BY <1>9
<1>11. ASSUME NEW k \in 1 .. n PROVE g[k] = UNION {Further(s, t, w) : w \in g[k - 1]}
  <2>1. k - 1 \in 0 .. n /\ k - 1 \in Nat /\ (k - 1) + 1 = k
    OBVIOUS
  <2>2. \A w \in g[k - 1] : \A v \in Further(s, t, w) : IsWay(s, t, v, k)
    <3> SUFFICES ASSUME NEW w \in g[k - 1], NEW v \in Further(s, t, w) PROVE IsWay(s, t, v, k)
      OBVIOUS
    <3>1. IsWay(s, t, w, k - 1)
      BY <1>10, <2>1
    <3>2. IsWay(s, t, v, (k - 1) + 1)
      BY <2>1, <3>1, FurtherIs
    <3> QED
      BY <2>1, <3>2
  <2>3. \A w \in g[k - 1] : Further(s, t, w) \subseteq Seq(NamesIn(s))
    BY <2>2 DEF IsWay
  <2> QED
    BY <1>5, <2>3
<1>12. g = E(g)
  <2>1. g = [k \in 0 .. n |-> g[k]]
    BY <1>5
  <2>2. \A k \in 0 .. n : k # 0 => k \in 1 .. n
    OBVIOUS
  <2>3. \A k \in 0 .. n : g[k] = IF k = 0 THEN {<<>>} ELSE UNION {Further(s, t, w) : w \in g[k - 1]}
    BY <1>5, <1>11, <2>2
  <2> QED
    BY <2>1, <2>3
<1>13. ways = E(ways)
  <2> HIDE DEF E
  <2> QED
    BY <1>12
<1> HIDE DEF ways
<1>14. \A k \in 0 .. n : ways[k] = IF k = 0 THEN {<<>>} ELSE UNION {Further(s, t, w) : w \in ways[k - 1]}
  <2>1. \A f : f = E(f) => \A k \in 0 .. n : f[k] = IF k = 0 THEN {<<>>} ELSE UNION {Further(s, t, w) : w \in f[k - 1]}
    OBVIOUS
  <2> HIDE DEF E
  <2> QED
    BY <1>13, <2>1
<1> DEFINE C == {k \in Nat : k <= n => ways[k] = g[k]}
<1>15. 0 \in C
  <2>1. 0 \in 0 .. n
    OBVIOUS
  <2>2. ways[0] = {<<>>}
    BY <1>14, <2>1
  <2> QED
    BY <1>5, <2>2
<1>16. ASSUME NEW k \in Nat, k \in C PROVE k + 1 \in C
  <2> SUFFICES ASSUME k + 1 <= n PROVE ways[k + 1] = g[k + 1]
    OBVIOUS
  <2>1. k + 1 \in 1 .. n /\ k + 1 \in 0 .. n /\ k + 1 # 0 /\ (k + 1) - 1 = k /\ k <= n
    OBVIOUS
  <2>2. ways[k + 1] = UNION {Further(s, t, w) : w \in ways[k]} /\ g[k + 1] = UNION {Further(s, t, w) : w \in g[k]}
    BY <1>11, <1>14, <2>1
  <2> QED
    BY <1>16, <2>1, <2>2
<1>17. Nat \subseteq C
  <2> HIDE DEF C
  <2> QED
    BY <1>15, <1>16, SetInduction
<1>18. ways[n] = g[n] /\ n \in 0 .. n
  BY <1>17
<1> QED
  BY <1>1, <1>10, <1>18

(* A way down from a type begins with one of its fields, and goes on from there. *)
LEMMA WayBegins ==
    ASSUME NEW s, IsSchema(s), NEW t \in DOMAIN s.types, IsComposite(s, t), NEW n \in Nat, NEW way, IsWay(s, t, way, n + 1)
    PROVE  \E f \in Range(FieldsOf(s, t)), rest \in Seq(NamesIn(s)) :
                way = <<f.name>> \o rest /\ IsWay(s, f.type, rest, n)
<1> DEFINE long == Along(s, t, way)
           rest == Tail(way)
<1>1. /\ way \in Seq(NamesIn(s)) /\ Len(way) <= n + 1 /\ Len(way) \in Nat
      /\ \A k \in 0 .. Len(way) : long[k] \in DOMAIN s.types
      /\ \A k \in 1 .. Len(way) : IsComposite(s, long[k - 1]) /\ way[k] \in Names(s, long[k - 1])
      /\ Len(way) = n + 1 \/ ~IsComposite(s, long[Len(way)])
  BY DEF IsWay
<1>2. long[0] = t
  BY <1>1, AlongStart
<1> HIDE DEF long
<1>3. Len(way) # 0
  BY <1>1, <1>2
<1>4. 1 \in 1 .. Len(way) /\ 1 - 1 = 0 /\ way[1] \in Names(s, t)
  BY <1>1, <1>2, <1>3
<1>5. PICK f \in Range(FieldsOf(s, t)) : way[1] = f.name
  BY <1>4 DEF Names
<1>6. rest \in Seq(NamesIn(s)) /\ Len(rest) = Len(way) - 1 /\ \A k \in 1 .. Len(rest) : rest[k] = way[k + 1]
  BY <1>1, <1>3
<1> HIDE DEF rest
<1>7. f.name \in NamesIn(s) /\ f.type \in DOMAIN s.types
  BY FieldIs
<1>8. way = <<f.name>> \o rest
  <2> DEFINE path == <<f.name>> \o rest
  <2>1. /\ path \in Seq(NamesIn(s)) /\ Len(path) = Len(rest) + 1 /\ Len(rest) \in Nat
        /\ path[1] = f.name /\ \A k \in 1 .. Len(rest) : path[k + 1] = rest[k]
    BY <1>6, <1>7, LongerPath
  <2> HIDE DEF path
  <2>2. Len(path) = Len(way)
    BY <1>1, <1>6, <2>1
  <2>3. ASSUME NEW k \in 1 .. Len(way) PROVE path[k] = way[k]
    <3>1. CASE k = 1
      BY <1>5, <2>1, <3>1
    <3>2. CASE k # 1
      <4>1. k - 1 \in 1 .. Len(rest) /\ (k - 1) + 1 = k
        BY <1>1, <1>6, <3>2
      <4>2. path[(k - 1) + 1] = rest[k - 1] /\ rest[k - 1] = way[(k - 1) + 1]
        BY <1>6, <2>1, <4>1
      <4> QED
        BY <4>1, <4>2
    <3> QED
      BY <3>1, <3>2
  <2>4. path = [k \in 1 .. Len(path) |-> path[k]] /\ way = [k \in 1 .. Len(way) |-> way[k]]
    BY <1>1, <2>1
  <2>5. path = way
    BY <2>2, <2>3, <2>4
  <2> QED
    BY <2>5 DEF path
<1> DEFINE short == Along(s, f.type, rest)
<1>9. \A k \in 0 .. Len(rest) : long[k + 1] = short[k]
  <2>1. \A k \in 0 .. Len(rest) : Along(s, t, <<f.name>> \o rest)[k + 1] = short[k]
    BY <1>6, AlongBelow
  <2> HIDE DEF short
  <2> QED
    BY <1>8, <2>1 DEF long
<1> HIDE DEF short
<1>10. IsWay(s, f.type, rest, n)
  <2>1. Len(rest) \in Nat /\ Len(rest) <= n /\ Len(rest) + 1 = Len(way)
    BY <1>1, <1>3, <1>6
  <2>2. ASSUME NEW k \in 0 .. Len(rest) PROVE short[k] \in DOMAIN s.types
    <3>1. k + 1 \in 0 .. Len(way)
      BY <1>1, <2>1
    <3> QED
      BY <1>1, <1>9, <3>1
  <2>3. ASSUME NEW k \in 1 .. Len(rest) PROVE IsComposite(s, short[k - 1]) /\ rest[k] \in Names(s, short[k - 1])
    <3>1. k + 1 \in 1 .. Len(way) /\ (k + 1) - 1 = k /\ k - 1 \in 0 .. Len(rest) /\ (k - 1) + 1 = k
      BY <1>1, <2>1
    <3>2. IsComposite(s, long[(k + 1) - 1]) /\ way[k + 1] \in Names(s, long[(k + 1) - 1])
      BY <1>1, <3>1
    <3>3. long[(k - 1) + 1] = short[k - 1]
      BY <1>9, <3>1
    <3> QED
      BY <1>6, <3>1, <3>2, <3>3
  <2>4. Len(rest) = n \/ ~IsComposite(s, short[Len(rest)])
    <3>1. long[Len(rest) + 1] = short[Len(rest)]
      BY <1>9, <2>1
    <3> QED
      BY <1>1, <2>1, <3>1
  <2> QED
    BY <1>6, <2>1, <2>2, <2>3, <2>4 DEF IsWay, short
<1> QED
  BY <1>6, <1>8, <1>10

(* The marks that a way meets, of leaves on offer and of entries of the ledger: one in all. *)
On(marks, way) == {x \in marks : IsPrefix(x.path, way)}
OneOf(A, B) == (B = {} /\ \E x : A = {x}) \/ (A = {} /\ \E x : B = {x})
MetOnce(offered, cut, way) == OneOf(On(offered, way), On(cut, way))

(* Entries for names: a way meets the one for the name it begins with. *)
LEMMA CutsMet ==
    ASSUME NEW s, NEW names \in SUBSET NamesIn(s), NEW reason, NEW n \in NamesIn(s), NEW rest \in Seq(NamesIn(s))
    PROVE  On(Cuts(names, reason), <<n>> \o rest) = IF n \in names THEN {[path |-> <<n>>, reason |-> reason]} ELSE {}
<1> DEFINE way == <<n>> \o rest
           entry(m) == [path |-> <<m>>, reason |-> reason]
<1>1. \A m \in names : IsPrefix(entry(m).path, way) <=> m = n
  <2> SUFFICES ASSUME NEW m \in names PROVE IsPrefix(<<m>>, way) <=> m = n
    OBVIOUS
  <2> QED
    BY PrefixName
<1> HIDE DEF way
<1>2. Cuts(names, reason) = {entry(m) : m \in names}
  BY DEF Cuts
<1> HIDE DEF entry
<1>3. On(Cuts(names, reason), way) = {x \in {entry(m) : m \in names} : IsPrefix(x.path, way)}
  BY <1>2 DEF On
<1>4. On(Cuts(names, reason), way) = IF n \in names THEN {entry(n)} ELSE {}
  BY <1>1, <1>3
<1> QED
  BY <1>4 DEF way, entry

(* If every field of a type is an entry of the ledger, each way from it meets one. *)
LEMMA AllCutMet ==
    ASSUME NEW s, IsSchema(s), NEW t \in DOMAIN s.types, IsComposite(s, t), NEW n \in Nat, NEW way, IsWay(s, t, way, n + 1), NEW reason
    PROVE  MetOnce(Range(<<>>), Cuts(Names(s, t), reason), way)
<1> DEFINE names == Names(s, t)
<1>1. PICK f \in Range(FieldsOf(s, t)), rest \in Seq(NamesIn(s)) : way = <<f.name>> \o rest /\ IsWay(s, f.type, rest, n)
  BY WayBegins
<1>2. f.name \in NamesIn(s) /\ f.name \in names /\ names \in SUBSET NamesIn(s)
  BY FieldIs
<1> HIDE DEF names
<1>3. On(Cuts(names, reason), <<f.name>> \o rest) = IF f.name \in names THEN {[path |-> <<f.name>>, reason |-> reason]} ELSE {}
  <2> DEFINE m == f.name
  <2>1. m \in NamesIn(s)
    BY <1>2
  <2> HIDE DEF m
  <2>2. On(Cuts(names, reason), <<m>> \o rest) = IF m \in names THEN {[path |-> <<m>>, reason |-> reason]} ELSE {}
    BY <1>2, <2>1, CutsMet
  <2> QED
    BY <2>2 DEF m
<1>4. \E x : On(Cuts(names, reason), way) = {x}
  BY <1>1, <1>2, <1>3
<1>5. On(Range(<<>>), way) = {}
  BY DEF Range, On
<1> QED
  BY <1>4, <1>5 DEF MetOnce, OneOf, names

(* What a field leads to by itself is met by the ways along it. *)
LEMMA EndMet ==
    ASSUME NEW s, IsSchema(s), NEW t \in DOMAIN s.types, NEW f \in Range(FieldsOf(s, t)),
           NEW n \in NamesIn(s), NEW rest \in Seq(NamesIn(s))
    PROVE  LET offered == Range(End(s, f).offered)
               cut == End(s, f).cut
           IN  IF n = f.name THEN MetOnce(offered, cut, <<n>> \o rest)
               ELSE On(offered, <<n>> \o rest) = {} /\ On(cut, <<n>> \o rest) = {}
<1> DEFINE way == <<n>> \o rest
           leaf == [path |-> <<f.name>>, type |-> f.type, meaning |-> f.meaning]
           cuts(reason) == Cuts({f.name}, reason)
<1>1. f.name \in NamesIn(s)
  BY FieldIs
<1>2. \A reason : On(cuts(reason), way) = IF n = f.name THEN {[path |-> <<n>>, reason |-> reason]} ELSE {}
  <2> SUFFICES ASSUME NEW reason PROVE On(cuts(reason), way) = IF n = f.name THEN {[path |-> <<n>>, reason |-> reason]} ELSE {}
    OBVIOUS
  <2>1. {f.name} \in SUBSET NamesIn(s)
    BY <1>1
  <2>2. On(cuts(reason), way) = IF n \in {f.name} THEN {[path |-> <<n>>, reason |-> reason]} ELSE {}
    BY <2>1, CutsMet
  <2> QED
    BY <2>2
<1>3. leaf.path = <<f.name>> /\ (IsPrefix(<<f.name>>, way) <=> f.name = n)
  BY <1>1, PrefixName
<1> HIDE DEF leaf, way, cuts
<1>4. On({leaf}, way) = IF n = f.name THEN {leaf} ELSE {}
  BY <1>3 DEF On
<1>5. \A S : On({}, S) = {}
  BY DEF On
<1>6. Range(<<leaf>>) = {leaf} /\ Range(<<>>) = {}
  BY DEF Range
<1>7. \/ Range(End(s, f).offered) = {} /\ \E reason : End(s, f).cut = cuts(reason)
      \/ Range(End(s, f).offered) = {leaf} /\ End(s, f).cut = {}
  BY <1>6 DEF End, Found, Leaf, leaf, cuts
<1> DEFINE A == Range(End(s, f).offered)
           B == End(s, f).cut
<1>8. CASE A = {} /\ \E reason : B = cuts(reason)
  <2>1. PICK reason : B = cuts(reason)
    BY <1>8
  <2>2. On(A, way) = {} /\ On(B, way) = IF n = f.name THEN {[path |-> <<n>>, reason |-> reason]} ELSE {}
    BY <1>2, <1>5, <1>8, <2>1
  <2> HIDE DEF A, B
  <2>3. IF n = f.name THEN MetOnce(A, B, way) ELSE On(A, way) = {} /\ On(B, way) = {}
    BY <2>2 DEF MetOnce, OneOf
  <2> QED
    BY <2>3 DEF A, B, way
<1>9. CASE A = {leaf} /\ B = {}
  <2>1. On(B, way) = {} /\ On(A, way) = IF n = f.name THEN {leaf} ELSE {}
    BY <1>4, <1>5, <1>9
  <2> HIDE DEF A, B
  <2>2. IF n = f.name THEN MetOnce(A, B, way) ELSE On(A, way) = {} /\ On(B, way) = {}
    BY <2>1 DEF MetOnce, OneOf
  <2> QED
    BY <2>2 DEF A, B, way
<1> QED
  BY <1>7, <1>8, <1>9

(* What is found below a field, seen from above, is met by a way along the field where the
   way goes on, and by no other. *)
LEMMA BelowMet ==
    ASSUME NEW s, NEW name \in NamesIn(s), NEW found \in FoundIn(s), NEW n \in NamesIn(s), NEW rest \in Seq(NamesIn(s)),
           name = n => MetOnce(Range(found.offered), found.cut, rest)
    PROVE  LET offered == Range(Below(name, found).offered)
               cut == Below(name, found).cut
           IN  IF n = name THEN MetOnce(offered, cut, <<n>> \o rest)
               ELSE On(offered, <<n>> \o rest) = {} /\ On(cut, <<n>> \o rest) = {}
<1> DEFINE way == <<n>> \o rest
           lead(x) == [x EXCEPT !.path = <<name>> \o @]
           offered == Range(Below(name, found).offered)
           cut == Below(name, found).cut
<1>1. found.offered \in Seq(LeavesIn(s)) /\ found.cut \in SUBSET CutsIn(s)
  BY DEF FoundIn
<1>2. Range(found.offered) \subseteq LeavesIn(s)
  BY <1>1, RangeIs
<1>3. \A x \in LeavesIn(s) \cup CutsIn(s) : lead(x).path = <<name>> \o x.path /\ x.path \in Seq(NamesIn(s))
  BY DEF LeavesIn, CutsIn
<1>4. cut = {lead(x) : x \in found.cut}
  BY DEF Below, Found
<1>5. offered = {lead(x) : x \in Range(found.offered)}
  <2>1. Below(name, found).offered = [i \in DOMAIN found.offered |-> lead(found.offered[i])]
    BY DEF Below, Found
  <2> HIDE DEF lead
  <2> QED
    BY <2>1 DEF Range
<1>6. \A x \in LeavesIn(s) \cup CutsIn(s) : IsPrefix(lead(x).path, way) <=> name = n /\ IsPrefix(x.path, rest)
  <2> SUFFICES ASSUME NEW x \in LeavesIn(s) \cup CutsIn(s) PROVE IsPrefix(lead(x).path, way) <=> name = n /\ IsPrefix(x.path, rest)
    OBVIOUS
  <2>1. lead(x).path = <<name>> \o x.path /\ x.path \in Seq(NamesIn(s))
    BY <1>3
  <2>2. IsPrefix(<<name>> \o x.path, <<n>> \o rest) <=> name = n /\ IsPrefix(x.path, rest)
    BY <2>1, PrefixBelow
  <2> HIDE DEF lead
  <2> QED
    BY <2>1, <2>2
<1> HIDE DEF lead, way, offered, cut
<1>7. \A S \in SUBSET (LeavesIn(s) \cup CutsIn(s)) :
        On({lead(x) : x \in S}, way) = IF name = n THEN {lead(x) : x \in On(S, rest)} ELSE {}
  BY <1>6 DEF On
<1>8. /\ On(offered, way) = IF name = n THEN {lead(x) : x \in On(Range(found.offered), rest)} ELSE {}
      /\ On(cut, way) = IF name = n THEN {lead(x) : x \in On(found.cut, rest)} ELSE {}
  <2>1. Range(found.offered) \in SUBSET (LeavesIn(s) \cup CutsIn(s)) /\ found.cut \in SUBSET (LeavesIn(s) \cup CutsIn(s))
    BY <1>1, <1>2
  <2> QED
    BY <1>4, <1>5, <1>7, <2>1
<1>9. CASE name = n
  <2> DEFINE A == On(Range(found.offered), rest)
             B == On(found.cut, rest)
  <2>1. OneOf(A, B)
    BY <1>9 DEF MetOnce
  <2> HIDE DEF A, B
  <2>2. OneOf({lead(x) : x \in A}, {lead(x) : x \in B})
    <3>1. CASE B = {} /\ \E x : A = {x}
      <4>1. PICK x : A = {x}
        BY <3>1
      <4>2. {lead(y) : y \in A} = {lead(x)} /\ {lead(y) : y \in B} = {}
        BY <3>1, <4>1
      <4> QED
        BY <4>2 DEF OneOf
    <3>2. CASE A = {} /\ \E x : B = {x}
      <4>1. PICK x : B = {x}
        BY <3>2
      <4>2. {lead(y) : y \in B} = {lead(x)} /\ {lead(y) : y \in A} = {}
        BY <3>2, <4>1
      <4> QED
        BY <4>2 DEF OneOf
    <3> QED
      BY <2>1, <3>1, <3>2 DEF OneOf
  <2>3. MetOnce(offered, cut, way)
    BY <1>8, <1>9, <2>2 DEF MetOnce, A, B
  <2> QED
    BY <1>9, <2>3 DEF way, offered, cut
<1> QED
  BY <1>8, <1>9 DEF way, offered, cut

(* One level of the walk: if the ways below are met once, so are the ways from here. *)
LEMMA LevelMet ==
    ASSUME NEW s, IsSchema(s), NEW next \in [Places(s) -> FoundIn(s)], NEW p \in Places(s), NEW n \in Nat,
           \A q \in Places(s) : \A rest : IsComposite(s, q[1]) /\ IsWay(s, q[1], rest, n) => MetOnce(Range(next[q].offered), next[q].cut, rest),
           IsComposite(s, p[1]), NEW way, IsWay(s, p[1], way, n + 1)
    PROVE  LET level == Level(s, p[1], p[2], FoundAlong(s, next, p)) IN MetOnce(Range(level.offered), level.cut, way)
<1> DEFINE t == p[1]
           above == p[2]
           fields == FieldsOf(s, t)
           found == FoundAlong(s, next, p)
           lists == [i \in DOMAIN found |-> found[i].offered]
           level == Level(s, t, above, found)
           down(i) == <<fields[i].type, above \cup {t}>>
           implied == Cuts(ImplementationOnly(s, t), "interface-implementation")
<1>1. t \in DOMAIN s.types /\ above \in SUBSET DOMAIN s.types
  BY DEF Places
<1>2. /\ fields \in Seq(FieldsIn(s)) /\ DOMAIN fields = 1 .. Len(fields) /\ Len(fields) \in Nat
      /\ \A i \in DOMAIN fields : fields[i] \in Range(fields)
      /\ \A i, j \in DOMAIN fields : fields[i].name = fields[j].name => i = j
      /\ \A f \in Range(fields) : f.type \in DOMAIN s.types /\ f.name \in NamesIn(s) /\ f.name \in Names(s, t)
  BY <1>1, FieldIs DEF Range
<1>3. /\ DOMAIN found = DOMAIN fields
      /\ lists \in Seq(Seq(LeavesIn(s)))
  BY <1>2, AlongTyped
<1>4. \A i \in DOMAIN fields :
        found[i] = IF Ends(s, fields[i]) THEN End(s, fields[i]) ELSE Below(fields[i].name, next[down(i)])
  BY DEF FoundAlong
<1>5. level = IF t \in above THEN Found(<<>>, Cuts(Names(s, t), "recursion"))
              ELSE Found(FlattenSeq(lists), implied \cup UNION {found[i].cut : i \in DOMAIN found})
  BY DEF Level
<1>6. PICK f \in Range(fields), rest \in Seq(NamesIn(s)) : way = <<f.name>> \o rest /\ IsWay(s, f.type, rest, n)
  BY <1>1, WayBegins
<1>7. PICK k \in DOMAIN fields : f = fields[k]
  BY DEF Range
<1>8. /\ f.name \in NamesIn(s) /\ f.name \in Names(s, t)
      /\ Names(s, t) \in SUBSET NamesIn(s) /\ ImplementationOnly(s, t) \in SUBSET NamesIn(s) /\ f.name \notin ImplementationOnly(s, t)
  <2>1. \A i \in s.types[t].implementedBy : Names(s, i) \subseteq NamesIn(s)
    BY <1>1, FieldIs DEF IsSchema
  <2>2. Names(s, t) \in SUBSET NamesIn(s)
    BY <1>1, FieldIs
  <2> HIDE DEF fields
  <2> QED
    BY <1>2, <2>1, <2>2 DEF ImplementationOnly
<1> HIDE DEF found, lists, fields, level, implied, t, above
<1>9. CASE t \in above
  <2>1. level.offered = <<>> /\ level.cut = Cuts(Names(s, t), "recursion")
    BY <1>5, <1>9 DEF Found
  <2>2. IsComposite(s, t) /\ IsWay(s, t, way, n + 1)
    BY DEF t
  <2>3. MetOnce(Range(<<>>), Cuts(Names(s, t), "recursion"), way)
    BY <1>1, <2>2, AllCutMet
  <2> QED
    BY <2>1, <2>3 DEF level, t, above, found
<1>10. CASE t \notin above
  <2>1. /\ Range(level.offered) = UNION {Range(lists[i]) : i \in DOMAIN lists}
        /\ level.cut = implied \cup UNION {found[i].cut : i \in DOMAIN found}
    <3>1. level.offered = FlattenSeq(lists) /\ level.cut = implied \cup UNION {found[i].cut : i \in DOMAIN found}
      BY <1>5, <1>10 DEF Found
    <3> QED
      BY <1>3, <3>1, FlattenAre
  <2>2. DOMAIN lists = DOMAIN fields /\ \A i \in DOMAIN fields : lists[i] = found[i].offered
    BY <1>3 DEF lists
  <2>3. On(implied, way) = {}
    BY <1>6, <1>8, CutsMet DEF implied
  <2>4. ASSUME NEW i \in DOMAIN fields
        PROVE  IF i = k THEN MetOnce(Range(found[i].offered), found[i].cut, way)
               ELSE On(Range(found[i].offered), way) = {} /\ On(found[i].cut, way) = {}
    <3> DEFINE g == fields[i]
    <3>1. g \in Range(fields) /\ g.name \in NamesIn(s) /\ g.type \in DOMAIN s.types /\ (f.name = g.name <=> i = k)
      BY <1>2, <1>7
    <3>2. down(i) \in Places(s) /\ down(i)[1] = g.type
      BY <1>1, <3>1 DEF Places
    <3> HIDE DEF g, down
    <3>3. CASE Ends(s, g)
      <4>1. found[i] = End(s, g)
        BY <1>4, <3>3 DEF g
      <4>2. IF f.name = g.name THEN MetOnce(Range(End(s, g).offered), End(s, g).cut, <<f.name>> \o rest)
            ELSE On(Range(End(s, g).offered), <<f.name>> \o rest) = {} /\ On(End(s, g).cut, <<f.name>> \o rest) = {}
        BY <1>1, <1>8, <3>1, EndMet DEF fields
      <4> QED
        BY <1>6, <3>1, <4>1, <4>2
    <3>4. CASE ~Ends(s, g)
      <4>1. found[i] = Below(g.name, next[down(i)])
        BY <1>4, <3>4 DEF g
      <4>2. IsComposite(s, g.type) /\ next[down(i)] \in FoundIn(s)
        BY <3>2, <3>4 DEF Ends
      <4>3. g.name = f.name => MetOnce(Range(next[down(i)].offered), next[down(i)].cut, rest)
        <5> SUFFICES ASSUME g.name = f.name PROVE MetOnce(Range(next[down(i)].offered), next[down(i)].cut, rest)
          OBVIOUS
        <5>1. g = f
          BY <1>7, <3>1 DEF g
        <5>2. IsComposite(s, down(i)[1]) /\ IsWay(s, down(i)[1], rest, n)
          BY <1>6, <3>2, <4>2, <5>1
        <5> QED
          BY <3>2, <5>2
      <4>4. IF f.name = g.name THEN MetOnce(Range(Below(g.name, next[down(i)]).offered), Below(g.name, next[down(i)]).cut, <<f.name>> \o rest)
            ELSE /\ On(Range(Below(g.name, next[down(i)]).offered), <<f.name>> \o rest) = {}
                 /\ On(Below(g.name, next[down(i)]).cut, <<f.name>> \o rest) = {}
        BY <1>8, <3>1, <4>2, <4>3, BelowMet
      <4> QED
        BY <1>6, <3>1, <4>1, <4>4
    <3> QED
      BY <3>3, <3>4
  <2>5. On(Range(level.offered), way) = On(Range(found[k].offered), way)
    <3>1. Range(level.offered) = UNION {Range(found[i].offered) : i \in DOMAIN fields}
      BY <2>1, <2>2
    <3>2. \A i \in DOMAIN fields : i # k => On(Range(found[i].offered), way) = {}
      BY <2>4
    <3> QED
      BY <3>1, <3>2 DEF On
  <2>6. On(level.cut, way) = On(found[k].cut, way)
    <3>1. \A i \in DOMAIN fields : i # k => On(found[i].cut, way) = {}
      BY <2>4
    <3> QED
      BY <1>3, <2>1, <2>3, <3>1 DEF On
  <2>7. MetOnce(Range(found[k].offered), found[k].cut, way)
    BY <2>4
  <2> QED
    BY <2>5, <2>6, <2>7 DEF MetOnce, level, t, above, found
<1> QED
  BY <1>9, <1>10

(* However deep discovery goes, a way one level past its depth is met once. *)
LEMMA WalkMet ==
    ASSUME NEW s, IsSchema(s), NEW depth \in Nat, NEW t \in DOMAIN s.types, IsComposite(s, t), NEW way, IsWay(s, t, way, depth + 1)
    PROVE  MetOnce(Range(Walk(s, t, depth).offered), Walk(s, t, depth).cut, way)
<1>1. PICK levels : /\ WalkLevels(s, depth, levels)
                    /\ \A at \in DOMAIN s.types : Walk(s, at, depth) = levels[depth][<<at, {}>>]
  BY WalkIs
<1> DEFINE Met(k) == \A q \in Places(s) : \A w :
                        IsComposite(s, q[1]) /\ IsWay(s, q[1], w, k + 1) => MetOnce(Range(levels[k][q].offered), levels[k][q].cut, w)
           D == {k \in Nat : k <= depth => Met(k)}
<1>2. \A k \in 0 .. depth : levels[k] \in [Places(s) -> FoundIn(s)]
  BY <1>1 DEF WalkLevels
<1>3. Met(0)
  <2> SUFFICES ASSUME NEW q \in Places(s), NEW w, IsComposite(s, q[1]), IsWay(s, q[1], w, 0 + 1)
               PROVE  MetOnce(Range(levels[0][q].offered), levels[0][q].cut, w)
    OBVIOUS
  <2> DEFINE at == q[1]
             none == 0
  <2>1. at \in DOMAIN s.types /\ IsComposite(s, at) /\ IsWay(s, at, w, none + 1) /\ none \in Nat
    BY DEF Places
  <2>2. levels[0][q] = Found(<<>>, Cuts(Names(s, at), "depth"))
    BY <1>1 DEF WalkLevels, AtBottom
  <2> HIDE DEF at, none
  <2>3. MetOnce(Range(<<>>), Cuts(Names(s, at), "depth"), w)
    BY <2>1, AllCutMet
  <2> QED
    BY <2>2, <2>3 DEF Found
<1>4. ASSUME NEW k \in Nat, k + 1 <= depth, Met(k) PROVE Met(k + 1)
  <2>1. k \in 0 .. depth /\ k + 1 \in 1 .. depth /\ (k + 1) - 1 = k
    BY <1>4
  <2>2. levels[k] \in [Places(s) -> FoundIn(s)]
    BY <1>2, <2>1
  <2>3. \A q \in Places(s) : levels[k + 1][q] = Level(s, q[1], q[2], FoundAlong(s, levels[k], q))
    BY <1>1, <2>1 DEF WalkLevels
  <2> DEFINE next == levels[k]
             m == k + 1
  <2>4. m \in Nat
    OBVIOUS
  <2>5. \A q \in Places(s) : \A rest : IsComposite(s, q[1]) /\ IsWay(s, q[1], rest, m) => MetOnce(Range(next[q].offered), next[q].cut, rest)
    BY <1>4
  <2> SUFFICES ASSUME NEW q \in Places(s), NEW w, IsComposite(s, q[1]), IsWay(s, q[1], w, m + 1)
               PROVE  MetOnce(Range(levels[k + 1][q].offered), levels[k + 1][q].cut, w)
    OBVIOUS
  <2> DEFINE level == Level(s, q[1], q[2], FoundAlong(s, next, q))
  <2> HIDE DEF m, next
  <2>6. MetOnce(Range(level.offered), level.cut, w)
    BY <2>2, <2>4, <2>5, LevelMet DEF next
  <2> QED
    BY <2>3, <2>6 DEF next
<1>5. depth \in D
  <2> HIDE DEF Met
  <2>1. 0 \in D /\ \A k \in Nat : k \in D => k + 1 \in D
    BY <1>3, <1>4
  <2> HIDE DEF D
  <2> QED
    BY <2>1, SetInduction
<1>6. Met(depth)
  <2> HIDE DEF Met
  <2> QED
    BY <1>5
<1>7. <<t, {}>> \in Places(s) /\ <<t, {}>>[1] = t
  BY DEF Places
<1>8. MetOnce(Range(levels[depth][<<t, {}>>].offered), levels[depth][<<t, {}>>].cut, way)
  BY <1>6, <1>7
<1> QED
  BY <1>1, <1>8

(* The rows of a root that has fields have fields. *)
LEMMA RowComposite ==
    ASSUME NEW s, NEW r, IsComposite(s, r.type), NEW rows, rows = None \/ EnvelopeAllowed(s, r, rows)
    PROVE  IsComposite(s, RowType(s, r, rows))
  BY DEF RowType, EnvelopeAllowed, Connection

(* What is discovered for a root is a total ledger. *)
LEMMA DiscoveredMet ==
    ASSUME NEW s, IsSchema(s), NEW depth \in Nat, NEW r, NEW rows, IsComposite(s, r.type),
           RowType(s, r, rows) \in DOMAIN s.types, IsComposite(s, RowType(s, r, rows))
    PROVE  LET t == RowType(s, r, rows)
               found == Discovered(s, r, rows, depth)
           IN  /\ \A p \in Range(Paths(found.offered)) : Selectable(s, t, p)
               /\ \A way \in Ways(s, t, depth + 1) :
                        Cardinality({i \in DOMAIN found.offered : IsPrefix(found.offered[i].path, way)})
                            + Cardinality({c \in found.cut : IsPrefix(c.path, way)}) = 1
<1> DEFINE t == RowType(s, r, rows)
           offered == Discovered(s, r, rows, depth).offered
           cut == Discovered(s, r, rows, depth).cut
<1>1. offered \in Seq(LeavesIn(s)) /\ (\A x \in Range(offered) : Selectable(s, t, x.path)) /\ KeyedOnce(PathOf(s), offered)
  BY DiscoveredSound DEF Sound
<1>2. /\ \A i \in DOMAIN offered : offered[i] \in LeavesIn(s) /\ offered[i] \in Range(offered)
      /\ \A x \in Range(offered) : \E i \in DOMAIN offered : x = offered[i]
  BY <1>1 DEF Range
<1>3. ASSUME NEW way, IsWay(s, t, way, depth + 1) PROVE MetOnce(Range(offered), cut, way)
  <2>1. Discovered(s, r, rows, depth) = Walk(s, t, depth)
    BY DEF Discovered
  <2> DEFINE at == t
  <2>2. at \in DOMAIN s.types /\ IsComposite(s, at) /\ IsWay(s, at, way, depth + 1) /\ at = t
    BY <1>3
  <2> HIDE DEF at, t
  <2>3. MetOnce(Range(Walk(s, at, depth).offered), Walk(s, at, depth).cut, way)
    BY <2>2, WalkMet
  <2> QED
    BY <2>1, <2>2, <2>3 DEF t
<1>4. \A way \in Ways(s, t, depth + 1) : IsWay(s, t, way, depth + 1)
  <2> DEFINE at == t
             n == depth + 1
  <2>1. at \in DOMAIN s.types /\ n \in Nat
    OBVIOUS
  <2> HIDE DEF at, n
  <2>2. \A way \in Ways(s, at, n) : IsWay(s, at, way, n)
    BY <2>1, WaysAre
  <2> QED
    BY <2>2 DEF at, n
<1> HIDE DEF t, offered, cut
<1>5. \A p \in Range(Paths(offered)) : Selectable(s, t, p)
  BY <1>1, <1>2 DEF Paths, Range
<1>6. ASSUME NEW way, MetOnce(Range(offered), cut, way)
      PROVE  Cardinality({i \in DOMAIN offered : IsPrefix(offered[i].path, way)}) + Cardinality({c \in cut : IsPrefix(c.path, way)}) = 1
  <2> DEFINE A == {i \in DOMAIN offered : IsPrefix(offered[i].path, way)}
             B == {c \in cut : IsPrefix(c.path, way)}
  <2>1. On(cut, way) = B /\ On(Range(offered), way) = {x \in Range(offered) : IsPrefix(x.path, way)}
    BY DEF On
  <2>2. CASE B = {} /\ \E x : On(Range(offered), way) = {x}
    <3>1. PICK x : On(Range(offered), way) = {x}
      BY <2>2
    <3>2. x \in Range(offered) /\ IsPrefix(x.path, way) /\ \A y \in Range(offered) : IsPrefix(y.path, way) => y = x
      BY <2>1, <3>1
    <3>3. PICK i \in DOMAIN offered : x = offered[i]
      BY <1>2, <3>2
    <3>4. \A k \in A : offered[k] = x
      BY <1>2, <3>2
    <3>5. \A k \in A : k = i
      BY <1>1, <3>3, <3>4 DEF KeyedOnce
    <3>6. A = {i}
      BY <3>2, <3>3, <3>5
    <3>7. Cardinality(A) = 1 /\ Cardinality(B) = 0
      BY <2>2, <3>6, FS_EmptySet, FS_Singleton
    <3> QED
      BY <3>7
  <2>3. CASE On(Range(offered), way) = {} /\ \E x : B = {x}
    <3>1. A = {}
      BY <1>2, <2>1, <2>3
    <3>2. Cardinality(A) = 0 /\ Cardinality(B) = 1
      BY <2>3, <3>1, FS_EmptySet, FS_Singleton
    <3> QED
      BY <3>2
  <2> QED
    BY <1>6, <2>1, <2>2, <2>3 DEF MetOnce, OneOf
<1> QED
  BY <1>3, <1>4, <1>5, <1>6 DEF t, offered, cut

(* The inventory at hand says of each root selected what was discovered for it, and names
   none twice. *)
Legible(inv) ==
    LET s == inv.schema
        root(i) == Root(s, inv.selections[i].field)
        row(i) == RowType(s, root(i), inv.selections[i].rows)
    IN  /\ IsSchema(s) /\ inv.depth \in Nat /\ FieldsOnce(inv.selections)
        /\ \A i \in DOMAIN inv.selections :
            /\ {"field", "rows"} \subseteq DOMAIN inv.selections[i]
            /\ IsComposite(s, root(i).type) /\ row(i) \in DOMAIN s.types /\ IsComposite(s, row(i))
            /\ inv.reviews[i].found = Discovered(s, root(i), inv.selections[i].rows, inv.depth)
LedgerInv == schema \in Schemas /\ (inventory # None => IsInventory(inventory) /\ Legible(inventory))

(* So does one that was just taken, *)
LEMMA LegibleTaken ==
    ASSUME NEW s, IsSchema(s), NEW o, o.depth \in Nat, Inventoriable(s, SelectionsFor(s, o), o.depth)
    PROVE  Legible(InventoryOf(s, SelectionsFor(s, o), o.depth)) /\ IsInventory(InventoryOf(s, SelectionsFor(s, o), o.depth))
<1> DEFINE roots == Chosen(s, o)
           sels == SelectionsFor(s, o)
           inv == InventoryOf(s, sels, o.depth)
<1>1. roots \in Seq(Range(s.roots)) /\ \A i \in DOMAIN roots : roots[i] \in Range(s.roots)
  BY SomeRoots DEF Chosen
<1>2. sels = [i \in DOMAIN roots |-> Selection(s, roots[i], o)]
  BY DEF SelectionsFor
<1>3. FieldsOnce(sels)
  BY ProposalsFor DEF Proposes
<1> HIDE DEF roots
<1>4. DOMAIN sels = DOMAIN roots /\ \A i \in DOMAIN sels : sels[i].field = roots[i].name /\ {"field", "rows"} \subseteq DOMAIN sels[i]
  BY <1>2 DEF Selection
<1>5. /\ inv.schema = s /\ inv.depth = o.depth /\ inv.selections = sels /\ IsInventory(inv)
      /\ inv.reviews = [i \in DOMAIN sels |-> Review(s, sels[i], o.depth)]
  BY DEF InventoryOf, IsInventory
<1>6. \A sel \in Range(sels) : /\ sel.rows # None => EnvelopeAllowed(s, Root(s, sel.field), sel.rows)
                               /\ Supported(s, Root(s, sel.field), sel.rows, o.depth)
  BY DEF Inventoriable
<1> HIDE DEF sels, inv
<1>7. ASSUME NEW i \in DOMAIN sels
      PROVE  LET r == Root(s, sels[i].field)
                 t == RowType(s, r, sels[i].rows)
             IN  /\ IsComposite(s, r.type) /\ t \in DOMAIN s.types /\ IsComposite(s, t)
                 /\ inv.reviews[i].found = Discovered(s, r, sels[i].rows, o.depth)
  <2> DEFINE r == roots[i]
             rows == sels[i].rows
  <2>1. r \in Range(s.roots) /\ Root(s, sels[i].field) = r /\ sels[i] \in Range(sels)
    <3>1. r \in Range(s.roots) /\ sels[i].field = r.name
      BY <1>1, <1>4
    <3>2. Root(s, r.name) = r
      BY <3>1, RootIs
    <3> QED
      BY <3>1, <3>2 DEF Range
  <2> HIDE DEF r
  <2>2. (rows = None \/ EnvelopeAllowed(s, r, rows)) /\ Supported(s, r, rows, o.depth)
    BY <1>6, <2>1
  <2>3. inv.reviews[i].found = Discovered(s, r, rows, o.depth)
    BY <1>5, <2>1 DEF Review
  <2> HIDE DEF rows
  <2>4. IsComposite(s, r.type)
    BY <2>2 DEF Supported, Discovered, Found
  <2>5. RowType(s, r, rows) \in DOMAIN s.types /\ IsComposite(s, RowType(s, r, rows))
    BY <2>1, <2>2, <2>4, RowTyped, RowComposite
  <2> QED
    BY <2>1, <2>3, <2>4, <2>5 DEF rows
<1>8. Legible(inv)
  BY <1>3, <1>4, <1>5, <1>7 DEF Legible
<1> QED
  BY <1>5, <1>8 DEF inv, sels

(* and one whose shapes were edited. *)
LEMMA LegibleEdited ==
    ASSUME NEW inv, IsInventory(inv), Legible(inv), NEW i, NEW shape
    PROVE  LET edited == [inv EXCEPT !.selections[i].shape = shape] IN Legible(edited) /\ IsInventory(edited)
<1> DEFINE sels == inv.selections
           new == [sels EXCEPT ![i].shape = shape]
           sel == [sels[i] EXCEPT !.shape = shape]
           edited == [inv EXCEPT !.selections[i].shape = shape]
<1>1. edited = [inv EXCEPT !.selections = new]
  OBVIOUS
<1>2. DOMAIN new = DOMAIN sels /\ \A k \in DOMAIN sels : new[k] = IF k = i THEN sel ELSE sels[k]
  OBVIOUS
<1>3. \A k \in DOMAIN sels : {"field", "rows"} \subseteq DOMAIN sels[k]
  BY DEF Legible
<1>4. i \in DOMAIN sels => DOMAIN sel = DOMAIN sels[i] /\ sel.field = sels[i].field /\ sel.rows = sels[i].rows
  BY <1>3
<1> HIDE DEF edited, new, sel
<1>5. \A k \in DOMAIN new : /\ {"field", "rows"} \subseteq DOMAIN new[k]
                            /\ new[k].field = sels[k].field /\ new[k].rows = sels[k].rows
  BY <1>2, <1>3, <1>4
<1>6. /\ edited.schema = inv.schema /\ edited.depth = inv.depth /\ edited.selections = new /\ edited.reviews = inv.reviews
      /\ IsInventory(edited)
  BY <1>1 DEF IsInventory
<1>7. FieldsOnce(new)
  BY <1>2, <1>5 DEF Legible, FieldsOnce
<1>8. Legible(edited)
  BY <1>2, <1>5, <1>6, <1>7 DEF Legible
<1> QED
  BY <1>6, <1>8 DEF edited

(* Every command and every edit of a file keeps it. *)
LEMMA LedgerNext == LedgerInv /\ [CliNext]_cliVars => LedgerInv'
<1> SUFFICES ASSUME LedgerInv, [CliNext]_cliVars PROVE LedgerInv'
  OBVIOUS
<1>1. schema \in Schemas /\ IsSchema(schema) /\ (inventory # None => IsInventory(inventory) /\ Legible(inventory))
  BY CatalogReviewAssumption DEF LedgerInv
<1>2. ASSUME NEW s \in Schemas, Upstream(s) PROVE LedgerInv'
  BY <1>1, <1>2 DEF LedgerInv, Upstream
<1>3. ASSUME NEW o \in InventoryOptions, TakeInventory(o) PROVE LedgerInv'
  <2>1. o.depth \in Nat
    BY CatalogReviewAssumption
  <2>2. Inventoriable(schema, SelectionsFor(schema, o), o.depth) /\ schema' = schema /\ inventory' = InventoryOf(schema, SelectionsFor(schema, o), o.depth)
    BY <1>3 DEF TakeInventory
  <2>3. Legible(inventory') /\ IsInventory(inventory')
    BY <1>1, <2>1, <2>2, LegibleTaken
  <2> QED
    BY <1>1, <2>2, <2>3 DEF LedgerInv
<1>4. ASSUME NEW i, NEW shape, inventory # None, EditInventory(i, shape) PROVE LedgerInv'
  <2>1. Legible(inventory') /\ IsInventory(inventory') /\ schema' = schema
    BY <1>1, <1>4, LegibleEdited DEF EditInventory
  <2> QED
    BY <1>1, <2>1 DEF LedgerInv
<1>5. ASSUME schema' = schema, inventory' = inventory PROVE LedgerInv'
  BY <1>1, <1>5 DEF LedgerInv
<1>6. \A check : TakeCandidate(check) => schema' = schema /\ inventory' = inventory
  BY DEF TakeCandidate
<1>7. EditDecisions \/ Migrate \/ MigrateAndRebind \/ Compile => schema' = schema /\ inventory' = inventory
  BY DEF EditDecisions, Migrate, MigrateAndRebind, Compile
<1>8. \A o : Curate(o) => schema' = schema /\ inventory' = inventory
  BY DEF Curate
<1>9. UNCHANGED cliVars => schema' = schema /\ inventory' = inventory
  BY DEF cliVars
<1> QED
  BY <1>2, <1>3, <1>4, <1>5, <1>6, <1>7, <1>8, <1>9 DEF CliNext

(* What it says leaves nothing out. *)
LEMMA LedgerInvTotal == LedgerInv => LedgerTotal
<1> SUFFICES ASSUME LedgerInv, inventory # None, NEW n \in Capabilities(inventory)
             PROVE  LET s == inventory.schema
                        sel == CHOOSE x \in Range(inventory.selections) : x.field = n
                        t == RowType(s, Root(s, n), sel.rows)
                        found == ReviewOf(inventory, n).found
                    IN  /\ \A p \in Range(Paths(found.offered)) : Selectable(s, t, p)
                        /\ \A way \in Ways(s, t, inventory.depth + 1) :
                                Cardinality({i \in DOMAIN found.offered : IsPrefix(found.offered[i].path, way)})
                                    + Cardinality({c \in found.cut : IsPrefix(c.path, way)}) = 1
  BY DEF LedgerTotal
<1> DEFINE s == inventory.schema
           sels == inventory.selections
           sel == CHOOSE x \in Range(sels) : x.field = n
           i == CHOOSE k \in DOMAIN sels : sels[k].field = n
<1>1. Legible(inventory)
  BY DEF LedgerInv
<1>2. i \in DOMAIN sels /\ sels[i].field = n
  <2>1. \E k \in DOMAIN sels : sels[k].field = n
    BY DEF Capabilities, Range
  <2> QED
    BY <2>1
<1>3. ReviewOf(inventory, n).found = inventory.reviews[i].found
  BY DEF ReviewOf
<1> HIDE DEF i
<1>4. sel = sels[i]
  <2>1. sels[i] \in Range(sels)
    BY <1>2 DEF Range
  <2>2. sel \in Range(sels) /\ sel.field = n
    BY <1>2, <2>1
  <2> HIDE DEF sel
  <2>3. PICK k \in DOMAIN sels : sel = sels[k]
    BY <2>2 DEF Range
  <2>4. k = i
    BY <1>1, <1>2, <2>2, <2>3 DEF Legible, FieldsOnce
  <2> QED
    BY <2>3, <2>4
<1> DEFINE r == Root(s, n)
           rows == sel.rows
           d == inventory.depth
<1>5. /\ IsSchema(s) /\ d \in Nat /\ IsComposite(s, r.type)
      /\ RowType(s, r, rows) \in DOMAIN s.types /\ IsComposite(s, RowType(s, r, rows))
      /\ inventory.reviews[i].found = Discovered(s, r, rows, d)
  <2> HIDE DEF sel
  <2> QED
    BY <1>1, <1>2, <1>4 DEF Legible
<1> HIDE DEF s, sel, sels, r, rows, d
<1>6. LET t == RowType(s, r, rows)
          found == Discovered(s, r, rows, d)
      IN  /\ \A p \in Range(Paths(found.offered)) : Selectable(s, t, p)
          /\ \A way \in Ways(s, t, d + 1) :
                Cardinality({k \in DOMAIN found.offered : IsPrefix(found.offered[k].path, way)})
                    + Cardinality({c \in found.cut : IsPrefix(c.path, way)}) = 1
  BY <1>5, DiscoveredMet
<1> DEFINE found == Discovered(s, r, rows, d)
<1>7. ReviewOf(inventory, n).found = found
  BY <1>3, <1>5
<1> HIDE DEF found
<1> QED
  BY <1>6, <1>7 DEF s, sel, sels, r, rows, d, found

(* Discovery leaves nothing unsaid: in an inventory of any schema, to any depth and however
   edited, whatever field one goes down to from a row, the way meets one leaf on offer or
   one entry of the ledger, and all on offer can be selected. *)
THEOREM LedgerAlwaysTotal == CliSpec => []LedgerTotal
<1>1. CliInit => LedgerInv
  BY DEF CliInit, LedgerInv
<1> QED
  BY <1>1, LedgerNext, LedgerInvTotal, PTL DEF CliSpec

-----------------------------------------------------------------------------
(* The tools, one at a time. *)

(* A step of the tools is a step of each desk, or none of it. *)
LEMMA ToolsUse ==
    /\ ToolsInit => DeskInit /\ BoardInit
    /\ [ToolsNext]_<<tool, cliVars, deskVars, boardVars, curatedVars>> => [DeskNext]_deskVars /\ [BoardNext]_boardVars
  BY DEF ToolsInit, ToolsNext

(* Whichever tool a host uses, what a desk has in hand is of what is on its screen. *)
THEOREM HandIsOnScreen == ToolsSpec => []InHandIsOnScreen
<1>1. ToolsSpec => DeskSpec /\ BoardSpec
  BY ToolsUse, PTL DEF ToolsSpec, DeskSpec, BoardSpec
<1>2. ReviewIsOfScreen /\ CompiledIsShown => InHandIsOnScreen
  BY DEF InHandIsOnScreen
<1> QED
  BY <1>1, <1>2, ReviewIsCurrent, DeskShowsCompiled, PTL

=============================================================================
