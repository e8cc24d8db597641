----------------------------- MODULE DirsProofs ------------------------------
(***************************************************************************)
(* Proofs about directories, for every number of inodes, pointers, users,  *)
(* groups and names: references cover names, only who may takes a name     *)
(* away, and nothing is freed that is still in use.                        *)
(***************************************************************************)
EXTENDS Dirs, QueueLemmas

-----------------------------------------------------------------------------
(* The inductive invariant, over any device.                               *)

EntrySet == [name : Names \cup {Up}, node : Nodes]
NodeSet  == [type : {"free", "dir", "file"}, refs : Nat, uid : Uids, gid : Gids,
             perms : SUBSET Bits, entries : Seq(EntrySet)]

(* A directory has "..", first, and no name twice; nothing else has        *)
(* entries, and nothing is left of what was removed.                       *)
NodeSound(n) ==
    /\ n \in NodeSet
    /\ Len(n.entries) < NDirect
    /\ n.type = "free" => n = Free
    /\ n.type = "file" => n.entries = <<>>
    /\ n.type = "dir" =>
          /\ n.entries # <<>> /\ n.entries[1].name = Up
          /\ \A i, j \in 1 .. Len(n.entries) : n.entries[i].name = n.entries[j].name => i = j

LinksOf(nodes, x) ==
    {e \in Nodes \X (2 .. NDirect) :
        e[2] <= Len(nodes[e[1]].entries) /\ nodes[e[1]].entries[e[2]].node = x}

NodesSound(nodes) ==
    /\ nodes \in [Nodes -> NodeSet]
    /\ \A x \in Nodes :
          NodeSound(nodes[x]) /\ nodes[x].refs >= Cardinality(LinksOf(nodes, x))

IInv ==
    /\ NodesSound(node)
    /\ cwd \in [Procs -> Nodes] /\ uid \in [Procs -> Uids] /\ gid \in [Procs -> Gids]
    /\ GroupsAreOwn

Meta(y) == \E p \in Procs : CanMeta(p, node[y])

(* What a step may do to a name, an owner or an inode.                     *)
Legal ==
    \A y \in InUse :
       /\ node'[y].type = "free"
             => Len(node[y].entries) <= 1 /\ Cardinality(LinksOf(node, y)) <= 1
       /\ ~Meta(y) => /\ Cardinality(LinksOf(node', y)) >= Cardinality(LinksOf(node, y))
                      /\ node'[y].uid = node[y].uid /\ node'[y].gid = node[y].gid
                      /\ node'[y].perms = node[y].perms

LEMMA ConstantsAre ==
    NInodes \in Nat /\ NDirect \in Nat /\ NDirect >= 2 /\ Root \in Nodes
  BY DirsAssumption DEF Root, Nodes

LEMMA FreeIs == Free \in NodeSet /\ NodeSound(Free) /\ Free.type = "free"
                /\ Free.entries = <<>> /\ Free.refs = 0
  BY DirsAssumption, ConstantsAre DEF Free, NodeSet, NodeSound

-----------------------------------------------------------------------------
(* Links.                                                                  *)

LEMMA LinksFinite ==
    ASSUME NEW nodes, NEW x
    PROVE  IsFiniteSet(LinksOf(nodes, x)) /\ Cardinality(LinksOf(nodes, x)) \in Nat
  <1>1. IsFiniteSet(Nodes) /\ IsFiniteSet(2 .. NDirect)
    <2>1. 1 \in Int /\ 2 \in Int /\ NInodes \in Int /\ NDirect \in Int
      BY ConstantsAre
    <2> QED  BY <2>1, FS_Interval DEF Nodes
  <1>2. IsFiniteSet(Nodes \X (2 .. NDirect))
    BY <1>1, FS_Product
  <1>3. LinksOf(nodes, x) \in SUBSET (Nodes \X (2 .. NDirect))
    BY DEF LinksOf
  <1>4. IsFiniteSet(LinksOf(nodes, x))
    BY <1>2, <1>3, FS_Subset
  <1> QED  BY <1>4, FS_CardinalityType

LEMMA LinkIs ==
    ASSUME NEW nodes, NEW x, NEW d \in Nodes, NEW i \in 2 .. NDirect
    PROVE  <<d, i>> \in LinksOf(nodes, x)
              <=> i <= Len(nodes[d].entries) /\ nodes[d].entries[i].node = x
  BY DEF LinksOf

LEMMA LinksAre ==
    ASSUME NEW nodes, NEW x, NEW e \in LinksOf(nodes, x)
    PROVE  \E d \in Nodes, i \in 2 .. NDirect : e = <<d, i>>
  BY DEF LinksOf

(* An inode with a name is in use.                                         *)
LEMMA LinkedInUse ==
    ASSUME NEW nodes, NodesSound(nodes), NEW x \in Nodes, LinksOf(nodes, x) # {}
    PROVE  nodes[x].refs >= 1 /\ nodes[x].type # "free"
  <1>1. Cardinality(LinksOf(nodes, x)) \in Nat /\ Cardinality(LinksOf(nodes, x)) # 0
    BY LinksFinite, FS_EmptySet
  <1>2. nodes[x].refs \in Nat /\ nodes[x].refs >= Cardinality(LinksOf(nodes, x))
        /\ NodeSound(nodes[x])
    BY DEF NodesSound, NodeSet
  <1>3. nodes[x].refs >= 1
    BY <1>1, <1>2
  <1> QED  BY <1>2, <1>3, FreeIs DEF NodeSound

(* A name of a directory but for "..".                                     *)
LEMMA NamedIs ==
    ASSUME UpIsNotNamed,
           NEW n, NodeSound(n), IsDir(n), NEW name \in Names, Named(n, name) # {}
    PROVE  LET i == Min(Named(n, name))
           IN  /\ i \in 2 .. NDirect /\ i <= Len(n.entries)
               /\ n.entries[i].name = name /\ n.entries[i].node \in Nodes
  <1> DEFINE i == Min(Named(n, name))
             l == Len(n.entries)
  <1>1. n.entries \in Seq(EntrySet) /\ l \in Nat /\ DOMAIN n.entries = 1 .. l /\ l < NDirect
    BY LenProperties DEF NodeSound, NodeSet
  <1>2. Named(n, name) \in SUBSET Nat
    BY <1>1 DEF Named
  <1>3. i \in Named(n, name)
    <2>1. \E y \in Named(n, name) : \A z \in Named(n, name) : y <= z
      BY <1>2, LeastOf
    <2> QED  BY <2>1 DEF Min
  <1>4. i \in 1 .. l /\ n.entries[i].name = name
    BY <1>1, <1>3 DEF Named
  <1> HIDE DEF i, l
  <1>5. i # 1
    <2>1. n.entries[1].name = Up
      BY DEF NodeSound, IsDir
    <2> QED  BY <1>4, <2>1 DEF UpIsNotNamed
  <1>6. n.entries[i].node \in Nodes
    <2>1. n.entries[i] \in EntrySet
      BY <1>1, <1>4, ElementOfSeq DEF l
    <2> QED  BY <2>1 DEF EntrySet
  <1>7. i \in 2 .. NDirect
    BY <1>1, <1>4, <1>5, ConstantsAre
  <1> QED  BY <1>1, <1>4, <1>6, <1>7 DEF i, l

-----------------------------------------------------------------------------
(* _fs_addDirEnt.                                                          *)

AddedTo(after, nodes, d, name, x) ==
    /\ after \in [Nodes -> NodeSet]
    /\ \A y \in Nodes :
          /\ after[y].type = nodes[y].type /\ after[y].uid = nodes[y].uid
          /\ after[y].gid = nodes[y].gid /\ after[y].perms = nodes[y].perms
          /\ after[y].refs = IF y = x THEN nodes[y].refs + 1 ELSE nodes[y].refs
          /\ after[y].entries = IF y = d THEN Append(nodes[y].entries, Entry(name, x))
                                ELSE nodes[y].entries
          /\ y \notin {d, x} => after[y] = nodes[y]

LEMMA AddedIs ==
    ASSUME NEW nodes \in [Nodes -> NodeSet], NEW d \in Nodes, NEW name \in Names,
           NEW x \in Nodes, nodes[x].type # "free"
    PROVE  AddedTo(Added(nodes, d, name, x), nodes, d, name, x)
  <1> DEFINE n == nodes[d]
             n2 == [n EXCEPT !.entries = Append(@, Entry(name, x))]
             mid == [nodes EXCEPT ![d] = n2]
             after == Added(nodes, d, name, x)
  <1>1. Entry(name, x) \in EntrySet
    BY DEF Entry, EntrySet
  <1>2. n \in NodeSet /\ Append(n.entries, Entry(name, x)) \in Seq(EntrySet)
    BY <1>1 DEF NodeSet
  <1>3. n2 \in NodeSet /\ n2.type = n.type /\ n2.uid = n.uid /\ n2.gid = n.gid
        /\ n2.perms = n.perms /\ n2.refs = n.refs
        /\ n2.entries = Append(n.entries, Entry(name, x))
    BY <1>2 DEF NodeSet
  <1> HIDE DEF n2
  <1>4. mid \in [Nodes -> NodeSet] /\ mid[d] = n2 /\ \A y \in Nodes \ {d} : mid[y] = nodes[y]
    BY <1>3
  <1>5. after = [mid EXCEPT ![x].refs = @ + 1]
    <2>1. mid[x].refs = nodes[x].refs
      BY <1>3, <1>4
    <2> QED  BY <2>1 DEF Added, n2
  <1> HIDE DEF mid
  <1>6. after = [mid EXCEPT ![x] = [mid[x] EXCEPT !.refs = @ + 1]]
    BY <1>5
  <1> DEFINE m2 == [mid[x] EXCEPT !.refs = @ + 1]
  <1>7. m2 \in NodeSet /\ m2.type = mid[x].type /\ m2.uid = mid[x].uid /\ m2.gid = mid[x].gid
        /\ m2.perms = mid[x].perms /\ m2.refs = mid[x].refs + 1
        /\ m2.entries = mid[x].entries
    <2> DEFINE m == mid[x]
    <2>1. m \in NodeSet
      BY <1>4
    <2> HIDE DEF m
    <2>2. [m EXCEPT !.refs = @ + 1] \in NodeSet
      <3>1. m.refs + 1 \in Nat
        BY <2>1 DEF NodeSet
      <3> DEFINE r == m.refs + 1
      <3>2. r \in Nat
        BY <3>1
      <3> HIDE DEF r
      <3>3. [m EXCEPT !.refs = r] \in NodeSet
        BY <2>1, <3>2 DEF NodeSet
      <3> QED  BY <3>3 DEF r
    <2>3. m2 = [m EXCEPT !.refs = @ + 1]
      BY DEF m
    <2> HIDE DEF m2
    <2>4. /\ m2 \in NodeSet /\ m2.type = m.type /\ m2.uid = m.uid /\ m2.gid = m.gid
          /\ m2.perms = m.perms /\ m2.refs = m.refs + 1 /\ m2.entries = m.entries
      BY <2>1, <2>2, <2>3 DEF NodeSet
    <2> QED  BY <2>4 DEF m
  <1> HIDE DEF m2, after
  <1>8. after \in [Nodes -> NodeSet] /\ after[x] = m2 /\ \A y \in Nodes \ {x} : after[y] = mid[y]
    BY <1>4, <1>6, <1>7 DEF m2
  <1>9. ASSUME NEW y \in Nodes
        PROVE  /\ after[y].type = nodes[y].type /\ after[y].uid = nodes[y].uid
               /\ after[y].gid = nodes[y].gid /\ after[y].perms = nodes[y].perms
               /\ after[y].refs = IF y = x THEN nodes[y].refs + 1 ELSE nodes[y].refs
               /\ after[y].entries = IF y = d THEN Append(nodes[y].entries, Entry(name, x))
                                     ELSE nodes[y].entries
               /\ y \notin {d, x} => after[y] = nodes[y]
    <2>1. /\ mid[y].type = nodes[y].type /\ mid[y].uid = nodes[y].uid
          /\ mid[y].gid = nodes[y].gid /\ mid[y].perms = nodes[y].perms
          /\ mid[y].refs = nodes[y].refs
          /\ mid[y].entries = IF y = d THEN Append(nodes[y].entries, Entry(name, x))
                                       ELSE nodes[y].entries
          /\ y # d => mid[y] = nodes[y]
      <3>1. CASE y = d
        BY Zenon, <1>3, <1>4, <3>1
      <3>2. CASE y # d
        <4>1. mid[y] = nodes[y]
          BY <1>4, <3>2
        <4> QED  BY Zenon, <3>2, <4>1
      <3> QED  BY <3>1, <3>2
    <2>2. /\ after[y].type = mid[y].type /\ after[y].uid = mid[y].uid
          /\ after[y].gid = mid[y].gid /\ after[y].perms = mid[y].perms
          /\ after[y].entries = mid[y].entries
          /\ after[y].refs = IF y = x THEN mid[y].refs + 1 ELSE mid[y].refs
          /\ y # x => after[y] = mid[y]
      <3>1. CASE y = x
        BY Zenon, <1>7, <1>8, <3>1
      <3>2. CASE y # x
        <4>1. after[y] = mid[y]
          BY <1>8, <3>2
        <4> QED  BY Zenon, <3>2, <4>1
      <3> QED  BY <3>1, <3>2
    <2>3. y \notin {d, x} => after[y] = nodes[y]
      BY <2>1, <2>2
    <2>4. after[y].refs = IF y = x THEN nodes[y].refs + 1 ELSE nodes[y].refs
      BY Zenon, <2>1, <2>2
    <2> QED  BY Zenon, <2>1, <2>2, <2>3, <2>4
  <1> QED  BY <1>8, <1>9 DEF after, AddedTo

LEMMA AddedLinks ==
    ASSUME NEW nodes, NodesSound(nodes), NEW d \in Nodes, NEW name, NEW x \in Nodes,
           NEW after, AddedTo(after, nodes, d, name, x),
           IsDir(nodes[d]), Len(nodes[d].entries) + 1 < NDirect, NEW y \in Nodes
    PROVE  LinksOf(after, y) = LinksOf(nodes, y) \cup
              (IF y = x THEN {<<d, Len(nodes[d].entries) + 1>>} ELSE {})
  <1> DEFINE e == nodes[d].entries
             l == Len(e)
             L == LinksOf(nodes, y)
             K == LinksOf(after, y)
             new == <<d, l + 1>>
  <1>1. /\ e \in Seq(EntrySet) /\ l \in Nat /\ l >= 1 /\ l + 1 \in 2 .. NDirect /\ NDirect \in Nat
    <2>1. e \in Seq(EntrySet) /\ e # <<>>
      BY DEF NodesSound, NodeSound, NodeSet, IsDir
    <2> QED  BY <2>1, ConstantsAre
  <1>2. after[d].entries = Append(e, Entry(name, x))
    BY DEF AddedTo
  <1>3. /\ Len(after[d].entries) = l + 1 /\ after[d].entries[l + 1].node = x
        /\ \A j \in 1 .. l : after[d].entries[j] = e[j]
    <2>1. Entry(name, x).node = x
      BY DEF Entry
    <2> HIDE DEF e
    <2> QED  BY <1>1, <1>2, <2>1
  <1>4. \A c \in Nodes \ {d} : after[c].entries = nodes[c].entries
    BY DEF AddedTo
  <1> HIDE DEF e, l
  <1>5. ASSUME NEW c \in Nodes, NEW j \in 2 .. NDirect
        PROVE  <<c, j>> \in K <=> <<c, j>> \in L \/ (y = x /\ c = d /\ j = l + 1)
    <2>0. <<c, j>> \in L <=> j <= Len(nodes[c].entries) /\ nodes[c].entries[j].node = y
      BY DEF L, LinksOf
    <2>1. <<c, j>> \in K <=> j <= Len(after[c].entries) /\ after[c].entries[j].node = y
      BY DEF K, LinksOf
    <2> HIDE DEF K, L
    <2>2. CASE c # d
      BY <1>4, <2>0, <2>1, <2>2
    <2>3. CASE c = d /\ j = l + 1
      BY SMTT(30), <1>1, <1>3, <2>0, <2>1, <2>3 DEF l, e
    <2>4. CASE c = d /\ j # l + 1
      <3>1. j <= l + 1 <=> j <= l
        BY <1>1, <2>4
      <3>2. j <= l => after[d].entries[j] = e[j]
        BY <1>1, <1>3
      <3> QED  BY <1>3, <2>0, <2>1, <2>4, <3>1, <3>2 DEF l, e
    <2> QED  BY <2>2, <2>3, <2>4
  <1>6. \A z \in K \cup L : \E c \in Nodes, j \in 2 .. NDirect : z = <<c, j>>
    BY LinksAre
  <1> DEFINE R == L \cup (IF y = x THEN {new} ELSE {})
  <1>7. K \subseteq R
    <2> SUFFICES ASSUME NEW z \in K PROVE z \in R
      OBVIOUS
    <2>1. PICK c \in Nodes, j \in 2 .. NDirect : z = <<c, j>>
      BY <1>6
    <2> QED  BY <1>5, <2>1
  <1>8. R \subseteq K
    <2>1. L \subseteq K
      <3> SUFFICES ASSUME NEW z \in L PROVE z \in K
        OBVIOUS
      <3>1. PICK c \in Nodes, j \in 2 .. NDirect : z = <<c, j>>
        BY <1>6
      <3> QED  BY <1>5, <3>1
    <2>2. y = x => new \in K
      BY <1>1, <1>5
    <2> QED  BY <2>1, <2>2
  <1> QED  BY <1>7, <1>8 DEF e, l

LEMMA AddedSound ==
    ASSUME NEW nodes, NodesSound(nodes), NEW d \in Nodes, NEW name \in Names, NEW x \in Nodes,
           NEW after, AddedTo(after, nodes, d, name, x),
           nodes[x].type # "free", Addable(nodes[d], name)
    PROVE  /\ NodesSound(after)
           /\ \A y \in Nodes :
                 Cardinality(LinksOf(after, y)) >= Cardinality(LinksOf(nodes, y))
  <1> DEFINE e == nodes[d].entries
             l == Len(e)
  <1>1. IsDir(nodes[d]) /\ Named(nodes[d], name) = {} /\ l + 1 < NDirect
    BY DEF Addable
  <1>2. /\ e \in Seq(EntrySet) /\ l \in Nat /\ l >= 1 /\ DOMAIN e = 1 .. l
        /\ e[1].name = Up
        /\ \A i, j \in 1 .. l : e[i].name = e[j].name => i = j
    <2>1. e \in Seq(EntrySet) /\ e # <<>> /\ NodeSound(nodes[d])
      BY <1>1 DEF NodesSound, NodeSound, NodeSet, IsDir
    <2>2. l \in Nat /\ l >= 1 /\ DOMAIN e = 1 .. l
      BY <2>1, LenProperties
    <2> QED  BY <1>1, <2>1, <2>2 DEF NodeSound, IsDir
  <1>3. \A i \in 1 .. l : e[i].name # name
    BY <1>1, <1>2 DEF Named
  <1>4. ASSUME NEW y \in Nodes
        PROVE  /\ after[y].refs >= Cardinality(LinksOf(after, y))
               /\ Cardinality(LinksOf(after, y)) >= Cardinality(LinksOf(nodes, y))
    <2> DEFINE L == LinksOf(nodes, y)
               K == LinksOf(after, y)
    <2>1. IsFiniteSet(L) /\ Cardinality(L) \in Nat /\ Cardinality(K) \in Nat
      BY LinksFinite
    <2>2. K = L \cup (IF y = x THEN {<<d, l + 1>>} ELSE {})
      BY <1>1, AddedLinks
    <2>3. nodes[y].refs \in Nat /\ nodes[y].refs >= Cardinality(L)
      BY DEF NodesSound, NodeSet
    <2>4. after[y].refs = IF y = x THEN nodes[y].refs + 1 ELSE nodes[y].refs
      BY DEF AddedTo
    <2> HIDE DEF L, K, l
    <2>5. CASE y = x
      <3>1. K = L \cup {<<d, l + 1>>}
        BY <2>2, <2>5
      <3>2. Cardinality(K) = IF <<d, l + 1>> \in L THEN Cardinality(L) ELSE Cardinality(L) + 1
        BY <2>1, <3>1, FS_AddElement
      <3> QED  BY <2>1, <2>3, <2>4, <2>5, <3>2 DEF L, K
    <2>6. CASE y # x
      <3>1. K = L
        BY <2>2, <2>6
      <3> QED  BY <2>1, <2>3, <2>4, <2>6, <3>1 DEF L, K
    <2> QED  BY <2>5, <2>6
  <1>5. ASSUME NEW y \in Nodes
        PROVE  NodeSound(after[y])
    <2>1. NodeSound(nodes[y]) /\ after[y] \in NodeSet /\ after[y].type = nodes[y].type
      BY DEF NodesSound, AddedTo
    <2>2. CASE y \notin {d, x}
      BY <2>1, <2>2 DEF AddedTo
    <2>3. CASE y # d /\ y = x
      <3>1. after[y].entries = nodes[y].entries
        BY <2>3 DEF AddedTo
      <3> QED  BY <2>1, <2>3, <3>1 DEF NodeSound
    <2>4. CASE y = d
      <3> DEFINE f == after[y].entries
      <3>1. f = Append(e, Entry(name, x)) /\ after[y].type = "dir"
        BY <1>1, <2>1, <2>4 DEF AddedTo, IsDir
      <3>2. Entry(name, x) \in EntrySet /\ Entry(name, x).name = name
        BY DEF Entry, EntrySet
      <3> HIDE DEF f, e
      <3>3. /\ Len(f) = l + 1 /\ f # <<>> /\ f[l + 1].name = name
            /\ \A j \in 1 .. l : f[j] = e[j]
        BY <1>2, <3>1, <3>2
      <3> HIDE DEF l
      <3>4. f[1].name = Up
        BY <1>2, <3>3
      <3>5. \A i, j \in 1 .. l + 1 : f[i].name = f[j].name => i = j
        <4> SUFFICES ASSUME NEW i \in 1 .. l + 1, NEW j \in 1 .. l + 1, f[i].name = f[j].name
                     PROVE  i = j
          OBVIOUS
        <4>1. CASE i \in 1 .. l /\ j \in 1 .. l
          BY <1>2, <3>3, <4>1
        <4>2. CASE i = l + 1 /\ j \in 1 .. l
          BY <1>3, <3>3, <4>2
        <4>3. CASE i \in 1 .. l /\ j = l + 1
          BY <1>3, <3>3, <4>3
        <4> QED  BY <1>2, <4>1, <4>2, <4>3
      <3>6. Len(f) < NDirect
        BY <1>1, <3>3
      <3> QED  BY <2>1, <3>1, <3>3, <3>4, <3>5, <3>6 DEF NodeSound, f
    <2> QED  BY <2>2, <2>3, <2>4
  <1> QED  BY <1>4, <1>5 DEF NodesSound, AddedTo

-----------------------------------------------------------------------------
(* _fs_rmDirEnt.                                                           *)

(* The last entry in the place of the i-th.                                *)
Shortened(f, e, i) ==
    /\ f \in Seq(EntrySet)
    /\ Len(f) = Len(e) - 1
    /\ \A j \in 1 .. Len(e) - 1 : f[j] = IF j = i THEN e[Len(e)] ELSE e[j]

LEMMA ShortenedIs ==
    ASSUME NEW e \in Seq(EntrySet), NEW i \in 1 .. Len(e)
    PROVE  Shortened(Front([e EXCEPT ![i] = Last(e)]), e, i)
  <1> DEFINE l == Len(e)
             g == [e EXCEPT ![i] = Last(e)]
             f == Front(g)
  <1>1. l \in Nat /\ l >= 1 /\ DOMAIN e = 1 .. l /\ e[l] \in EntrySet
    BY LenProperties, ElementOfSeq
  <1>2. /\ g \in Seq(EntrySet) /\ Len(g) = l
        /\ \A j \in 1 .. l : g[j] = IF j = i THEN e[l] ELSE e[j]
    <2>1. Last(e) = e[l]
      BY DEF Last
    <2> QED  BY <1>1, <2>1, ExceptSeq
  <1> HIDE DEF g
  <1>3. f = SubSeq(g, 1, l - 1)
    BY <1>2 DEF Front
  <1>4. /\ f \in Seq(EntrySet) /\ Len(f) = l - 1
        /\ \A j \in 1 .. l - 1 : f[j] = g[j]
    <2> HIDE DEF l, f
    <2> QED  BY <1>1, <1>2, <1>3, SubSeqProperties
  <1> HIDE DEF f
  <1>5. \A j \in 1 .. l - 1 : f[j] = IF j = i THEN e[l] ELSE e[j]
    <2> HIDE DEF l
    <2> QED  BY <1>1, <1>2, <1>4
  <1> QED  BY <1>4, <1>5 DEF Shortened, f, g

(* A member is taken out and the last one moves to its place.              *)
LEMMA MovedCount ==
    ASSUME NEW L, IsFiniteSet(L), NEW a, NEW b, NEW M,
           M = (L \ {a, b}) \cup (IF b \in L /\ a # b THEN {a} ELSE {})
    PROVE  /\ IsFiniteSet(M)
           /\ Cardinality(M) = IF a \in L THEN Cardinality(L) - 1 ELSE Cardinality(L)
  <1>1. Cardinality(L) \in Nat
    BY FS_CardinalityType
  <1>2. CASE b \notin L \/ a = b
    <2>1. M = L \ {a}
      BY <1>2
    <2> QED  BY <2>1, FS_RemoveElement
  <1>3. CASE b \in L /\ a # b /\ a \in L
    <2>1. M = L \ {b}
      BY <1>3
    <2> QED  BY <1>3, <2>1, FS_RemoveElement
  <1>4. CASE b \in L /\ a # b /\ a \notin L
    <2> DEFINE N == L \ {b}
    <2>1. M = N \cup {a} /\ a \notin N
      BY <1>4
    <2>2. IsFiniteSet(N) /\ Cardinality(N) = Cardinality(L) - 1
      BY <1>4, FS_RemoveElement
    <2> HIDE DEF N
    <2>3. IsFiniteSet(M) /\ Cardinality(M) = Cardinality(N) + 1
      BY <2>1, <2>2, FS_AddElement
    <2> QED  BY <1>1, <1>4, <2>2, <2>3
  <1> QED  BY <1>2, <1>3, <1>4

RemovedFrom(after, nodes, d, i, x) ==
    /\ after \in [Nodes -> NodeSet]
    /\ \A y \in Nodes :
          /\ y \notin {d, x} => after[y] = nodes[y]
          /\ y = x /\ y # d /\ nodes[y].refs = 1 => after[y] = Free
          /\ y = d \/ nodes[y].refs # 1 =>
                /\ after[y].type = nodes[y].type /\ after[y].uid = nodes[y].uid
                /\ after[y].gid = nodes[y].gid /\ after[y].perms = nodes[y].perms
                /\ after[y].refs = IF y = x /\ y # d THEN nodes[y].refs - 1
                                   ELSE nodes[y].refs
          /\ y # d /\ nodes[y].refs # 1 => after[y].entries = nodes[y].entries
    /\ Shortened(after[d].entries, nodes[d].entries, i)

LEMMA RemovedIs ==
    ASSUME NEW nodes, NodesSound(nodes), NEW d \in Nodes, IsDir(nodes[d]),
           NEW i \in 2 .. NDirect, i <= Len(nodes[d].entries), NEW x \in Nodes,
           x = nodes[d].entries[i].node
    PROVE  RemovedFrom(Removed(nodes, d, i), nodes, d, i, x) /\ nodes[x].refs >= 1
  <1> DEFINE n == nodes[d]
             child == nodes[x]
             r == child.refs - 1
             lower == [child EXCEPT !.refs = r]
             less == IF child.refs = 1 THEN Free ELSE lower
             f == Front([n.entries EXCEPT ![i] = Last(n.entries)])
             n2 == [n EXCEPT !.entries = f]
             mid == [nodes EXCEPT ![x] = less]
             after == Removed(nodes, d, i)
  <1>1. n \in NodeSet /\ child \in NodeSet /\ nodes \in [Nodes -> NodeSet]
        /\ n.entries \in Seq(EntrySet) /\ i \in 1 .. Len(n.entries)
    <2>1. n \in NodeSet /\ child \in NodeSet /\ nodes \in [Nodes -> NodeSet]
      BY DEF NodesSound
    <2>2. n.entries \in Seq(EntrySet)
      BY <2>1 DEF NodeSet
    <2>3. Len(n.entries) \in Nat
      BY <2>2
    <2> QED  BY <2>1, <2>2, <2>3, ConstantsAre
  <1>2. child.refs >= 1 /\ child.type # "free" /\ child.refs \in Nat
    <2>1. <<d, i>> \in LinksOf(nodes, x)
      BY LinkIs
    <2>2. LinksOf(nodes, x) # {}
      BY <2>1
    <2>3. child.refs \in Nat
      BY <1>1 DEF NodeSet
    <2> HIDE DEF child
    <2> QED  BY <2>2, <2>3, LinkedInUse DEF child
  <1>3. Freed(child) = Free
    <2>1. ~(IsDir(child) /\ child.entries = <<>>)
      BY DEF NodesSound, NodeSound, IsDir
    <2> QED  BY <2>1 DEF Freed
  <1>4. r \in Nat
    BY <1>2
  <1>5. Shortened(f, n.entries, i)
    BY <1>1, ShortenedIs
  <1>6. after = [mid EXCEPT ![d] = n2]
    <2>1. child.refs <= 1 <=> child.refs = 1
      BY <1>2
    <2>2. less = IF child.refs <= 1 THEN Freed(child) ELSE [child EXCEPT !.refs = @ - 1]
      BY <1>3, <2>1
    <2> QED  BY <2>2 DEF Removed
  <1> HIDE DEF after, r, f
  <1>7. /\ lower \in NodeSet /\ lower.type = child.type /\ lower.uid = child.uid
        /\ lower.gid = child.gid /\ lower.perms = child.perms /\ lower.refs = r
        /\ lower.entries = child.entries
    BY <1>1, <1>4 DEF NodeSet
  <1>8. /\ n2 \in NodeSet /\ n2.type = n.type /\ n2.uid = n.uid
        /\ n2.gid = n.gid /\ n2.perms = n.perms /\ n2.refs = n.refs
        /\ n2.entries = f
    <2>1. f \in Seq(EntrySet)
      BY <1>5 DEF Shortened
    <2> QED  BY <1>1, <2>1 DEF NodeSet
  <1> HIDE DEF lower, n2
  <1>9. less \in NodeSet
    BY <1>7, FreeIs
  <1> HIDE DEF less
  <1>10. mid \in [Nodes -> NodeSet] /\ mid[x] = less /\ \A y \in Nodes \ {x} : mid[y] = nodes[y]
    BY <1>1, <1>9
  <1> HIDE DEF mid
  <1>11. after \in [Nodes -> NodeSet] /\ after[d] = n2 /\ \A y \in Nodes \ {d} : after[y] = mid[y]
    BY <1>6, <1>8, <1>10
  <1>12. ASSUME NEW y \in Nodes
         PROVE  /\ y \notin {d, x} => after[y] = nodes[y]
                /\ y = x /\ y # d /\ nodes[y].refs = 1 => after[y] = Free
                /\ y = d \/ nodes[y].refs # 1 =>
                      /\ after[y].type = nodes[y].type /\ after[y].uid = nodes[y].uid
                      /\ after[y].gid = nodes[y].gid /\ after[y].perms = nodes[y].perms
                      /\ after[y].refs = IF y = x /\ y # d THEN nodes[y].refs - 1
                                         ELSE nodes[y].refs
                /\ y # d /\ nodes[y].refs # 1 => after[y].entries = nodes[y].entries
    <2>1. CASE y = d
      BY <1>8, <1>11, <2>1
    <2>2. CASE y # d /\ y # x
      BY <1>10, <1>11, <2>2
    <2>3. CASE y # d /\ y = x /\ nodes[y].refs = 1
      <3>1. after[y] = less
        BY <1>10, <1>11, <2>3
      <3> QED  BY <2>3, <3>1 DEF less
    <2>4. CASE y # d /\ y = x /\ nodes[y].refs # 1
      <3>1. after[y] = less
        BY <1>10, <1>11, <2>4
      <3>2. after[y] = lower
        BY <2>4, <3>1 DEF less
      <3> QED  BY <1>7, <2>4, <3>2 DEF r
    <2> QED  BY <2>1, <2>2, <2>3, <2>4
  <1>13. Shortened(after[d].entries, nodes[d].entries, i)
    BY <1>5, <1>8, <1>11
  <1>14. RemovedFrom(after, nodes, d, i, x)
    BY <1>11, <1>12, <1>13 DEF RemovedFrom
  <1> QED  BY <1>2, <1>14 DEF after

(* The names that are left, when what is freed held none itself.           *)
LEMMA RemovedLinks ==
    ASSUME NEW nodes, NodesSound(nodes), NEW d \in Nodes, IsDir(nodes[d]),
           NEW i \in 2 .. NDirect, i <= Len(nodes[d].entries), NEW x \in Nodes,
           x = nodes[d].entries[i].node,
           nodes[x].refs = 1 => Len(nodes[x].entries) <= 1,
           NEW after, RemovedFrom(after, nodes, d, i, x), NEW y \in Nodes
    PROVE  Cardinality(LinksOf(after, y)) = IF y = x THEN Cardinality(LinksOf(nodes, y)) - 1
                                            ELSE Cardinality(LinksOf(nodes, y))
  <1> DEFINE e == nodes[d].entries
             l == Len(e)
             L == LinksOf(nodes, y)
             K == LinksOf(after, y)
             a == <<d, i>>
             b == <<d, l>>
             M == (L \ {a, b}) \cup (IF b \in L /\ a # b THEN {a} ELSE {})
  <1>1. /\ e \in Seq(EntrySet) /\ l \in Nat /\ l \in 2 .. NDirect /\ i \in 2 .. l
        /\ NDirect \in Nat
    <2>1. e \in Seq(EntrySet) /\ Len(e) < NDirect
      BY DEF NodesSound, NodeSound, NodeSet
    <2>2. l \in Nat
      BY <2>1
    <2> QED  BY <2>1, <2>2, ConstantsAre
  <1>2. /\ Len(after[d].entries) = l - 1
        /\ \A j \in 1 .. l - 1 : after[d].entries[j] = IF j = i THEN e[l] ELSE e[j]
    BY DEF RemovedFrom, Shortened
  <1>3. /\ \A c \in Nodes, j \in 2 .. NDirect :
              <<c, j>> \in K <=> j <= Len(after[c].entries) /\ after[c].entries[j].node = y
        /\ \A c \in Nodes, j \in 2 .. NDirect :
              <<c, j>> \in L <=> j <= Len(nodes[c].entries) /\ nodes[c].entries[j].node = y
    <2>1. ASSUME NEW c \in Nodes, NEW j \in 2 .. NDirect
          PROVE  <<c, j>> \in K <=> j <= Len(after[c].entries) /\ after[c].entries[j].node = y
      BY DEF LinksOf
    <2>2. ASSUME NEW c \in Nodes, NEW j \in 2 .. NDirect
          PROVE  <<c, j>> \in L <=> j <= Len(nodes[c].entries) /\ nodes[c].entries[j].node = y
      BY DEF LinksOf
    <2> QED  BY <2>1, <2>2
  <1>4. ASSUME NEW c \in Nodes, c # d
        PROVE  \/ after[c].entries = nodes[c].entries
               \/ Len(after[c].entries) < 2 /\ Len(nodes[c].entries) < 2
    <2>1. CASE nodes[c].refs # 1 \/ c # x
      BY <1>4, <2>1 DEF RemovedFrom
    <2>2. CASE nodes[c].refs = 1 /\ c = x
      <3>1. after[c] = Free
        BY <1>4, <2>2 DEF RemovedFrom
      <3>2. Len(after[c].entries) = 0
        BY <3>1, FreeIs
      <3>3. Len(nodes[c].entries) \in Nat
        BY DEF NodesSound, NodeSet
      <3> QED  BY <2>2, <3>2, <3>3
    <2> QED  BY <2>1, <2>2
  <1>5. \A z \in K \cup L : \E c \in Nodes, j \in 2 .. NDirect : z = <<c, j>>
    BY LinksAre
  <1>6. IsFiniteSet(L) /\ (a \in L <=> y = x)
    <2>1. IsFiniteSet(L)
      BY LinksFinite
    <2>2. a \in L <=> y = x
      BY <1>3
    <2> QED  BY <2>1, <2>2
  <1> HIDE DEF K, L, e
  <1>7. ASSUME NEW c \in Nodes, NEW j \in 2 .. NDirect
        PROVE  <<c, j>> \in K <=> <<c, j>> \in M
    <2>1. CASE c # d
      <3>1. <<c, j>> # a /\ <<c, j>> # b
        BY <2>1
      <3>2. <<c, j>> \in K <=> <<c, j>> \in L
        <4>1. CASE after[c].entries = nodes[c].entries
          BY <1>3, <4>1
        <4>2. CASE Len(after[c].entries) < 2 /\ Len(nodes[c].entries) < 2
          <5>1. Len(after[c].entries) \in Nat /\ Len(nodes[c].entries) \in Nat
            BY SMTT(30) DEF RemovedFrom, NodesSound, NodeSet
          <5>2. ~(j <= Len(after[c].entries)) /\ ~(j <= Len(nodes[c].entries))
            BY <1>1, <4>2, <5>1
          <5> QED  BY <1>3, <5>2
        <4> QED  BY <1>4, <2>1, <4>1, <4>2
      <3> QED  BY <3>1, <3>2
    <2>2. CASE c = d /\ j = i /\ i # l
      <3>1. <<c, j>> \in K <=> e[l].node = y
        <4>1. j <= l - 1 /\ j \in 1 .. l - 1
          BY <1>1, <2>2
        <4> QED  BY SMTT(30), <1>2, <1>3, <2>2, <4>1
      <3>2. b \in L <=> e[l].node = y
        BY <1>1, <1>3 DEF e
      <3>3. <<c, j>> \in M <=> b \in L
        BY <2>2
      <3> QED  BY <3>1, <3>2, <3>3
    <2>3. CASE c = d /\ j >= l
      <3>1. <<c, j>> \notin K
        <4>1. ~(j <= l - 1)
          BY <1>1, <2>3
        <4> QED  BY <1>2, <1>3, <2>3, <4>1
      <3>2. CASE j = l
        BY <2>3, <3>1, <3>2
      <3>3. CASE j # l
        <4>1. <<c, j>> \notin L /\ j # i
          <5>1. ~(j <= l) /\ j # i
            BY <1>1, <2>3, <3>3
          <5> QED  BY <1>3, <2>3, <5>1 DEF e
        <4> QED  BY <2>3, <3>1, <4>1
      <3> QED  BY <3>2, <3>3
    <2>4. CASE c = d /\ j < l /\ j # i
      <3>1. j \in 1 .. l - 1 /\ j <= l - 1 /\ j <= l
        BY <1>1, <2>4
      <3>2. <<c, j>> \in K <=> <<c, j>> \in L
        <4>1. after[c].entries[j] = e[j] /\ Len(after[c].entries) = l - 1
          BY <1>2, <2>4, <3>1
        <4>2. <<c, j>> \in K <=> e[j].node = y
          BY SMTT(30), <1>3, <3>1, <4>1
        <4>3. <<c, j>> \in L <=> e[j].node = y
          BY <1>3, <2>4, <3>1 DEF e
        <4> QED  BY <4>2, <4>3
      <3>3. <<c, j>> # a /\ <<c, j>> # b
        BY <1>1, <2>4
      <3> QED  BY <3>2, <3>3
    <2> QED  BY <1>1, <2>1, <2>2, <2>3, <2>4
  <1>8. K = M
    <2>1. K \subseteq M
      <3> SUFFICES ASSUME NEW z \in K PROVE z \in M
        OBVIOUS
      <3>1. PICK c \in Nodes, j \in 2 .. NDirect : z = <<c, j>>
        BY <1>5
      <3> QED  BY <1>7, <3>1
    <2>2. M \subseteq K
      <3> SUFFICES ASSUME NEW z \in M PROVE z \in K
        OBVIOUS
      <3>1. z = a \/ z \in L
        OBVIOUS
      <3>2. PICK c \in Nodes, j \in 2 .. NDirect : z = <<c, j>>
        BY <1>5, <3>1
      <3> QED  BY <1>7, <3>2
    <2> QED  BY <2>1, <2>2
  <1>9. M = (L \ {a, b}) \cup (IF b \in L /\ a # b THEN {a} ELSE {})
    OBVIOUS
  <1> HIDE DEF M, a, b
  <1>10. Cardinality(M) = IF a \in L THEN Cardinality(L) - 1 ELSE Cardinality(L)
    BY <1>6, <1>9, MovedCount
  <1> QED  BY <1>6, <1>8, <1>10 DEF K, L

LEMMA RemovedSound ==
    ASSUME NEW nodes, NodesSound(nodes), NEW d \in Nodes, IsDir(nodes[d]),
           NEW i \in 2 .. NDirect, i <= Len(nodes[d].entries), NEW x \in Nodes,
           x = nodes[d].entries[i].node, nodes[x].refs >= 1,
           nodes[x].refs = 1 => Len(nodes[x].entries) <= 1,
           NEW after, RemovedFrom(after, nodes, d, i, x)
    PROVE  NodesSound(after)
  <1> DEFINE e == nodes[d].entries
             f == after[d].entries
             l == Len(e)
  <1>1. /\ e \in Seq(EntrySet) /\ l \in Nat /\ l >= 2 /\ i \in 2 .. l /\ l < NDirect
        /\ e[1].name = Up
        /\ \A j, k \in 1 .. l : e[j].name = e[k].name => j = k
    <2>1. e \in Seq(EntrySet) /\ l < NDirect /\ NodeSound(nodes[d])
      BY DEF NodesSound, NodeSound, NodeSet
    <2>2. l \in Nat /\ l >= 2 /\ i \in 2 .. l
      <3>1. l \in Nat
        BY <2>1
      <3> QED  BY <3>1, ConstantsAre
    <2> QED  BY <2>1, <2>2 DEF NodeSound, IsDir
  <1>2. f \in Seq(EntrySet) /\ Len(f) = l - 1
        /\ \A j \in 1 .. l - 1 : f[j] = IF j = i THEN e[l] ELSE e[j]
    BY DEF RemovedFrom, Shortened
  <1>3. ASSUME NEW y \in Nodes
        PROVE  after[y].refs >= Cardinality(LinksOf(after, y))
    <2> DEFINE m == Cardinality(LinksOf(nodes, y))
               k == Cardinality(LinksOf(after, y))
    <2>1. m \in Nat /\ k \in Nat
      BY LinksFinite
    <2>2. k = IF y = x THEN m - 1 ELSE m
      BY RemovedLinks
    <2>3. nodes[y].refs \in Nat /\ nodes[y].refs >= m
      BY DEF NodesSound, NodeSet
    <2> HIDE DEF m, k
    <2>4. CASE y = x /\ y # d /\ nodes[y].refs = 1
      <3>1. after[y] = Free
        BY <2>4 DEF RemovedFrom
      <3>2. after[y].refs = 0
        BY <3>1, FreeIs
      <3> QED  BY <2>1, <2>2, <2>3, <2>4, <3>2 DEF k
    <2>5. CASE y = x /\ y # d /\ nodes[y].refs # 1
      <3>1. after[y].refs = nodes[y].refs - 1
        BY <2>5 DEF RemovedFrom
      <3> QED  BY SMTT(30), <2>1, <2>2, <2>3, <2>5, <3>1 DEF k
    <2>6. CASE ~(y = x /\ y # d)
      <3>1. after[y].refs = nodes[y].refs
        BY <2>6 DEF RemovedFrom
      <3> QED  BY <2>1, <2>2, <2>3, <3>1 DEF k
    <2> QED  BY <2>4, <2>5, <2>6
  <1>4. ASSUME NEW y \in Nodes
        PROVE  NodeSound(after[y])
    <2>1. NodeSound(nodes[y]) /\ after[y] \in NodeSet
      BY DEF NodesSound, RemovedFrom
    <2>2. CASE y \notin {d, x}
      BY <2>1, <2>2 DEF RemovedFrom
    <2>3. CASE y # d /\ y = x /\ nodes[y].refs = 1
      BY <2>3, FreeIs DEF RemovedFrom
    <2>4. CASE y # d /\ y = x /\ nodes[y].refs # 1
      <3>1. after[y].entries = nodes[y].entries /\ after[y].type = nodes[y].type
        BY <2>4 DEF RemovedFrom
      <3>2. nodes[y].type # "free"
        <4>1. nodes[y].refs # 0
          BY <2>4
        <4> QED  BY <2>1, <4>1, FreeIs DEF NodeSound
      <3> QED  BY <2>1, <3>1, <3>2 DEF NodeSound
    <2>5. CASE y = d
      <3>1. after[y].type = "dir"
        BY <2>5 DEF RemovedFrom, IsDir
      <3> HIDE DEF e, f
      <3>2. f # <<>> /\ f[1].name = Up /\ Len(f) < NDirect
        <4>1. Len(f) >= 1 /\ f[1] = e[1] /\ Len(f) < NDirect
          BY <1>1, <1>2, ConstantsAre
        <4> QED  BY <1>1, <4>1
      <3>3. \A j, k \in 1 .. Len(f) : f[j].name = f[k].name => j = k
        <4> SUFFICES ASSUME NEW j \in 1 .. Len(f), NEW k \in 1 .. Len(f), f[j].name = f[k].name
                     PROVE  j = k
          OBVIOUS
        <4> DEFINE from(t) == IF t = i THEN l ELSE t
        <4>1. j \in 1 .. l - 1 /\ k \in 1 .. l - 1
          BY <1>2
        <4>2. f[j] = e[from(j)] /\ f[k] = e[from(k)]
          BY <1>2, <4>1
        <4>3. from(j) \in 1 .. l /\ from(k) \in 1 .. l
          BY <1>1, <4>1
        <4>4. from(j) = from(k)
          BY <1>1, <4>2, <4>3
        <4> HIDE DEF l
        <4> QED  BY <1>1, <4>1, <4>4
      <3> QED  BY <2>1, <2>5, <3>1, <3>2, <3>3 DEF NodeSound, f
    <2> QED  BY <2>2, <2>3, <2>4, <2>5
  <1> QED  BY <1>3, <1>4 DEF NodesSound, RemovedFrom

-----------------------------------------------------------------------------
(* What writes an inode and no entry past the first moves no name.         *)

LEMMA SameLinks ==
    ASSUME NEW nodes, NEW after, NEW y,
           \A c \in Nodes : \/ after[c].entries = nodes[c].entries
                            \/ /\ Len(after[c].entries) \in 0 .. 1
                               /\ Len(nodes[c].entries) \in 0 .. 1
    PROVE  LinksOf(after, y) = LinksOf(nodes, y)
  <1>1. ASSUME NEW e \in Nodes \X (2 .. NDirect)
        PROVE  e[2] <= Len(after[e[1]].entries) /\ after[e[1]].entries[e[2]].node = y
               <=> e[2] <= Len(nodes[e[1]].entries) /\ nodes[e[1]].entries[e[2]].node = y
    <2>1. e[1] \in Nodes /\ e[2] \in 2 .. NDirect
      OBVIOUS
    <2>2. CASE after[e[1]].entries = nodes[e[1]].entries
      BY <2>2
    <2>3. CASE Len(after[e[1]].entries) \in 0 .. 1 /\ Len(nodes[e[1]].entries) \in 0 .. 1
      <3>1. \A j \in 2 .. NDirect, l \in 0 .. 1 : ~(j <= l)
        BY ConstantsAre
      <3>2. ~(e[2] <= Len(after[e[1]].entries)) /\ ~(e[2] <= Len(nodes[e[1]].entries))
        BY <2>1, <2>3, <3>1, Zenon
      <3> QED  BY <3>2
    <2> QED  BY <2>1, <2>2, <2>3
  <1> QED  BY <1>1, Zenon DEF LinksOf

CreatedIn(written, nodes, x, new) ==
    /\ NodesSound(written) /\ written[x] = new
    /\ \A y \in Nodes \ {x} : written[y] = nodes[y]
    /\ \A y \in Nodes : LinksOf(written, y) = LinksOf(nodes, y)

LEMMA CreatedSound ==
    ASSUME NEW nodes, NodesSound(nodes), NEW x \in Nodes, nodes[x].type = "free",
           NEW new, NodeSound(new), Len(new.entries) \in 0 .. 1,
           NEW written, written = [nodes EXCEPT ![x] = new]
    PROVE  CreatedIn(written, nodes, x, new)
  <1>1. new \in NodeSet /\ nodes \in [Nodes -> NodeSet]
    BY DEF NodeSound, NodesSound
  <1>2. /\ written \in [Nodes -> NodeSet] /\ written[x] = new
        /\ \A y \in Nodes \ {x} : written[y] = nodes[y]
    BY <1>1
  <1>3. nodes[x] = Free
    BY DEF NodesSound, NodeSound
  <1>4. \A c \in Nodes : \/ written[c].entries = nodes[c].entries
                         \/ /\ Len(written[c].entries) \in 0 .. 1
                            /\ Len(nodes[c].entries) \in 0 .. 1
    <2> SUFFICES ASSUME NEW c \in Nodes
                 PROVE  \/ written[c].entries = nodes[c].entries
                        \/ /\ Len(written[c].entries) \in 0 .. 1
                           /\ Len(nodes[c].entries) \in 0 .. 1
      OBVIOUS
    <2>1. CASE c = x
      <3>1. Len(nodes[c].entries) = 0
        BY <1>3, <2>1, FreeIs
      <3> QED  BY <1>2, <2>1, <3>1
    <2>2. CASE c # x
      BY <1>2, <2>2
    <2> QED  BY <2>1, <2>2
  <1>5. \A y \in Nodes : LinksOf(written, y) = LinksOf(nodes, y)
    BY <1>4, SameLinks
  <1>6. ASSUME NEW y \in Nodes
        PROVE  NodeSound(written[y]) /\ written[y].refs >= Cardinality(LinksOf(written, y))
    <2>1. CASE y = x
      <3>1. LinksOf(written, y) = {}
        BY <1>5, <2>1, LinkedInUse
      <3>2. Cardinality(LinksOf(written, y)) = 0
        BY <3>1, FS_EmptySet
      <3>3. new.refs \in Nat
        BY <1>1 DEF NodeSet
      <3> QED  BY <1>2, <2>1, <3>2, <3>3
    <2>2. CASE y # x
      <3>1. written[y] = nodes[y] /\ LinksOf(written, y) = LinksOf(nodes, y)
        BY <1>2, <1>5, <2>2
      <3> QED  BY <3>1 DEF NodesSound
    <2> QED  BY <2>1, <2>2
  <1>7. NodesSound(written)
    BY <1>2, <1>6 DEF NodesSound
  <1> QED  BY <1>2, <1>5, <1>7 DEF CreatedIn

(* fchown() and fSetPerm(): only the owner or the bits change.             *)
Relabelled(after, nodes, x) ==
    /\ NodesSound(after)
    /\ \A y \in Nodes : after[y].type = nodes[y].type
    /\ \A y \in Nodes \ {x} : after[y] = nodes[y]
    /\ \A y \in Nodes : LinksOf(after, y) = LinksOf(nodes, y)

LEMMA RelabelledSound ==
    ASSUME NEW nodes, NodesSound(nodes), NEW x \in Nodes, nodes[x].type # "free",
           NEW u \in Uids, NEW g \in Gids, NEW perms \in SUBSET Bits,
           NEW after,
           after = [nodes EXCEPT ![x] = [nodes[x] EXCEPT !.uid = u, !.gid = g, !.perms = perms]]
    PROVE  Relabelled(after, nodes, x)
  <1> DEFINE n == nodes[x]
             m == [n EXCEPT !.uid = u, !.gid = g, !.perms = perms]
  <1>1. n \in NodeSet /\ nodes \in [Nodes -> NodeSet] /\ NodeSound(n)
    BY DEF NodesSound
  <1>2. n.type # "free"
    OBVIOUS
  <1>3. after = [nodes EXCEPT ![x] = m]
    OBVIOUS
  <1> HIDE DEF n
  <1>4. m \in NodeSet /\ m.type = n.type /\ m.refs = n.refs /\ m.entries = n.entries
    BY <1>1 DEF NodeSet
  <1> HIDE DEF m
  <1>5. after \in [Nodes -> NodeSet] /\ after[x] = m /\ \A y \in Nodes \ {x} : after[y] = nodes[y]
    BY <1>1, <1>3, <1>4
  <1>6. NodeSound(m)
    BY <1>1, <1>2, <1>4 DEF NodeSound
  <1>7. \A y \in Nodes : /\ after[y].type = nodes[y].type /\ after[y].refs = nodes[y].refs
                         /\ after[y].entries = nodes[y].entries
    BY <1>4, <1>5 DEF n
  <1>8. \A y \in Nodes : LinksOf(after, y) = LinksOf(nodes, y)
    <2>1. \A c \in Nodes : \/ after[c].entries = nodes[c].entries
                           \/ /\ Len(after[c].entries) \in 0 .. 1
                              /\ Len(nodes[c].entries) \in 0 .. 1
      BY <1>7
    <2> QED  BY <2>1, SameLinks
  <1>9. ASSUME NEW y \in Nodes
        PROVE  NodeSound(after[y]) /\ after[y].refs >= Cardinality(LinksOf(after, y))
    <2>1. NodeSound(after[y])
      BY <1>5, <1>6 DEF NodesSound
    <2>2. after[y].refs = nodes[y].refs /\ LinksOf(after, y) = LinksOf(nodes, y)
      BY <1>7, <1>8
    <2> QED  BY <2>1, <2>2 DEF NodesSound
  <1> QED  BY <1>5, <1>7, <1>8, <1>9 DEF NodesSound, Relabelled

-----------------------------------------------------------------------------
(* Steps.                                                                  *)

LEMMA PathsAreNodes ==
    ASSUME NEW p
    PROVE  /\ \A x \in Paths(p) : x \in Nodes
           /\ \A d \in Dir(p) : d \in Nodes /\ IsDir(node[d])
  BY DEF Paths, Dir, Reachable

LEMMA NodesOnly ==
    ASSUME IInv, UNCHANGED <<cwd, uid, gid>>, NodesSound(node')
    PROVE  IInv'
  BY DEF IInv, NodesSound, LinksOf, GroupsAreOwn

LEMMA FCreateStep ==
    ASSUME IInv, NEW p \in Procs, NEW d \in Nodes, IsDir(node[d]), NEW name \in Names,
           NEW isFile \in BOOLEAN, FCreate(p, d, name, isFile)
    PROVE  IInv' /\ Legal
  <1> DEFINE x == Min(FreeNodes)
             new == [type |-> IF isFile THEN "file" ELSE "dir", refs |-> 0,
                     uid |-> uid[p], gid |-> gid[p], perms |-> Bits,
                     entries |-> IF isFile THEN <<>> ELSE <<Entry(Up, d)>>]
             written == [node EXCEPT ![x] = new]
  <1>1. node' = IF Addable(node[d], name) THEN Added(written, d, name, x) ELSE written
    BY DEF FCreate
  <1>2. x \in Nodes /\ node[x].type = "free"
    <2>1. FreeNodes \in SUBSET Nat /\ FreeNodes # {}
      BY DEF FCreate, FreeNodes, Nodes
    <2>2. \E y \in FreeNodes : \A z \in FreeNodes : y <= z
      BY <2>1, LeastOf
    <2>3. x \in FreeNodes
      BY <2>2 DEF Min
    <2> QED  BY <2>3 DEF FreeNodes
  <1>3. NodeSound(new) /\ Len(new.entries) \in 0 .. 1 /\ new.type # "free"
    <2> DEFINE up == Entry(Up, d)
               s == IF isFile THEN <<>> ELSE <<up>>
    <2>1. up \in EntrySet /\ up.name = Up
      BY DEF Entry, EntrySet
    <2>2. uid[p] \in Uids /\ gid[p] \in Gids
      BY DEF IInv
    <2> HIDE DEF up
    <2>3. /\ s \in Seq(EntrySet) /\ Len(s) \in 0 .. 1 /\ (isFile => s = <<>>)
          /\ ~isFile => s # <<>> /\ s[1] = up /\ Len(s) = 1
      BY <2>1
    <2>4. new = [type |-> IF isFile THEN "file" ELSE "dir", refs |-> 0,
                 uid |-> uid[p], gid |-> gid[p], perms |-> Bits, entries |-> s]
      BY DEF up
    <2> HIDE DEF s, new
    <2>5. new \in NodeSet /\ new.entries = s /\ new.type = IF isFile THEN "file" ELSE "dir"
      BY <2>2, <2>3, <2>4 DEF NodeSet
    <2>6. NodeSound(new)
      <3>1. CASE isFile
        BY <2>3, <2>5, <3>1, ConstantsAre DEF NodeSound
      <3>2. CASE ~isFile
        <4>1. Len(s) = 1 /\ s # <<>> /\ s[1] = up /\ new.type = "dir"
          BY <2>3, <2>5, <3>2
        <4>2. \A i, j \in 1 .. 1 : i = j
          OBVIOUS
        <4> QED  BY <2>1, <2>5, <4>1, <4>2, ConstantsAre DEF NodeSound
      <3> QED  BY <3>1, <3>2
    <2> QED  BY <2>3, <2>5, <2>6
  <1> HIDE DEF x, new
  <1>4. NodesSound(node) /\ written = [node EXCEPT ![x] = new]
    BY DEF IInv
  <1> HIDE DEF written
  <1>5. /\ NodesSound(written) /\ written[x] = new
        /\ \A y \in Nodes \ {x} : written[y] = node[y]
        /\ \A y \in Nodes : LinksOf(written, y) = LinksOf(node, y)
    <2>1. CreatedIn(written, node, x, new)
      BY <1>2, <1>3, <1>4, CreatedSound
    <2> QED  BY <2>1 DEF CreatedIn
  <1>6. /\ NodesSound(node')
        /\ \A y \in Nodes \ {x} : /\ node'[y].type = node[y].type /\ node'[y].uid = node[y].uid
                                  /\ node'[y].gid = node[y].gid /\ node'[y].perms = node[y].perms
        /\ \A y \in Nodes : Cardinality(LinksOf(node', y)) >= Cardinality(LinksOf(node, y))
    <2>1. CASE Addable(node[d], name)
      <3>1. d # x
        BY <1>2 DEF IsDir
      <3>2. written[d] = node[d] /\ Addable(written[d], name) /\ written[x].type # "free"
        BY <1>3, <1>5, <2>1, <3>1
      <3>3. written \in [Nodes -> NodeSet]
        BY <1>5 DEF NodesSound
      <3>4. AddedTo(node', written, d, name, x)
        BY <1>1, <1>2, <2>1, <3>2, <3>3, AddedIs
      <3>5. /\ NodesSound(node')
            /\ \A y \in Nodes :
                  Cardinality(LinksOf(node', y)) >= Cardinality(LinksOf(written, y))
        BY <1>2, <1>5, <3>2, <3>4, AddedSound
      <3> QED  BY <1>5, <3>4, <3>5 DEF AddedTo
    <2>2. CASE ~Addable(node[d], name)
      <3>1. node' = written
        BY <1>1, <2>2
      <3>2. \A y \in Nodes : Cardinality(LinksOf(node, y)) \in Nat
        BY LinksFinite
      <3> QED  BY <1>5, <3>1, <3>2
    <2> QED  BY <2>1, <2>2
  <1>7. Legal
    BY <1>2, <1>6 DEF Legal, InUse
  <1> QED  BY <1>6, <1>7, NodesOnly DEF FCreate

LEMMA FRemoveStep ==
    ASSUME UpIsNotNamed,
           IInv, NEW p \in Procs, NEW d \in Nodes, IsDir(node[d]), NEW name \in Names,
           FRemove(p, d, name)
    PROVE  IInv' /\ Legal
  <1> DEFINE i == Min(Named(node[d], name))
             x == node[d].entries[i].node
  <1>1. NodesSound(node) /\ NodeSound(node[d])
    BY DEF IInv, NodesSound
  <1>2. i \in 2 .. NDirect /\ i <= Len(node[d].entries) /\ x \in Nodes
    BY <1>1, NamedIs DEF FRemove
  <1>3. node' = Removed(node, d, i) /\ Removable(p, node[x])
    BY DEF FRemove
  <1> HIDE DEF i
  <1>4. RemovedFrom(node', node, d, i, x) /\ node[x].refs >= 1
    BY <1>1, <1>2, <1>3, RemovedIs
  <1>5. node[x].refs = 1 => Len(node[x].entries) <= 1
    <2>1. NodeSound(node[x])
      BY <1>1, <1>2 DEF NodesSound
    <2>2. CASE node[x].type = "dir"
      <3>1. Len(node[x].entries) \in Nat
        BY SMTT(30), <2>1 DEF NodeSound, NodeSet
      <3> QED  BY <1>3, <2>2, <3>1 DEF Removable, IsDir
    <2>3. CASE node[x].type # "dir"
      <3>1. node[x].entries = <<>>
        BY <2>1, <2>3, FreeIs DEF NodeSound, NodeSet
      <3> QED  BY <3>1
    <2> QED  BY <2>2, <2>3
  <1>6. Meta(x)
    BY <1>3 DEF Removable, Meta
  <1> HIDE DEF x
  <1>7. x = node[d].entries[i].node
    BY DEF x
  <1>8. NodesSound(node')
    BY <1>1, <1>2, <1>4, <1>5, <1>7, RemovedSound
  <1>9. ASSUME NEW y \in InUse
        PROVE  /\ node'[y].type = "free"
                    => Len(node[y].entries) <= 1 /\ Cardinality(LinksOf(node, y)) <= 1
               /\ ~Meta(y) =>
                    /\ Cardinality(LinksOf(node', y)) >= Cardinality(LinksOf(node, y))
                    /\ node'[y].uid = node[y].uid /\ node'[y].gid = node[y].gid
                    /\ node'[y].perms = node[y].perms
    <2>1. y \in Nodes /\ node[y].type # "free"
      BY DEF InUse
    <2>2. node[y].refs \in Nat /\ node[y].refs >= Cardinality(LinksOf(node, y))
      BY <1>1, <2>1 DEF NodesSound, NodeSet
    <2>3. Cardinality(LinksOf(node, y)) \in Nat
      BY LinksFinite
    <2>4. Cardinality(LinksOf(node', y)) = IF y = x THEN Cardinality(LinksOf(node, y)) - 1
                                           ELSE Cardinality(LinksOf(node, y))
      BY <1>1, <1>2, <1>4, <1>5, <1>7, <2>1, RemovedLinks
    <2>5. CASE y # x
      <3>1. /\ node'[y].type = node[y].type /\ node'[y].uid = node[y].uid
            /\ node'[y].gid = node[y].gid /\ node'[y].perms = node[y].perms
        BY <1>4, <2>1, <2>5 DEF RemovedFrom
      <3> QED  BY <2>1, <2>3, <2>4, <2>5, <3>1
    <2>6. CASE y = x
      <3>1. node'[y].type = "free" => node[y].refs = 1
        BY <1>4, <2>1 DEF RemovedFrom
      <3> QED  BY <1>5, <1>6, <2>2, <2>3, <2>6, <3>1
    <2> QED  BY <2>5, <2>6
  <1>10. Legal
    BY <1>9 DEF Legal
  <1> QED  BY <1>8, <1>10, NodesOnly DEF FRemove

(* The new name is added first, so the inode has two when the old one goes.*)
LEMMA FMoveStep ==
    ASSUME UpIsNotNamed, IInv, NEW p \in Procs, NEW sd \in Nodes, IsDir(node[sd]), NEW dd \in Nodes,
           NEW sname \in Names, NEW dname \in Names, FMove(p, sd, sname, dd, dname)
    PROVE  IInv' /\ Legal /\ InUse \subseteq InUse'
  <1> DEFINE i == Min(Named(node[sd], sname))
             x == node[sd].entries[i].node
             both == Added(node, dd, dname, x)
  <1>1. NodesSound(node) /\ NodeSound(node[sd]) /\ node \in [Nodes -> NodeSet]
    BY DEF IInv, NodesSound
  <1>2. i \in 2 .. NDirect /\ i <= Len(node[sd].entries) /\ x \in Nodes
    BY <1>1, NamedIs DEF FMove
  <1>3. /\ Addable(node[dd], dname)
        /\ node' = IF node[x].type # "free" /\ Removable(p, both[x])
                   THEN Removed(both, sd, i) ELSE both
    BY DEF FMove
  <1> HIDE DEF i
  <1>4. node[x].type # "free" /\ node[x].refs \in Nat /\ node[x].refs >= 1
    <2>1. <<sd, i>> \in LinksOf(node, x)
      BY <1>2 DEF LinksOf
    <2>2. LinksOf(node, x) # {}
      BY <2>1
    <2>3. node[x] \in NodeSet
      BY <1>1, <1>2
    <2> HIDE DEF x
    <2> QED  BY <1>1, <1>2, <2>2, <2>3, LinkedInUse DEF NodeSet
  <1>5. x = node[sd].entries[i].node
    OBVIOUS
  <1> HIDE DEF x
  <1>6. AddedTo(both, node, dd, dname, x)
    BY <1>1, <1>2, <1>4, AddedIs
  <1> HIDE DEF both
  <1>7. /\ NodesSound(both)
        /\ \A y \in Nodes : Cardinality(LinksOf(both, y)) >= Cardinality(LinksOf(node, y))
    BY <1>1, <1>2, <1>3, <1>4, <1>6, AddedSound
  <1>8. /\ \A y \in Nodes : /\ both[y].type = node[y].type /\ both[y].uid = node[y].uid
                            /\ both[y].gid = node[y].gid /\ both[y].perms = node[y].perms
        /\ both[x].refs = node[x].refs + 1
    BY <1>2, <1>6 DEF AddedTo
  <1>9. CASE node' = both
    <2>1. Legal /\ InUse \subseteq InUse'
      BY <1>7, <1>8, <1>9 DEF Legal, InUse
    <2> QED  BY <1>7, <1>9, <2>1, NodesOnly DEF FMove
  <1>10. CASE Removable(p, both[x]) /\ node' = Removed(both, sd, i)
    <2>1. IsDir(both[sd])
      BY <1>8 DEF IsDir
    <2>2. /\ i <= Len(both[sd].entries) /\ x = both[sd].entries[i].node
      <3>1. CASE sd # dd
        <4>1. both[sd].entries = node[sd].entries
          BY <1>6, <3>1 DEF AddedTo
        <4> QED  BY <1>2, <1>5, <4>1
      <3>2. CASE sd = dd
        <4> DEFINE e == node[sd].entries
                   f == both[sd].entries
        <4>1. f = Append(e, Entry(dname, x))
          BY <1>6, <3>2 DEF AddedTo
        <4>2. e \in Seq(EntrySet) /\ i \in 1 .. Len(e) /\ Len(e) \in Nat
          <5>1. e \in Seq(EntrySet)
            BY <1>1 DEF NodeSound, NodeSet
          <5> QED  BY <1>2, <5>1, ConstantsAre
        <4> HIDE DEF e, f
        <4>3. i <= Len(f) /\ f[i] = e[i]
          BY <4>1, <4>2
        <4> QED  BY <1>5, <4>3 DEF e, f
      <3> QED  BY <3>1, <3>2
    <2>3. both[x].refs # 1 /\ both[x].refs >= 1
      BY <1>4, <1>8
    <2>4. RemovedFrom(node', both, sd, i, x)
      BY <1>2, <1>7, <1>10, <2>1, <2>2, RemovedIs
    <2>5. NodesSound(node')
      BY <1>2, <1>7, <2>1, <2>2, <2>3, <2>4, RemovedSound
    <2>6. Meta(x)
      <3>1. CanMeta(p, both[x])
        BY <1>10 DEF Removable
      <3>2. CanMeta(p, node[x])
        BY <1>2, <1>8, <3>1 DEF CanMeta
      <3> QED  BY <3>2 DEF Meta
    <2>7. ASSUME NEW y \in Nodes
          PROVE  /\ node'[y].type = node[y].type
                 /\ y # x => /\ node'[y].uid = node[y].uid /\ node'[y].gid = node[y].gid
                             /\ node'[y].perms = node[y].perms
                             /\ Cardinality(LinksOf(node', y)) >= Cardinality(LinksOf(node, y))
      <3>1. /\ node'[y].type = both[y].type
            /\ y # x => /\ node'[y].uid = both[y].uid /\ node'[y].gid = both[y].gid
                        /\ node'[y].perms = both[y].perms
        <4>1. CASE y \notin {sd, x}
          BY <2>4, <4>1 DEF RemovedFrom
        <4>2. CASE y \in {sd, x}
          BY <2>3, <2>4, <4>2 DEF RemovedFrom
        <4> QED  BY <4>1, <4>2
      <3>2. y # x => Cardinality(LinksOf(node', y)) = Cardinality(LinksOf(both, y))
        BY <1>2, <1>7, <2>1, <2>2, <2>3, <2>4, RemovedLinks
      <3> QED  BY <1>7, <1>8, <3>1, <3>2
    <2>8. Legal /\ InUse \subseteq InUse'
      BY <2>6, <2>7 DEF Legal, InUse
    <2> QED  BY <2>5, <2>8, NodesOnly DEF FMove
  <1> QED  BY <1>3, <1>9, <1>10

(* Nothing is written to the device.                                       *)
LEMMA SameDevice ==
    ASSUME IInv, UNCHANGED node
    PROVE  Legal
  <1>1. \A y \in Nodes : Cardinality(LinksOf(node, y)) \in Nat
    BY LinksFinite
  <1> QED  BY <1>1 DEF Legal, InUse

LEMMA LabelStep ==
    ASSUME IInv, NEW p \in Procs, NEW x \in Nodes, CanMeta(p, node[x]), node[x].type # "free",
           NEW u \in Uids, NEW g \in Gids, NEW perms \in SUBSET Bits,
           node' = [node EXCEPT ![x] = [node[x] EXCEPT !.uid = u, !.gid = g, !.perms = perms]],
           UNCHANGED <<cwd, uid, gid>>
    PROVE  IInv' /\ Legal
  <1>1. NodesSound(node)
    BY DEF IInv
  <1>2. /\ NodesSound(node')
        /\ \A y \in Nodes : node'[y].type = node[y].type
        /\ \A y \in Nodes \ {x} : node'[y] = node[y]
        /\ \A y \in Nodes : LinksOf(node', y) = LinksOf(node, y)
    <2>1. Relabelled(node', node, x)
      BY <1>1, RelabelledSound
    <2> QED  BY <2>1 DEF Relabelled
  <1>3. Meta(x)
    BY DEF Meta
  <1>4. \A y \in Nodes : Cardinality(LinksOf(node, y)) \in Nat
    BY LinksFinite
  <1>5. Legal
    <2> SUFFICES ASSUME NEW y \in Nodes, node[y].type # "free"
                 PROVE  /\ node'[y].type # "free"
                        /\ Cardinality(LinksOf(node', y)) >= Cardinality(LinksOf(node, y))
                        /\ ~Meta(y) => node'[y] = node[y]
      BY DEF Legal, InUse
    <2>1. Cardinality(LinksOf(node', y)) >= Cardinality(LinksOf(node, y))
      <3>1. LinksOf(node', y) = LinksOf(node, y)
        BY <1>2
      <3> QED  BY <1>4, <3>1
    <2>2. node'[y].type # "free"
      BY <1>2
    <2>3. ~Meta(y) => node'[y] = node[y]
      BY <1>2, <1>3
    <2> QED  BY <2>1, <2>2, <2>3
  <1> QED  BY <1>2, <1>5, NodesOnly

LEMMA FChownStep ==
    ASSUME IInv, NEW p \in Procs, NEW x \in Nodes, NEW owner \in Owners,
           FChown(p, x, owner[1], owner[2])
    PROVE  IInv' /\ Legal
  <1> DEFINE n == node[x]
             u == owner[1]
             g == owner[2]
  <1>1. u \in Uids /\ g \in Gids
    BY DirsAssumption
  <1>2. n \in NodeSet /\ n.perms \in SUBSET Bits /\ node \in [Nodes -> NodeSet]
    BY DEF IInv, NodesSound, NodeSet
  <1>3. node' = [node EXCEPT ![x] = [n EXCEPT !.uid = u, !.gid = g]]
    BY <1>2 DEF FChown
  <1>4. n.type # "free" /\ CanMeta(p, n) /\ UNCHANGED <<cwd, uid, gid>>
    BY DEF FChown
  <1> HIDE DEF u, g
  <1> DEFINE perms == n.perms
  <1>5. [n EXCEPT !.uid = u, !.gid = g] = [n EXCEPT !.uid = u, !.gid = g, !.perms = perms]
    <2> HIDE DEF n
    <2> QED  BY <1>2 DEF NodeSet
  <1>6. perms \in SUBSET Bits
    BY <1>2
  <1> HIDE DEF perms
  <1>7. node' = [node EXCEPT ![x] = [node[x] EXCEPT !.uid = u, !.gid = g, !.perms = perms]]
    BY <1>3, <1>5
  <1> QED  BY <1>1, <1>4, <1>6, <1>7, LabelStep

LEMMA FSetPermStep ==
    ASSUME IInv, NEW p \in Procs, NEW x \in Nodes, NEW perms \in Perms, FSetPerm(p, x, perms)
    PROVE  IInv' /\ Legal
  <1> DEFINE n == node[x]
  <1>1. perms \in SUBSET Bits
    BY DirsAssumption
  <1>2. n \in NodeSet /\ n.uid \in Uids /\ n.gid \in Gids /\ node \in [Nodes -> NodeSet]
    BY DEF IInv, NodesSound, NodeSet
  <1>3. node' = [node EXCEPT ![x] = [n EXCEPT !.perms = perms]]
    BY <1>2 DEF FSetPerm
  <1>4. n.type # "free" /\ CanMeta(p, n) /\ UNCHANGED <<cwd, uid, gid>>
    BY DEF FSetPerm
  <1> DEFINE u == n.uid
             g == n.gid
  <1>5. [n EXCEPT !.perms = perms] = [n EXCEPT !.uid = u, !.gid = g, !.perms = perms]
    <2> HIDE DEF n
    <2> QED  BY <1>2 DEF NodeSet
  <1>6. u \in Uids /\ g \in Gids
    BY <1>2
  <1> HIDE DEF u, g
  <1>7. node' = [node EXCEPT ![x] = [node[x] EXCEPT !.uid = u, !.gid = g, !.perms = perms]]
    BY <1>3, <1>5
  <1> QED  BY <1>1, <1>4, <1>6, <1>7, LabelStep

LEMMA SetDirStep ==
    ASSUME IInv, NEW p \in Procs, NEW d \in Nodes, SetDir(p, d)
    PROVE  IInv' /\ Legal
  <1>1. cwd' \in [Procs -> Nodes] /\ UNCHANGED <<node, uid, gid>>
    BY DEF SetDir, IInv
  <1>2. IInv'
    BY <1>1 DEF IInv, NodesSound, LinksOf, GroupsAreOwn
  <1> QED  BY <1>1, <1>2, SameDevice

LEMMA SetUidStep ==
    ASSUME IInv, NEW p \in Procs, NEW u \in Uids, SetUid(p, u)
    PROVE  IInv' /\ Legal
  <1>1. /\ UNCHANGED <<node, cwd>>
        /\ uid' \in [Procs -> Uids] /\ gid' \in [Procs -> Gids]
        /\ gid'[p] = User
        /\ \A q \in Procs \ {p} : uid'[q] = uid[q] /\ gid'[q] = gid[q]
    BY DirsAssumption DEF SetUid, IInv
  <1>2. GroupsAreOwn'
    BY <1>1 DEF IInv, GroupsAreOwn
  <1>3. IInv'
    BY <1>1, <1>2 DEF IInv, NodesSound, LinksOf
  <1> QED  BY <1>1, <1>3, SameDevice

LEMMA SetGidStep ==
    ASSUME IInv, NEW p \in Procs, NEW g \in Gids, SetGid(p, g)
    PROVE  IInv' /\ Legal
  <1>1. /\ UNCHANGED <<node, cwd, uid>>
        /\ gid' \in [Procs -> Gids]
        /\ gid'[p] = g
        /\ \A q \in Procs \ {p} : gid'[q] = gid[q]
    BY DEF SetGid, IInv
  <1>2. GroupsAreOwn'
    BY <1>1 DEF IInv, GroupsAreOwn, SetGid
  <1>3. IInv'
    BY <1>1, <1>2 DEF IInv, NodesSound, LinksOf
  <1> QED  BY <1>1, <1>3, SameDevice

LEMMA InitInv == Init => IInv
  <1> SUFFICES ASSUME Init PROVE IInv
    OBVIOUS
  <1> DEFINE up == Entry(Up, Root)
             root == [Free EXCEPT !.type = "dir", !.refs = 1, !.perms = Bits, !.entries = <<up>>]
  <1>1. up \in EntrySet /\ up.name = Up
    BY ConstantsAre DEF Entry, EntrySet
  <1>2. node = [x \in Nodes |-> IF x # Root THEN Free ELSE root]
    BY DEF Init
  <1> HIDE DEF up
  <1>3. root \in NodeSet /\ root.type = "dir" /\ root.entries = <<up>> /\ root.refs = 1
    <2>1. <<up>> \in Seq(EntrySet)
      BY <1>1
    <2> QED  BY <2>1, FreeIs DEF NodeSet
  <1> HIDE DEF root
  <1>4. NodeSound(root) /\ Len(root.entries) = 1
    <2>1. Len(root.entries) = 1 /\ root.entries # <<>> /\ root.entries[1] = up
      BY <1>3
    <2>2. \A i, j \in 1 .. 1 : i = j
      OBVIOUS
    <2> QED  BY <1>1, <1>3, <2>1, <2>2, ConstantsAre DEF NodeSound
  <1>5. node \in [Nodes -> NodeSet] /\ \A x \in Nodes : NodeSound(node[x])
    BY <1>2, <1>3, <1>4, FreeIs
  <1>6. \A x \in Nodes : Len(node[x].entries) \in 0 .. 1
    <2>1. Len(Free.entries) = 0
      BY FreeIs
    <2> QED  BY <1>2, <1>4, <2>1
  <1>7. \A x \in Nodes : Cardinality(LinksOf(node, x)) = 0
    <2> SUFFICES ASSUME NEW x \in Nodes PROVE LinksOf(node, x) = {}
      BY FS_EmptySet
    <2> SUFFICES ASSUME NEW e \in LinksOf(node, x) PROVE FALSE
      OBVIOUS
    <2>1. PICK d \in Nodes, i \in 2 .. NDirect : e = <<d, i>>
      BY LinksAre
    <2>2. i <= Len(node[d].entries)
      BY <2>1, LinkIs
    <2>3. Len(node[d].entries) \in 0 .. 1
      BY <1>6
    <2>4. \A j \in 2 .. NDirect, l \in 0 .. 1 : ~(j <= l)
      BY ConstantsAre
    <2> QED  BY <2>2, <2>3, <2>4, Zenon
  <1>8. \A x \in Nodes : node[x].refs >= Cardinality(LinksOf(node, x))
    <2>1. \A x \in Nodes : node[x].refs \in Nat
      BY <1>5 DEF NodeSet
    <2> QED  BY <1>7, <2>1
  <1>9. NodesSound(node)
    BY <1>5, <1>8 DEF NodesSound
  <1>10. /\ cwd \in [Procs -> Nodes] /\ uid \in [Procs -> Uids] /\ gid \in [Procs -> Gids]
         /\ GroupsAreOwn
    BY ConstantsAre, DirsAssumption DEF Init, GroupsAreOwn
  <1> QED  BY <1>9, <1>10 DEF IInv

LEMMA StepInv ==
    ASSUME UpIsNotNamed
    PROVE  IInv /\ [Next]_vars => IInv' /\ Legal
  <1> SUFFICES ASSUME IInv, [Next]_vars PROVE IInv' /\ Legal
    OBVIOUS
  <1>1. ASSUME NEW p \in Procs, NEW d \in Dir(p), NEW name \in Names, NEW isFile \in BOOLEAN,
               FCreate(p, d, name, isFile)
        PROVE  IInv' /\ Legal
    BY <1>1, PathsAreNodes, FCreateStep
  <1>2. ASSUME NEW p \in Procs, NEW d \in Dir(p), NEW name \in Names, FRemove(p, d, name)
        PROVE  IInv' /\ Legal
    BY <1>2, PathsAreNodes, FRemoveStep
  <1>3. ASSUME NEW p \in Procs, NEW sd \in Dir(p), NEW dd \in Dir(p), NEW sname \in Names,
               NEW dname \in Names, FMove(p, sd, sname, dd, dname)
        PROVE  IInv' /\ Legal
    BY <1>3, PathsAreNodes, FMoveStep
  <1>4. ASSUME NEW p \in Procs, NEW d \in Dir(p), SetDir(p, d)
        PROVE  IInv' /\ Legal
    BY <1>4, PathsAreNodes, SetDirStep
  <1>5. ASSUME NEW p \in Procs, NEW x \in Paths(p), NEW owner \in Owners,
               FChown(p, x, owner[1], owner[2])
        PROVE  IInv' /\ Legal
    BY <1>5, PathsAreNodes, FChownStep
  <1>6. ASSUME NEW p \in Procs, NEW x \in Paths(p), NEW perms \in Perms, FSetPerm(p, x, perms)
        PROVE  IInv' /\ Legal
    BY <1>6, PathsAreNodes, FSetPermStep
  <1>7. ASSUME NEW p \in Procs, NEW u \in Uids, SetUid(p, u)
        PROVE  IInv' /\ Legal
    BY <1>7, SetUidStep
  <1>8. ASSUME NEW p \in Procs, NEW g \in Gids, SetGid(p, g)
        PROVE  IInv' /\ Legal
    BY <1>8, SetGidStep
  <1>9. CASE UNCHANGED vars
    <2>1. IInv'
      BY <1>9 DEF IInv, vars, NodesSound, LinksOf, GroupsAreOwn
    <2> QED  BY <1>9, <2>1, SameDevice DEF vars
  <1>10. CASE Next
    BY <1>1, <1>2, <1>3, <1>4, <1>5, <1>6, <1>7, <1>8, <1>10 DEF Next, Call
  <1> QED  BY <1>9, <1>10

LEMMA Invariance ==
    ASSUME UpIsNotNamed
    PROVE  Spec => []IInv
  BY InitInv, StepInv, PTL DEF Spec

-----------------------------------------------------------------------------
(* Theorems.                                                               *)

(* If no program passes ".." as a name, the references of an inode cover   *)
(* its names, names are unique in their directory and what is freed leaves *)
(* nothing behind, whichever system calls of any number of processes fail  *)
(* half-way (kfs.c, syscalls.c).                                           *)
THEOREM TreesAreConsistent ==
    ASSUME UpIsNotNamed
    PROVE  Spec => []TreeConsistent
  <1>1. IInv => TreeConsistent
    <2> SUFFICES ASSUME IInv PROVE TreeConsistent
      OBVIOUS
    <2>1. NodesSound(node) /\ node \in [Nodes -> NodeSet]
      BY DEF IInv, NodesSound
    <2>2. ASSUME NEW x \in Nodes
          PROVE  node[x].entries \in Seq(EntrySet)
                 /\ DOMAIN node[x].entries = 1 .. Len(node[x].entries)
      <3>1. node[x].entries \in Seq(EntrySet)
        BY <2>1 DEF NodeSet
      <3> QED  BY <3>1, LenProperties
    <2>3. TypeOK
      <3>1. ASSUME NEW x \in Nodes
            PROVE  /\ node[x].type \in {"free", "dir", "file"} /\ node[x].refs \in Nat
                   /\ node[x].uid \in Uids /\ node[x].gid \in Gids
                   /\ node[x].perms \subseteq Bits
                   /\ Len(node[x].entries) < NDirect
                   /\ node[x].type = "free" => node[x] = Free
        BY <2>1 DEF NodesSound, NodeSound, NodeSet
      <3>2. ASSUME NEW x \in Nodes, NEW e \in ToSet(node[x].entries)
            PROVE  e.name \in Names \cup {Up} /\ e.node \in Nodes
        <4>1. PICK i \in DOMAIN node[x].entries : e = node[x].entries[i]
          BY DEF ToSet
        <4>2. e \in EntrySet
          BY <2>2, <4>1, ElementOfSeq
        <4> QED  BY <4>2 DEF EntrySet
      <3> QED  BY <2>1, <3>1, <3>2 DEF TypeOK, IInv
    <2>4. LinksCounted
      BY <2>1 DEF LinksCounted, Links, LinksOf, NodesSound
    <2>5. NamesUnique
      BY <2>1, <2>2 DEF NamesUnique, NodesSound, NodeSound, IsDir
    <2> QED  BY <2>3, <2>4, <2>5 DEF TreeConsistent
  <1> QED  BY <1>1, Invariance, PTL

(* The group of a process is one it may have, whatever the order of its    *)
(* setuid() and setgid() calls.  This holds of any program.                *)
THEOREM GroupsStayOwn == Spec => []GroupsAreOwn
  <1> DEFINE GInv == /\ uid \in [Procs -> Uids] /\ gid \in [Procs -> Gids]
                     /\ GroupsAreOwn
  <1>1. Init => GInv
    BY DirsAssumption DEF Init, GroupsAreOwn
  <1>2. GInv /\ [Next]_vars => GInv'
    <2> SUFFICES ASSUME GInv, [Next]_vars PROVE GInv'
      OBVIOUS
    <2>1. CASE UNCHANGED <<uid, gid>>
      BY <2>1 DEF GroupsAreOwn
    <2>2. ASSUME NEW p \in Procs, NEW u \in Uids, SetUid(p, u)
          PROVE  GInv'
      <3>1. /\ uid' \in [Procs -> Uids] /\ gid' \in [Procs -> Gids]
            /\ gid'[p] = User
            /\ \A q \in Procs \ {p} : uid'[q] = uid[q] /\ gid'[q] = gid[q]
        BY <2>2, DirsAssumption DEF SetUid
      <3> QED  BY <3>1 DEF GroupsAreOwn
    <2>3. ASSUME NEW p \in Procs, NEW g \in Gids, SetGid(p, g)
          PROVE  GInv'
      <3>1. /\ UNCHANGED uid /\ gid' \in [Procs -> Gids] /\ gid'[p] = g
            /\ \A q \in Procs \ {p} : gid'[q] = gid[q]
        BY <2>3 DEF SetGid
      <3> QED  BY <2>3, <3>1 DEF GroupsAreOwn, SetGid
    <2>4. CASE Next
      <3>1. \/ UNCHANGED <<uid, gid>>
            \/ \E p \in Procs : \/ \E u \in Uids : SetUid(p, u)
                                \/ \E g \in Gids : SetGid(p, g)
        <4>1. PICK p \in Procs : Call(p)
          BY <2>4 DEF Next
        <4>2. CASE \E d \in Dir(p), name \in Names, isFile \in BOOLEAN : FCreate(p, d, name, isFile)
          BY <4>2 DEF FCreate
        <4>3. CASE \E d \in Dir(p), name \in Names : FRemove(p, d, name)
          BY <4>3 DEF FRemove
        <4>4. CASE \E sd, dd \in Dir(p), sname, dname \in Names : FMove(p, sd, sname, dd, dname)
          BY <4>4 DEF FMove
        <4>5. CASE \E d \in Dir(p) : SetDir(p, d)
          BY <4>5 DEF SetDir
        <4>6. CASE \E x \in Paths(p), owner \in Owners : FChown(p, x, owner[1], owner[2])
          BY <4>6 DEF FChown
        <4>7. CASE \E x \in Paths(p), perms \in Perms : FSetPerm(p, x, perms)
          BY <4>7 DEF FSetPerm
        <4> QED  BY <4>1, <4>2, <4>3, <4>4, <4>5, <4>6, <4>7 DEF Call
      <3> QED  BY <2>1, <2>2, <2>3, <3>1
    <2> QED  BY <2>1, <2>4 DEF vars
  <1>3. GInv => GroupsAreOwn
    OBVIOUS
  <1> HIDE DEF GInv
  <1> QED  BY <1>1, <1>2, <1>3, PTL DEF Spec

(* fs.h: the last link to a directory that is not empty is not removed, and*)
(* nothing is freed under another name, if no program passes "..".         *)
THEOREM OnlyTheEmptyIsFreed ==
    ASSUME UpIsNotNamed
    PROVE  Spec => FreedIsEmpty
  <1>1. IInv /\ [Next]_vars =>
          [\A x \in InUse : node'[x].type = "free"
             => Len(node[x].entries) <= 1 /\ Cardinality(Links(x)) <= 1]_vars
    BY StepInv DEF Legal, Links, LinksOf
  <1> QED  BY <1>1, Invariance, PTL DEF Spec, FreedIsEmpty

(* fremove(), fmove(), fchown() and fSetPerm() take a name, an owner or    *)
(* permissions away for a process with meta rights only, if no program     *)
(* passes "..".                                                            *)
THEOREM OwnersAlwaysDecide ==
    ASSUME UpIsNotNamed
    PROVE  Spec => OwnersDecide
  <1>1. IInv /\ [Next]_vars =>
          [\A x \in InUse : (\A p \in Procs : ~CanMeta(p, node[x]))
             => /\ Cardinality(Links(x)') >= Cardinality(Links(x))
                /\ <<node[x].uid, node[x].gid, node[x].perms>>
                      = <<node[x].uid, node[x].gid, node[x].perms>>']_vars
    BY StepInv DEF Legal, Meta, Links, LinksOf
  <1> QED  BY <1>1, Invariance, PTL DEF Spec, OwnersDecide

(* _sys_fmove frees nothing, whichever of its two halves fails, if no      *)
(* program passes "..".                                                    *)
THEOREM MovesFreeNothing ==
    ASSUME UpIsNotNamed
    PROVE  Spec => MoveFreesNothing
  <1>1. IInv =>
          [\/ InUse \subseteq InUse'
           \/ ~ \E p \in Procs : \E sd, dd \in Dir(p), sname, dname \in Names :
                   FMove(p, sd, sname, dd, dname)]_vars
    BY PathsAreNodes, FMoveStep
  <1> QED  BY <1>1, Invariance, PTL DEF Spec, MoveFreesNothing
=============================================================================
