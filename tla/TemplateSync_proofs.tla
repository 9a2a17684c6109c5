------------------------- MODULE TemplateSync_proofs -------------------------
(***************************************************************************)
(* TemplateSync, for every document, user and template: dropping unusable    *)
(* groups is exact, a sync replaces all of its files or none, the owner gets  *)
(* back the groups of the document the template was made from, and a template *)
(* that was accepted with made-up users gives every user a valid profile.     *)
(***************************************************************************)
EXTENDS TemplateSync, FiniteSetTheorems, WellFoundedInduction, TLAPS

---------------------------------------------------------------------------
(* The shape of what is composed. *)

IsGroup(r) == r = [members |-> r.members, use |-> r.use]

(* Composed groups are a function of groups, over the template's groups and   *)
(* the backup group.                                                         *)
LEMMA ComposedShape ==
  ASSUME NEW base, NEW manifest, NEW u
  PROVE  LET W == Composed(base, manifest, u)
         IN /\ DOMAIN W \subseteq DOMAIN base.groups \cup {Backup}
            /\ \A g \in DOMAIN W : IsGroup(W[g])
<1> DEFINE I == Injected(base, manifest, u)
<1>1. DOMAIN I = DOMAIN base.groups /\ \A g \in DOMAIN I : IsGroup(I[g])
  BY DEF Injected, IsGroup
<1> HIDE DEF I
<1>2. CASE Primary \notin DOMAIN I
  BY <1>1, <1>2 DEF Composed, WithBackup, I
<1>3. CASE Primary \in DOMAIN I /\ ~ u.backup
  <2>1. Composed(base, manifest, u) = WithoutBackupGroup(I)
    BY <1>3 DEF Composed, WithBackup, I
  <2>2. QED BY <1>1, <2>1 DEF WithoutBackupGroup, IsGroup
<1>4. CASE Primary \in DOMAIN I /\ u.backup
  <2> DEFINE W == [g \in DOMAIN I \cup {Backup} |->
                     IF g = Backup THEN [members |-> {}, use |-> {BackupProvider}]
                     ELSE IF g = Primary THEN [I[g] EXCEPT !.members = @ \cup {Backup}]
                     ELSE I[g]]
  <2>1. Composed(base, manifest, u) = W
    BY <1>4 DEF Composed, WithBackup, I
  <2>2. ASSUME NEW g \in DOMAIN W PROVE IsGroup(W[g])
    <3>1. CASE g = Backup BY <3>1 DEF IsGroup
    <3>2. CASE g # Backup /\ g = Primary BY <1>1, <3>2 DEF IsGroup
    <3>3. CASE g # Backup /\ g # Primary BY <1>1, <3>3 DEF IsGroup
    <3>4. QED BY <3>1, <3>2, <3>3
  <2>3. QED BY <1>1, <2>1, <2>2
<1>5. QED BY <1>2, <1>3, <1>4

---------------------------------------------------------------------------
(* The passes of _drop_unusable_groups over composed groups W.                *)

AreNamed(W) == DOMAIN W \subseteq Names /\ \A g \in DOMAIN W : IsGroup(W[g])

(* What the passes have left: every group not dropped is there, with at least *)
(* the members that are left and no new ones; and nothing that supports itself *)
(* has been dropped.                                                         *)
Dropping(W, w) ==
  /\ w = [groups |-> w.groups, dropped |-> w.dropped]
  /\ w.dropped \subseteq DOMAIN W
  /\ DOMAIN w.groups = DOMAIN W \ w.dropped
  /\ \A g \in DOMAIN w.groups :
       /\ IsGroup(w.groups[g])
       /\ w.groups[g].use = W[g].use
       /\ w.groups[g].members \subseteq W[g].members
       /\ W[g].members \subseteq w.groups[g].members \cup w.dropped
  /\ \A U \in SUBSET DOMAIN W : Supported(W, U) => U \cap w.dropped = {}

(* What they end with: the rest supports itself, and no group has a dropped   *)
(* member.                                                                   *)
Dropped(W, w) ==
  /\ Dropping(W, w)
  /\ Supported(W, DOMAIN w.groups)
  /\ \A g \in DOMAIN w.groups : w.groups[g].members = W[g].members \ w.dropped

(* Taking the dropped names out of a group leaves a group. *)
LEMMA KeptIs ==
  ASSUME NEW w, NEW g \in DOMAIN w.groups, IsGroup(w.groups[g])
  PROVE  /\ IsGroup(Kept(w, g))
         /\ Kept(w, g).members = w.groups[g].members \ w.dropped
         /\ Kept(w, g).use = w.groups[g].use
<1>1. PICK m, u : w.groups[g] = [members |-> m, use |-> u] BY DEF IsGroup
<1>2. Kept(w, g) = [members |-> m \ w.dropped, use |-> u] BY <1>1 DEF Kept
<1>3. QED BY <1>1, <1>2 DEF IsGroup

(* An unusable group is in no set of groups that supports itself. *)
LEMMA UnusableIsUnsupported ==
  ASSUME NEW W, NEW w, Dropping(W, w), NEW g \in Unusable(w),
         NEW U \in SUBSET DOMAIN W, Supported(W, U)
  PROVE  g \notin U
<1> SUFFICES ASSUME g \in U PROVE FALSE OBVIOUS
<1>1. g \in DOMAIN w.groups /\ Kept(w, g).members = {} /\ w.groups[g].use = {}
  BY DEF Unusable
<1>2. /\ W[g].members \subseteq w.groups[g].members \cup w.dropped
      /\ W[g].use = {}
      /\ IsGroup(w.groups[g])
      /\ w.dropped \subseteq DOMAIN W
      /\ U \cap w.dropped = {}
  BY <1>1 DEF Dropping
<1>3. w.groups[g].members \ w.dropped = {} BY <1>1, <1>2, KeptIs
<1>4. W[g].members \subseteq w.dropped BY <1>2, <1>3
<1>5. QED BY <1>2, <1>4 DEF Supported

LEMMA FreshIs ==
  ASSUME NEW W, AreNamed(W)
  PROVE  Dropping(W, [groups |-> W, dropped |-> {}])
BY DEF AreNamed, Dropping

(* A pass drops one group more. *)
LEMMA PassKeeps ==
  ASSUME NEW W, AreNamed(W), NEW w, Dropping(W, w), Unusable(w) # {}
  PROVE  /\ Dropping(W, Pass(w))
         /\ \E g \in DOMAIN W \ w.dropped : Pass(w).dropped = w.dropped \cup {g}
<1> DEFINE gone == CHOOSE g \in Unusable(w) : \A h \in Unusable(w) : Order[g] <= Order[h]
           v == Pass(w)
<1>1. gone \in Unusable(w)
  <2>1. DOMAIN w.groups \subseteq Names BY DEF Dropping, AreNamed
  <2>2. Unusable(w) \in (SUBSET Names) \ {{}} BY <2>1 DEF Unusable
  <2>3. \E g \in Unusable(w) : \A h \in Unusable(w) : Order[g] <= Order[h]
    BY <2>2, OrderAssumption
  <2>4. QED BY <2>3
<1>2. gone \in DOMAIN w.groups BY <1>1 DEF Unusable
<1>3. /\ v = [groups |-> v.groups, dropped |-> v.dropped]
      /\ v.dropped = w.dropped \cup {gone}
      /\ DOMAIN v.groups = DOMAIN w.groups \ {gone}
      /\ \A g \in DOMAIN v.groups : v.groups[g] = w.groups[g] \/ v.groups[g] = Kept(w, g)
  BY DEF Pass
<1> HIDE DEF gone, v
<1>4. v.dropped \subseteq DOMAIN W /\ DOMAIN v.groups = DOMAIN W \ v.dropped
  BY <1>2, <1>3 DEF Dropping
<1>5. ASSUME NEW g \in DOMAIN v.groups
      PROVE  /\ IsGroup(v.groups[g])
             /\ v.groups[g].use = W[g].use
             /\ v.groups[g].members \subseteq W[g].members
             /\ W[g].members \subseteq v.groups[g].members \cup v.dropped
  <2>1. /\ g \in DOMAIN w.groups
        /\ IsGroup(w.groups[g])
        /\ w.groups[g].use = W[g].use
        /\ w.groups[g].members \subseteq W[g].members
        /\ W[g].members \subseteq w.groups[g].members \cup w.dropped
    BY <1>3 DEF Dropping
  <2>2. /\ IsGroup(Kept(w, g))
        /\ Kept(w, g).members = w.groups[g].members \ w.dropped
        /\ Kept(w, g).use = w.groups[g].use
    BY <2>1, KeptIs
  <2>3. CASE v.groups[g] = w.groups[g] BY <1>3, <2>1, <2>3
  <2>4. CASE v.groups[g] = Kept(w, g) BY <1>3, <2>1, <2>2, <2>4
  <2>5. QED BY <1>3, <2>3, <2>4
<1>6. \A U \in SUBSET DOMAIN W : Supported(W, U) => U \cap v.dropped = {}
  BY <1>1, <1>3, UnusableIsUnsupported DEF Dropping
<1>7. Dropping(W, v) BY <1>3, <1>4, <1>5, <1>6 DEF Dropping
<1>8. gone \in DOMAIN W \ w.dropped BY <1>2 DEF Dropping
<1>9. QED BY <1>3, <1>7, <1>8 DEF v

LEMMA LastPassEnds ==
  ASSUME NEW W, NEW w, Dropping(W, w), Unusable(w) = {}
  PROVE  Dropped(W, LastPass(w))
<1> DEFINE last == [g \in DOMAIN w.groups |-> Kept(w, g)]
<1>1. LastPass(w) = [groups |-> last, dropped |-> w.dropped]
  <2>1. PICK G, d : w = [groups |-> G, dropped |-> d] BY DEF Dropping
  <2>2. LastPass(w) = [w EXCEPT !.groups = last] BY DEF LastPass
  <2> HIDE DEF last
  <2>3. QED BY <2>1, <2>2
<1>2. ASSUME NEW g \in DOMAIN w.groups
      PROVE  /\ IsGroup(last[g])
             /\ last[g].use = W[g].use
             /\ last[g].members = W[g].members \ w.dropped
             /\ last[g].members # {} \/ last[g].use # {}
  <2>1. /\ IsGroup(w.groups[g])
        /\ w.groups[g].use = W[g].use
        /\ w.groups[g].members \subseteq W[g].members
        /\ W[g].members \subseteq w.groups[g].members \cup w.dropped
    BY DEF Dropping
  <2>2. /\ IsGroup(Kept(w, g))
        /\ Kept(w, g).members = w.groups[g].members \ w.dropped
        /\ Kept(w, g).use = w.groups[g].use
    BY <2>1, KeptIs
  <2>3. Kept(w, g).members # {} \/ w.groups[g].use # {} BY DEF Unusable
  <2>4. QED BY <2>1, <2>2, <2>3
<1>3. DOMAIN last = DOMAIN w.groups OBVIOUS
<1> HIDE DEF last
<1>4. Supported(W, DOMAIN last) BY <1>2, <1>3 DEF Supported, Dropping
<1>5. QED BY <1>1, <1>2, <1>3, <1>4 DEF Dropping, Dropped

(* The whole loop does as many passes as it needs: each drops a group. An      *)
(* induction over the passes, by the first number for which it fails.         *)
LEMMA LeastNumber ==
  ASSUME NEW S, S \subseteq Nat, S # {}
  PROVE  \E n \in S : \A k \in S : n <= k
<1>1. PICK n \in S : \A k \in S : ~ (<<k, n>> \in OpToRel(<, Nat))
  BY NatLessThanWellFounded, WFMin, Zenon
<1>2. \A k \in S : ~ (k < n) BY <1>1, Zenon DEF OpToRel
<1>3. QED BY <1>2

AfterPass(w) == IF Unusable(w) = {} THEN w ELSE Pass(w)
Passes(f, W, n) ==
  f = [k \in 0 .. n |-> IF k = 0 THEN [groups |-> W, dropped |-> {}] ELSE AfterPass(f[k - 1])]

LEMMA PassesExist ==
  ASSUME NEW W, NEW n \in Nat
  PROVE  \E f : Passes(f, W, n)
<1> DEFINE Endless == {k \in Nat : ~ \E f : Passes(f, W, k)}
           fresh == [groups |-> W, dropped |-> {}]
<1> SUFFICES ASSUME Endless # {} PROVE FALSE OBVIOUS
<1>1. PICK k \in Endless : \A j \in Endless : k <= j BY LeastNumber
<1> HIDE DEF fresh
<1>2. CASE k = 0
  <2> DEFINE f == [i \in 0 .. 0 |-> fresh]
  <2>1. f = [i \in 0 .. 0 |-> IF i = 0 THEN fresh ELSE AfterPass(f[i - 1])] OBVIOUS
  <2> HIDE DEF f
  <2>2. Passes(f, W, 0) BY <2>1 DEF Passes, fresh
  <2>3. QED BY <1>1, <1>2, <2>2
<1>3. CASE k > 0
  <2>1. k - 1 \in Nat /\ k - 1 \notin Endless BY <1>1, <1>3
  <2>2. PICK f : Passes(f, W, k - 1) BY <2>1
  <2>3. \A i \in 0 .. (k - 1) : f[i] = IF i = 0 THEN fresh ELSE AfterPass(f[i - 1])
    BY <2>2 DEF Passes, fresh
  <2> DEFINE g == [i \in 0 .. k |-> IF i < k THEN f[i] ELSE AfterPass(f[i - 1])]
  <2>4. ASSUME NEW i \in 0 .. k
        PROVE  g[i] = IF i = 0 THEN fresh ELSE AfterPass(g[i - 1])
    <3>1. i > 0 => g[i - 1] = f[i - 1] BY <1>1
    <3>2. i < k => g[i] = f[i] /\ i \in 0 .. (k - 1) BY <1>1
    <3>3. i = k => g[i] = AfterPass(f[i - 1]) BY <1>1
    <3> HIDE DEF g
    <3>4. QED BY <1>1, <1>3, <2>3, <3>1, <3>2, <3>3
  <2>5. g = [i \in 0 .. k |-> IF i = 0 THEN fresh ELSE AfterPass(g[i - 1])]
    <3>1. DOMAIN g = 0 .. k /\ g = [i \in 0 .. k |-> g[i]] OBVIOUS
    <3> HIDE DEF g
    <3>2. QED BY <2>4, <3>1
  <2> HIDE DEF g
  <2>6. Passes(g, W, k) BY <2>5 DEF Passes, fresh
  <2>7. QED BY <1>1, <2>6
<1>4. QED BY <1>1, <1>2, <1>3

LEMMA RenderedPasses ==
  ASSUME NEW W, Cardinality(DOMAIN W) \in Nat
  PROVE  \E f : /\ Passes(f, W, Cardinality(DOMAIN W))
                /\ Rendered(W) = LastPass(f[Cardinality(DOMAIN W)]).groups
<1> DEFINE n == Cardinality(DOMAIN W)
           after == CHOOSE f : f = [k \in 0 .. n |->
                      IF k = 0 THEN [groups |-> W, dropped |-> {}]
                      ELSE IF Unusable(f[k - 1]) = {} THEN f[k - 1] ELSE Pass(f[k - 1])]
<1>1. \E f : f = [k \in 0 .. n |->
               IF k = 0 THEN [groups |-> W, dropped |-> {}]
               ELSE IF Unusable(f[k - 1]) = {} THEN f[k - 1] ELSE Pass(f[k - 1])]
  <2>1. PICK f : Passes(f, W, n) BY PassesExist
  <2>2. f = [k \in 0 .. n |->
              IF k = 0 THEN [groups |-> W, dropped |-> {}]
              ELSE IF Unusable(f[k - 1]) = {} THEN f[k - 1] ELSE Pass(f[k - 1])]
    BY <2>1, Zenon DEF Passes, AfterPass
  <2>3. QED BY <2>2, Zenon
<1>2. after = [k \in 0 .. n |->
                IF k = 0 THEN [groups |-> W, dropped |-> {}]
                ELSE IF Unusable(after[k - 1]) = {} THEN after[k - 1] ELSE Pass(after[k - 1])]
  BY <1>1
<1>3. Rendered(W) = LastPass(after[n]).groups BY DEF Rendered
<1> HIDE DEF after
<1>4. Passes(after, W, n) BY <1>2, Zenon DEF Passes, AfterPass
<1>5. QED BY <1>3, <1>4

LEMMA PassesDrop ==
  ASSUME NEW W, AreNamed(W), NEW n \in Nat, NEW f, Passes(f, W, n)
  PROVE  /\ Dropping(W, f[n])
         /\ Unusable(f[n]) = {} \/ Cardinality(f[n].dropped) = n
<1> DEFINE Good(k) == /\ Dropping(W, f[k])
                      /\ IsFiniteSet(f[k].dropped)
                      /\ Unusable(f[k]) = {} \/ Cardinality(f[k].dropped) = k
           Wrong == {k \in 0 .. n : ~ Good(k)}
<1> SUFFICES Wrong = {} OBVIOUS
<1>1. \A k \in 0 .. n : f[k] = IF k = 0 THEN [groups |-> W, dropped |-> {}] ELSE AfterPass(f[k - 1])
  BY DEF Passes
<1>2. Good(0) BY <1>1, FreshIs, FS_EmptySet
<1>3. ASSUME NEW k \in 0 .. n, k # 0, Good(k - 1) PROVE Good(k)
  <2> DEFINE w == f[k - 1]
  <2>1. f[k] = AfterPass(w) BY <1>1, <1>3
  <2>2. CASE Unusable(w) = {} BY <1>3, <2>1, <2>2 DEF AfterPass
  <2>3. CASE Unusable(w) # {}
    <3>1. f[k] = Pass(w) BY <2>1, <2>3 DEF AfterPass
    <3>2. Dropping(W, w) /\ IsFiniteSet(w.dropped) /\ Cardinality(w.dropped) = k - 1
      BY <1>3, <2>3
    <3> HIDE DEF w
    <3>3. PICK g \in DOMAIN W \ w.dropped : f[k].dropped = w.dropped \cup {g}
      BY <2>3, <3>1, <3>2, PassKeeps
    <3>4. Dropping(W, f[k]) BY <2>3, <3>1, <3>2, PassKeeps
    <3>5. IsFiniteSet(f[k].dropped) /\ Cardinality(f[k].dropped) = k
      <4>1. /\ IsFiniteSet(w.dropped \cup {g})
            /\ Cardinality(w.dropped \cup {g}) =
                 IF g \in w.dropped THEN Cardinality(w.dropped) ELSE Cardinality(w.dropped) + 1
        BY <3>2, FS_AddElement
      <4>2. k - 1 + 1 = k OBVIOUS
      <4>3. QED BY <3>2, <3>3, <4>1, <4>2, Zenon
    <3>6. QED BY <3>4, <3>5
  <2>4. QED BY <2>2, <2>3
<1> HIDE DEF Good
<1>4. QED
  <2> SUFFICES ASSUME Wrong # {} PROVE FALSE OBVIOUS
  <2>1. Wrong \subseteq Nat OBVIOUS
  <2>2. PICK k \in Wrong : \A j \in Wrong : k <= j
    <3> HIDE DEF Wrong
    <3>1. QED BY <2>1, LeastNumber
  <2>3. k # 0 BY <1>2, <2>2
  <2>4. k - 1 \in 0 .. n /\ k - 1 \notin Wrong BY <2>2, <2>3
  <2>5. QED BY <1>3, <2>2, <2>3, <2>4

(* Rendering drops until the rest supports itself. *)
LEMMA RenderedDropped ==
  ASSUME NEW W, AreNamed(W)
  PROVE  \E w : Dropped(W, w) /\ Rendered(W) = w.groups
<1> DEFINE n == Cardinality(DOMAIN W)
<1>1. IsFiniteSet(DOMAIN W) /\ n \in Nat
  BY NamesAssumption, FS_Subset, FS_CardinalityType DEF AreNamed
<1>2. PICK f : Passes(f, W, n) /\ Rendered(W) = LastPass(f[n]).groups
  BY <1>1, RenderedPasses
<1>3. Dropping(W, f[n]) /\ (Unusable(f[n]) = {} \/ Cardinality(f[n].dropped) = n)
  BY <1>1, <1>2, PassesDrop
<1>4. Unusable(f[n]) = {}
  <2>1. CASE Cardinality(f[n].dropped) = n
    <3>1. f[n].dropped \subseteq DOMAIN W /\ DOMAIN f[n].groups = DOMAIN W \ f[n].dropped
      BY <1>3 DEF Dropping
    <3>2. f[n].dropped = DOMAIN W BY <1>1, <2>1, <3>1, FS_Subset
    <3>3. QED BY <3>1, <3>2 DEF Unusable
  <2>2. QED BY <1>3, <2>1
<1>5. QED BY <1>2, <1>3, <1>4, LastPassEnds

---------------------------------------------------------------------------
(* What holds of a made-up user's profile holds of a real user's.             *)

(* What is left of the groups W is R: the largest part that supports itself.  *)
Trimmed(W, R) ==
  /\ Supported(W, DOMAIN R)
  /\ \A U \in SUBSET DOMAIN W : Supported(W, U) => U \subseteq DOMAIN R
  /\ \A g \in DOMAIN R : /\ R[g].use = W[g].use
                         /\ R[g].members = W[g].members \ (DOMAIN W \ DOMAIN R)

LEMMA DroppedIsTrimmed ==
  ASSUME NEW W, NEW w, Dropped(W, w)
  PROVE  Trimmed(W, w.groups)
<1>1. /\ w.dropped \subseteq DOMAIN W /\ DOMAIN w.groups = DOMAIN W \ w.dropped
      /\ w.dropped = DOMAIN W \ DOMAIN w.groups
  BY DEF Dropped, Dropping
<1>2. QED BY <1>1 DEF Dropped, Dropping, Trimmed

(* The groups Wu composed for a user are those Wp composed for a probe, with   *)
(* other nodes in the same places, and perhaps the backup group.              *)
Alike(Wp, p, Wu, u) ==
  /\ p.airport = u.airport /\ p.backup = FALSE
  /\ p.nodes = IF u.nodes = {} THEN {} ELSE {Probe}
  /\ DOMAIN Wu = DOMAIN Wp \cup (IF u.backup THEN {Backup} ELSE {})
  /\ Probe \notin DOMAIN Wp
  /\ u.nodes \cap (DOMAIN Wp \cup {Backup}) = {}
  /\ u.backup => /\ Backup \notin DOMAIN Wp
                 /\ Wu[Backup].members = {} /\ Wu[Backup].use = {BackupProvider}
  /\ \A g \in DOMAIN Wp :
       /\ Wu[g].use = Wp[g].use
       /\ \/ /\ Wp[g].members = Wp[g].members \ {Probe}
             /\ \/ Wu[g].members = Wp[g].members
                \/ u.backup /\ Wu[g].members = Wp[g].members \cup {Backup}
          \/ /\ Wp[g].members = (Wp[g].members \ {Probe}) \cup p.nodes
             /\ \/ Wu[g].members = (Wp[g].members \ {Probe}) \cup u.nodes
                \/ u.backup /\ Wu[g].members = (Wp[g].members \ {Probe}) \cup u.nodes \cup {Backup}

LEMMA ValidCarriesOver ==
  ASSUME NEW Wp, NEW p, NEW Wu, NEW u, NEW Rp, NEW Ru, NEW rules,
         Alike(Wp, p, Wu, u), Trimmed(Wp, Rp), Trimmed(Wu, Ru),
         Valid(Rp, rules, p), Probe \notin rules,
         u.nodes # {} \/ u.airport
  PROVE  Valid(Ru, rules, u)
<1> DEFINE G == DOMAIN Wp
           Dp == DOMAIN Rp
           Du == DOMAIN Ru
           N(g) == Wp[g].members \ {Probe}    \* without the nodes of the user
           targets == u.nodes \cup Du \cup Builtins
<1>1. /\ Supported(Wp, Dp) /\ Supported(Wu, Du)
      /\ Dp \subseteq G /\ Du \subseteq DOMAIN Wu
  BY DEF Trimmed, Supported
<1>2. Probe \notin Builtins /\ Backup \notin Builtins BY ProbeAssumption, NamesAssumption
\* A group that is not left had nothing but dropped groups.
<1>3. ASSUME NEW g \in G, g \notin Dp
      PROVE  Wp[g].use = {} /\ Wp[g].members \subseteq G
  <2>1. ~ Supported(Wp, Dp \cup {g}) BY <1>1, <1>3 DEF Trimmed
  <2>2. QED BY <1>1, <2>1 DEF Supported
\* So every member that is no group and no node is a built-in target.
<1>4. ASSUME NEW g \in G, NEW x \in N(g), x \notin G PROVE x \in Builtins
  <2>1. g \in Dp BY <1>3, <1>4
  <2>2. x \in Rp[g].members BY <1>4, <2>1 DEF Trimmed
  <2>3. x \in p.nodes \cup Dp \cup Builtins BY <2>1, <2>2 DEF Valid
  <2>4. p.nodes \subseteq {Probe} BY DEF Alike
  <2>5. QED BY <1>1, <1>4, <2>3, <2>4
<1>5. ASSUME NEW g \in G
      PROVE  /\ N(g) \subseteq Wu[g].members
             /\ Wu[g].members \subseteq N(g) \cup u.nodes \cup (IF u.backup THEN {Backup} ELSE {})
             /\ Probe \in Wp[g].members => u.nodes # {} /\ u.nodes \subseteq Wu[g].members
  BY DEF Alike
<1>6. /\ DOMAIN Wu = G \cup (IF u.backup THEN {Backup} ELSE {})
      /\ u.nodes \cap DOMAIN Wu = {}
      /\ Probe \notin G
  BY DEF Alike
\* What the probe is left with, the user is left with.
<1>7. Dp \subseteq Du
  <2>1. ASSUME NEW g \in Dp
        PROVE  \/ Wu[g].use # {}
               \/ Wu[g].members \ DOMAIN Wu # {}
               \/ Wu[g].members \cap Dp # {}
    <3>1. g \in G /\ Wu[g].use = Wp[g].use BY <1>1 DEF Alike
    <3>2. CASE Wp[g].use # {} BY <3>1, <3>2
    <3>3. CASE Wp[g].members \ G # {}
      <4>1. PICK x \in Wp[g].members : x \notin G BY <3>3
      <4>2. CASE x = Probe
        <5>1. u.nodes # {} /\ u.nodes \subseteq Wu[g].members BY <1>5, <3>1, <4>1, <4>2
        <5>2. QED BY <1>6, <5>1
      <4>3. CASE x # Probe
        <5>1. x \in N(g) /\ x \in Builtins BY <1>4, <3>1, <4>1, <4>3
        <5>2. x \in Wu[g].members BY <1>5, <3>1, <5>1
        <5>3. x \notin DOMAIN Wu BY <1>2, <1>6, <4>1, <5>1
        <5>4. QED BY <5>2, <5>3
      <4>4. QED BY <4>2, <4>3
    <3>4. CASE Wp[g].members \cap Dp # {}
      <4>1. PICK x \in Wp[g].members : x \in Dp BY <3>4
      <4>2. x \in N(g) BY <1>1, <1>6, <4>1
      <4>3. QED BY <1>5, <3>1, <4>1, <4>2
    <3>5. QED BY <1>1, <3>2, <3>3, <3>4 DEF Supported
  <2>2. Supported(Wu, Dp) BY <1>1, <1>6, <2>1 DEF Supported
  <2>3. QED BY <1>1, <1>6, <2>2 DEF Trimmed
<1>8. u.backup => Backup \in Du
  <2>1. u.backup => Supported(Wu, {Backup}) BY DEF Alike, Supported
  <2>2. QED BY <1>6, <2>1 DEF Trimmed
<1>9. \A g \in Du : g \in G \/ (u.backup /\ g = Backup /\ g \notin G)
  BY <1>1, <1>6 DEF Alike
<1>10. u.nodes # {} \/ ProvidersOf(u) # {} BY DEF ProvidersOf
<1>11. Du # {} BY <1>7 DEF Valid
<1>12. u.nodes \cap Du = {} BY <1>1, <1>6
<1>13. ASSUME NEW g \in Du PROVE Ru[g].members # {} \/ Ru[g].use # {}
  <2>1. Ru[g].use = Wu[g].use /\ Ru[g].members = Wu[g].members \ (DOMAIN Wu \ Du)
    BY DEF Trimmed
  <2>2. \/ Wu[g].use # {}
        \/ Wu[g].members \ DOMAIN Wu # {}
        \/ Wu[g].members \cap Du # {}
    BY <1>1 DEF Supported
  <2>3. QED BY <2>1, <2>2
<1>14. ASSUME NEW g \in Du PROVE Ru[g].members \subseteq targets
  <2>1. Ru[g].members = Wu[g].members \ (DOMAIN Wu \ Du) BY DEF Trimmed
  <2>2. CASE u.backup /\ g = Backup BY <2>1, <2>2 DEF Alike
  <2>3. ASSUME g \in G, NEW x \in Ru[g].members PROVE x \in targets
    <3>1. x \in Wu[g].members /\ (x \in DOMAIN Wu => x \in Du) BY <2>1, <2>3
    <3>2. x \in N(g) \cup u.nodes \/ (u.backup /\ x = Backup) BY <1>5, <2>3, <3>1
    <3>3. CASE x \in N(g) BY <1>4, <1>6, <2>3, <3>1, <3>3
    <3>4. CASE u.backup /\ x = Backup BY <1>8, <3>4
    <3>5. QED BY <3>2, <3>3, <3>4
  <2>4. QED BY <1>9, <2>2, <2>3
<1>15. ASSUME NEW g \in Du PROVE Ru[g].use \subseteq ProvidersOf(u)
  <2>1. Ru[g].use = Wu[g].use BY DEF Trimmed
  <2>2. CASE u.backup /\ g = Backup BY <2>1, <2>2 DEF Alike, ProvidersOf
  <2>3. CASE g \in G
    <3>1. Wu[g].use = Wp[g].use BY <2>3 DEF Alike
    <3>2. g \in Dp => Wp[g].use \subseteq ProvidersOf(p) BY DEF Trimmed, Valid
    <3>3. ProvidersOf(p) \subseteq ProvidersOf(u) BY DEF ProvidersOf, Alike
    <3>4. QED BY <1>3, <2>1, <2>3, <3>1, <3>2, <3>3
  <2>4. QED BY <1>9, <2>2, <2>3
\* A circle of groups supports itself, so the probe was left with it too.
<1>16. ~ HasCycle(Ru)
  <2> SUFFICES ASSUME HasCycle(Ru) PROVE FALSE OBVIOUS
  <2>1. PICK S \in (SUBSET Du) \ {{}} : \A g \in S : Ru[g].members \cap S # {}
    BY DEF HasCycle
  <2>2. \A g \in S : Ru[g].members \subseteq Wu[g].members BY <2>1 DEF Trimmed
  <2>3. Backup \notin S \/ ~ u.backup BY <2>1, <2>2 DEF Alike
  <2>4. S \subseteq G BY <1>9, <2>1, <2>3
  <2>5. ASSUME NEW g \in S PROVE \E x \in S : x \in Wp[g].members
    <3>1. PICK x \in S : x \in Wu[g].members BY <2>1, <2>2
    <3>2. x \notin u.nodes BY <1>6, <2>4
    <3>3. x # Backup \/ ~ u.backup BY <2>3
    <3>4. x \in N(g) BY <1>5, <2>4, <3>1, <3>2, <3>3
    <3>5. QED BY <3>4
  <2>6. Supported(Wp, S) BY <2>4, <2>5 DEF Supported
  <2>7. S \subseteq Dp BY <2>4, <2>6 DEF Trimmed
  <2>8. \A g \in S : Rp[g].members \cap S # {} BY <2>5, <2>7 DEF Trimmed
  <2>9. HasCycle(Rp) BY <2>1, <2>7, <2>8 DEF HasCycle
  <2>10. QED BY <2>9 DEF Valid
<1>17. rules \subseteq targets
  <2>1. rules \subseteq p.nodes \cup Dp \cup Builtins BY DEF Valid
  <2>2. p.nodes \subseteq {Probe} BY DEF Alike
  <2>3. QED BY <1>7, <2>1, <2>2
<1>18. QED BY <1>10, <1>11, <1>12, <1>13, <1>14, <1>15, <1>16, <1>17 DEF Valid

(* The members and providers of a composed group. *)
MembersFor(base, manifest, u, g) ==
  base.groups[g].members \cup (IF g \in manifest.nodes THEN u.nodes ELSE {})
UseFor(base, manifest, u, g) ==
  base.groups[g].use \cup (IF u.airport /\ g \in manifest.providers THEN {Airport} ELSE {})

LEMMA ComposedUnbacked ==
  ASSUME NEW base, NEW manifest, NEW u, Primary \notin DOMAIN base.groups
  PROVE  /\ DOMAIN Composed(base, manifest, u) = DOMAIN base.groups
         /\ \A g \in DOMAIN base.groups :
              Composed(base, manifest, u)[g] = [members |-> MembersFor(base, manifest, u, g),
                                                use |-> UseFor(base, manifest, u, g)]
<1> DEFINE I == Injected(base, manifest, u)
<1>1. /\ DOMAIN I = DOMAIN base.groups
      /\ \A g \in DOMAIN I : I[g] = [members |-> MembersFor(base, manifest, u, g),
                                    use |-> UseFor(base, manifest, u, g)]
  BY DEF Injected, MembersFor, UseFor
<1> HIDE DEF I
<1>2. Composed(base, manifest, u) = I BY <1>1 DEF Composed, WithBackup, I
<1>3. QED BY <1>1, <1>2

LEMMA ComposedWithBackup ==
  ASSUME NEW base, NEW manifest, NEW u, u.backup, Primary \in DOMAIN base.groups
  PROVE  /\ DOMAIN Composed(base, manifest, u) = DOMAIN base.groups \cup {Backup}
         /\ Composed(base, manifest, u)[Backup] = [members |-> {}, use |-> {BackupProvider}]
         /\ \A g \in DOMAIN base.groups \ {Backup} :
              Composed(base, manifest, u)[g] =
                [members |-> IF g = Primary THEN MembersFor(base, manifest, u, g) \cup {Backup}
                             ELSE MembersFor(base, manifest, u, g),
                 use |-> UseFor(base, manifest, u, g)]
<1> DEFINE W == Composed(base, manifest, u)
           B == DOMAIN base.groups
           M(g) == MembersFor(base, manifest, u, g)
           P(g) == UseFor(base, manifest, u, g)
           I == Injected(base, manifest, u)
<1>1. DOMAIN I = B /\ \A g \in B : I[g] = [members |-> M(g), use |-> P(g)]
  BY DEF Injected, MembersFor, UseFor
<1> HIDE DEF I
<1>2. W = [g \in B \cup {Backup} |->
             IF g = Backup THEN [members |-> {}, use |-> {BackupProvider}]
             ELSE IF g = Primary THEN [I[g] EXCEPT !.members = @ \cup {Backup}]
             ELSE I[g]]
  <2>1. W = WithBackup(I, u) BY DEF Composed, I
  <2>2. QED BY <1>1, <2>1 DEF WithBackup
<1> HIDE DEF W, M, P
<1>3. ASSUME NEW g \in B \ {Backup}
      PROVE  W[g] = [members |-> IF g = Primary THEN M(g) \cup {Backup} ELSE M(g), use |-> P(g)]
  <2>1. W[g] = IF g = Primary THEN [I[g] EXCEPT !.members = @ \cup {Backup}] ELSE I[g]
    BY <1>2
  <2>2. I[g] = [members |-> M(g), use |-> P(g)] BY <1>1
  <2>3. QED BY <2>1, <2>2
<1>4. DOMAIN W = B \cup {Backup} /\ W[Backup] = [members |-> {}, use |-> {BackupProvider}]
  BY <1>2
<1>5. QED BY <1>3, <1>4 DEF W, M, P

LEMMA ComposedWithoutBackup ==
  ASSUME NEW base, NEW manifest, NEW u, ~ u.backup, Primary \in DOMAIN base.groups
  PROVE  /\ DOMAIN Composed(base, manifest, u) = DOMAIN base.groups \ {Backup}
         /\ \A g \in DOMAIN base.groups \ {Backup} :
              Composed(base, manifest, u)[g] =
                [members |-> IF g = Primary THEN MembersFor(base, manifest, u, g) \ {Backup}
                             ELSE MembersFor(base, manifest, u, g),
                 use |-> UseFor(base, manifest, u, g)]
<1> DEFINE W == Composed(base, manifest, u)
           B == DOMAIN base.groups
           M(g) == MembersFor(base, manifest, u, g)
           P(g) == UseFor(base, manifest, u, g)
           I == Injected(base, manifest, u)
<1>1. DOMAIN I = B /\ \A g \in B : I[g] = [members |-> M(g), use |-> P(g)]
  BY DEF Injected, MembersFor, UseFor
<1> HIDE DEF I
<1>2. W = [g \in B \ {Backup} |->
             IF g = Primary THEN [I[g] EXCEPT !.members = @ \ {Backup}] ELSE I[g]]
  <2>1. W = WithBackup(I, u) BY DEF Composed, I
  <2>2. QED BY <1>1, <2>1 DEF WithBackup, WithoutBackupGroup
<1> HIDE DEF W, M, P
<1>3. ASSUME NEW g \in B \ {Backup}
      PROVE  W[g] = [members |-> IF g = Primary THEN M(g) \ {Backup} ELSE M(g), use |-> P(g)]
  <2>1. W[g] = IF g = Primary THEN [I[g] EXCEPT !.members = @ \ {Backup}] ELSE I[g]
    BY <1>2
  <2>2. I[g] = [members |-> M(g), use |-> P(g)] BY <1>1
  <2>3. QED BY <2>1, <2>2
<1>4. DOMAIN W = B \ {Backup} BY <1>2
<1>5. QED BY <1>3, <1>4 DEF W, M, P

(* For every user one of the made-up ones is alike. *)
LEMMA ProbeIsAlike ==
  ASSUME NEW base, NEW manifest, NEW u,
         u.airport \in BOOLEAN, u.backup \in BOOLEAN, u.nodes # {} \/ u.airport,
         Unnamed(Probe, base),
         u.nodes \cap (DOMAIN base.groups \cup {Backup}) = {},
         u.backup => Primary \in DOMAIN base.groups
  PROVE  \E p \in ProbeUsers :
           Alike(Composed(base, manifest, p), p, Composed(base, manifest, u), u)
<1>2. PICK p \in ProbeUsers : /\ p.airport = u.airport /\ p.backup = FALSE
                             /\ p.nodes = IF u.nodes = {} THEN {} ELSE {Probe}
  <2> DEFINE q == [nodes |-> IF u.nodes = {} THEN {} ELSE {Probe},
                   airport |-> u.airport, backup |-> FALSE]
  <2>1. q \in ProbeUsers BY DEF ProbeUsers
  <2>2. QED BY <2>1
<1> DEFINE B == DOMAIN base.groups
           Wp == Composed(base, manifest, p)
           Wu == Composed(base, manifest, u)
           N(g) == base.groups[g].members
           Np(g) == IF g \in manifest.nodes THEN p.nodes ELSE {}
           Nu(g) == IF g \in manifest.nodes THEN u.nodes ELSE {}
<1>3. \A g \in B : /\ MembersFor(base, manifest, p, g) = N(g) \cup Np(g)
                   /\ MembersFor(base, manifest, u, g) = N(g) \cup Nu(g)
                   /\ UseFor(base, manifest, p, g) = UseFor(base, manifest, u, g)
  BY <1>2 DEF MembersFor, UseFor
<1>4. /\ Probe # Backup /\ Backup \notin u.nodes /\ Primary # Backup
      /\ Probe \notin B /\ u.nodes \cap B = {}
      /\ \A g \in B : Probe \notin N(g)
  BY ProbeAssumption, NamesAssumption DEF Unnamed
<1>10. ASSUME Primary \notin B
       PROVE  /\ ~ u.backup /\ DOMAIN Wp = B /\ DOMAIN Wu = B
              /\ \A g \in B : /\ Wp[g].members = N(g) \cup Np(g)
                              /\ Wu[g].members = N(g) \cup Nu(g)
                              /\ Wu[g].use = Wp[g].use
  <2>1. /\ DOMAIN Wp = B
        /\ \A g \in B : Wp[g] = [members |-> MembersFor(base, manifest, p, g),
                                use |-> UseFor(base, manifest, p, g)]
    BY <1>10, ComposedUnbacked
  <2>2. /\ DOMAIN Wu = B
        /\ \A g \in B : Wu[g] = [members |-> MembersFor(base, manifest, u, g),
                                use |-> UseFor(base, manifest, u, g)]
    BY <1>10, ComposedUnbacked
  <2> HIDE DEF N, Np, Nu, Wp, Wu
  <2>3. ASSUME NEW g \in B
        PROVE  /\ Wp[g].members = N(g) \cup Np(g)
               /\ Wu[g].members = N(g) \cup Nu(g)
               /\ Wu[g].use = Wp[g].use
    <3>1. /\ MembersFor(base, manifest, p, g) = N(g) \cup Np(g)
          /\ MembersFor(base, manifest, u, g) = N(g) \cup Nu(g)
          /\ UseFor(base, manifest, p, g) = UseFor(base, manifest, u, g)
      BY <1>3
    <3>2. Wp[g] = [members |-> N(g) \cup Np(g), use |-> UseFor(base, manifest, u, g)]
      BY <2>1, <3>1
    <3>3. Wu[g] = [members |-> N(g) \cup Nu(g), use |-> UseFor(base, manifest, u, g)]
      BY <2>2, <3>1
    <3>4. QED BY <3>2, <3>3
  <2>4. QED BY <1>10, <2>1, <2>2, <2>3
<1>11. ASSUME Primary \in B
       PROVE  /\ DOMAIN Wp = B \ {Backup}
              /\ DOMAIN Wu = (B \ {Backup}) \cup (IF u.backup THEN {Backup} ELSE {})
              /\ u.backup => Wu[Backup].members = {} /\ Wu[Backup].use = {BackupProvider}
              /\ \A g \in B \ {Backup} :
                   /\ Wp[g].members = IF g # Primary THEN N(g) \cup Np(g)
                                      ELSE (N(g) \cup Np(g)) \ {Backup}
                   /\ \/ Wu[g].members = IF g # Primary THEN N(g) \cup Nu(g)
                                         ELSE (N(g) \cup Nu(g)) \ {Backup}
                      \/ /\ u.backup /\ g = Primary
                         /\ Wu[g].members = N(g) \cup Nu(g) \cup {Backup}
                   /\ Wu[g].use = Wp[g].use
  <2>1. /\ DOMAIN Wp = B \ {Backup}
        /\ \A g \in B \ {Backup} :
             Wp[g] = [members |-> IF g = Primary THEN MembersFor(base, manifest, p, g) \ {Backup}
                                  ELSE MembersFor(base, manifest, p, g),
                      use |-> UseFor(base, manifest, p, g)]
    <3>1. ~ p.backup /\ Primary \in DOMAIN base.groups BY <1>2, <1>11
    <3>2. QED BY <3>1, ComposedWithoutBackup
  <2>2. ASSUME NEW g \in B \ {Backup}
        PROVE  Wp[g] = [members |-> IF g # Primary THEN N(g) \cup Np(g)
                                    ELSE (N(g) \cup Np(g)) \ {Backup},
                        use |-> UseFor(base, manifest, u, g)]
    <3>1. /\ MembersFor(base, manifest, p, g) = N(g) \cup Np(g)
          /\ UseFor(base, manifest, p, g) = UseFor(base, manifest, u, g)
      BY <1>3
    <3> HIDE DEF Wp, N, Np
    <3>2. QED BY <2>1, <3>1
  <2>3. CASE u.backup
    <3>1. /\ DOMAIN Wu = B \cup {Backup}
          /\ Wu[Backup] = [members |-> {}, use |-> {BackupProvider}]
          /\ \A g \in B \ {Backup} :
               Wu[g] = [members |-> IF g = Primary
                                    THEN MembersFor(base, manifest, u, g) \cup {Backup}
                                    ELSE MembersFor(base, manifest, u, g),
                        use |-> UseFor(base, manifest, u, g)]
      BY <1>11, <2>3, ComposedWithBackup
    <3>2. ASSUME NEW g \in B \ {Backup}
          PROVE  Wu[g] = [members |-> IF g # Primary THEN N(g) \cup Nu(g)
                                      ELSE N(g) \cup Nu(g) \cup {Backup},
                          use |-> UseFor(base, manifest, u, g)]
      <4>1. MembersFor(base, manifest, u, g) = N(g) \cup Nu(g) BY <1>3
      <4> HIDE DEF Wu, N, Nu
      <4>2. QED BY <3>1, <4>1
    <3> HIDE DEF Wp, Wu, N, Np, Nu
    <3>3. ASSUME NEW g \in B \ {Backup}
          PROVE  /\ Wp[g].members = IF g # Primary THEN N(g) \cup Np(g)
                                    ELSE (N(g) \cup Np(g)) \ {Backup}
                 /\ Wu[g].members = IF g # Primary THEN N(g) \cup Nu(g)
                                    ELSE N(g) \cup Nu(g) \cup {Backup}
                 /\ Wu[g].use = Wp[g].use
      <4> DEFINE mp == IF g # Primary THEN N(g) \cup Np(g) ELSE (N(g) \cup Np(g)) \ {Backup}
                 mu == IF g # Primary THEN N(g) \cup Nu(g) ELSE N(g) \cup Nu(g) \cup {Backup}
      <4>1. Wp[g] = [members |-> mp, use |-> UseFor(base, manifest, u, g)] BY <2>2
      <4>2. Wu[g] = [members |-> mu, use |-> UseFor(base, manifest, u, g)] BY <3>2
      <4> HIDE DEF mp, mu
      <4>3. Wp[g].members = mp /\ Wu[g].members = mu /\ Wu[g].use = Wp[g].use BY <4>1, <4>2
      <4>4. QED BY <4>3 DEF mp, mu
    <3>4. Wu[Backup].members = {} /\ Wu[Backup].use = {BackupProvider} BY <3>1
    <3>5. DOMAIN Wu = (B \ {Backup}) \cup {Backup} BY <3>1
    <3>6. QED BY <2>1, <2>3, <3>3, <3>4, <3>5
  <2>4. CASE ~ u.backup
    <3>1. /\ DOMAIN Wu = B \ {Backup}
          /\ \A g \in B \ {Backup} :
               Wu[g] = [members |-> IF g = Primary
                                    THEN MembersFor(base, manifest, u, g) \ {Backup}
                                    ELSE MembersFor(base, manifest, u, g),
                        use |-> UseFor(base, manifest, u, g)]
      BY <1>11, <2>4, ComposedWithoutBackup
    <3>2. ASSUME NEW g \in B \ {Backup}
          PROVE  Wu[g] = [members |-> IF g # Primary THEN N(g) \cup Nu(g)
                                      ELSE (N(g) \cup Nu(g)) \ {Backup},
                          use |-> UseFor(base, manifest, u, g)]
      <4>1. MembersFor(base, manifest, u, g) = N(g) \cup Nu(g) BY <1>3
      <4> HIDE DEF Wu, N, Nu
      <4>2. QED BY <3>1, <4>1
    <3> HIDE DEF Wp, Wu, N, Np, Nu
    <3>3. ASSUME NEW g \in B \ {Backup}
          PROVE  /\ Wp[g].members = IF g # Primary THEN N(g) \cup Np(g)
                                    ELSE (N(g) \cup Np(g)) \ {Backup}
                 /\ Wu[g].members = IF g # Primary THEN N(g) \cup Nu(g)
                                    ELSE (N(g) \cup Nu(g)) \ {Backup}
                 /\ Wu[g].use = Wp[g].use
      <4> DEFINE mp == IF g # Primary THEN N(g) \cup Np(g) ELSE (N(g) \cup Np(g)) \ {Backup}
                 mu == IF g # Primary THEN N(g) \cup Nu(g) ELSE (N(g) \cup Nu(g)) \ {Backup}
      <4>1. Wp[g] = [members |-> mp, use |-> UseFor(base, manifest, u, g)] BY <2>2
      <4>2. Wu[g] = [members |-> mu, use |-> UseFor(base, manifest, u, g)] BY <3>2
      <4> HIDE DEF mp, mu
      <4>3. Wp[g].members = mp /\ Wu[g].members = mu /\ Wu[g].use = Wp[g].use BY <4>1, <4>2
      <4>4. QED BY <4>3 DEF mp, mu
    <3>4. QED BY <2>1, <2>4, <3>1, <3>3
  <2>5. QED BY <2>3, <2>4
<1>5. /\ DOMAIN Wu = DOMAIN Wp \cup (IF u.backup THEN {Backup} ELSE {})
      /\ DOMAIN Wp \subseteq B
      /\ u.backup => /\ Backup \notin DOMAIN Wp
                     /\ Wu[Backup].members = {} /\ Wu[Backup].use = {BackupProvider}
  BY <1>10, <1>11
<1>6. ASSUME NEW g \in DOMAIN Wp
      PROVE  /\ Wu[g].use = Wp[g].use
             /\ \E S : /\ Probe \notin S
                       /\ Wp[g].members = S \cup Np(g)
                       /\ \/ Wu[g].members = S \cup Nu(g)
                          \/ u.backup /\ Wu[g].members = S \cup Nu(g) \cup {Backup}
  <2>1. CASE Primary \notin B
    <3>1. /\ Wp[g].members = N(g) \cup Np(g) /\ Wu[g].members = N(g) \cup Nu(g)
          /\ g \in B /\ Wu[g].use = Wp[g].use
      BY <1>10, <2>1
    <3>2. Probe \notin N(g) BY <1>4, <3>1
    <3>3. QED BY <3>1, <3>2
  <2>2. CASE Primary \in B
    <3>1. g \in B \ {Backup} BY <1>11, <2>2
    <3>2. Wp[g].members = IF g # Primary THEN N(g) \cup Np(g)
                          ELSE (N(g) \cup Np(g)) \ {Backup}
      BY <1>11, <2>2, <3>1
    <3>3. \/ Wu[g].members = IF g # Primary THEN N(g) \cup Nu(g)
                             ELSE (N(g) \cup Nu(g)) \ {Backup}
          \/ u.backup /\ g = Primary /\ Wu[g].members = N(g) \cup Nu(g) \cup {Backup}
      BY <1>11, <2>2, <3>1
    <3>4. Wu[g].use = Wp[g].use BY <1>11, <2>2, <3>1
    <3>5. Backup \notin Np(g) /\ Backup \notin Nu(g) BY <1>2, <1>4
    <3> HIDE DEF N, Np, Nu, Wp, Wu
    <3>6. CASE g # Primary BY <1>4, <3>1, <3>2, <3>3, <3>4, <3>6
    <3>7. CASE g = Primary
      <4> DEFINE S == N(g) \ {Backup}
      <4>1. Probe \notin S BY <1>4, <3>1
      <4>2. Wp[g].members = S \cup Np(g) BY <3>2, <3>5, <3>7
      <4>3. \/ Wu[g].members = S \cup Nu(g)
            \/ u.backup /\ Wu[g].members = S \cup Nu(g) \cup {Backup}
        BY <3>3, <3>5, <3>7
      <4> HIDE DEF S
      <4>5. QED BY <3>4, <4>1, <4>2, <4>3
    <3>8. QED BY <3>6, <3>7
  <2>3. QED BY <2>1, <2>2
<1> HIDE DEF Wp, Wu
<1>7. ASSUME NEW g \in DOMAIN Wp
      PROVE  \/ /\ Wp[g].members = Wp[g].members \ {Probe}
                /\ \/ Wu[g].members = Wp[g].members
                   \/ u.backup /\ Wu[g].members = Wp[g].members \cup {Backup}
             \/ /\ Wp[g].members = (Wp[g].members \ {Probe}) \cup p.nodes
                /\ \/ Wu[g].members = (Wp[g].members \ {Probe}) \cup u.nodes
                   \/ u.backup /\ Wu[g].members = (Wp[g].members \ {Probe}) \cup u.nodes \cup {Backup}
  <2>1. PICK S : /\ Probe \notin S
                 /\ Wp[g].members = S \cup Np(g)
                 /\ \/ Wu[g].members = S \cup Nu(g)
                    \/ u.backup /\ Wu[g].members = S \cup Nu(g) \cup {Backup}
    BY <1>6
  <2>2. S = Wp[g].members \ {Probe} BY <1>2, <2>1
  <2>3. CASE g \in manifest.nodes BY <2>1, <2>2, <2>3
  <2>4. CASE g \notin manifest.nodes
    <3>1. Np(g) = {} /\ Nu(g) = {} BY <2>4
    <3>2. Wp[g].members = S BY <2>1, <3>1
    <3>3. \/ Wu[g].members = S
          \/ u.backup /\ Wu[g].members = S \cup {Backup}
      BY <2>1, <3>1
    <3>4. QED BY <2>2, <3>2, <3>3
  <2>5. QED BY <2>3, <2>4
<1>8. Alike(Wp, p, Wu, u) BY <1>2, <1>4, <1>5, <1>6, <1>7 DEF Alike
<1>9. QED BY <1>8 DEF Wp, Wu

---------------------------------------------------------------------------
(* The invariant. *)

BaseOK(b) == DOMAIN b.groups \subseteq Names /\ Unnamed(Probe, b)

FilesOK(f) ==
  /\ f = [base |-> f.base, dns |-> f.dns, profiles |-> f.profiles]
  /\ BaseOK(f.base)

TypeInv ==
  /\ FilesOK(files) /\ FilesOK(previous)
  /\ source \in Sources \cup {NoSource}
  /\ selection \in CompatSelections \cup {{"dns"}, {}}

(* While a sync writes or undoes, only files it has tried differ. *)
WriteInv ==
  /\ pc \in {"writing", "undoing"} =>
       /\ attempted \subseteq {i \in 1 .. 3 : Files[i] \in selection}
       /\ \A i \in 1 .. 3 : i \notin attempted => files[Files[i]] = previous[Files[i]]
  /\ pc \notin {"writing", "undoing"} =>
       /\ result = "template_write_failed" => files = previous
       /\ result = "synced" =>
            \A f \in DOMAIN files :
              files[f] = IF f \in selection THEN Payload(f, source) ELSE previous[f]

(* What is synced has been accepted: the candidates, or the templates as they *)
(* were where only the dns file is replaced; and a rendering is of a user.    *)
AcceptInv ==
  /\ pc = "writing" =>
       IF "base" \in selection THEN Accepted(Sanitized(source), Manifest(source))
       ELSE Accepted(previous.base, previous.profiles)
  /\ pc \notin {"writing", "undoing"} /\ result = "synced" =>
       Accepted(files.base, files.profiles)
  /\ pc \in {"dropping", "rendered"} =>
       user \in Users /\ Composes(files.base, files.profiles, user)
  /\ pc = "unrendered" => ~ Composes(files.base, files.profiles, user)

(* A rendering is a loop of passes over what was composed. *)
DropInv ==
  /\ pc = "dropping" => Dropping(Whole, work)
  /\ pc = "rendered" => Dropped(Whole, work)

Inv == TypeInv /\ WriteInv /\ AcceptInv /\ DropInv

---------------------------------------------------------------------------
LEMMA SanitizedOK ==
  ASSUME NEW s \in Sources \cup {NoSource}
  PROVE  BaseOK(Sanitized(s))
<1>1. DOMAIN s.groups \subseteq Names /\ Unnamed(Probe, s)
  <2>1. CASE s \in Sources BY <2>1, SourcesAssumption, ProbeAssumption DEF AreGroups
  <2>2. CASE s = NoSource
    <3>1. s.groups = << >> /\ s.rules = {} BY <2>2 DEF NoSource
    <3>2. DOMAIN s.groups = 1 .. 0 BY <3>1
    <3>3. QED BY <3>1, <3>2 DEF Unnamed
  <2>3. QED BY <2>1, <2>2
<1> DEFINE G == WithoutBackup(s.groups)
           S == [g \in DOMAIN G |-> [members |-> G[g].members \ s.nodes,
                                    use |-> G[g].use \ {Airport}]]
<1>2. /\ DOMAIN G = DOMAIN s.groups \ {Backup}
      /\ \A g \in DOMAIN G : G[g].members = s.groups[g].members \ {Backup}
  BY DEF WithoutBackup
<1>3. Sanitized(s) = [groups |-> S, rules |-> s.rules] BY DEF Sanitized
<1> HIDE DEF G
<1>4. DOMAIN S = DOMAIN G /\ \A g \in DOMAIN G : S[g].members = G[g].members \ s.nodes
  OBVIOUS
<1> HIDE DEF S
<1>5. Sanitized(s).groups = S /\ Sanitized(s).rules = s.rules BY <1>3
<1>6. \A g \in DOMAIN S : Probe \notin S[g].members BY <1>1, <1>2, <1>4 DEF Unnamed
<1>7. QED BY <1>1, <1>2, <1>4, <1>5, <1>6 DEF BaseOK, Unnamed

(* A replaced file leaves the others alone. *)
Replaced(f, i, v) == [f EXCEPT ![Files[i]] = v]

LEMMA ReplaceFile ==
  ASSUME NEW f, FilesOK(f), NEW i \in 1 .. 3, NEW v,
         Files[i] = "base" => BaseOK(v)
  PROVE  /\ FilesOK(Replaced(f, i, v))
         /\ Replaced(f, i, v)[Files[i]] = v
         /\ \A j \in 1 .. 3 : j # i => Replaced(f, i, v)[Files[j]] = f[Files[j]]
<1> SUFFICES ASSUME NEW g, g = Replaced(f, i, v)
             PROVE  /\ FilesOK(g)
                    /\ g[Files[i]] = v
                    /\ \A j \in 1 .. 3 : j # i => g[Files[j]] = f[Files[j]]
  OBVIOUS
<1>0. g = [f EXCEPT ![Files[i]] = v] BY DEF Replaced
<1>1. PICK b, d, p : f = [base |-> b, dns |-> d, profiles |-> p] BY DEF FilesOK
<1>2. BaseOK(b) BY <1>1 DEF FilesOK
<1>3. Files[1] = "base" /\ Files[2] = "dns" /\ Files[3] = "profiles" BY DEF Files
<1>4. CASE i = 1
  <2>1. g = [base |-> v, dns |-> d, profiles |-> p] BY <1>0, <1>1, <1>3, <1>4
  <2>2. QED BY <1>1, <1>3, <1>4, <2>1 DEF FilesOK
<1>5. CASE i = 2
  <2>1. g = [base |-> b, dns |-> v, profiles |-> p] BY <1>0, <1>1, <1>3, <1>5
  <2>2. QED BY <1>1, <1>2, <1>3, <1>5, <2>1 DEF FilesOK
<1>6. CASE i = 3
  <2>1. g = [base |-> b, dns |-> d, profiles |-> v] BY <1>0, <1>1, <1>3, <1>6
  <2>2. QED BY <1>1, <1>2, <1>3, <1>6, <2>1 DEF FilesOK
<1>7. QED BY <1>4, <1>5, <1>6

LEMMA InvInit == Init => Inv
<1> SUFFICES ASSUME Init PROVE Inv OBVIOUS
<1>1. TypeInv
  BY FilesAssumption, ProbeAssumption DEF Init, TypeInv, FilesOK, BaseOK, AreGroups
<1>2. QED BY <1>1 DEF Init, Inv, WriteInv, AcceptInv, DropInv

(* The steps of a sync. *)
LEMMA SyncSteps ==
  ASSUME Inv,
         \/ \E s \in Sources, sel \in CompatSelections : Refuse(s, sel) \/ Begin(s, sel)
         \/ Refuse(source, {"dns"}) \/ Begin(source, {"dns"})
         \/ \E i \in 1 .. 3 : WriteFile(i) \/ WriteFails(i) \/ UndoFile(i)
         \/ Synced \/ UndoFails \/ Undone \/ Kill
  PROVE  Inv'
<1> USE DEF Inv, EndsAs
<1> DEFINE Sels == CompatSelections \cup {{"dns"}}
<1>1. ASSUME NEW s \in Sources \cup {NoSource}, NEW sel \in Sels, Refuse(s, sel) PROVE Inv'
  BY <1>1 DEF Refuse, MaySync, TypeInv, FilesOK, WriteInv, AcceptInv, DropInv, renderVars
<1>2. ASSUME NEW s \in Sources \cup {NoSource}, NEW sel \in Sels, Begin(s, sel) PROVE Inv'
  <2>1. /\ pc = "idle" /\ pc' = "writing" /\ CandidateAccepted(s, sel)
        /\ source' = s /\ selection' = sel /\ previous' = files
    BY <1>2 DEF Begin, MaySync
  <2>2. AcceptInv' BY <2>1 DEF CandidateAccepted, AcceptInv
  <2>3. QED BY <1>2, <2>2 DEF Begin, MaySync, TypeInv, FilesOK, WriteInv, DropInv, renderVars
<1>3. ASSUME NEW i \in 1 .. 3, WriteFile(i) PROVE Inv'
  <2>1. Files[i] = "base" => BaseOK(Payload(Files[i], source))
    BY SanitizedOK DEF Payload, BaseOK, TypeInv
  <2>2. /\ FilesOK(files')
        /\ \A j \in 1 .. 3 : j # i => files'[Files[j]] = files[Files[j]]
    <3>1. FilesOK(files) BY DEF TypeInv
    <3>2. files' = Replaced(files, i, Payload(Files[i], source))
      BY <1>3 DEF WriteFile, Replaced
    <3>3. QED BY <1>3, <2>1, <3>1, <3>2, ReplaceFile
  <2>3. TypeInv'
    BY <1>3, <2>2 DEF WriteFile, TypeInv, FilesOK
  <2>4. WriteInv'
    BY <1>3, <2>2 DEF WriteFile, IsNextFile, Differs, WriteInv
  <2>5. QED BY <1>3, <2>3, <2>4 DEF WriteFile, AcceptInv, DropInv
<1>4. ASSUME NEW i \in 1 .. 3, WriteFails(i) PROVE Inv'
  BY <1>4 DEF WriteFails, IsNextFile, Differs, TypeInv, FilesOK, WriteInv, AcceptInv, DropInv
<1>5. ASSUME NEW i \in 1 .. 3, UndoFile(i) PROVE Inv'
  <2>1. Files[i] = "base" => BaseOK(previous[Files[i]])
    BY DEF TypeInv, FilesOK
  <2>2. /\ FilesOK(files')
        /\ files'[Files[i]] = previous[Files[i]]
        /\ \A j \in 1 .. 3 : j # i => files'[Files[j]] = files[Files[j]]
    <3>1. FilesOK(files) BY DEF TypeInv
    <3>2. files' = Replaced(files, i, previous[Files[i]])
      BY <1>5 DEF UndoFile, Replaced
    <3>3. QED BY <1>5, <2>1, <3>1, <3>2, ReplaceFile
  <2>3. TypeInv'
    BY <1>5, <2>2 DEF UndoFile, TypeInv, FilesOK
  <2>4. WriteInv'
    BY <1>5, <2>2 DEF UndoFile, WriteInv
  <2>5. QED BY <1>5, <2>3, <2>4 DEF UndoFile, AcceptInv, DropInv
<1>6. ASSUME Synced PROVE Inv'
  <2>1. \A f \in DOMAIN files :
          files[f] = IF f \in selection THEN Payload(f, source) ELSE previous[f]
    <3>1. DOMAIN files = {Files[1], Files[2], Files[3]} BY DEF TypeInv, FilesOK, Files
    <3>2. \A i \in 1 .. 3 :
            files[Files[i]] = IF Files[i] \in selection THEN Payload(Files[i], source)
                              ELSE previous[Files[i]]
      BY <1>6 DEF Synced, Differs, WriteInv
    <3>3. QED BY <3>1, <3>2
  <2>2. WriteInv' BY <1>6, <2>1 DEF Synced, WriteInv, Payload
  <2>3. Accepted(files.base, files.profiles)
    <3>1. "base" \in DOMAIN files /\ "profiles" \in DOMAIN files BY DEF TypeInv, FilesOK
    <3>2. CASE "base" \in selection
      <4>1. "profiles" \in selection BY <3>2 DEF TypeInv, CompatSelections
      <4>2. files.base = Sanitized(source) /\ files.profiles = Manifest(source)
        BY <2>1, <3>1, <3>2, <4>1 DEF Payload
      <4>3. QED BY <1>6, <3>2, <4>2 DEF Synced, AcceptInv
    <3>3. CASE "base" \notin selection
      <4>1. "profiles" \notin selection BY <3>3 DEF TypeInv, CompatSelections
      <4>2. files.base = previous.base /\ files.profiles = previous.profiles
        BY <2>1, <3>1, <3>3, <4>1
      <4>3. QED BY <1>6, <3>3, <4>2 DEF Synced, AcceptInv
    <3>4. QED BY <3>2, <3>3
  <2>4. AcceptInv' BY <1>6, <2>3 DEF Synced, AcceptInv
  <2>5. QED BY <1>6, <2>2, <2>4 DEF Synced, TypeInv, FilesOK, DropInv
<1>7. ASSUME UndoFails \/ Kill PROVE Inv'
  BY <1>7 DEF UndoFails, Kill, TypeInv, FilesOK, WriteInv, AcceptInv, DropInv
<1>8. ASSUME Undone PROVE Inv'
  <2>1. files = previous
    <3>1. \A i \in 1 .. 3 : files[Files[i]] = previous[Files[i]]
      BY <1>8 DEF Undone, WriteInv
    <3>2. QED BY <3>1 DEF TypeInv, FilesOK, Files
  <2>2. QED BY <1>8, <2>1 DEF Undone, TypeInv, FilesOK, WriteInv, AcceptInv, DropInv
<1>9. QED
  <2>1. source \in Sources \cup {NoSource} BY DEF TypeInv
  <2>2. QED BY <2>1, <1>1, <1>2, <1>3, <1>4, <1>5, <1>6, <1>7, <1>8

---------------------------------------------------------------------------
(* The steps of a rendering. *)

LEMMA WholeOK ==
  ASSUME TypeInv
  PROVE  AreNamed(Whole)
<1>1. DOMAIN files.base.groups \subseteq Names BY DEF TypeInv, FilesOK, BaseOK
<1>2. Backup \in Names BY NamesAssumption
<1>3. /\ DOMAIN Whole \subseteq DOMAIN files.base.groups \cup {Backup}
      /\ \A g \in DOMAIN Whole : IsGroup(Whole[g])
  BY ComposedShape DEF Whole
<1>4. QED BY <1>1, <1>2, <1>3 DEF AreNamed

LEMMA RenderSteps ==
  ASSUME Inv, (\E u \in Users : Render(u)) \/ DropGroup \/ FinishDropping \/ Deliver
  PROVE  Inv'
<1>1. TypeInv'
  BY DEF Inv, TypeInv, FilesOK, Render, DropGroup, FinishDropping, Deliver, syncVars
<1>2. WriteInv'
  BY DEF Inv, WriteInv, Payload, Render, DropGroup, FinishDropping, Deliver, syncVars
<1>3. AcceptInv'
  BY DEF Inv, AcceptInv, Render, DropGroup, FinishDropping, Deliver, syncVars
<1>4. ASSUME NEW u \in Users, Render(u) PROVE DropInv'
  <2>1. CASE ~ Composes(files.base, files.profiles, u) BY <1>4, <2>1 DEF Render, DropInv
  <2>2. CASE Composes(files.base, files.profiles, u)
    <3>1. work' = [groups |-> Whole', dropped |-> {}] /\ pc' = "dropping"
      BY <1>4, <2>2 DEF Render, Whole
    <3>2. AreNamed(Whole')
      <4>1. /\ DOMAIN Whole' \subseteq DOMAIN files.base.groups' \cup {Backup}
            /\ \A g \in DOMAIN Whole' : IsGroup(Whole'[g])
        BY ComposedShape DEF Whole
      <4>2. DOMAIN files.base.groups' \subseteq Names BY <1>1 DEF TypeInv, FilesOK, BaseOK
      <4>3. QED BY <4>1, <4>2, NamesAssumption DEF AreNamed
    <3>3. Dropping(Whole', [groups |-> Whole', dropped |-> {}]) BY <3>2, FreshIs
    <3>4. QED BY <3>1, <3>3 DEF DropInv
  <2>3. QED BY <2>1, <2>2
<1>5. ASSUME DropGroup PROVE DropInv'
  <2>1. /\ pc = "dropping" /\ pc' = "dropping"
        /\ Unusable(work) # {}
        /\ work' = Pass(work)
        /\ Whole' = Whole
    BY <1>5 DEF DropGroup, syncVars, Whole
  <2>2. Dropping(Whole, Pass(work)) BY <2>1, WholeOK, PassKeeps DEF Inv, DropInv
  <2>3. QED BY <2>1, <2>2 DEF DropInv
<1>6. ASSUME FinishDropping PROVE DropInv'
  <2>1. /\ pc = "dropping" /\ pc' = "rendered"
        /\ Unusable(work) = {}
        /\ work' = LastPass(work)
        /\ Whole' = Whole
    BY <1>6 DEF FinishDropping, syncVars, Whole
  <2>2. Dropped(Whole, LastPass(work)) BY <2>1, LastPassEnds DEF Inv, DropInv
  <2>3. QED BY <2>1, <2>2 DEF DropInv
<1>7. ASSUME Deliver PROVE DropInv'
  BY <1>7 DEF Deliver, DropInv
<1>8. QED BY <1>1, <1>2, <1>3, <1>4, <1>5, <1>6, <1>7 DEF Inv

LEMMA InvNext == Inv /\ [Next]_vars => Inv'
<1> SUFFICES ASSUME Inv, [Next]_vars PROVE Inv' OBVIOUS
<1>1. CASE Next BY <1>1, SyncSteps, RenderSteps DEF Next
<1>2. CASE UNCHANGED vars
  BY <1>2 DEF vars, Inv, TypeInv, WriteInv, AcceptInv, DropInv, FilesOK, Whole, Payload
<1>3. QED BY <1>1, <1>2

LEMMA Invariance == Spec => []Inv
BY InvInit, InvNext, PTL DEF Spec

---------------------------------------------------------------------------
(* Whatever the document, the user and the order of the groups, dropping      *)
(* takes only groups nothing could have kept, and stops when the rest holds    *)
(* itself up (generator.py, _drop_unusable_groups).                           *)
THEOREM DroppingIsExact == Spec => []DropIsExact
<1>1. Inv => DropIsExact BY DEF Inv, DropInv, Dropping, Dropped, DropIsExact
<1>2. QED BY <1>1, Invariance, PTL

(* A sync that reports a failed write has put every file back; one that        *)
(* reports success has replaced the selected files and no other               *)
(* (template_sync.py, _atomic_replace_outputs).                               *)
THEOREM SyncingIsAllOrNothing == Spec => []SyncIsAllOrNothing
<1>1. Inv => SyncIsAllOrNothing BY DEF Inv, WriteInv, SyncIsAllOrNothing
<1>2. QED BY <1>1, Invariance, PTL

(* Sanitizing a document and rendering it for the owner gives its groups back  *)
(* (template_sync.py, _sanitize_compat; generator.py, _inject_proxy_names).   *)
THEOREM OwnerGetsTheSourceBack == Spec => []OwnerGetsTheSource
<1>1. ASSUME Inv PROVE OwnerGetsTheSource
  <2> SUFFICES ASSUME result = "synced", "base" \in selection, pc = "rendered",
                      user.airport, NamesApart, NEW g \in DOMAIN work.groups \ {Backup}
               PROVE  LET own == source.groups[g]
                          others == own.members
                                      \ (source.nodes \cup {Backup} \cup work.dropped)
                      IN /\ g \in DOMAIN source.groups
                         /\ Airport \in own.use <=> Airport \in work.groups[g].use
                         /\ work.groups[g].members \ {Backup} =
                              others \cup (IF own.members \cap source.nodes # {}
                                           THEN user.nodes ELSE {})
    BY DEF OwnerGetsTheSource
  <2> DEFINE own == source.groups[g]
             mine == IF own.members \cap source.nodes # {} THEN user.nodes ELSE {}
             I == Injected(files.base, files.profiles, user)
  <2>1. "profiles" \in selection BY <1>1 DEF Inv, TypeInv, CompatSelections
  <2>2. files.base = Sanitized(source) /\ files.profiles = Manifest(source)
    <3>1. "base" \in DOMAIN files /\ "profiles" \in DOMAIN files
      BY <1>1 DEF Inv, TypeInv, FilesOK
    <3>2. files["base"] = Payload("base", source) /\ files["profiles"] = Payload("profiles", source)
      BY <1>1, <2>1, <3>1 DEF Inv, WriteInv
    <3>3. QED BY <3>2 DEF Payload
  <2>3. /\ g \in DOMAIN Whole
        /\ work.dropped \subseteq DOMAIN Whole
        /\ work.groups[g].use = Whole[g].use
        /\ work.groups[g].members = Whole[g].members \ work.dropped
    BY <1>1 DEF Inv, DropInv, Dropping, Dropped
  <2>4. /\ DOMAIN Whole \subseteq DOMAIN files.base.groups \cup {Backup}
        /\ g \in DOMAIN files.base.groups
    BY <2>3, ComposedShape DEF Whole
  <2>5. DOMAIN files.base.groups = DOMAIN source.groups \ {Backup}
    BY <2>2 DEF Sanitized, WithoutBackup
  <2>6. user.nodes \cap (work.dropped \cup {Backup}) = {}
    BY <2>3, <2>4 DEF NamesApart
  <2>7. I[g] = [members |-> ((own.members \ {Backup}) \ source.nodes) \cup mine,
                use |-> ((own.use \ {BackupProvider}) \ {Airport})
                          \cup (IF Airport \in own.use THEN {Airport} ELSE {})]
    <3>1. files.base.groups[g] = [members |-> (own.members \ {Backup}) \ source.nodes,
                                  use |-> (own.use \ {BackupProvider}) \ {Airport}]
      <4> DEFINE G == WithoutBackup(source.groups)
      <4>1. /\ DOMAIN G = DOMAIN source.groups \ {Backup}
            /\ G[g] = [members |-> own.members \ {Backup}, use |-> own.use \ {BackupProvider}]
        BY <2>4, <2>5 DEF WithoutBackup
      <4>2. files.base.groups =
              [h \in DOMAIN G |-> [members |-> G[h].members \ source.nodes,
                                   use |-> G[h].use \ {Airport}]]
        BY <2>2 DEF Sanitized
      <4>3. g \in DOMAIN G BY <2>4, <2>5, <4>1
      <4>4. G[g].members = own.members \ {Backup} /\ G[g].use = own.use \ {BackupProvider}
        BY <4>1
      <4> HIDE DEF G, own
      <4>5. files.base.groups[g] = [members |-> G[g].members \ source.nodes,
                                    use |-> G[g].use \ {Airport}]
        BY <4>2, <4>3
      <4>6. QED BY <4>4, <4>5
    <3>2. g \in files.profiles.nodes <=> own.members \cap source.nodes # {}
      BY <2>2, <2>4, <2>5 DEF Manifest, NodeGroups
    <3>3. g \in files.profiles.providers <=> Airport \in own.use
      BY <2>2, <2>4, <2>5 DEF Manifest, ProviderGroups
    <3>4. I[g] = [members |-> files.base.groups[g].members
                               \cup (IF g \in files.profiles.nodes THEN user.nodes ELSE {}),
                  use |-> files.base.groups[g].use
                            \cup (IF user.airport /\ g \in files.profiles.providers
                                  THEN {Airport} ELSE {})]
      BY <2>4 DEF Injected
    <3>5. (IF g \in files.profiles.nodes THEN user.nodes ELSE {}) = mine BY <3>2
    <3>6. (IF user.airport /\ g \in files.profiles.providers THEN {Airport} ELSE {})
            = IF Airport \in own.use THEN {Airport} ELSE {}
      BY <3>3
    <3>7. /\ files.base.groups[g].members = (own.members \ {Backup}) \ source.nodes
          /\ files.base.groups[g].use = (own.use \ {BackupProvider}) \ {Airport}
      BY <3>1
    <3> HIDE DEF I, own, mine
    <3>8. QED BY <3>4, <3>5, <3>6, <3>7, Zenon
  <2>8. Whole[g].use = I[g].use /\ Whole[g].members \ {Backup} = I[g].members \ {Backup}
    <3>1. DOMAIN I = DOMAIN files.base.groups BY DEF Injected
    <3>2. PICK m, u : I[g] = [members |-> m, use |-> u] BY <2>7
    <3> HIDE DEF I
    <3>3. CASE Primary \notin DOMAIN I
      BY <3>3 DEF Whole, Composed, WithBackup, I
    <3>4. CASE Primary \in DOMAIN I /\ ~ user.backup
      <4>1. Whole = WithoutBackupGroup(I) BY <3>4 DEF Whole, Composed, WithBackup, I
      <4>2. QED BY <2>4, <3>1, <3>2, <4>1 DEF WithoutBackupGroup
    <3>5. CASE Primary \in DOMAIN I /\ user.backup
      <4>1. Whole[g] = IF g = Primary THEN [I[g] EXCEPT !.members = @ \cup {Backup}] ELSE I[g]
        BY <2>4, <3>1, <3>5 DEF Whole, Composed, WithBackup, I
      <4>2. QED BY <3>2, <4>1
    <3>6. QED BY <3>3, <3>4, <3>5
  <2>9. Airport \in own.use <=> Airport \in work.groups[g].use
    BY <2>3, <2>7, <2>8 DEF Airport, BackupProvider
  <2>10. work.groups[g].members \ {Backup} =
          (own.members \ (source.nodes \cup {Backup} \cup work.dropped)) \cup mine
    BY <2>3, <2>6, <2>7, <2>8
  <2>11. QED BY <2>4, <2>5, <2>9, <2>10
<1>2. QED BY <1>1, Invariance, PTL

(* Templates the sync has accepted with its made-up users, and only those are   *)
(* synced, give every user of the panel a profile that the check before        *)
(* publication accepts (template_sync.py, _validate_rendered_candidates).      *)
THEOREM SyncedTemplatesAlwaysRender == Spec => []SyncedTemplatesRender
<1>1. ASSUME Inv, result = "synced", NamesApart, pc = "unrendered"
      PROVE  user.backup /\ Primary \notin DOMAIN files.base.groups
  <2>1. Accepted(files.base, files.profiles) /\ ~ Composes(files.base, files.profiles, user)
    BY <1>1 DEF Inv, AcceptInv
  <2>2. \E p \in ProbeUsers : Composes(files.base, files.profiles, p)
    BY <2>1 DEF Accepted, ProbeUsers
  <2>3. QED BY <2>1, <2>2 DEF Composes
<1>2. ASSUME Inv, result = "synced", NamesApart, pc = "rendered"
      PROVE  Valid(work.groups, files.base.rules, user)
  <2> DEFINE base == files.base
             manifest == files.profiles
  <2>1. /\ Accepted(base, manifest)
        /\ user \in Users /\ Composes(base, manifest, user)
        /\ Dropped(Whole, work)
        /\ BaseOK(base)
    BY <1>2 DEF Inv, AcceptInv, DropInv, TypeInv, FilesOK
  <2>2. /\ user.airport \in BOOLEAN /\ user.backup \in BOOLEAN
        /\ user.nodes # {} \/ user.airport
        /\ user.backup => Primary \in DOMAIN base.groups
        /\ user.nodes \cap (DOMAIN base.groups \cup {Backup}) = {}
        /\ Unnamed(Probe, base)
    BY <1>2, <2>1, UsersAssumption DEF Composes, NamesApart, BaseOK
  <2> HIDE DEF base, manifest
  <2>3. PICK p \in ProbeUsers :
               Alike(Composed(base, manifest, p), p, Composed(base, manifest, user), user)
    BY <2>2, ProbeIsAlike
  <2> DEFINE Wp == Composed(base, manifest, p)
  <2>4. Valid(Rendered(Wp), base.rules, p) BY <2>1 DEF Accepted
  <2>5. AreNamed(Wp)
    <3>1. /\ DOMAIN Wp \subseteq DOMAIN base.groups \cup {Backup}
          /\ \A g \in DOMAIN Wp : IsGroup(Wp[g])
      BY ComposedShape
    <3>2. QED BY <2>1, <3>1, NamesAssumption DEF AreNamed, BaseOK
  <2>6. Trimmed(Wp, Rendered(Wp))
    <3> HIDE DEF Wp
    <3>1. QED BY <2>5, RenderedDropped, DroppedIsTrimmed
  <2>7. Trimmed(Whole, work.groups) BY <2>1, DroppedIsTrimmed
  <2>8. Alike(Wp, p, Whole, user) BY <2>3 DEF Whole, base, manifest
  <2>9. Probe \notin base.rules BY <2>2 DEF Unnamed
  <2> HIDE DEF Wp
  <2>10. Valid(work.groups, base.rules, user)
    BY <2>2, <2>4, <2>6, <2>7, <2>8, <2>9, ValidCarriesOver
  <2>11. QED BY <2>10 DEF base
<1>3. Inv => SyncedTemplatesRender BY <1>1, <1>2 DEF SyncedTemplatesRender
<1>4. QED BY <1>3, Invariance, PTL
=============================================================================
