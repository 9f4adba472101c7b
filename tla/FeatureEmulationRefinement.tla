--------------------- MODULE FeatureEmulationRefinement ---------------------
(***************************************************************************)
(* The macros of feature_emulation/ implement StructuredExceptions, for    *)
(* every program that makes the plain uses of them (PlainUses).            *)
(*                                                                         *)
(* The mapping of FeatureEmulation shows of the jumps, stacks and contexts *)
(* only a stack of calls with their open statements and waiting guards.    *)
(* The first sections say how the shown calls change when a construct or a *)
(* guard comes or goes, whatever else the macros did; the middle ones      *)
(* which step of StructuredExceptions such a change is; the last ones go   *)
(* through the macros, one lemma XRefines for every action X.              *)
(***************************************************************************)
EXTENDS FeatureEmulationControl, WellFoundedInduction

-----------------------------------------------------------------------------
(* A sequence without the places that are not kept                         *)

(* A set of numbers that is not empty has a least one; so what holds of 0  *)
(* and of n + 1 with n holds of every number.                              *)
LEMMA Least ==
  ASSUME NEW T, T \subseteq Nat, T # {}
  PROVE  \E x \in T : \A y \in T : x <= y
<1> DEFINE R == {ss \in Nat \X Nat : ss[1] < ss[2]}
<1>1. IsWellFoundedOn(R, Nat)
  BY NatLessThanWellFounded DEF OpToRel
<1>2. \E x \in T : \A y \in T : ~ (<<y, x>> \in R)
  <2> HIDE DEF R
  <2> QED
    BY <1>1, WFMin
<1>3. ASSUME NEW x \in T, NEW y \in T, ~ (<<y, x>> \in R)
      PROVE  x <= y
  <2>1. <<y, x>> \in Nat \X Nat
    OBVIOUS
  <2>2. ~ (<<y, x>>[1] < <<y, x>>[2])
    BY <1>3, <2>1
  <2> QED
    BY <2>2
<1> HIDE DEF R
<1> QED
  BY <1>2, <1>3

LEMMA Induction ==
  ASSUME NEW T, 0 \in T, \A n \in Nat : n \in T => n + 1 \in T
  PROVE  \A n \in Nat : n \in T
<1> SUFFICES ASSUME NEW m \in Nat, m \notin T
             PROVE  FALSE
  OBVIOUS
<1>1. PICK x \in Nat \ T : \A y \in Nat \ T : x <= y
  BY Least
<1> QED
  BY <1>1

(* f[m] is s[i] for the places i of P up to m, in their order.             *)
IsKept(f, s, P, n) ==
  /\ f = [m \in 0 .. n |-> f[m]]
  /\ f[0] = << >>
  /\ \A m \in 1 .. n : f[m] = IF m \in P THEN Append(f[m - 1], s[m]) ELSE f[m - 1]

(* The elements of s at the places of P up to n, in their order.           *)
Kept(s, P, n) == (CHOOSE f : IsKept(f, s, P, n))[n]

LEMMA KeptExists ==
  ASSUME NEW s, NEW P, NEW n \in Nat
  PROVE  \E f : IsKept(f, s, P, n)
<1> DEFINE T == {k \in Nat : \E f : IsKept(f, s, P, k)}
<1>1. 0 \in T
  <2>1. IsKept([m \in 0 .. 0 |-> << >>], s, P, 0)
    BY DEF IsKept
  <2> QED
    BY <2>1
<1>2. ASSUME NEW k \in Nat, k \in T
      PROVE  k + 1 \in T
  <2>1. PICK f : IsKept(f, s, P, k)
    BY <1>2
  <2> DEFINE last == IF k + 1 \in P THEN Append(f[k], s[k + 1]) ELSE f[k]
             g == [m \in 0 .. k + 1 |-> IF m = k + 1 THEN last ELSE f[m]]
  <2>6. g = [m \in 0 .. k + 1 |-> g[m]]
    OBVIOUS
  <2>2. g[k + 1] = last /\ \A m \in 0 .. k : g[m] = f[m]
    OBVIOUS
  <2> HIDE DEF g
  <2>3. g[0] = << >>
    BY <2>1, <2>2 DEF IsKept
  <2>4. ASSUME NEW m \in 1 .. k + 1
        PROVE  g[m] = IF m \in P THEN Append(g[m - 1], s[m]) ELSE g[m - 1]
    <3>1. CASE m = k + 1
      BY <2>2, <3>1
    <3>2. CASE m # k + 1
      <4>1. m \in 1 .. k /\ m \in 0 .. k /\ m - 1 \in 0 .. k
        BY <3>2
      <4> QED
        BY <2>1, <2>2, <4>1 DEF IsKept
    <3> QED
      BY <3>1, <3>2
  <2>5. IsKept(g, s, P, k + 1)
    BY <2>3, <2>4, <2>6 DEF IsKept
  <2> QED
    BY <2>5
<1> HIDE DEF T
<1>3. n \in T
  BY <1>1, <1>2, Induction
<1> QED
  BY <1>3 DEF T

(* Only what is kept matters.                                              *)
LEMMA KeptAgree ==
  ASSUME NEW s, NEW P, NEW n \in Nat, NEW f, IsKept(f, s, P, n),
         NEW t, NEW Q, NEW k \in Nat, NEW g, IsKept(g, t, Q, k),
         NEW m \in Nat, m <= n, m <= k,
         \A i \in 1 .. m : (i \in P <=> i \in Q) /\ (i \in P => s[i] = t[i])
  PROVE  f[m] = g[m]
<1> DEFINE T == {j \in Nat : j <= m => f[j] = g[j]}
<1>1. 0 \in T
  BY DEF IsKept
<1>2. ASSUME NEW j \in Nat, j \in T
      PROVE  j + 1 \in T
  <2> SUFFICES ASSUME j + 1 <= m
               PROVE  f[j + 1] = g[j + 1]
    OBVIOUS
  <2>1. j + 1 \in 1 .. n /\ j + 1 \in 1 .. k /\ j + 1 \in 1 .. m /\ (j + 1) - 1 = j /\ f[j] = g[j]
    BY <1>2
  <2>2. f[j + 1] = IF j + 1 \in P THEN Append(f[j], s[j + 1]) ELSE f[j]
    BY <2>1 DEF IsKept
  <2>3. g[j + 1] = IF j + 1 \in Q THEN Append(g[j], t[j + 1]) ELSE g[j]
    BY <2>1 DEF IsKept
  <2> QED
    BY <2>1, <2>2, <2>3
<1> HIDE DEF T
<1>3. m \in T
  BY <1>1, <1>2, Induction
<1> QED
  BY <1>3 DEF T

LEMMA KeptIs ==
  ASSUME NEW s, NEW P, NEW n \in Nat
  PROVE  \E f : IsKept(f, s, P, n) /\ Kept(s, P, n) = f[n]
<1>1. IsKept(CHOOSE f : IsKept(f, s, P, n), s, P, n)
  BY KeptExists, Zenon
<1> QED
  BY <1>1, Zenon DEF Kept

LEMMA KeptSame ==
  ASSUME NEW s, NEW P, NEW t, NEW Q, NEW n \in Nat,
         \A i \in 1 .. n : (i \in P <=> i \in Q) /\ (i \in P => s[i] = t[i])
  PROVE  Kept(s, P, n) = Kept(t, Q, n)
<1>1. PICK f : IsKept(f, s, P, n) /\ Kept(s, P, n) = f[n]
  BY KeptIs
<1>2. PICK g : IsKept(g, t, Q, n) /\ Kept(t, Q, n) = g[n]
  BY KeptIs
<1>3. f[n] = g[n]
  BY <1>1, <1>2, KeptAgree
<1> QED
  BY <1>1, <1>2, <1>3

(* One place more.                                                         *)
LEMMA KeptNext ==
  ASSUME NEW s, NEW P, NEW n \in Nat
  PROVE  Kept(s, P, n + 1) = IF n + 1 \in P THEN Append(Kept(s, P, n), s[n + 1]) ELSE Kept(s, P, n)
<1>1. PICK f : IsKept(f, s, P, n) /\ Kept(s, P, n) = f[n]
  BY KeptIs
<1>2. PICK g : IsKept(g, s, P, n + 1) /\ Kept(s, P, n + 1) = g[n + 1]
  BY KeptIs
<1>3. f[n] = g[n]
  BY <1>1, <1>2, KeptAgree
<1>4. n + 1 \in 1 .. n + 1 /\ (n + 1) - 1 = n
  OBVIOUS
<1>5. g[n + 1] = IF n + 1 \in P THEN Append(g[n], s[n + 1]) ELSE g[n]
  BY <1>2, <1>4 DEF IsKept
<1> QED
  BY <1>1, <1>2, <1>3, <1>5

LEMMA KeptNone ==
  ASSUME NEW s, NEW P, NEW n \in Nat, \A i \in 1 .. n : i \notin P
  PROVE  Kept(s, P, n) = << >>
<1> DEFINE T == {j \in Nat : j <= n => Kept(s, P, j) = << >>}
<1>1. 0 \in T
  BY KeptIs DEF IsKept
<1>2. ASSUME NEW j \in Nat, j \in T
      PROVE  j + 1 \in T
  BY <1>2, KeptNext
<1> HIDE DEF T
<1>3. n \in T
  BY <1>1, <1>2, Induction
<1> QED
  BY <1>3 DEF T

LEMMA KeptType ==
  ASSUME NEW S, NEW s, NEW P, NEW n \in Nat, \A i \in 1 .. n : i \in P => s[i] \in S
  PROVE  Kept(s, P, n) \in Seq(S)
<1> DEFINE T == {j \in Nat : j <= n => Kept(s, P, j) \in Seq(S)}
<1>1. 0 \in T
  BY KeptIs DEF IsKept
<1>2. ASSUME NEW j \in Nat, j \in T
      PROVE  j + 1 \in T
  <2> SUFFICES ASSUME j + 1 <= n
               PROVE  Kept(s, P, j + 1) \in Seq(S)
    OBVIOUS
  <2>1. Kept(s, P, j) \in Seq(S) /\ j + 1 \in 1 .. n
    BY <1>2
  <2>2. j + 1 \in P => Append(Kept(s, P, j), s[j + 1]) \in Seq(S)
    BY <2>1
  <2>3. Kept(s, P, j + 1) = IF j + 1 \in P THEN Append(Kept(s, P, j), s[j + 1]) ELSE Kept(s, P, j)
    BY KeptNext
  <2> QED
    BY <2>1, <2>2, <2>3
<1> HIDE DEF T
<1>3. n \in T
  BY <1>1, <1>2, Induction
<1> QED
  BY <1>3 DEF T

-----------------------------------------------------------------------------
(* Statements and guards that the mapping shows                            *)

(* What the mapping keeps of constructs and guards.                        *)
Said(fs, bs) == [i \in 1 .. Len(bs) |-> StatementOf(fs, bs[i])]
Says(bs, fr) == {i \in 1 .. Len(bs) : IsStatement(bs[i], fr)}
MasksOf(gs) == [k \in 1 .. Len(gs) |-> gs[k].mask]
Waiting(gs, fr) == {k \in 1 .. Len(gs) : Waits(gs[k], fr)}

(* The two filters of the mapping are of this form.                        *)
LEMMA StatementsKept ==
  ASSUME NEW fs, NEW bs, Len(bs) \in Nat, NEW fr
  PROVE  StatementsOf(fs, bs, fr) = Kept(Said(fs, bs), Says(bs, fr), Len(bs))
<1> DEFINE s == Said(fs, bs)
           P == Says(bs, fr)
           N == Len(bs)
           Loop(f) == f = [n \in 0 .. N |->
                            IF n = 0 THEN << >>
                            ELSE IF IsStatement(bs[n], fr) THEN Append(f[n - 1], StatementOf(fs, bs[n])) ELSE f[n - 1]]
           g == CHOOSE f : Loop(f)
<1>1. PICK f : IsKept(f, s, P, N) /\ Kept(s, P, N) = f[N]
  BY KeptIs
<1>2. \A n \in 1 .. N : (n \in P <=> IsStatement(bs[n], fr)) /\ s[n] = StatementOf(fs, bs[n])
  BY DEF Said, Says
<1> HIDE DEF s, P
<1>3. Loop(f)
  <2>1. \A n \in 0 .. N : n # 0 => n \in 1 .. N
    OBVIOUS
  <2>2. \A n \in 0 .. N : f[n] = IF n = 0 THEN << >>
                            ELSE IF IsStatement(bs[n], fr) THEN Append(f[n - 1], StatementOf(fs, bs[n])) ELSE f[n - 1]
    BY <1>1, <1>2, <2>1 DEF IsKept
  <2>3. f = [n \in 0 .. N |-> f[n]]
    BY <1>1, Zenon DEF IsKept
  <2> QED
    BY <2>2, <2>3
<1>4. Loop(g)
  BY <1>3, Zenon
<1>5. StatementsOf(fs, bs, fr) = g[N]
  BY Zenon DEF StatementsOf
<1> HIDE DEF g
<1>6. IsKept(g, s, P, N)
  <2>1. \A n \in 1 .. N : n \in 0 .. N /\ n # 0
    OBVIOUS
  <2>2. DOMAIN g = 0 .. N /\ g[0] = << >>
    BY <1>4
  <2>3. \A n \in 1 .. N : g[n] = IF IsStatement(bs[n], fr) THEN Append(g[n - 1], StatementOf(fs, bs[n])) ELSE g[n - 1]
    BY <1>4, <2>1
  <2>4. g = [n \in 0 .. N |-> g[n]]
    BY <1>4
  <2> QED
    BY <1>2, <2>2, <2>3, <2>4 DEF IsKept
<1>7. f[N] = g[N]
  BY <1>1, <1>6, KeptAgree
<1> QED
  BY <1>1, <1>5, <1>7 DEF s, P

LEMMA GuardsKept ==
  ASSUME NEW gs, Len(gs) \in Nat, NEW fr
  PROVE  GuardsOf(gs, fr) = Kept(MasksOf(gs), Waiting(gs, fr), Len(gs))
<1> DEFINE s == MasksOf(gs)
           P == Waiting(gs, fr)
           N == Len(gs)
           Loop(f) == f = [n \in 0 .. N |->
                            IF n = 0 THEN << >>
                            ELSE IF Waits(gs[n], fr) THEN Append(f[n - 1], gs[n].mask) ELSE f[n - 1]]
           g == CHOOSE f : Loop(f)
<1>1. PICK f : IsKept(f, s, P, N) /\ Kept(s, P, N) = f[N]
  BY KeptIs
<1>2. \A n \in 1 .. N : (n \in P <=> Waits(gs[n], fr)) /\ s[n] = gs[n].mask
  BY DEF MasksOf, Waiting
<1> HIDE DEF s, P
<1>3. Loop(f)
  <2>1. \A n \in 0 .. N : n # 0 => n \in 1 .. N
    OBVIOUS
  <2>2. \A n \in 0 .. N : f[n] = IF n = 0 THEN << >>
                            ELSE IF Waits(gs[n], fr) THEN Append(f[n - 1], gs[n].mask) ELSE f[n - 1]
    BY <1>1, <1>2, <2>1 DEF IsKept
  <2>3. f = [n \in 0 .. N |-> f[n]]
    BY <1>1, Zenon DEF IsKept
  <2> QED
    BY <2>2, <2>3
<1>4. Loop(g)
  BY <1>3, Zenon
<1>5. GuardsOf(gs, fr) = g[N]
  BY Zenon DEF GuardsOf
<1> HIDE DEF g
<1>6. IsKept(g, s, P, N)
  <2>1. \A n \in 1 .. N : n \in 0 .. N /\ n # 0
    OBVIOUS
  <2>2. DOMAIN g = 0 .. N /\ g[0] = << >>
    BY <1>4
  <2>3. \A n \in 1 .. N : g[n] = IF Waits(gs[n], fr) THEN Append(g[n - 1], gs[n].mask) ELSE g[n - 1]
    BY <1>4, <2>1
  <2>4. g = [n \in 0 .. N |-> g[n]]
    BY <1>4
  <2> QED
    BY <1>2, <2>2, <2>3, <2>4 DEF IsKept
<1>7. f[N] = g[N]
  BY <1>1, <1>6, KeptAgree
<1> QED
  BY <1>1, <1>5, <1>7 DEF s, P

(* A construct more, and one less: the last statement of its function.     *)
LEMMA StatementsPush ==
  ASSUME NEW fs, NEW bs, NEW b, NEW cs, Grows(bs, b, cs), Len(bs) \in Nat, NEW fr
  PROVE  StatementsOf(fs, cs, fr) = IF IsStatement(b, fr)
                                    THEN Append(StatementsOf(fs, bs, fr), StatementOf(fs, b))
                                    ELSE StatementsOf(fs, bs, fr)
<1> DEFINE n == Len(bs)
<1>1. Len(cs) = n + 1 /\ cs[n + 1] = b /\ \A i \in 1 .. n : cs[i] = bs[i]
  BY DEF Grows
<1>2. StatementsOf(fs, cs, fr) = Kept(Said(fs, cs), Says(cs, fr), n + 1)
      /\ StatementsOf(fs, bs, fr) = Kept(Said(fs, bs), Says(bs, fr), n)
  BY <1>1, StatementsKept
<1>3. /\ \A i \in 1 .. n : (i \in Says(cs, fr) <=> i \in Says(bs, fr)) /\ Said(fs, cs)[i] = Said(fs, bs)[i]
      /\ n + 1 \in Says(cs, fr) <=> IsStatement(b, fr)
      /\ Said(fs, cs)[n + 1] = StatementOf(fs, b)
  <2>1. n + 1 \in 1 .. Len(cs) /\ \A i \in 1 .. n : i \in 1 .. Len(cs)
    BY <1>1
  <2> QED
    BY <1>1, <2>1 DEF Says, Said
<1>4. Kept(Said(fs, cs), Says(cs, fr), n) = Kept(Said(fs, bs), Says(bs, fr), n)
  BY <1>3, KeptSame
<1>5. Kept(Said(fs, cs), Says(cs, fr), n + 1)
        = IF n + 1 \in Says(cs, fr) THEN Append(Kept(Said(fs, cs), Says(cs, fr), n), Said(fs, cs)[n + 1])
          ELSE Kept(Said(fs, cs), Says(cs, fr), n)
  BY KeptNext
<1> QED
  BY <1>2, <1>3, <1>4, <1>5

LEMMA GuardsOfPush ==
  ASSUME NEW gs \in Seq(ScopeJmps), NEW g \in ScopeJmps, NEW fr
  PROVE  GuardsOf(Append(gs, g), fr) = IF Waits(g, fr) THEN Append(GuardsOf(gs, fr), g.mask)
                                       ELSE GuardsOf(gs, fr)
<1> DEFINE n == Len(gs)
           hs == Append(gs, g)
<1>1. Len(hs) = n + 1 /\ hs[n + 1] = g /\ (\A i \in 1 .. n : hs[i] = gs[i]) /\ n \in Nat
  BY AppendFacts
<1> HIDE DEF hs
<1>2. GuardsOf(hs, fr) = Kept(MasksOf(hs), Waiting(hs, fr), n + 1)
      /\ GuardsOf(gs, fr) = Kept(MasksOf(gs), Waiting(gs, fr), n)
  BY <1>1, GuardsKept
<1>3. /\ \A i \in 1 .. n : (i \in Waiting(hs, fr) <=> i \in Waiting(gs, fr)) /\ MasksOf(hs)[i] = MasksOf(gs)[i]
      /\ n + 1 \in Waiting(hs, fr) <=> Waits(g, fr)
      /\ MasksOf(hs)[n + 1] = g.mask
  <2>1. n + 1 \in 1 .. Len(hs) /\ \A i \in 1 .. n : i \in 1 .. Len(hs)
    BY <1>1
  <2> QED
    BY <1>1, <2>1 DEF Waiting, MasksOf
<1>4. Kept(MasksOf(hs), Waiting(hs, fr), n) = Kept(MasksOf(gs), Waiting(gs, fr), n)
  BY <1>3, KeptSame
<1>5. Kept(MasksOf(hs), Waiting(hs, fr), n + 1)
        = IF n + 1 \in Waiting(hs, fr) THEN Append(Kept(MasksOf(hs), Waiting(hs, fr), n), MasksOf(hs)[n + 1])
          ELSE Kept(MasksOf(hs), Waiting(hs, fr), n)
  BY <1>1, KeptNext
<1>6. GuardsOf(hs, fr) = IF Waits(g, fr) THEN Append(GuardsOf(gs, fr), g.mask) ELSE GuardsOf(gs, fr)
  BY <1>2, <1>3, <1>4, <1>5
<1> QED
  BY <1>6 DEF hs

(* A statement depends on its function's scan only if it is a guard.       *)
Resume(fs, hs, bs) ==
  \A i \in 1 .. Len(bs) :
    bs[i].kind = "guard" => hs[bs[i].fr].scope_fn_exit = fs[bs[i].fr].scope_fn_exit

LEMMA StatementsSame ==
  ASSUME NEW fs, NEW hs, NEW bs, Len(bs) \in Nat, Resume(fs, hs, bs), NEW fr
  PROVE  StatementsOf(hs, bs, fr) = StatementsOf(fs, bs, fr)
<1>1. ASSUME NEW i \in 1 .. Len(bs), i \in Says(bs, fr)
      PROVE  Said(hs, bs)[i] = Said(fs, bs)[i]
  <2>1. bs[i].kind \in {"try", "catch", "guard"} /\ bs[i].fr = fr
    BY <1>1 DEF Says, IsStatement
  <2>2. StatementOf(hs, bs[i]) = StatementOf(fs, bs[i])
    BY <2>1 DEF StatementOf, Resume
  <2> QED
    BY <2>2 DEF Said
<1>2. Kept(Said(hs, bs), Says(bs, fr), Len(bs)) = Kept(Said(fs, bs), Says(bs, fr), Len(bs))
  BY <1>1, KeptSame
<1> QED
  BY <1>2, StatementsKept

LEMMA StatementsNone ==
  ASSUME NEW fs, NEW bs, Len(bs) \in Nat, NEW fr, \A i \in 1 .. Len(bs) : ~ IsStatement(bs[i], fr)
  PROVE  StatementsOf(fs, bs, fr) = << >>
<1>1. \A i \in 1 .. Len(bs) : i \notin Says(bs, fr)
  BY DEF Says
<1> QED
  BY <1>1, KeptNone, StatementsKept

LEMMA GuardsOfNone ==
  ASSUME NEW gs, Len(gs) \in Nat, NEW fr, \A k \in 1 .. Len(gs) : ~ Waits(gs[k], fr)
  PROVE  GuardsOf(gs, fr) = << >>
<1>1. \A k \in 1 .. Len(gs) : k \notin Waiting(gs, fr)
  BY DEF Waiting
<1> QED
  BY <1>1, KeptNone, GuardsKept

(* The statements of StructuredExceptions.                                 *)
Spoken ==
  [kind : {"try"}, codes : SUBSET Codes] \cup [kind : {"catch"}]
    \cup [kind : {"guard"}, resumes : {"return", "throw"}]

LEMMA StatementType ==
  ASSUME NEW fs, NEW b \in Blocks
  PROVE  StatementOf(fs, b) \in Spoken
<1>1. b.catches \in SUBSET Codes
  BY DEF Blocks
<1> QED
  BY <1>1 DEF StatementOf, Spoken

LEMMA StatementsType ==
  ASSUME NEW fs, NEW bs \in Seq(Blocks), NEW fr
  PROVE  StatementsOf(fs, bs, fr) \in Seq(Spoken)
<1>1. \A i \in 1 .. Len(bs) : Said(fs, bs)[i] \in Spoken
  BY StatementType DEF Said
<1>2. Kept(Said(fs, bs), Says(bs, fr), Len(bs)) \in Seq(Spoken)
  BY <1>1, KeptType
<1> QED
  BY <1>2, StatementsKept

LEMMA GuardsOfType ==
  ASSUME NEW gs \in Seq(ScopeJmps), NEW fr
  PROVE  GuardsOf(gs, fr) \in Seq(SUBSET {"success", "failure"})
<1>1. \A k \in 1 .. Len(gs) : MasksOf(gs)[k] \in SUBSET {"success", "failure"}
  <2>1. \A k \in 1 .. Len(gs) : gs[k] \in ScopeJmps
    OBVIOUS
  <2>2. \A g \in ScopeJmps : g.mask \in SUBSET {"success", "failure"}
    BY DEF ScopeJmps
  <2> QED
    BY <2>1, <2>2 DEF MasksOf
<1>2. Kept(MasksOf(gs), Waiting(gs, fr), Len(gs)) \in Seq(SUBSET {"success", "failure"})
  BY <1>1, KeptType
<1> QED
  BY <1>2, GuardsKept

-----------------------------------------------------------------------------
(* The calls that the mapping shows, and how a step changes one            *)

(* A construct is opened on top of bs, and the functions below resume as   *)
(* they did.                                                               *)
LEMMA StatementsGrow ==
  ASSUME NEW fs, NEW hs, NEW bs, NEW b, NEW cs, Grows(bs, b, cs), Resume(fs, hs, bs), NEW f
  PROVE  StatementsOf(fs, cs, f) = IF IsStatement(b, f)
                                   THEN Append(StatementsOf(hs, bs, f), StatementOf(fs, b))
                                   ELSE StatementsOf(hs, bs, f)
<1>1. Len(bs) \in Nat
  BY DEF Grows
<1>2. StatementsOf(hs, bs, f) = StatementsOf(fs, bs, f)
  BY <1>1, StatementsSame
<1> QED
  BY <1>1, <1>2, StatementsPush

GuardLists == Seq(SUBSET {"success", "failure"})
CallRecords == [blocks : Seq(Spoken), guards : GuardLists]

View(fs, bs, gs, f) == [blocks |-> StatementsOf(fs, bs, f), guards |-> GuardsOf(gs, f)]
CallsIn(fs, bs, gs) == [f \in DOMAIN fs |-> View(fs, bs, gs, f)]

(* cs is what the mapping shows of functions fs, constructs bs and guards  *)
(* gs: the form in which the lemmas below relate two states.               *)
Seen(cs, fs, bs, gs) ==
  /\ cs \in Seq(CallRecords) /\ Len(cs) = Len(fs) /\ Len(fs) \in Nat \ {0}
  /\ Len(bs) \in Nat
  /\ \A f \in 1 .. Len(fs) :
       cs[f].blocks = StatementsOf(fs, bs, f) /\ cs[f].guards = GuardsOf(gs, f)

LEMMA CallsInSeen ==
  ASSUME NEW fs, FramesOK(fs), NEW bs \in Seq(Blocks), NEW gs \in Seq(ScopeJmps)
  PROVE  Seen(CallsIn(fs, bs, gs), fs, bs, gs)
<1>1. Len(fs) \in Nat \ {0} /\ DOMAIN fs = 1 .. Len(fs)
  BY DEF FramesOK
<1>2. \A f \in 1 .. Len(fs) : View(fs, bs, gs, f) \in CallRecords
  BY StatementsType, GuardsOfType DEF View, CallRecords, GuardLists
<1> DEFINE cs == CallsIn(fs, bs, gs)
<1>3. cs = [f \in 1 .. Len(fs) |-> View(fs, bs, gs, f)]
  BY <1>1 DEF CallsIn
<1>4. cs \in Seq(CallRecords) /\ Len(cs) = Len(fs)
  BY <1>1, <1>2, <1>3
<1>5. \A f \in 1 .. Len(fs) : cs[f].blocks = StatementsOf(fs, bs, f) /\ cs[f].guards = GuardsOf(gs, f)
  BY <1>3 DEF View
<1> HIDE DEF cs
<1>6. Seen(cs, fs, bs, gs)
  BY <1>1, <1>4, <1>5 DEF Seen
<1> QED
  BY <1>6 DEF cs

LEMMA CallsSeen ==
  ASSUME IInv, IInv', pc # "dead", pc' # "dead"
  PROVE  /\ Seen(Calls, frames, blocks, ctx.scope_jmp_stack)
         /\ Seen(Calls', frames', blocks', ctx'.scope_jmp_stack)
<1>1. Calls = CallsIn(frames, blocks, ctx.scope_jmp_stack)
  BY Zenon DEF Calls, CallOf, CallsIn, View
<1>2. Calls' = CallsIn(frames', blocks', ctx'.scope_jmp_stack)
  BY Zenon DEF Calls, CallOf, CallsIn, View
<1>3. FramesOK(frames) /\ blocks \in Seq(Blocks) /\ ctx.scope_jmp_stack \in Seq(ScopeJmps)
  BY ContextTypes DEF IInv
<1>4. FramesOK(frames') /\ blocks' \in Seq(Blocks) /\ ctx'.scope_jmp_stack \in Seq(ScopeJmps)
  BY ContextTypes DEF IInv
<1> QED
  BY <1>1, <1>2, <1>3, <1>4, CallsInSeen

(* How one step's calls relate to the next one's.                          *)
LEMMA CallsEqual ==
  ASSUME NEW S, NEW T, NEW cs \in Seq([blocks : S, guards : T]),
         NEW ds \in Seq([blocks : S, guards : T]), Len(cs) = Len(ds),
         \A f \in 1 .. Len(cs) : cs[f].blocks = ds[f].blocks /\ cs[f].guards = ds[f].guards
  PROVE  cs = ds
<1>1. ASSUME NEW f \in 1 .. Len(cs)
      PROVE  cs[f] = ds[f]
  <2> DEFINE R == [blocks : S, guards : T]
  <2>2. cs \in Seq(R) /\ ds \in Seq(R) /\ f \in 1 .. Len(ds)
    OBVIOUS
  <2> HIDE DEF R
  <2>3. cs[f] \in R /\ ds[f] \in R
    BY <2>2
  <2>1. cs[f] \in [blocks : S, guards : T] /\ ds[f] \in [blocks : S, guards : T]
    BY <2>3 DEF R
  <2> QED
    BY <2>1
<1> QED
  BY <1>1

(* Nothing the mapping shows has changed.                                  *)
LEMMA SameCalls ==
  ASSUME NEW cs, NEW ds, NEW fs, NEW hs, NEW bs, NEW ks, NEW gs, NEW is,
         Seen(cs, fs, bs, gs), Seen(ds, hs, ks, is), Len(hs) = Len(fs),
         \A f \in 1 .. Len(fs) : StatementsOf(hs, ks, f) = StatementsOf(fs, bs, f),
         \A f \in 1 .. Len(fs) : GuardsOf(is, f) = GuardsOf(gs, f)
  PROVE  ds = cs
<1> DEFINE S == Seq(Spoken)
           T == GuardLists
<1>1. /\ cs \in Seq([blocks : S, guards : T]) /\ ds \in Seq([blocks : S, guards : T])
      /\ Len(ds) = Len(cs) /\ Len(cs) = Len(fs)
  BY DEF Seen, CallRecords
<1>2. \A f \in 1 .. Len(cs) : ds[f].blocks = cs[f].blocks /\ ds[f].guards = cs[f].guards
  BY <1>1 DEF Seen
<1> HIDE DEF S, T
<1> QED
  BY <1>1, <1>2, CallsEqual

(* A construct that is no statement is opened, is closed, or none is.      *)
LEMMA SameCallsGrow ==
  ASSUME NEW cs, NEW ds, NEW fs, NEW hs, NEW bs, NEW ks, NEW b, NEW gs,
         Seen(cs, fs, bs, gs), Seen(ds, hs, ks, gs), Len(hs) = Len(fs),
         Grows(bs, b, ks), b.kind \notin {"try", "catch", "guard"}, Resume(hs, fs, bs)
  PROVE  ds = cs
<1>1. \A f : ~ IsStatement(b, f)
  BY DEF IsStatement
<1>2. \A f : StatementsOf(hs, ks, f) = StatementsOf(fs, bs, f)
  BY <1>1, StatementsGrow
<1> QED
  BY <1>2, SameCalls

LEMMA SameCallsShrink ==
  ASSUME NEW cs, NEW ds, NEW fs, NEW hs, NEW bs, NEW ks, NEW b, NEW gs,
         Seen(cs, fs, ks, gs), Seen(ds, hs, bs, gs), Len(hs) = Len(fs),
         Grows(bs, b, ks), b.kind \notin {"try", "catch", "guard"}, Resume(fs, hs, bs)
  PROVE  ds = cs
<1>1. \A f : ~ IsStatement(b, f)
  BY DEF IsStatement
<1>2. \A f : StatementsOf(fs, ks, f) = StatementsOf(hs, bs, f)
  BY <1>1, StatementsGrow
<1> QED
  BY <1>2, SameCalls

LEMMA SameCallsStay ==
  ASSUME NEW cs, NEW ds, NEW fs, NEW hs, NEW bs, NEW gs,
         Seen(cs, fs, bs, gs), Seen(ds, hs, bs, gs), Len(hs) = Len(fs), Resume(fs, hs, bs)
  PROVE  ds = cs
<1>1. \A f : StatementsOf(hs, bs, f) = StatementsOf(fs, bs, f)
  BY StatementsSame DEF Seen
<1> QED
  BY <1>1, SameCalls

(* The statements of the innermost call alone have.                        *)
LEMMA WithinTop ==
  ASSUME NEW cs \in Seq(CallRecords), NEW ds \in Seq(CallRecords), NEW n \in Nat \ {0},
         Len(cs) = n, Len(ds) = n,
         \A f \in 1 .. n - 1 : ds[f].blocks = cs[f].blocks,
         \A f \in 1 .. n : ds[f].guards = cs[f].guards,
         NEW bl, ds[n].blocks = bl
  PROVE  ds = [cs EXCEPT ![n].blocks = bl]
<1> DEFINE es == [cs EXCEPT ![n].blocks = bl]
           S == Seq(Spoken)
           T == GuardLists
<1>1. n \in 1 .. n /\ cs[n] \in CallRecords /\ ds[n] \in CallRecords
  OBVIOUS
<1>2. bl \in S
  BY <1>1 DEF CallRecords
<1>3. es[n].blocks = bl /\ es[n].guards = cs[n].guards /\ es[n] \in CallRecords
  <2>1. es[n] = [cs[n] EXCEPT !.blocks = bl]
    BY <1>1
  <2>2. cs[n] \in [blocks : S, guards : T]
    BY <1>1 DEF CallRecords
  <2> HIDE DEF es, S, T
  <2>3. /\ [cs[n] EXCEPT !.blocks = bl].blocks = bl
        /\ [cs[n] EXCEPT !.blocks = bl].guards = cs[n].guards
        /\ [cs[n] EXCEPT !.blocks = bl] \in [blocks : S, guards : T]
    BY <1>2, <2>2
  <2> QED
    BY <2>1, <2>3 DEF CallRecords, S, T
<1>4. \A f \in 1 .. n : f # n => es[f] = cs[f]
  OBVIOUS
<1>5. es \in Seq(CallRecords) /\ Len(es) = n
  BY <1>3
<1> HIDE DEF es
<1>6. \A f \in 1 .. n : es[f].blocks = ds[f].blocks /\ es[f].guards = ds[f].guards
  <2>1. \A f \in 1 .. n : f = n \/ f \in 1 .. n - 1
    OBVIOUS
  <2> QED
    BY <1>3, <1>4, <2>1
<1>7. /\ es \in Seq([blocks : S, guards : T]) /\ ds \in Seq([blocks : S, guards : T])
  BY <1>5 DEF CallRecords
<1> HIDE DEF S, T
<1>8. es = ds
  BY <1>5, <1>6, <1>7, CallsEqual
<1> QED
  BY <1>8 DEF es

(* A statement begins.                                                     *)
Inner(cs) == cs[Len(cs)].blocks

LEMMA Begins ==
  ASSUME NEW cs, NEW ds, NEW fs, NEW hs, NEW bs, NEW ks, NEW b, NEW gs,
         Seen(cs, fs, bs, gs), Seen(ds, hs, ks, gs), Len(hs) = Len(fs),
         Grows(bs, b, ks), IsStatement(b, Len(fs)), Resume(hs, fs, bs)
  PROVE  ds = [cs EXCEPT ![Len(cs)].blocks = Append(Inner(cs), StatementOf(hs, b))]
<1> DEFINE n == Len(fs)
<1>1. \A f \in 1 .. n : IsStatement(b, f) <=> f = n
  BY DEF IsStatement
<1>2. \A f : StatementsOf(hs, ks, f) = IF IsStatement(b, f)
                                   THEN Append(StatementsOf(fs, bs, f), StatementOf(hs, b))
                                   ELSE StatementsOf(fs, bs, f)
  BY StatementsGrow
<1>3. /\ cs \in Seq(CallRecords) /\ ds \in Seq(CallRecords) /\ n \in Nat \ {0}
      /\ Len(cs) = n /\ Len(ds) = n
      /\ \A f \in 1 .. n : cs[f].blocks = StatementsOf(fs, bs, f) /\ cs[f].guards = GuardsOf(gs, f)
      /\ \A f \in 1 .. n : ds[f].blocks = StatementsOf(hs, ks, f) /\ ds[f].guards = GuardsOf(gs, f)
  BY DEF Seen
<1> HIDE DEF n
<1>4. \A f \in 1 .. n - 1 : f \in 1 .. n /\ f # n
  BY <1>3
<1>5. n \in 1 .. n
  BY <1>3
<1>6. ds[n].blocks = Append(cs[n].blocks, StatementOf(hs, b))
  BY <1>1, <1>2, <1>3, <1>5
<1>7. /\ \A f \in 1 .. n - 1 : ds[f].blocks = cs[f].blocks
      /\ \A f \in 1 .. n : ds[f].guards = cs[f].guards
  BY <1>1, <1>2, <1>3, <1>4
<1> QED
  BY <1>3, <1>6, <1>7, WithinTop DEF Inner

(* It ends.                                                                *)
Ends(cs, ds, s) ==
  /\ cs # << >> /\ Inner(cs) # << >> /\ Inner(cs)[Len(Inner(cs))] = s
  /\ ds = [cs EXCEPT ![Len(cs)].blocks = SubSeq(Inner(cs), 1, Len(Inner(cs)) - 1)]

LEMMA AppendEnds ==
  ASSUME NEW S, NEW s \in Seq(S), NEW x \in S
  PROVE  LET t == Append(s, x)
         IN  t # << >> /\ t[Len(t)] = x /\ SubSeq(t, 1, Len(t) - 1) = s
<1>1. /\ Append(s, x) \in Seq(S) /\ Len(Append(s, x)) = Len(s) + 1 /\ Append(s, x)[Len(s) + 1] = x
      /\ \A i \in 1 .. Len(s) : Append(s, x)[i] = s[i]
  BY AppendFacts
<1> DEFINE t == Append(s, x)
<1> HIDE DEF t
<1>2. t # << >> /\ t[Len(t)] = x /\ Len(t) - 1 = Len(s)
  BY <1>1 DEF t
<1>3. SubSeq(t, 1, Len(s)) = s
  <2>1. Len(s) \in 0 .. Len(t) /\ t \in Seq(S)
    BY <1>1 DEF t
  <2>2. SubSeq(t, 1, Len(s)) \in Seq(S) /\ Len(SubSeq(t, 1, Len(s))) = Len(s)
        /\ \A i \in 1 .. Len(s) : SubSeq(t, 1, Len(s))[i] = t[i]
    BY <2>1, PrefixType
  <2> QED
    BY <1>1, <2>2 DEF t
<1> QED
  BY <1>2, <1>3 DEF t

LEMMA Finishes ==
  ASSUME NEW cs, NEW ds, NEW fs, NEW hs, NEW bs, NEW ks, NEW b \in Blocks, NEW gs,
         Seen(cs, fs, ks, gs), Seen(ds, hs, bs, gs), Len(hs) = Len(fs),
         Grows(bs, b, ks), IsStatement(b, Len(fs)), Resume(fs, hs, bs)
  PROVE  Ends(cs, ds, StatementOf(fs, b))
<1> DEFINE n == Len(fs)
           x == StatementOf(fs, b)
<1>1. \A f \in 1 .. n : IsStatement(b, f) <=> f = n
  BY DEF IsStatement
<1>2. \A f : StatementsOf(fs, ks, f) = IF IsStatement(b, f)
                                   THEN Append(StatementsOf(hs, bs, f), x)
                                   ELSE StatementsOf(hs, bs, f)
  BY StatementsGrow
<1>3. /\ cs \in Seq(CallRecords) /\ ds \in Seq(CallRecords) /\ n \in Nat \ {0}
      /\ Len(cs) = n /\ Len(ds) = n
      /\ \A f \in 1 .. n : cs[f].blocks = StatementsOf(fs, ks, f) /\ cs[f].guards = GuardsOf(gs, f)
      /\ \A f \in 1 .. n : ds[f].blocks = StatementsOf(hs, bs, f) /\ ds[f].guards = GuardsOf(gs, f)
  BY DEF Seen
<1>4. x \in Spoken
  BY StatementType
<1> HIDE DEF n, x
<1>5. \A f \in 1 .. n - 1 : f \in 1 .. n /\ f # n
  BY <1>3
<1>6. n \in 1 .. n /\ cs # << >>
  BY <1>3
<1>7. cs[n].blocks = Append(ds[n].blocks, x)
  BY <1>1, <1>2, <1>3, <1>6
<1>8. /\ \A f \in 1 .. n - 1 : ds[f].blocks = cs[f].blocks
      /\ \A f \in 1 .. n : ds[f].guards = cs[f].guards
  BY <1>1, <1>2, <1>3, <1>5
<1>9. ds[n].blocks \in Seq(Spoken)
  <2>1. ds[n] \in CallRecords
    BY <1>3, <1>6
  <2> QED
    BY <2>1 DEF CallRecords
<1>10. /\ cs[n].blocks # << >> /\ cs[n].blocks[Len(cs[n].blocks)] = x
       /\ ds[n].blocks = SubSeq(cs[n].blocks, 1, Len(cs[n].blocks) - 1)
  BY <1>4, <1>7, <1>9, AppendEnds
<1>11. ds = [cs EXCEPT ![n].blocks = SubSeq(cs[n].blocks, 1, Len(cs[n].blocks) - 1)]
  BY <1>3, <1>8, <1>10, WithinTop
<1> QED
  BY <1>3, <1>6, <1>10, <1>11 DEF Ends, Inner, x

-----------------------------------------------------------------------------
(* Calls that come and go, and guards that are registered and visited      *)

(* An sCATCH ends, and its sTRY with it.                                   *)
EndsBoth(cs, ds) ==
  /\ cs # << >> /\ Inner(cs) # << >> /\ Inner(cs)[Len(Inner(cs))] = [kind |-> "catch"]
  /\ ds = [cs EXCEPT ![Len(cs)].blocks = SubSeq(Inner(cs), 1, Len(Inner(cs)) - 2)]

LEMMA AppendTwo ==
  ASSUME NEW S, NEW s \in Seq(S), NEW x \in S, NEW y \in S
  PROVE  LET t == Append(Append(s, x), y)
         IN  t # << >> /\ t[Len(t)] = y /\ SubSeq(t, 1, Len(t) - 2) = s
<1> DEFINE u == Append(s, x)
           t == Append(u, y)
<1>1. u \in Seq(S) /\ Len(u) = Len(s) + 1 /\ \A i \in 1 .. Len(s) : u[i] = s[i]
  BY AppendFacts
<1> HIDE DEF u
<1>2. /\ t \in Seq(S) /\ Len(t) = Len(u) + 1 /\ t[Len(u) + 1] = y
      /\ \A i \in 1 .. Len(u) : t[i] = u[i]
  BY <1>1, AppendFacts
<1> HIDE DEF t
<1>3. t # << >> /\ t[Len(t)] = y /\ Len(t) - 2 = Len(s)
  BY <1>1, <1>2
<1>4. SubSeq(t, 1, Len(s)) = s
  <2>1. Len(s) \in 0 .. Len(t)
    BY <1>1, <1>2
  <2>2. /\ SubSeq(t, 1, Len(s)) \in Seq(S) /\ Len(SubSeq(t, 1, Len(s))) = Len(s)
        /\ \A i \in 1 .. Len(s) : SubSeq(t, 1, Len(s))[i] = t[i]
    BY <1>2, <2>1, PrefixType
  <2>3. \A i \in 1 .. Len(s) : t[i] = s[i]
    <3>1. \A i \in 1 .. Len(s) : i \in 1 .. Len(u)
      BY <1>1
    <3> QED
      BY <1>1, <1>2, <3>1
  <2> QED
    BY <2>2, <2>3
<1> QED
  BY <1>3, <1>4 DEF t, u

LEMMA FinishesBoth ==
  ASSUME NEW cs, NEW ds, NEW fs, NEW hs, NEW bs, NEW ks, NEW ls, NEW t \in Blocks,
         NEW b \in Blocks, NEW gs,
         Seen(cs, fs, ls, gs), Seen(ds, hs, bs, gs), Len(hs) = Len(fs),
         Grows(bs, t, ks), t.kind = "try", t.fr = Len(fs),
         Grows(ks, b, ls), b.kind = "catch", b.fr = Len(fs), Resume(fs, hs, bs)
  PROVE  EndsBoth(cs, ds)
<1> DEFINE n == Len(fs)
           x == StatementOf(fs, t)
           y == StatementOf(fs, b)
<1>1. \A f \in 1 .. n : (IsStatement(b, f) <=> f = n) /\ (IsStatement(t, f) <=> f = n)
  BY DEF IsStatement
<1>2. /\ \A f : StatementsOf(fs, ks, f) = IF IsStatement(t, f)
                                   THEN Append(StatementsOf(hs, bs, f), x)
                                   ELSE StatementsOf(hs, bs, f)
      /\ \A f : StatementsOf(fs, ls, f) = IF IsStatement(b, f)
                                   THEN Append(StatementsOf(fs, ks, f), y)
                                   ELSE StatementsOf(fs, ks, f)
  <2>1. Resume(fs, fs, ks)
    BY DEF Resume
  <2> QED
    BY <2>1, StatementsGrow
<1>3. /\ cs \in Seq(CallRecords) /\ ds \in Seq(CallRecords) /\ n \in Nat \ {0}
      /\ Len(cs) = n /\ Len(ds) = n
      /\ \A f \in 1 .. n : cs[f].blocks = StatementsOf(fs, ls, f) /\ cs[f].guards = GuardsOf(gs, f)
      /\ \A f \in 1 .. n : ds[f].blocks = StatementsOf(hs, bs, f) /\ ds[f].guards = GuardsOf(gs, f)
  BY DEF Seen
<1>4. x \in Spoken /\ y \in Spoken /\ y = [kind |-> "catch"]
  BY StatementType DEF StatementOf
<1> HIDE DEF n, x, y
<1>5. \A f \in 1 .. n - 1 : f \in 1 .. n /\ f # n
  BY <1>3
<1>6. n \in 1 .. n /\ cs # << >>
  BY <1>3
<1>7. cs[n].blocks = Append(Append(ds[n].blocks, x), y)
  BY <1>1, <1>2, <1>3, <1>6
<1>8. /\ \A f \in 1 .. n - 1 : ds[f].blocks = cs[f].blocks
      /\ \A f \in 1 .. n : ds[f].guards = cs[f].guards
  BY <1>1, <1>2, <1>3, <1>5
<1>9. ds[n].blocks \in Seq(Spoken)
  <2>1. ds[n] \in CallRecords
    BY <1>3, <1>6
  <2> QED
    BY <2>1 DEF CallRecords
<1>10. /\ cs[n].blocks # << >> /\ cs[n].blocks[Len(cs[n].blocks)] = y
       /\ ds[n].blocks = SubSeq(cs[n].blocks, 1, Len(cs[n].blocks) - 2)
  BY <1>4, <1>7, <1>9, AppendTwo
<1>11. ds = [cs EXCEPT ![n].blocks = SubSeq(cs[n].blocks, 1, Len(cs[n].blocks) - 2)]
  BY <1>3, <1>8, <1>10, WithinTop
<1> QED
  BY <1>3, <1>4, <1>6, <1>10, <1>11 DEF EndsBoth, Inner

(* Functions that come and go.                                             *)
Clean == [blocks |-> << >>, guards |-> << >>]

(* No construct and no guard of a function above m.                        *)
Within(bs, gs, m) ==
  /\ \A i \in 1 .. Len(bs) : bs[i].fr <= m
  /\ \A k \in 1 .. Len(gs) : gs[k].fr <= m

LEMMA ViewClean ==
  ASSUME NEW fs, NEW bs, Len(bs) \in Nat, NEW gs \in Seq(ScopeJmps), NEW m \in Nat,
         Within(bs, gs, m), NEW f \in Nat, f > m
  PROVE  StatementsOf(fs, bs, f) = << >> /\ GuardsOf(gs, f) = << >>
<1>1. \A i \in 1 .. Len(bs) : ~ IsStatement(bs[i], f)
  BY DEF Within, IsStatement
<1>2. \A k \in 1 .. Len(gs) : ~ Waits(gs[k], f)
  BY DEF Within, Waits
<1>3. Len(gs) \in Nat
  OBVIOUS
<1> QED
  BY <1>1, <1>2, <1>3, StatementsNone, GuardsOfNone

LEMMA CleanIs ==
  ASSUME NEW r \in CallRecords, r.blocks = << >>, r.guards = << >>
  PROVE  r = Clean
<1>1. r = [blocks |-> r.blocks, guards |-> r.guards]
  BY DEF CallRecords
<1> QED
  BY <1>1 DEF Clean

(* A function is called: a call without statements and guards.             *)
LEMMA Calling ==
  ASSUME NEW cs, NEW ds, NEW fs, NEW hs, NEW bs, NEW gs \in Seq(ScopeJmps),
         Seen(cs, fs, bs, gs), Seen(ds, hs, bs, gs), Len(hs) = Len(fs) + 1,
         Within(bs, gs, Len(fs)), Resume(fs, hs, bs)
  PROVE  ds = Append(cs, Clean)
<1> DEFINE n == Len(fs)
           es == Append(cs, Clean)
           S == Seq(Spoken)
           T == GuardLists
<1>1. /\ cs \in Seq(CallRecords) /\ ds \in Seq(CallRecords) /\ n \in Nat \ {0} /\ Len(bs) \in Nat
      /\ Len(cs) = n /\ Len(ds) = n + 1
      /\ \A f \in 1 .. n : cs[f].blocks = StatementsOf(fs, bs, f) /\ cs[f].guards = GuardsOf(gs, f)
      /\ \A f \in 1 .. n + 1 : ds[f].blocks = StatementsOf(hs, bs, f) /\ ds[f].guards = GuardsOf(gs, f)
  BY DEF Seen
<1>2. \A f : StatementsOf(hs, bs, f) = StatementsOf(fs, bs, f)
  BY <1>1, StatementsSame
<1>3. StatementsOf(hs, bs, n + 1) = << >> /\ GuardsOf(gs, n + 1) = << >>
  BY <1>1, ViewClean
<1>4. Clean \in CallRecords
  BY DEF Clean, CallRecords, GuardLists
<1>5. es \in Seq(CallRecords) /\ Len(es) = n + 1 /\ es[n + 1] = Clean /\ \A f \in 1 .. n : es[f] = cs[f]
  BY <1>1, <1>4, AppendFacts
<1>6. Clean.blocks = << >> /\ Clean.guards = << >>
  BY DEF Clean
<1> HIDE DEF n, es
<1>7. \A f \in 1 .. n + 1 : es[f].blocks = ds[f].blocks /\ es[f].guards = ds[f].guards
  <2>1. \A f \in 1 .. n + 1 : f = n + 1 \/ f \in 1 .. n
    BY <1>1
  <2> QED
    <3>1. ASSUME NEW f \in 1 .. n
          PROVE  es[f].blocks = ds[f].blocks /\ es[f].guards = ds[f].guards
      <4>1. f \in 1 .. n + 1
        BY <1>1
      <4> QED
        BY <1>1, <1>2, <1>5, <4>1
    <3>2. es[n + 1].blocks = ds[n + 1].blocks /\ es[n + 1].guards = ds[n + 1].guards
      <4>1. n + 1 \in 1 .. n + 1
        BY <1>1
      <4> QED
        BY <1>1, <1>3, <1>5, <1>6, <4>1
    <3> QED
      BY <2>1, <3>1, <3>2
<1>8. es \in Seq([blocks : S, guards : T]) /\ ds \in Seq([blocks : S, guards : T])
  BY <1>1, <1>5 DEF CallRecords
<1> HIDE DEF S, T
<1>9. es = ds
  BY <1>1, <1>5, <1>7, <1>8, CallsEqual
<1> QED
  BY <1>9 DEF es

(* Functions without statements and guards are left.                       *)
LEMMA Cutting ==
  ASSUME NEW cs, NEW ds, NEW fs, NEW hs, NEW bs, NEW gs \in Seq(ScopeJmps),
         Seen(cs, fs, bs, gs), Seen(ds, hs, bs, gs), Len(hs) <= Len(fs),
         Within(bs, gs, Len(hs)), Resume(fs, hs, bs)
  PROVE  /\ ds = SubSeq(cs, 1, Len(hs))
         /\ \A f \in Len(hs) + 1 .. Len(cs) : cs[f] = Clean
<1> DEFINE n == Len(fs)
           m == Len(hs)
           es == SubSeq(cs, 1, m)
           S == Seq(Spoken)
           T == GuardLists
<1>1. /\ cs \in Seq(CallRecords) /\ ds \in Seq(CallRecords) /\ n \in Nat \ {0} /\ Len(bs) \in Nat
      /\ m \in Nat \ {0} /\ m <= n /\ Len(cs) = n /\ Len(ds) = m
      /\ \A f \in 1 .. n : cs[f].blocks = StatementsOf(fs, bs, f) /\ cs[f].guards = GuardsOf(gs, f)
      /\ \A f \in 1 .. m : ds[f].blocks = StatementsOf(hs, bs, f) /\ ds[f].guards = GuardsOf(gs, f)
  BY DEF Seen
<1>2. \A f : StatementsOf(hs, bs, f) = StatementsOf(fs, bs, f)
  BY <1>1, StatementsSame
<1>3. ASSUME NEW f \in m + 1 .. n
      PROVE  cs[f] = Clean
  <2>1. f \in 1 .. n /\ f \in Nat /\ f > m /\ m \in Nat
    BY <1>1
  <2>2. StatementsOf(fs, bs, f) = << >> /\ GuardsOf(gs, f) = << >>
    BY <1>1, <2>1, ViewClean
  <2>3. cs[f] \in CallRecords
    BY <1>1, <2>1
  <2> QED
    BY <1>1, <2>1, <2>2, <2>3, CleanIs
<1>4. es \in Seq(CallRecords) /\ Len(es) = m /\ \A f \in 1 .. m : es[f] = cs[f]
  <2>1. m \in 0 .. Len(cs)
    BY <1>1
  <2> QED
    BY <1>1, <2>1, PrefixType
<1> HIDE DEF n, m, es
<1>5. \A f \in 1 .. m : es[f].blocks = ds[f].blocks /\ es[f].guards = ds[f].guards
  <2>1. \A f \in 1 .. m : f \in 1 .. n
    BY <1>1
  <2> QED
    BY <1>1, <1>2, <1>4, <2>1
<1>6. es \in Seq([blocks : S, guards : T]) /\ ds \in Seq([blocks : S, guards : T])
  BY <1>1, <1>4 DEF CallRecords
<1> HIDE DEF S, T
<1>7. es = ds
  BY <1>1, <1>4, <1>5, <1>6, CallsEqual
<1> QED
  BY <1>1, <1>3, <1>7 DEF es, m, n

(* The innermost call changes as a whole.                                  *)
LEMMA TopIs ==
  ASSUME NEW cs \in Seq(CallRecords), NEW ds \in Seq(CallRecords), NEW n \in Nat \ {0},
         Len(cs) = n, Len(ds) = n,
         \A f \in 1 .. n - 1 : ds[f].blocks = cs[f].blocks,
         \A f \in 1 .. n - 1 : ds[f].guards = cs[f].guards
  PROVE  ds = [cs EXCEPT ![n] = [blocks |-> ds[n].blocks, guards |-> ds[n].guards]]
<1> DEFINE bl == ds[n].blocks
           gl == ds[n].guards
           es == [cs EXCEPT ![n] = [blocks |-> bl, guards |-> gl]]
           S == Seq(Spoken)
           T == GuardLists
<1>1. n \in 1 .. n /\ ds[n] \in CallRecords
  OBVIOUS
<1>2. bl \in S /\ gl \in T
  BY <1>1 DEF CallRecords
<1>2a. ds[n].blocks = bl /\ ds[n].guards = gl
  OBVIOUS
<1> HIDE DEF bl, gl
<1>3. [blocks |-> bl, guards |-> gl] \in CallRecords
  BY <1>2 DEF CallRecords
<1>4. es[n].blocks = bl /\ es[n].guards = gl
  BY <1>1
<1>5. \A f \in 1 .. n : f # n => es[f] = cs[f]
  OBVIOUS
<1>6. es \in Seq(CallRecords) /\ Len(es) = n
  BY <1>3
<1> HIDE DEF es
<1>7. \A f \in 1 .. n : es[f].blocks = ds[f].blocks /\ es[f].guards = ds[f].guards
  <2>1. \A f \in 1 .. n : f = n \/ f \in 1 .. n - 1
    OBVIOUS
  <2> QED
    BY <1>2a, <1>4, <1>5, <2>1
<1>8. es \in Seq([blocks : S, guards : T]) /\ ds \in Seq([blocks : S, guards : T])
  BY <1>6 DEF CallRecords
<1> HIDE DEF S, T
<1>9. es = ds
  BY <1>6, <1>7, <1>8, CallsEqual
<1> QED
  BY <1>9 DEF es, bl, gl

(* A guard is registered, on top of guards that are not its function's or  *)
(* wait with it.                                                           *)
Registers(gs, is, n, mask) ==
  \A f : GuardsOf(is, f) = IF f = n THEN Append(GuardsOf(gs, f), mask) ELSE GuardsOf(gs, f)

Rest(cs) == cs[Len(cs)].guards

LEMMA Registering ==
  ASSUME NEW cs, NEW ds, NEW fs, NEW hs, NEW bs, NEW ks, NEW gs, NEW is, NEW mask,
         Seen(cs, fs, bs, gs), Seen(ds, hs, ks, is), Len(hs) = Len(fs),
         \A f : StatementsOf(hs, ks, f) = StatementsOf(fs, bs, f),
         Registers(gs, is, Len(fs), mask), StatementsOf(fs, bs, Len(fs)) = << >>
  PROVE  /\ cs # << >> /\ Inner(cs) = << >>
         /\ ds = [cs EXCEPT ![Len(cs)].guards = Append(@, mask)]
<1> DEFINE n == Len(fs)
<1>1. /\ cs \in Seq(CallRecords) /\ ds \in Seq(CallRecords) /\ n \in Nat \ {0}
      /\ Len(cs) = n /\ Len(ds) = n
      /\ \A f \in 1 .. n : cs[f].blocks = StatementsOf(fs, bs, f) /\ cs[f].guards = GuardsOf(gs, f)
      /\ \A f \in 1 .. n : ds[f].blocks = StatementsOf(hs, ks, f) /\ ds[f].guards = GuardsOf(is, f)
  BY DEF Seen
<1>2. StatementsOf(fs, bs, n) = << >> /\ Registers(gs, is, n, mask)
  OBVIOUS
<1> HIDE DEF n
<1>3. n \in 1 .. n /\ cs # << >> /\ \A f \in 1 .. n - 1 : f \in 1 .. n /\ f # n
  BY <1>1
<1>4. \A f \in 1 .. n - 1 : ds[f].blocks = cs[f].blocks /\ ds[f].guards = cs[f].guards
  BY <1>1, <1>2, <1>3 DEF Registers
<1>5. ds[n].blocks = << >> /\ ds[n].guards = Append(cs[n].guards, mask) /\ cs[n].blocks = << >>
  BY <1>1, <1>2, <1>3 DEF Registers
<1>6. ds = [cs EXCEPT ![n] = [blocks |-> << >>, guards |-> Append(cs[n].guards, mask)]]
  BY <1>1, <1>4, <1>5, TopIs
<1>7. cs[n] = [blocks |-> << >>, guards |-> cs[n].guards]
  <2>1. cs[n] \in CallRecords
    BY <1>1, <1>3
  <2>2. cs[n] = [blocks |-> cs[n].blocks, guards |-> cs[n].guards]
    BY <2>1 DEF CallRecords
  <2> QED
    BY <1>5, <2>2
<1>8. [cs[n] EXCEPT !.guards = Append(cs[n].guards, mask)]
        = [blocks |-> << >>, guards |-> Append(cs[n].guards, mask)]
  <2>1. ASSUME NEW r, NEW g, r = [blocks |-> << >>, guards |-> g]
        PROVE  [r EXCEPT !.guards = Append(g, mask)] = [blocks |-> << >>, guards |-> Append(g, mask)]
    BY <2>1
  <2> QED
    BY <1>7, <2>1
<1>9. [cs EXCEPT ![n].guards = Append(@, mask)]
        = [cs EXCEPT ![n] = [cs[n] EXCEPT !.guards = Append(cs[n].guards, mask)]]
  BY <1>3
<1> QED
  BY <1>1, <1>3, <1>5, <1>6, <1>8, <1>9 DEF Inner

(* The statements of the innermost call alone may have changed.            *)
IsMask(mask) == mask \in SUBSET {"success", "failure"}

SameBelow(fs, bs, hs, ks) ==
  \A f : f # Len(fs) => StatementsOf(hs, ks, f) = StatementsOf(fs, bs, f)

(* The last guard of the function that is left is visited.                 *)
VisitsGuard(cs, ds, mask, new) ==
  /\ cs # << >> /\ Inner(cs) = << >>
  /\ Rest(cs) # << >> /\ Rest(cs)[Len(Rest(cs))] = mask
  /\ ds = [cs EXCEPT ![Len(cs)] =
             [blocks |-> new, guards |-> SubSeq(Rest(cs), 1, Len(Rest(cs)) - 1)]]

LEMMA Visiting ==
  ASSUME NEW cs, NEW ds, NEW fs, NEW hs, NEW bs, NEW ks, NEW gs \in Seq(ScopeJmps),
         NEW is \in Seq(ScopeJmps), NEW mask, IsMask(mask),
         Seen(cs, fs, bs, gs), Seen(ds, hs, ks, is), Len(hs) = Len(fs),
         SameBelow(fs, bs, hs, ks),
         Registers(is, gs, Len(fs), mask), StatementsOf(fs, bs, Len(fs)) = << >>
  PROVE  VisitsGuard(cs, ds, mask, StatementsOf(hs, ks, Len(fs)))
<1> DEFINE n == Len(fs)
           new == StatementsOf(hs, ks, Len(fs))
           M == SUBSET {"success", "failure"}
<1>1. /\ cs \in Seq(CallRecords) /\ ds \in Seq(CallRecords) /\ n \in Nat \ {0}
      /\ Len(cs) = n /\ Len(ds) = n
      /\ \A f \in 1 .. n : cs[f].blocks = StatementsOf(fs, bs, f) /\ cs[f].guards = GuardsOf(gs, f)
      /\ \A f \in 1 .. n : ds[f].blocks = StatementsOf(hs, ks, f) /\ ds[f].guards = GuardsOf(is, f)
  BY DEF Seen
<1>2. /\ StatementsOf(fs, bs, n) = << >> /\ StatementsOf(hs, ks, n) = new
      /\ Registers(is, gs, n, mask)
      /\ \A f : f # n => StatementsOf(hs, ks, f) = StatementsOf(fs, bs, f)
  BY DEF SameBelow
<1>3. mask \in M /\ GuardsOf(is, n) \in Seq(M)
  BY GuardsOfType DEF IsMask
<1> HIDE DEF n, M, new
<1>4. n \in 1 .. n /\ cs # << >> /\ \A f \in 1 .. n - 1 : f \in 1 .. n /\ f # n
  BY <1>1
<1>5. \A f \in 1 .. n - 1 : ds[f].blocks = cs[f].blocks /\ ds[f].guards = cs[f].guards
  BY <1>1, <1>2, <1>4 DEF Registers
<1>6. /\ cs[n].guards = Append(GuardsOf(is, n), mask) /\ cs[n].blocks = << >>
      /\ ds[n].blocks = new /\ ds[n].guards = GuardsOf(is, n)
  BY <1>1, <1>2, <1>4 DEF Registers
<1>7. /\ cs[n].guards # << >> /\ cs[n].guards[Len(cs[n].guards)] = mask
      /\ SubSeq(cs[n].guards, 1, Len(cs[n].guards) - 1) = GuardsOf(is, n)
  BY <1>3, <1>6, AppendEnds
<1>8. ds = [cs EXCEPT ![n] = [blocks |-> new, guards |-> GuardsOf(is, n)]]
  <2>1. ds = [cs EXCEPT ![n] = [blocks |-> ds[n].blocks, guards |-> ds[n].guards]]
    <3>1. /\ cs \in Seq(CallRecords) /\ ds \in Seq(CallRecords) /\ n \in Nat \ {0}
          /\ Len(cs) = n /\ Len(ds) = n
      BY <1>1
    <3>2. \A f \in 1 .. n - 1 : ds[f].blocks = cs[f].blocks
      BY <1>5
    <3>3. \A f \in 1 .. n - 1 : ds[f].guards = cs[f].guards
      BY <1>5
    <3> QED
      BY ONLY <3>1, <3>2, <3>3, TopIs
  <2>2. ds[n].blocks = new /\ ds[n].guards = GuardsOf(is, n)
    BY <1>6
  <2> QED
    BY <2>1, <2>2, Zenon
<1> QED
  BY <1>1, <1>4, <1>6, <1>7, <1>8 DEF VisitsGuard, Inner, Rest, new, n

-----------------------------------------------------------------------------
(* The status of an exit                                                   *)

(* A function that scans its guards has set the exit's status.             *)
ExitFits(frame) ==
  frame.scope_fn_exit # "none" =>
    frame.exit_status = IF frame.scope_fn_exit = "return" THEN "success" ELSE "failure"

ExitsFit(fs) == FramesOK(fs) /\ \A f \in 1 .. Len(fs) : ExitFits(fs[f])

(* It stays so under all that the macros do to functions.                  *)
LEMMA ExitsUpdate ==
  ASSUME NEW fs, ExitsFit(fs), NEW n \in 1 .. Len(fs), NEW g, ExitFits(g),
         FramesOK([fs EXCEPT ![n] = g]), Len([fs EXCEPT ![n] = g]) = Len(fs)
  PROVE  ExitsFit([fs EXCEPT ![n] = g])
<1> DEFINE gs == [fs EXCEPT ![n] = g]
<1>1. fs \in Seq(Frames)
  BY DEF ExitsFit, FramesOK
<1>2. \A f \in 1 .. Len(fs) : gs[f] = IF f = n THEN g ELSE fs[f]
  BY <1>1
<1> HIDE DEF gs
<1>3. \A f \in 1 .. Len(fs) : ExitFits(gs[f])
  BY <1>2 DEF ExitsFit
<1>4. FramesOK(gs) /\ Len(gs) = Len(fs)
  BY DEF gs
<1>5. ExitsFit(gs)
  BY <1>3, <1>4 DEF ExitsFit
<1> QED
  BY <1>5 DEF gs

LEMMA InnermostFrame ==
  ASSUME NEW fs, FramesOK(fs), NEW n, n = Len(fs)
  PROVE  n \in 1 .. Len(fs) /\ n \in DOMAIN fs /\ fs[n] \in Frames /\ fs \in Seq(Frames)
BY DEF FramesOK

LEMMA ExitsNesting ==
  ASSUME NEW fs, ExitsFit(fs), NEW n, n = Len(fs), NEW x \in Int
  PROVE  ExitsFit([fs EXCEPT ![n].nesting_level = x])
<1> DEFINE g == [fs[n] EXCEPT !.nesting_level = x]
<1>1. FramesOK(fs) /\ n \in 1 .. Len(fs) /\ n \in DOMAIN fs /\ fs[n] \in Frames /\ ExitFits(fs[n])
  BY InnermostFrame DEF ExitsFit
<1>2. g \in Frames /\ g.scope_fn_exit = fs[n].scope_fn_exit /\ g.exit_status = fs[n].exit_status
  BY <1>1 DEF Frames
<1>3. [fs EXCEPT ![n].nesting_level = x] = [fs EXCEPT ![n] = g]
  OBVIOUS
<1> HIDE DEF g
<1>4. ExitFits(g)
  BY <1>1, <1>2 DEF ExitFits
<1>5. FramesOK([fs EXCEPT ![n] = g]) /\ Len([fs EXCEPT ![n] = g]) = Len(fs)
  BY <1>1, <1>2, FrameUpdate
<1> QED
  BY <1>1, <1>3, <1>4, <1>5, ExitsUpdate

LEMMA ExitsNests ==
  ASSUME NEW fs, ExitsFit(fs), NEW n, n = Len(fs)
  PROVE  /\ ExitsFit([fs EXCEPT ![n].nesting_level = @ + 1])
         /\ ExitsFit([fs EXCEPT ![n].nesting_level = @ - 1])
<1>1. n \in DOMAIN fs /\ fs[n] \in Frames
  BY InnermostFrame DEF ExitsFit
<1>2. fs[n].nesting_level + 1 \in Int /\ fs[n].nesting_level - 1 \in Int
  BY <1>1 DEF Frames
<1>3. /\ [fs EXCEPT ![n].nesting_level = @ + 1] = [fs EXCEPT ![n].nesting_level = fs[n].nesting_level + 1]
      /\ [fs EXCEPT ![n].nesting_level = @ - 1] = [fs EXCEPT ![n].nesting_level = fs[n].nesting_level - 1]
  OBVIOUS
<1> QED
  BY <1>2, <1>3, ExitsNesting

LEMMA ExitsGuardsUsed ==
  ASSUME NEW fs, ExitsFit(fs), NEW n, n = Len(fs)
  PROVE  ExitsFit([fs EXCEPT ![n].guards_used = TRUE])
<1> DEFINE g == [fs[n] EXCEPT !.guards_used = TRUE]
<1>1. FramesOK(fs) /\ n \in 1 .. Len(fs) /\ n \in DOMAIN fs /\ fs[n] \in Frames /\ ExitFits(fs[n])
  BY InnermostFrame DEF ExitsFit
<1>2. g \in Frames /\ g.scope_fn_exit = fs[n].scope_fn_exit /\ g.exit_status = fs[n].exit_status
  BY <1>1 DEF Frames
<1>3. [fs EXCEPT ![n].guards_used = TRUE] = [fs EXCEPT ![n] = g]
  OBVIOUS
<1> HIDE DEF g
<1>4. ExitFits(g)
  BY <1>1, <1>2 DEF ExitFits
<1>5. FramesOK([fs EXCEPT ![n] = g]) /\ Len([fs EXCEPT ![n] = g]) = Len(fs)
  BY <1>1, <1>2, FrameUpdate
<1> QED
  BY <1>1, <1>3, <1>4, <1>5, ExitsUpdate

LEMMA ExitsScanOver ==
  ASSUME NEW fs, ExitsFit(fs), NEW n, n = Len(fs)
  PROVE  ExitsFit([fs EXCEPT ![n].scope_fn_exit = "none"])
<1> DEFINE g == [fs[n] EXCEPT !.scope_fn_exit = "none"]
<1>1. FramesOK(fs) /\ n \in 1 .. Len(fs) /\ n \in DOMAIN fs /\ fs[n] \in Frames /\ ExitFits(fs[n])
  BY InnermostFrame DEF ExitsFit
<1>2. g \in Frames /\ g.scope_fn_exit = "none"
  BY <1>1 DEF Frames
<1>3. [fs EXCEPT ![n].scope_fn_exit = "none"] = [fs EXCEPT ![n] = g]
  OBVIOUS
<1> HIDE DEF g
<1>4. ExitFits(g)
  BY <1>2 DEF ExitFits
<1>5. FramesOK([fs EXCEPT ![n] = g]) /\ Len([fs EXCEPT ![n] = g]) = Len(fs)
  BY <1>1, <1>2, FrameUpdate
<1> QED
  BY <1>1, <1>3, <1>4, <1>5, ExitsUpdate

LEMMA ExitsScanning ==
  ASSUME NEW fs, ExitsFit(fs), NEW status \in {"success", "failure"},
         NEW target \in {"return", "throw", "scope"}, target = "return" => Len(fs) > 1,
         status = "success" <=> target = "return"
  PROVE  ExitsFit(Scanning(fs, status, target))
<1> DEFINE n == Len(fs)
           g == [fs[n] EXCEPT !.exit_status = status, !.scope_fn_exit = target]
<1>1. CASE ~ Scans(fs)
  BY <1>1 DEF Scanning
<1>2. CASE Scans(fs)
  <2>1. FramesOK(fs) /\ n \in 1 .. Len(fs) /\ n \in DOMAIN fs /\ fs[n] \in Frames
    BY InnermostFrame DEF ExitsFit
  <2>2. g \in Frames /\ g.exit_status = status /\ g.scope_fn_exit = target
    BY <2>1 DEF Frames
  <2>3. Scanning(fs, status, target) = [fs EXCEPT ![n] = g]
    BY <1>2, <2>1 DEF Scanning
  <2>4. n > 1 \/ target # "return"
    OBVIOUS
  <2> HIDE DEF g, n
  <2>5. ExitFits(g)
    BY <2>2 DEF ExitFits
  <2>6. FramesOK([fs EXCEPT ![n] = g]) /\ Len([fs EXCEPT ![n] = g]) = Len(fs)
    BY <2>1, <2>2, <2>4, FrameUpdate
  <2>7. ExitsFit([fs EXCEPT ![n] = g])
    BY <2>1, <2>5, <2>6, ExitsUpdate
  <2> QED
    BY <2>3, <2>7, Zenon
<1> QED
  BY <1>1, <1>2

LEMMA ExitsPointTo ==
  ASSUME NEW fs, ExitsFit(fs), NEW pointer \in {"null", "live"}
  PROVE  ExitsFit(PointTo(fs, pointer))
<1>1. FramesOK(PointTo(fs, pointer)) /\ Len(PointTo(fs, pointer)) = Len(fs)
  BY PointToType DEF ExitsFit
<1>2. ASSUME NEW f \in 1 .. Len(fs)
      PROVE  ExitFits(PointTo(fs, pointer)[f])
  <2> DEFINE p == IF f = Len(fs) THEN pointer ELSE Outdated(fs[f].skit_thread_ctx)
             g == [fs[f] EXCEPT !.skit_thread_ctx = p]
  <2>1. fs[f] \in Frames /\ f \in DOMAIN fs /\ ExitFits(fs[f])
    BY DEF ExitsFit, FramesOK
  <2>2. PointTo(fs, pointer)[f] = g
    BY <2>1 DEF PointTo, Frames
  <2> HIDE DEF p
  <2>3. g.scope_fn_exit = fs[f].scope_fn_exit /\ g.exit_status = fs[f].exit_status
    BY <2>1 DEF Frames
  <2> HIDE DEF g
  <2> QED
    BY <2>1, <2>2, <2>3 DEF ExitFits
<1> QED
  BY <1>1, <1>2 DEF ExitsFit

LEMMA ExitsEntered ==
  ASSUME ExitsFit(frames)
  PROVE  ExitsFit(EnteredFrames) /\ Len(EnteredFrames) = Fr /\ Len(frames) = Fr
<1>1. Len(EnteredFrames) = Fr
  BY EnteredFramesType DEF ExitsFit
<1> QED
  BY <1>1, ExitsPointTo DEF EnteredFrames, Fr

LEMMA ExitsLeft ==
  ASSUME NEW fs, ExitsFit(fs), NEW c
  PROVE  ExitsFit(LeftFrames(fs, c)) /\ Len(LeftFrames(fs, c)) = Len(fs)
<1>1. Len(LeftFrames(fs, c)) = Len(fs)
  BY LeftFramesType DEF ExitsFit
<1> QED
  BY <1>1, ExitsPointTo DEF LeftFrames

LEMMA ExitsPrefix ==
  ASSUME NEW fs, ExitsFit(fs), NEW n \in 1 .. Len(fs)
  PROVE  ExitsFit(SubSeq(fs, 1, n))
<1>1. FramesOK(SubSeq(fs, 1, n))
  BY FramesPrefix DEF ExitsFit
<1>2. fs \in Seq(Frames) /\ n \in 0 .. Len(fs)
  BY DEF ExitsFit, FramesOK
<1>3. Len(SubSeq(fs, 1, n)) = n /\ \A i \in 1 .. n : SubSeq(fs, 1, n)[i] = fs[i]
  BY <1>2, PrefixType
<1> QED
  BY <1>1, <1>2, <1>3 DEF ExitsFit

LEMMA ExitsCaller ==
  ASSUME NEW fs, ExitsFit(fs), Len(fs) > 1
  PROVE  ExitsFit(Front(fs))
<1>1. Front(fs) = SubSeq(fs, 1, Len(fs) - 1) /\ Len(fs) \in Nat
  BY DEF Front, ExitsFit, FramesOK
<1>2. Len(fs) - 1 \in 1 .. Len(fs)
  BY <1>1
<1> QED
  BY <1>1, <1>2, ExitsPrefix

LEMMA ExitsCall ==
  ASSUME NEW fs, ExitsFit(fs), NEW pointer \in {"null", "live"}
  PROVE  ExitsFit(Append(fs, NewFrame(pointer)))
<1> DEFINE g == NewFrame(pointer)
           gs == Append(fs, g)
<1>1. g \in Frames /\ g.scope_fn_exit = "none"
  BY DEF NewFrame, Frames
<1>2. fs \in Seq(Frames) /\ fs # << >> /\ fs[1].scope_fn_exit # "return" /\ Len(fs) \in Nat /\ Len(fs) > 0
  BY DEF ExitsFit, FramesOK
<1> HIDE DEF g
<1>3. /\ gs \in Seq(Frames) /\ Len(gs) = Len(fs) + 1 /\ gs[Len(fs) + 1] = g
      /\ \A i \in 1 .. Len(fs) : gs[i] = fs[i]
      /\ \A i \in 1 .. Len(fs) + 1 : i \in 1 .. Len(fs) \/ i = Len(fs) + 1
  BY <1>1, <1>2, AppendFacts
<1> HIDE DEF gs
<1>4. FramesOK(gs)
  BY <1>2, <1>3 DEF FramesOK
<1>5. \A i \in 1 .. Len(gs) : ExitFits(gs[i])
  <2>1. ExitFits(g)
    BY <1>1 DEF ExitFits
  <2> QED
    BY <1>3, <2>1 DEF ExitsFit
<1>6. ExitsFit(gs)
  BY <1>4, <1>5 DEF ExitsFit
<1> QED
  BY <1>6 DEF gs, g

LEMMA ExitsRaise ==
  ASSUME ExitsFit(frames), NEW e, Raise(e)
  PROVE  ExitsFit(frames')
<1>1. frames' = Scanning(EnteredFrames, "failure", "throw")
  BY DEF Raise, PropagateFrom
<1> QED
  BY <1>1, ExitsEntered, ExitsScanning

LEMMA ExitsUnhandled ==
  ASSUME ExitsFit(frames), NEW c, Unhandled(c)
  PROVE  ExitsFit(frames')
<1> DEFINE gs == [frames EXCEPT ![Fr].nesting_level = @ - 1]
<1>1. frames' = Scanning(gs, "failure", "throw")
  BY DEF Unhandled, PropagateFrom
<1>2. ExitsFit(gs)
  BY ExitsNests DEF Fr
<1> HIDE DEF gs
<1> QED
  BY <1>1, <1>2, ExitsScanning

LEMMA ExitsVisit ==
  ASSUME ExitsFit(frames), VisitIsDefined
  PROVE  ExitsFit(VisitFrames)
<1>1. Visited.fr \in 1 .. Len(frames)
  BY DEF VisitIsDefined, Reachable, Fr
<1> QED
  BY <1>1, ExitsPrefix DEF VisitFrames

LEMMA ExitsProgram ==
  ASSUME IInv, ExitsFit(frames), Program
  PROVE  ExitsFit(frames')
<1>1. CASE Call
  <2>1. (IF ctx.live THEN "live" ELSE "null") \in {"null", "live"}
    OBVIOUS
  <2> QED
    BY <1>1, <2>1, ExitsCall DEF Call
<1>2. CASE Return
  <2>1. Fr > 1 /\ frames' = IF Scans(frames) THEN Scanning(frames, "success", "return") ELSE Front(frames)
    BY <1>2 DEF Return
  <2>2. ExitsFit(Front(frames))
    BY <2>1, ExitsCaller DEF Fr
  <2>3. ExitsFit(Scanning(frames, "success", "return"))
    BY <2>1, ExitsScanning DEF Fr
  <2> QED
    BY <2>1, <2>2, <2>3
<1>3. CASE sTRACE
  BY <1>3, ExitsEntered DEF sTRACE
<1>4. CASE sTRACE_End
  BY <1>4, ExitsLeft DEF sTRACE_End
<1>5. ASSUME NEW catches \in CatchLists, sTRY(catches)
      PROVE  ExitsFit(frames')
  <2>1. frames' = [EnteredFrames EXCEPT ![Fr].nesting_level = @ + 1]
    BY <1>5 DEF sTRY
  <2> QED
    BY <2>1, ExitsEntered, ExitsNests
<1>6. ASSUME NEW c, LeaveTry(c)
      PROVE  ExitsFit(frames')
  <2>1. frames' = LeftFrames([frames EXCEPT ![Fr].nesting_level = @ - 1], c)
    BY <1>6 DEF LeaveTry
  <2>2. ExitsFit([frames EXCEPT ![Fr].nesting_level = @ - 1])
    BY ExitsNests DEF Fr
  <2> QED
    BY <2>1, <2>2, ExitsLeft
<1>7. CASE EndOfTry \/ EndOfCatch
  BY <1>6, <1>7 DEF EndOfTry, EndOfCatch
<1>8. CASE BreakOut
  BY <1>8, ExitsLeft DEF BreakOut
<1>9. ASSUME NEW code \in ThrowCodes, sTHROW(code)
      PROVE  ExitsFit(frames')
  BY <1>9, ExitsRaise DEF sTHROW
<1>10. CASE SKIT_THROW_EXCEPTION
  BY <1>10, ExitsRaise DEF SKIT_THROW_EXCEPTION
<1>11. ASSUME NEW mask \in Masks, FirstGuard(mask)
       PROVE  ExitsFit(frames')
  <2>1. frames' = [EnteredFrames EXCEPT ![Fr].guards_used = TRUE]
    BY <1>11 DEF FirstGuard
  <2> QED
    BY <2>1, ExitsEntered, ExitsGuardsUsed
<1>12. ASSUME NEW mask \in Masks, NextGuard(mask)
       PROVE  ExitsFit(frames')
  BY <1>12 DEF NextGuard
<1>13. CASE sEND_SCOPE_GUARD
  BY <1>13 DEF sEND_SCOPE_GUARD
<1> QED
  BY <1>1, <1>2, <1>3, <1>4, <1>5, <1>7, <1>8, <1>9, <1>10, <1>11, <1>12, <1>13 DEF Program

LEMMA ExitsMachine ==
  ASSUME IInv, ExitsFit(frames), Machine
  PROVE  ExitsFit(frames')
<1>1. CASE ThrowBreak
  BY <1>1, ExitsRaise DEF ThrowBreak
<1>2. CASE skit_propogate_exceptions
  <2>1. CASE JumpIsDefined
    <3>1. Target.blk.fr \in 1 .. Len(frames)
      BY <2>1 DEF JumpIsDefined, Reachable, Fr
    <3> QED
      BY <1>2, <2>1, <3>1, ExitsPrefix DEF skit_propogate_exceptions
  <2>2. CASE ~ JumpIsDefined
    BY <1>2, <2>2 DEF skit_propogate_exceptions
  <2> QED
    BY <2>1, <2>2
<1>3. CASE LandAtBottom
  BY <1>3, ExitsPointTo DEF LandAtBottom
<1>4. CASE LandInTrace
  BY <1>4, ExitsScanning DEF LandInTrace, PropagateFrom
<1>5. CASE sCATCH
  BY <1>5 DEF sCATCH
<1>6. CASE LandInTryUnhandled \/ LandInCatch
  BY <1>6, ExitsUnhandled DEF LandInTryUnhandled, LandInCatch
<1>7. CASE LandInScope
  BY <1>7, ExitsScanning DEF LandInScope
<1>8. CASE LeaveScope
  BY <1>8, ExitsEntered DEF LeaveScope
<1>9. CASE LandInGuard
  BY <1>9 DEF LandInGuard
<1>10. CASE RunGuard \/ PassGuard \/ EndVisit
  BY <1>10, ExitsVisit DEF RunGuard, PassGuard, EndVisit
<1>11. CASE EndScan
  <2> DEFINE c  == [ctx EXCEPT !.exc_jmp_stack = Front(@)]
             gs == [frames EXCEPT ![Fr].scope_fn_exit = "none"]
             fs == LeftFrames(gs, c)
  <2>1. frames' = IF Me.scope_fn_exit = "return" THEN Front(fs) ELSE fs
    BY <1>11 DEF EndScan
  <2>2. ExitsFit(gs) /\ Len(gs) = Fr
    BY ExitsScanOver, ScanOver DEF Fr, ExitsFit
  <2> HIDE DEF gs, c
  <2>3. ExitsFit(fs) /\ Len(fs) = Fr
    BY <2>2, ExitsLeft
  <2> HIDE DEF fs
  <2>4. Me.scope_fn_exit = "return" => Fr > 1
    <3>1. Fr \in Nat \ {0} /\ frames[1].scope_fn_exit # "return"
      BY DEF IInv, FramesOK, Fr
    <3> QED
      BY <3>1 DEF Me
  <2> QED
    BY <2>1, <2>3, <2>4, ExitsCaller
<1> QED
  BY <1>1, <1>2, <1>3, <1>4, <1>5, <1>6, <1>7, <1>8, <1>9, <1>10, <1>11 DEF Machine

LEMMA ExitsStep == IInv /\ ExitsFit(frames) /\ [Next]_vars => ExitsFit(frames')
  BY ExitsProgram, ExitsMachine DEF Next, vars

-----------------------------------------------------------------------------
(* What a step of the macros may show: the steps of StructuredExceptions   *)

(* What every step of the macros comes down to.                            *)
StepsRight == Structured!Next \/ UNCHANGED <<Calls, Thrown, Doing>>

Stays == Calls' = Calls /\ Thrown' = Thrown /\ Doing' = Doing

(* One lemma for every action of StructuredExceptions, in terms of what is *)
(* shown before and after.                                                 *)
LEMMA IsStutter == Stays => StepsRight
  BY DEF Stays, StepsRight

LEMMA IsCall ==
  ASSUME Doing = "run", Doing' = "run", Thrown' = Thrown, Calls' = Append(Calls, Clean)
  PROVE  StepsRight
<1>1. Structured!Call
  BY DEF Structured!Call, Structured!Running, Structured!NewCall, Clean
<1> QED
  BY <1>1 DEF StepsRight, Structured!Next

LEMMA IsEnterTry ==
  ASSUME Doing = "run", Doing' = "run", Thrown' = Thrown, NEW codes \in SUBSET Codes,
         Calls' = [Calls EXCEPT ![Len(Calls)].blocks =
                     Append(Inner(Calls), [kind |-> "try", codes |-> codes])]
  PROVE  StepsRight
<1>1. Structured!EnterTry
  BY DEF Structured!EnterTry, Structured!Running, Structured!Opened, Structured!Reopened,
         Structured!Try, Structured!Blocks, Structured!Top, Structured!Newest,
         Structured!Codes, Codes, Inner
<1> QED
  BY <1>1 DEF StepsRight, Structured!Next

LEMMA IsEndTry ==
  ASSUME Doing = "run", Doing' = "run", Thrown' = Thrown,
         NEW s, Ends(Calls, Calls', s), s.kind = "try"
  PROVE  StepsRight
<1>1. Structured!EndTry
  BY DEF Structured!EndTry, Structured!Running, Structured!Within, Structured!Reopened,
         Structured!Innermost, Structured!IsOf, Structured!Blocks, Structured!Top,
         Structured!Newest, Structured!Outer, Ends, Inner
<1> QED
  BY <1>1 DEF StepsRight, Structured!Next

LEMMA IsEndCatch ==
  ASSUME Doing = "run", Doing' = "run", Thrown' = Thrown, EndsBoth(Calls, Calls')
  PROVE  StepsRight
<1>1. Structured!EndCatch
  BY DEF Structured!EndCatch, Structured!Running, Structured!Within, Structured!Reopened,
         Structured!Innermost, Structured!IsOf, Structured!Blocks, Structured!Top,
         Structured!Newest, Structured!Outer, EndsBoth, Inner
<1> QED
  BY <1>1 DEF StepsRight, Structured!Next

LEMMA IsAddGuard ==
  ASSUME Doing = "run", Doing' = "run", Thrown' = Thrown, Inner(Calls) = << >>,
         NEW mask \in SUBSET {"success", "failure"},
         Calls' = [Calls EXCEPT ![Len(Calls)].guards = Append(@, mask)]
  PROVE  StepsRight
<1>1. Structured!AddGuard
  BY DEF Structured!AddGuard, Structured!Running, Structured!Blocks, Structured!Top,
         Structured!Newest, Structured!Exits, Inner
<1> QED
  BY <1>1 DEF StepsRight, Structured!Next

LEMMA IsBreak ==
  ASSUME Doing = "run", Doing' = "break", Thrown' = Thrown,
         NEW s, Ends(Calls, Calls', s), s.kind = "try"
  PROVE  StepsRight
<1>1. Structured!Break
  BY DEF Structured!Break, Structured!Running, Structured!Within, Structured!Reopened,
         Structured!Innermost, Structured!IsOf, Structured!Blocks, Structured!Top,
         Structured!Newest, Structured!Outer, Ends, Inner
<1> QED
  BY <1>1 DEF StepsRight, Structured!Next

LEMMA IsThrow ==
  ASSUME Doing \in {"run", "break"}, Doing' = "throw", Calls' = Calls,
         NEW code \in Codes, Thrown' = Append(Thrown, code)
  PROVE  StepsRight
<1>1. Structured!Throw
  BY DEF Structured!Throw, Structured!Codes, Codes
<1> QED
  BY <1>1 DEF StepsRight, Structured!Next

(* The innermost function has no open statement and no guard.              *)
LEMMA IsReturn ==
  ASSUME Doing = "run", Doing' = "run", Thrown' = Thrown, Inner(Calls) = << >>,
         Rest(Calls) = << >>, Calls' = SubSeq(Calls, 1, Len(Calls) - 1)
  PROVE  StepsRight
<1>1. Structured!Return
  BY DEF Structured!Return, Structured!Running, Structured!Leave, Structured!Outer,
         Structured!Blocks, Structured!Top, Structured!Newest, Inner, Rest
<1> QED
  BY <1>1 DEF StepsRight, Structured!Next

LEMMA IsReturnWithGuards ==
  ASSUME Doing = "run", Doing' = "return", Thrown' = Thrown, Inner(Calls) = << >>,
         Rest(Calls) # << >>, Calls' = Calls
  PROVE  StepsRight
<1>1. Structured!Return
  BY DEF Structured!Return, Structured!Running, Structured!Blocks, Structured!Top,
         Structured!Newest, Inner, Rest
<1> QED
  BY <1>1 DEF StepsRight, Structured!Next

LEMMA IsReturned ==
  ASSUME Doing = "return", Doing' = "run", Thrown' = Thrown, Inner(Calls) = << >>,
         Rest(Calls) = << >>, Calls' = SubSeq(Calls, 1, Len(Calls) - 1)
  PROVE  StepsRight
<1>1. Structured!Returned
  BY DEF Structured!Returned, Structured!Leave, Structured!Outer, Structured!Blocks,
         Structured!Top, Structured!Newest, Inner, Rest
<1> QED
  BY <1>1 DEF StepsRight, Structured!Next

(* The exit on which a function is left while doing that.                  *)
ExitOf(d) == IF d = "return" THEN "success" ELSE "failure"

Without(s) == SubSeq(s, 1, Len(s) - 1)

LEMMA IsRunGuard ==
  ASSUME Doing \in {"throw", "return"}, Doing' = "run", Thrown' = Thrown,
         Inner(Calls) = << >>, Rest(Calls) # << >>,
         NEW mask, Rest(Calls)[Len(Rest(Calls))] = mask, ExitOf(Doing) \in mask,
         Calls' = [Calls EXCEPT ![Len(Calls)] =
                     [blocks |-> << [kind |-> "guard", resumes |-> Doing] >>,
                      guards |-> Without(Rest(Calls))]]
  PROVE  StepsRight
<1>1. Structured!VisitGuard
  BY DEF Structured!VisitGuard, Structured!Blocks, Structured!Top, Structured!Newest,
         Structured!Outer, Structured!Guard, Inner, Rest, ExitOf, Without
<1> QED
  BY <1>1 DEF StepsRight, Structured!Next

LEMMA IsPassGuard ==
  ASSUME Doing \in {"throw", "return"}, Doing' = Doing, Thrown' = Thrown,
         Inner(Calls) = << >>, Rest(Calls) # << >>,
         NEW mask, Rest(Calls)[Len(Rest(Calls))] = mask, ExitOf(Doing) \notin mask,
         Calls' = [Calls EXCEPT ![Len(Calls)] =
                     [blocks |-> << >>, guards |-> Without(Rest(Calls))]]
  PROVE  StepsRight
<1>1. Structured!VisitGuard
  BY DEF Structured!VisitGuard, Structured!Blocks, Structured!Top, Structured!Newest,
         Structured!Outer, Structured!Guard, Inner, Rest, ExitOf, Without
<1> QED
  BY <1>1 DEF StepsRight, Structured!Next

LEMMA IsEndGuard ==
  ASSUME Doing = "run", Thrown' = Thrown, NEW s, Ends(Calls, Calls', s),
         s = [kind |-> "guard", resumes |-> Doing']
  PROVE  StepsRight
<1>1. s.kind = "guard" /\ s.resumes = Doing'
  OBVIOUS
<1>2. Structured!EndGuard
  BY <1>1 DEF Structured!EndGuard, Structured!Running, Structured!Within,
              Structured!Reopened, Structured!Innermost, Structured!IsOf,
              Structured!Blocks, Structured!Top, Structured!Newest, Structured!Outer, Ends,
              Inner
<1> QED
  BY <1>2 DEF StepsRight, Structured!Next

LEMMA IsUnwind ==
  ASSUME Doing = "throw", Doing' = "throw", Thrown' = Thrown, NEW n \in 1 .. Len(Calls) - 1,
         \A i \in n + 1 .. Len(Calls) : Calls[i] = Clean, Calls' = SubSeq(Calls, 1, n)
  PROVE  StepsRight
<1>1. Structured!Unwind
  BY DEF Structured!Unwind, Structured!NewCall, Clean
<1> QED
  BY <1>1 DEF StepsRight, Structured!Next

(* The instance's operators are the module's own.                          *)
LEMMA SameIsA ==
  ASSUME NEW t, NEW a, NEW b
  PROVE  Structured!skit_is_a(t, a, b) = skit_is_a(t, a, b)
<1>1. Structured!Cardinality(DOMAIN t) = Cardinality(DOMAIN t)
  BY Zenon DEF Structured!Cardinality, Cardinality, Structured!IsFiniteSet, IsFiniteSet
<1>4. Structured!Climb(t, a) = Climb(t, a)
  BY <1>1, Zenon DEF Structured!Climb, Climb
<1>2. \A up, m : Structured!LastParent(up, m) = LastParent(up, m)
  BY Zenon DEF Structured!LastParent, LastParent
<1> QED
  BY <1>4, <1>2, Zenon DEF Structured!skit_is_a, skit_is_a

LEMMA IsCatches ==
  ASSUME Doing = "throw", Doing' = "run", Thrown' = Without(Thrown),
         Inner(Calls) # << >>, NEW s, Inner(Calls)[Len(Inner(Calls))] = s, s.kind = "try",
         Matches(Thrown[Len(Thrown)], s.codes),
         Calls' = [Calls EXCEPT ![Len(Calls)].blocks = Append(Inner(Calls), [kind |-> "catch"])]
  PROVE  StepsRight
<1>2. Structured!Handles(s.codes)
  BY SameIsA, Zenon DEF Structured!Handles, Structured!Newest, Matches
<1>3. Structured!Catches
  BY <1>2 DEF Structured!Catches, Structured!Within, Structured!Reopened,
              Structured!Innermost, Structured!IsOf, Structured!Catch, Structured!Blocks,
              Structured!Top, Structured!Newest, Structured!Outer, Inner, Without
<1> QED
  BY <1>3 DEF StepsRight, Structured!Next

LEMMA IsPassesTry ==
  ASSUME Doing = "throw", Doing' = "throw", Thrown' = Thrown,
         NEW s, Ends(Calls, Calls', s), s.kind = "try", ~ Matches(Thrown[Len(Thrown)], s.codes)
  PROVE  StepsRight
<1>2. ~ Structured!Handles(s.codes)
  BY SameIsA, Zenon DEF Structured!Handles, Structured!Newest, Matches
<1>3. Structured!Passes
  BY <1>2 DEF Structured!Passes, Structured!Within, Structured!Reopened,
              Structured!Innermost, Structured!IsOf, Structured!Blocks, Structured!Top,
              Structured!Newest, Structured!Outer, Ends, Inner
<1> QED
  BY <1>3 DEF StepsRight, Structured!Next

LEMMA IsPassesCatch ==
  ASSUME Doing = "throw", Doing' = "throw", Thrown' = Thrown, EndsBoth(Calls, Calls')
  PROVE  StepsRight
<1>1. Structured!Passes
  BY DEF Structured!Passes, Structured!Within, Structured!Reopened, Structured!Innermost,
         Structured!IsOf, Structured!Blocks, Structured!Top, Structured!Newest,
         Structured!Outer, EndsBoth, Inner
<1> QED
  BY <1>1 DEF StepsRight, Structured!Next

LEMMA IsDie ==
  ASSUME Doing = "throw", Doing' = "dead", Thrown' = << >>, Calls' = << >>,
         \/ Inner(Calls) # << >> /\ Inner(Calls)[Len(Inner(Calls))].kind = "guard"
         \/ \A i \in DOMAIN Calls : Calls[i] = Clean
  PROVE  StepsRight
<1>1. Structured!Die
  BY DEF Structured!Die, Structured!NewCall, Structured!Innermost, Structured!IsOf,
         Structured!Blocks, Structured!Top, Structured!Newest, Inner, Clean
<1> QED
  BY <1>1 DEF StepsRight, Structured!Next

-----------------------------------------------------------------------------
(* Scopes, guards and scans                                                *)

(* A function that may still return or throw has a guard to run.           *)
HasGuard(gs, f) == \E k \in 1 .. Len(gs) : Waits(gs[k], f)

(* In an open scope that is not being scanned a guard waits: sSCOPE opens  *)
(* the scope to register one, and guards are taken only by the scan.       *)
GuardsWait(fs, n, bs, gs) ==
  \A f \in 1 .. n : ScopeOpen(bs, f) /\ fs[f].scope_fn_exit = "none" => HasGuard(gs, f)

LEMMA KeptSome ==
  ASSUME NEW s, NEW P, NEW n \in Nat, NEW k \in 1 .. n, k \in P
  PROVE  Kept(s, P, n) # << >>
<1> DEFINE S == {s[i] : i \in 1 .. n}
           T == {j \in Nat : k <= j /\ j <= n => Kept(s, P, j) # << >>}
<1>0. \A i \in 1 .. n : s[i] \in S
  OBVIOUS
<1> HIDE DEF S
<1>1. 0 \in T
  OBVIOUS
<1>2. ASSUME NEW j \in Nat, j \in T
      PROVE  j + 1 \in T
  <2> SUFFICES ASSUME k <= j + 1, j + 1 <= n
               PROVE  Kept(s, P, j + 1) # << >>
    OBVIOUS
  <2>1. Kept(s, P, j + 1) = IF j + 1 \in P THEN Append(Kept(s, P, j), s[j + 1]) ELSE Kept(s, P, j)
    BY KeptNext
  <2>2. Kept(s, P, j) \in Seq(S)
    <3>1. \A i \in 1 .. j : i \in P => s[i] \in S
      BY <1>0
    <3> QED
      BY <3>1, KeptType
  <2>3. CASE j + 1 \in P
    <3>1. s[j + 1] \in S
      BY <1>0
    <3>2. \A q \in Seq(S) : Append(q, s[j + 1]) # << >>
      BY <3>1
    <3> QED
      BY <2>1, <2>2, <2>3, <3>2
  <2>4. CASE j + 1 \notin P
    <3>1. k <= j /\ j <= n
      BY <2>4
    <3> QED
      BY <1>2, <2>1, <2>4, <3>1
  <2> QED
    BY <2>3, <2>4
<1> HIDE DEF T
<1>3. n \in T
  BY <1>1, <1>2, Induction
<1> QED
  BY <1>3 DEF T

(* A guard that waits is shown.                                            *)
LEMMA GuardsOfSome ==
  ASSUME NEW gs, Len(gs) \in Nat, NEW f, HasGuard(gs, f)
  PROVE  GuardsOf(gs, f) # << >>
<1>1. PICK k \in 1 .. Len(gs) : Waits(gs[k], f)
  BY DEF HasGuard
<1>2. k \in Waiting(gs, f)
  BY <1>1 DEF Waiting
<1>3. Kept(MasksOf(gs), Waiting(gs, f), Len(gs)) # << >>
  BY <1>2, KeptSome
<1> QED
  BY <1>3, GuardsKept

LEMMA HasGuardPush ==
  ASSUME NEW gs \in Seq(ScopeJmps), NEW g \in ScopeJmps, NEW f, HasGuard(gs, f) \/ Waits(g, f)
  PROVE  HasGuard(Append(gs, g), f)
<1> DEFINE hs == Append(gs, g)
<1>1. /\ Len(hs) = Len(gs) + 1 /\ hs[Len(gs) + 1] = g /\ Len(gs) \in Nat
      /\ \A i \in 1 .. Len(gs) : hs[i] = gs[i]
  BY AppendFacts
<1> HIDE DEF hs
<1>2. HasGuard(hs, f)
  <2>1. CASE HasGuard(gs, f)
    <3>1. PICK k \in 1 .. Len(gs) : Waits(gs[k], f)
      BY <2>1 DEF HasGuard
    <3>2. k \in 1 .. Len(hs) /\ Waits(hs[k], f)
      BY <1>1, <3>1
    <3> QED
      BY <3>2 DEF HasGuard
  <2>2. CASE Waits(g, f)
    <3>1. Len(gs) + 1 \in 1 .. Len(hs) /\ Waits(hs[Len(gs) + 1], f)
      BY <1>1, <2>2
    <3> QED
      BY <3>1 DEF HasGuard
  <2> QED
    BY <2>1, <2>2
<1> QED
  BY <1>2 DEF hs

LEMMA HasGuardPop ==
  ASSUME NEW gs \in Seq(ScopeJmps), NEW g \in ScopeJmps, NEW f, HasGuard(Append(gs, g), f),
         ~ Waits(g, f)
  PROVE  HasGuard(gs, f)
<1> DEFINE hs == Append(gs, g)
<1>1. /\ Len(hs) = Len(gs) + 1 /\ hs[Len(gs) + 1] = g /\ Len(gs) \in Nat
      /\ \A i \in 1 .. Len(gs) : hs[i] = gs[i]
      /\ \A i \in 1 .. Len(gs) + 1 : i \in 1 .. Len(gs) \/ i = Len(gs) + 1
  BY AppendFacts
<1> HIDE DEF hs
<1>2. PICK k \in 1 .. Len(hs) : Waits(hs[k], f)
  BY DEF HasGuard, hs
<1>3. k \in 1 .. Len(gs) /\ Waits(gs[k], f)
  <2>1. k # Len(gs) + 1
    BY <1>1, <1>2
  <2> QED
    BY <1>1, <1>2, <2>1
<1> QED
  BY <1>3 DEF HasGuard

(* The steps' hypotheses and conclusions.                                  *)
Waited == GuardsWait(frames, Fr, blocks, ctx.scope_jmp_stack)

(* What holds before a step,                                               *)
Good == IInv /\ Control /\ ExitsFit(frames) /\ Waited

(* and what is to be shown of it.                                          *)
Well == StepsRight /\ Waited'

(* No scan begins or ends.                                                 *)
KeepsScans ==
  Fr' = Fr /\ \A f \in 1 .. Fr : frames'[f].scope_fn_exit = frames[f].scope_fn_exit

(* The codes of the exceptions in flight.                                  *)
CodesOf(c) == [n \in 1 .. c.exc_used |-> c.exc_nodes[n].code]

(* Two contexts that the mapping does not tell apart.                      *)
Alike(c, d) == d.scope_jmp_stack = c.scope_jmp_stack /\ CodesOf(d) = CodesOf(c)

(* No scope opens, and none that stays open is no longer scanned.          *)
NoScopeOpens ==
  \A f \in 1 .. Fr' : ScopeOpen(blocks', f) /\ frames'[f].scope_fn_exit = "none" =>
    f \in 1 .. Fr /\ ScopeOpen(blocks, f) /\ frames[f].scope_fn_exit = "none"

LEMMA WaitsOn ==
  ASSUME Waited, NoScopeOpens, ctx'.scope_jmp_stack = ctx.scope_jmp_stack
  PROVE  Waited'
  BY DEF Waited, GuardsWait, NoScopeOpens

LEMMA NoScopeOpened ==
  ASSUME KeepsScans, \A f : ScopeOpen(blocks', f) => ScopeOpen(blocks, f)
  PROVE  NoScopeOpens
  BY DEF KeepsScans, NoScopeOpens

LEMMA CodesStay ==
  ASSUME NEW c, NEW d, d.exc_used = c.exc_used, d.exc_nodes = c.exc_nodes
  PROVE  CodesOf(d) = CodesOf(c)
  BY DEF CodesOf

LEMMA ThrownIs ==
  /\ pc # "dead" => Thrown = CodesOf(ctx)
  /\ pc' # "dead" => Thrown' = CodesOf(ctx')
  BY Zenon DEF Thrown, CodesOf

LEMMA ThrownStays ==
  ASSUME pc # "dead", pc' # "dead", Alike(ctx, ctx')
  PROVE  Thrown' = Thrown
  BY ThrownIs DEF Alike

(* Constructs belong to functions that are active.                         *)
LEMMA BlocksOwned ==
  ASSUME IInv, Control
  PROVE  /\ Nested(blocks, Fr) /\ Fr \in Nat \ {0} /\ Len(blocks) \in Nat
         /\ \A i \in 1 .. Len(blocks) : blocks[i].fr \in 1 .. Fr
<1>1. Nested(blocks, Fr)
  BY DEF Control, Consistent, Core
<1> QED
  BY <1>1, FrType, Types DEF IInv, Nested

LEMMA ScansResume ==
  ASSUME KeepsScans, NEW bs, \A i \in 1 .. Len(bs) : bs[i].fr \in 1 .. Fr
  PROVE  Resume(frames, frames', bs) /\ Resume(frames', frames, bs)
  BY DEF KeepsScans, Resume

(* A prefix of constructs that belong to active functions.                 *)
LEMMA OwnedBelow ==
  ASSUME NEW bs, NEW b, NEW cs, Grows(bs, b, cs), NEW n,
         \A i \in 1 .. Len(cs) : cs[i].fr \in 1 .. n
  PROVE  \A i \in 1 .. Len(bs) : bs[i].fr \in 1 .. n
<1>1. \A i \in 1 .. Len(bs) : i \in 1 .. Len(cs) /\ cs[i] = bs[i]
  BY DEF Grows
<1> QED
  BY <1>1

(* Entering and leaving the library.                                       *)
LEMMA EnteredAlso ==
  ASSUME IInv, Control, NEW p \in {"run", "break", "leaving"}, pc = p
  PROVE  /\ Alike(ctx, Entered) /\ Entered \in Contexts /\ Entered.exc_used = ctx.exc_used
         /\ Repointed(frames, EnteredFrames, Fr)
<1>1. /\ EnteredAlike /\ Core(frames, Fr, blocks, ctx, p, 0) /\ Fr \in Nat \ {0}
  BY EnteredFrom
<1>2. PointersFit(frames, Fr, blocks, ctx.live, Root(ctx)) /\ StacksFit(blocks, ctx, p)
  BY <1>1 DEF Core
<1>3. ctx.live \in BOOLEAN /\ ctx \in Contexts
  BY DEF IInv, Contexts
<1>4. Fr \in 1 .. Fr
  BY <1>1
<1>5. PointerFits(Fr, Me, ctx.live, Root(ctx))
  BY <1>2, <1>4 DEF PointersFit, Me
<1>6. CASE ctx.live
  <2>1. Root(ctx) \in 1 .. Fr
    BY <1>2, <1>6 DEF PointersFit, RootFits
  <2>2. Me.skit_thread_ctx = "live"
    BY <1>1, <1>5, <1>6, <2>1 DEF PointerFits
  <2>3. Entered = [ctx EXCEPT !.entry_check_count = ctx.entry_check_count + 1]
    BY <2>2 DEF Entered
  <2>4. ctx.entry_check_count + 1 \in Int
    BY <1>3, ContextTypes
  <2>5. SameBut(ctx, Entered)
    BY <1>3, <2>3, <2>4, CountIs
  <2>6. /\ Entered.scope_jmp_stack = ctx.scope_jmp_stack
        /\ Entered.exc_nodes = ctx.exc_nodes /\ Entered.exc_used = ctx.exc_used
    BY <2>5 DEF SameBut, SameStacks
  <2> QED
    BY <1>1, <2>6, CodesStay DEF Alike, EnteredAlike
<1>7. CASE ~ ctx.live
  <2>1. Me.skit_thread_ctx = "null"
    BY <1>5, <1>7 DEF PointerFits
  <2>2. Entered = [NewContext EXCEPT !.entry_check_count = @ + 1]
    BY <2>1 DEF Entered
  <2>3. Entered.scope_jmp_stack = << >> /\ Entered.exc_used = 0
    BY <2>2, NewContextFacts
  <2>4. ctx.scope_jmp_stack = << >>
    BY <1>2, <1>7 DEF StacksFit, Empty
  <2>5. CodesOf(Entered) = << >> /\ CodesOf(ctx) = << >>
    <3>1. Entered.exc_used = 0 /\ ctx.exc_used = 0
      BY <1>1, <2>3 DEF EnteredAlike
    <3> QED
      BY <3>1 DEF CodesOf
  <2> QED
    BY <1>1, <2>3, <2>4, <2>5 DEF Alike, EnteredAlike
<1> QED
  BY <1>3, <1>6, <1>7

LEMMA LeftScans ==
  ASSUME NEW fs, FramesOK(fs), NEW c
  PROVE  /\ Len(LeftFrames(fs, c)) = Len(fs)
         /\ \A f \in 1 .. Len(fs) : LeftFrames(fs, c)[f].scope_fn_exit = fs[f].scope_fn_exit
<1>1. fs \in Seq(Frames) /\ Len(fs) \in Nat \ {0}
  BY DEF FramesOK
<1>2. Repointed(fs, PointTo(fs, "null"), Len(fs))
  BY <1>1, PointToFacts
<1> QED
  BY <1>2, LeftFramesType DEF LeftFrames, Repointed

(* Leaving frees the context when nothing in it matters any more.          *)
LEMMA LeftAlso ==
  ASSUME IInv, Control, Control', pc \in {"run", "break"}, pc' \in {"run", "break"},
         KeepsScans, NEW c \in Contexts, c.exc_used = ctx.exc_used, Alike(ctx, c),
         ctx' = Left(c), ctx.live,
         \A i \in 1 .. Len(blocks) : blocks[i].kind = "scope" => i \in 1 .. Len(blocks')
  PROVE  Alike(ctx, ctx')
<1>1. CASE c.entry_check_count # 1
  <2>1. ctx' = [c EXCEPT !.entry_check_count = c.entry_check_count - 1]
    BY <1>1 DEF Left
  <2>2. c.entry_check_count - 1 \in Int
    BY ContextTypes
  <2>3. SameBut(c, ctx')
    BY <2>1, <2>2, CountIs
  <2>4. ctx'.scope_jmp_stack = c.scope_jmp_stack /\ CodesOf(ctx') = CodesOf(c)
    BY <2>3, CodesStay DEF SameBut, SameStacks
  <2> QED
    BY <2>4 DEF Alike
<1>2. CASE c.entry_check_count = 1
  <2>1. ctx' = NoContext
    BY <1>2 DEF Left
  <2>2. ~ ctx'.live /\ ctx'.scope_jmp_stack = << >> /\ ctx'.exc_used = 0
    BY <2>1 DEF NoContext, NewContext
  <2>3. Core(frames, Fr, blocks, ctx, pc, 0) /\ Core(frames', Fr', blocks', ctx', pc', 0)
    BY DEF Control, Consistent
  <2>4. blocks' = << >>
    BY <2>2, <2>3 DEF Core, StacksFit, Empty
  <2>5. \A i \in 1 .. Len(blocks) : blocks[i].kind # "scope"
    BY <2>4
  <2>6. ctx.scope_jmp_stack = << >>
    <3>1. \A k \in 1 .. Len(ctx.scope_jmp_stack) : InScope(blocks, ctx.scope_jmp_stack[k])
      BY <2>3 DEF Core, StacksFit, Stacks, GuardsListed
    <3>2. \A k \in 1 .. Len(ctx.scope_jmp_stack) : FALSE
      BY <2>5, <3>1 DEF InScope
    <3>3. ctx.scope_jmp_stack \in Seq(ScopeJmps)
      BY ContextTypes DEF IInv
    <3> QED
      BY <3>2, <3>3
  <2>7. ctx.exc_used = 0
    <3>1. /\ ctx.exc_used = Rank(frames, Targets, Fr) + Unwinds(pc)
          /\ ctx'.exc_used = Rank(frames', Targets, Fr') + Unwinds(pc')
      BY <2>3 DEF Core, Counted, UsedFits
    <3>2. Unwinds(pc) = 0 /\ Unwinds(pc') = 0
      BY DEF Unwinds, Unwound
    <3>3. Fr \in Nat /\ Fr' = Fr
      BY FrType DEF IInv, KeepsScans
    <3>4. Rank(frames', Targets, Fr) = Rank(frames, Targets, Fr)
      BY <3>3, RankAgrees DEF KeepsScans
    <3>5. Rank(frames, Targets, Fr) \in Nat
      BY <3>3, RankType
    <3> QED
      BY <2>2, <3>1, <3>2, <3>3, <3>4, <3>5
  <2>8. CodesOf(ctx') = << >> /\ CodesOf(ctx) = << >>
    BY <2>2, <2>7 DEF CodesOf
  <2> QED
    BY <2>2, <2>6, <2>8 DEF Alike
<1> QED
  BY <1>1, <1>2

-----------------------------------------------------------------------------
(* Calls and returns                                                       *)

(* BlocksOwned after the step.                                             *)
LEMMA OwnedNext ==
  ASSUME IInv', Control'
  PROVE  /\ Nested(blocks', Fr') /\ Fr' \in Nat \ {0} /\ Len(blocks') \in Nat
         /\ blocks' \in Seq(Blocks)
         /\ \A i \in 1 .. Len(blocks') : blocks'[i].fr \in 1 .. Fr'
<1>1. Nested(blocks', Fr') /\ blocks' \in Seq(Blocks)
  BY DEF Control, Consistent, Core, IInv
<1>2. Fr' \in Nat \ {0}
  BY DEF IInv, FramesOK, Fr
<1> QED
  BY <1>1, <1>2 DEF Nested

(* The innermost function's call.                                          *)
LEMMA TopCall ==
  ASSUME NEW cs, NEW fs, NEW bs, NEW gs, Seen(cs, fs, bs, gs)
  PROVE  /\ cs # << >> /\ Len(cs) = Len(fs) /\ Inner(cs) = StatementsOf(fs, bs, Len(fs))
         /\ Rest(cs) = GuardsOf(gs, Len(fs))
<1>1. /\ cs \in Seq(CallRecords) /\ Len(cs) = Len(fs) /\ Len(fs) \in Nat \ {0}
      /\ \A f \in 1 .. Len(fs) :
           cs[f].blocks = StatementsOf(fs, bs, f) /\ cs[f].guards = GuardsOf(gs, f)
  BY DEF Seen
<1>2. Len(fs) \in 1 .. Len(fs) /\ cs # << >>
  BY <1>1
<1> QED
  BY <1>1, <1>2 DEF Inner, Rest

(* A function about to scan its guards is at its scope's level.            *)
LEMMA NoStatementAtScope ==
  ASSUME NEW fs, NEW bs, Len(bs) \in Nat, NEW n \in Nat, ScopeTop(bs, n)
  PROVE  StatementsOf(fs, bs, n) = << >>
<1>1. \A i \in 1 .. Len(bs) : ~ IsStatement(bs[i], n)
  BY DEF ScopeTop, IsStatement
<1> QED
  BY <1>1, StatementsNone

(* A guard's body is never open above the scope whose guards are scanned.  *)
LEMMA ScopeResume ==
  ASSUME NEW fs, NEW hs, NEW bs, Len(bs) \in Nat, NEW n \in Nat, ScopeTop(bs, n),
         \A f \in 1 .. n - 1 : hs[f].scope_fn_exit = fs[f].scope_fn_exit
  PROVE  Resume(fs, hs, bs)
  BY DEF Resume, ScopeTop

LEMMA ResumeFlips ==
  ASSUME NEW fs, NEW hs, NEW bs, Resume(fs, hs, bs)
  PROVE  Resume(hs, fs, bs)
  BY DEF Resume

(* While guards are visited, their scope is the last construct.            *)
LEMMA VisitTop ==
  ASSUME IInv', Control', pc' \in Visits
  PROVE  ScopeTop(blocks', Fr') /\ frames'[Fr'].scope_fn_exit # "none"
<1>1. VisitFits(frames', Fr', blocks')
  BY DEF Control, Consistent, Core, ScopesFit
<1>2. Nested(blocks', Fr') /\ blocks' \in Seq(Blocks) /\ Fr' \in Nat
  BY OwnedNext
<1> QED
  BY <1>1, <1>2, OnlyScope DEF VisitFits

(* What a scan that begins, or may begin, leaves as it was.                *)
ScanStarted(target) ==
  /\ Fr' = Fr /\ Resume(frames, frames', blocks')
  /\ \A f \in 1 .. Fr : frames'[f].scope_fn_exit = "none" => frames[f].scope_fn_exit = "none"
  /\ pc' \in Visits => Me'.scope_fn_exit = target

LEMMA ScanStarts ==
  ASSUME IInv', Control', Fr \in Nat \ {0}, NEW fs, FramesOK(fs), Len(fs) = Fr,
         \A f \in 1 .. Fr : fs[f].scope_fn_exit = frames[f].scope_fn_exit,
         NEW status, NEW target \in {"return", "throw", "scope"},
         frames' = Scanning(fs, status, target), pc' \in Visits <=> Scans(fs)
  PROVE  ScanStarted(target)
<1>1. fs \in Seq(Frames)
  BY DEF FramesOK
<1>2. Len(frames') = Fr
  BY ScanningLength
<1>3. Fr' = Fr
  BY <1>2 DEF Fr
<1>4. /\ Scans(fs) => Scanned(fs, Scanning(fs, status, target), Fr, target)
      /\ ~ Scans(fs) => Scanning(fs, status, target) = fs
  BY <1>1, ScanningFacts
<1>5. CASE Scans(fs)
  <2>1. /\ \A f \in 1 .. Fr - 1 : frames'[f].scope_fn_exit = fs[f].scope_fn_exit
        /\ frames'[Fr].scope_fn_exit = target
    BY <1>4, <1>5 DEF Scanned
  <2>2. \A f \in 1 .. Fr - 1 : frames'[f].scope_fn_exit = frames[f].scope_fn_exit
    BY <2>1
  <2>3. ScopeTop(blocks', Fr) /\ Len(blocks') \in Nat
    BY <1>3, <1>5, VisitTop, OwnedNext
  <2>4. Resume(frames, frames', blocks')
    BY <2>2, <2>3, ScopeResume
  <2>5. target # "none"
    OBVIOUS
  <2> QED
    BY <1>3, <2>1, <2>2, <2>4, <2>5 DEF ScanStarted, Me
<1>6. CASE ~ Scans(fs)
  <2>1. \A f \in 1 .. Fr : frames'[f].scope_fn_exit = frames[f].scope_fn_exit
    BY <1>4, <1>6
  <2>2. \A i \in 1 .. Len(blocks') : blocks'[i].fr \in 1 .. Fr
    BY <1>3, OwnedNext
  <2>3. Resume(frames, frames', blocks')
    BY <2>1, <2>2 DEF Resume
  <2> QED
    BY <1>3, <1>6, <2>1, <2>3 DEF ScanStarted
<1> QED
  BY <1>5, <1>6

LEMMA ScanWaits ==
  ASSUME Waited, NEW target, ScanStarted(target), ctx'.scope_jmp_stack = ctx.scope_jmp_stack,
         \A f : ScopeOpen(blocks', f) => ScopeOpen(blocks, f)
  PROVE  Waited'
<1>1. NoScopeOpens
  BY DEF ScanStarted, NoScopeOpens
<1> QED
  BY <1>1, WaitsOn

LEMMA CallRefines == ASSUME Good, IInv', Call PROVE Well
<1> DEFINE g == NewFrame(IF ctx.live THEN "live" ELSE "null")
<1>1. /\ pc = "run" /\ pc' = "run" /\ frames' = Append(frames, g) /\ blocks' = blocks /\ ctx' = ctx
  BY DEF Call
<1>2. /\ Nested(blocks, Fr) /\ Fr \in Nat \ {0} /\ Len(blocks) \in Nat
      /\ \A i \in 1 .. Len(blocks) : blocks[i].fr \in 1 .. Fr
  BY BlocksOwned DEF Good
<1>3. frames \in Seq(Frames) /\ g \in Frames
  BY DEF Good, IInv, FramesOK, NewFrame, Frames
<1> HIDE DEF g
<1>4. Len(frames') = Len(frames) + 1 /\ \A f \in 1 .. Len(frames) : frames'[f] = frames[f]
  BY <1>1, <1>3, AppendFacts
<1>5. Seen(Calls, frames, blocks, ctx.scope_jmp_stack)
      /\ Seen(Calls', frames', blocks, ctx.scope_jmp_stack)
  BY <1>1, CallsSeen DEF Good
<1>6. Within(blocks, ctx.scope_jmp_stack, Len(frames)) /\ ctx.scope_jmp_stack \in Seq(ScopeJmps)
  <2>1. AtRest
    BY ControlRests DEF Good
  <2>2. ctx.scope_jmp_stack \in Seq(ScopeJmps)
    BY ContextTypes DEF Good, IInv
  <2>3. Fr = Len(frames)
    BY DEF Fr
  <2>4. \A i \in 1 .. Len(blocks) : blocks[i].fr <= Len(frames)
    BY <1>2, <2>3
  <2>5. \A k \in 1 .. Len(ctx.scope_jmp_stack) : ctx.scope_jmp_stack[k].fr <= Len(frames)
    BY <1>2, <2>1, <2>3 DEF AtRest, InScope
  <2> QED
    BY <2>2, <2>4, <2>5 DEF Within
<1>7. Resume(frames, frames', blocks)
  BY <1>2, <1>4 DEF Resume, Fr
<1>8. Calls' = Append(Calls, Clean)
  BY <1>4, <1>5, <1>6, <1>7, Calling
<1>9. Thrown' = Thrown
  <2>1. Alike(ctx, ctx')
    BY <1>1 DEF Alike
  <2> QED
    BY <1>1, <2>1, ThrownStays
<1>10. Doing = "run" /\ Doing' = "run"
  BY <1>1 DEF Doing
<1>11. StepsRight
  BY <1>8, <1>9, <1>10, IsCall
<1>12. NoScopeOpens
  <2>1. \A f : ScopeOpen(blocks', f) => f \in 1 .. Fr
    BY <1>1, <1>2 DEF ScopeOpen
  <2> QED
    BY <1>1, <1>4, <2>1 DEF NoScopeOpens, Fr
<1> QED
  BY <1>1, <1>11, <1>12, WaitsOn DEF Well, Good

(* No guard can be left of a function without constructs.                  *)
LEMMA GuardsBelowCall ==
  ASSUME IInv, Control, ~ Owns(blocks, Fr)
  PROVE  Within(blocks, ctx.scope_jmp_stack, Fr - 1)
<1>1. /\ Nested(blocks, Fr) /\ Fr \in Nat \ {0}
      /\ \A i \in 1 .. Len(blocks) : blocks[i].fr \in 1 .. Fr
  BY BlocksOwned
<1>2. \A i \in 1 .. Len(blocks) : blocks[i].fr <= Fr - 1
  <2>1. \A i \in 1 .. Len(blocks) : blocks[i].fr # Fr
    BY DEF Owns
  <2> QED
    BY <1>1, <2>1
<1>3. AtRest
  BY ControlRests
<1>4. \A k \in 1 .. Len(ctx.scope_jmp_stack) : ctx.scope_jmp_stack[k].fr <= Fr - 1
  BY <1>2, <1>3 DEF AtRest, InScope
<1> QED
  BY <1>2, <1>4 DEF Within

(* A function with a scope scans its guards before it returns: Return, then *)
(* the visits and Returned; one without returns at once.                   *)
LEMMA ReturnRefines == ASSUME Good, IInv', Control', Return PROVE Well
<1>1. /\ pc = "run" /\ Fr > 1 /\ (Own => Inside("scope")) /\ blocks' = blocks /\ ctx' = ctx
  BY DEF Return, AtStatement
<1>2. /\ IInv /\ Control /\ Waited /\ FramesOK(frames) /\ frames \in Seq(Frames)
      /\ Nested(blocks, Fr) /\ Fr \in Nat \ {0} /\ Fr = Len(frames) /\ Len(blocks) \in Nat
      /\ blocks \in Seq(Blocks)
      /\ ScopesFit(frames, Fr, blocks, "run") /\ ctx.scope_jmp_stack \in Seq(ScopeJmps)
  BY <1>1, BlocksOwned, ContextTypes DEF Good, IInv, FramesOK, Fr, Control, Consistent, Core
<1>3. Doing = "run"
  BY <1>1 DEF Doing
<1>4. CASE Scans(frames)
  <2> DEFINE target == "return"
  <2>1. frames' = Scanning(frames, "success", target) /\ pc' = "visit"
    BY <1>4 DEF Return
  <2>2. ScanStarted("return")
    <3>1. target \in {"return", "throw", "scope"} /\ pc' \in Visits
      BY <2>1 DEF Visits
    <3> HIDE DEF target
    <3>2. ScanStarted(target)
      BY <1>2, <1>4, <2>1, <3>1, ScanStarts
    <3> QED
      BY <3>2 DEF target
  <2>3. Fr' = Fr /\ Resume(frames, frames', blocks) /\ Me'.scope_fn_exit = "return"
    BY <1>1, <2>1, <2>2 DEF ScanStarted, Visits
  <2>4. Seen(Calls, frames, blocks, ctx.scope_jmp_stack)
        /\ Seen(Calls', frames', blocks, ctx.scope_jmp_stack)
    BY <1>1, <1>2, <2>1, CallsSeen
  <2>5. Calls' = Calls
    <3>1. Len(frames') = Len(frames)
      BY <2>3 DEF Fr
    <3> QED
      BY <2>3, <2>4, <3>1, SameCallsStay
  <2>6. Thrown' = Thrown
    <3>1. Alike(ctx, ctx')
      BY <1>1 DEF Alike
    <3> QED
      BY <1>1, <2>1, <3>1, ThrownStays
  <2>7. Doing' = "return"
    BY <2>1, <2>3 DEF Doing
  <2>8. ScopeTop(blocks, Fr)
    BY <1>1, <2>1, <2>3, VisitTop DEF Visits
  <2>9. Inner(Calls) = << >>
    BY <1>2, <2>4, <2>8, TopCall, NoStatementAtScope
  <2>10. Rest(Calls) # << >>
    <3>1. ScopeOpen(blocks, Fr)
      BY <1>2, <2>8 DEF ScopeTop, ScopeOpen
    <3>2. frames[Fr].scope_fn_exit = "none"
      <4> DEFINE p == "run"
      <4>1. Plain(p) /\ ScopesFit(frames, Fr, blocks, p)
        BY <1>2 DEF Plain
      <4> HIDE DEF p
      <4> QED
        BY <1>2, <2>8, <4>1, NotScanning
    <3>3. HasGuard(ctx.scope_jmp_stack, Fr)
      <4>1. Fr \in 1 .. Fr
        BY <1>2
      <4> QED
        BY <1>2, <3>1, <3>2, <4>1 DEF Waited, GuardsWait
    <3>4. Len(ctx.scope_jmp_stack) \in Nat
      BY <1>2
    <3> QED
      BY <1>2, <2>4, <3>3, <3>4, TopCall, GuardsOfSome
  <2>11. StepsRight
    BY <1>3, <2>5, <2>6, <2>7, <2>9, <2>10, IsReturnWithGuards
  <2> QED
    BY <1>1, <1>2, <2>2, <2>11, ScanWaits DEF Well
<1>5. CASE ~ Scans(frames)
  <2>1. frames' = Front(frames) /\ pc' = "run"
    BY <1>5 DEF Return
  <2>2. ~ Owns(blocks, Fr)
    <3>1. ASSUME Inside("scope")
          PROVE  FALSE
      <4>1. Len(blocks) > 0 /\ blocks[Len(blocks)].kind = "scope" /\ blocks[Len(blocks)].fr = Fr
        BY <1>2, <3>1, TopOf
      <4> QED
        BY <1>2, <1>5, <4>1, ScopeIsScanned
    <3>2. ~ Own
      BY <1>1, <3>1
    <3> QED
      BY <1>2, <3>2, NotOwning
  <2>3. Len(frames') = Fr - 1 /\ \A f \in 1 .. Fr - 1 : frames'[f] = frames[f]
    <3>1. Fr - 1 \in 0 .. Len(frames)
      BY <1>1, <1>2
    <3>2. frames' = SubSeq(frames, 1, Fr - 1)
      BY <1>2, <2>1 DEF Front
    <3> QED
      BY <1>2, <3>1, <3>2, PrefixType
  <2>4. Fr' = Fr - 1
    BY <2>3 DEF Fr
  <2>5. Seen(Calls, frames, blocks, ctx.scope_jmp_stack)
        /\ Seen(Calls', frames', blocks, ctx.scope_jmp_stack)
    BY <1>1, <1>2, <2>1, CallsSeen
  <2>6. Within(blocks, ctx.scope_jmp_stack, Len(frames'))
    BY <1>2, <2>2, <2>3, GuardsBelowCall
  <2>7. Resume(frames, frames', blocks)
    <3>1. \A i \in 1 .. Len(blocks) : blocks[i].fr \in 1 .. Fr - 1
      BY <1>1, <2>4, OwnedNext
    <3> QED
      BY <2>3, <3>1 DEF Resume
  <2>8. /\ Calls' = SubSeq(Calls, 1, Len(frames'))
        /\ \A f \in Len(frames') + 1 .. Len(Calls) : Calls[f] = Clean
    BY <1>2, <2>3, <2>5, <2>6, <2>7, Cutting
  <2>9. Calls' = SubSeq(Calls, 1, Len(Calls) - 1) /\ Calls[Len(Calls)] = Clean
    <3>1. Len(Calls) = Fr
      BY <1>2, <2>5, TopCall
    <3>2. Len(Calls) \in Len(frames') + 1 .. Len(Calls)
      BY <1>2, <2>3, <3>1
    <3> QED
      BY <2>3, <2>8, <3>1, <3>2
  <2>10. Inner(Calls) = << >> /\ Rest(Calls) = << >>
    BY <2>9 DEF Inner, Rest, Clean
  <2>11. Thrown' = Thrown
    <3>1. Alike(ctx, ctx')
      BY <1>1 DEF Alike
    <3> QED
      BY <1>1, <2>1, <3>1, ThrownStays
  <2>12. Doing' = "run"
    BY <2>1 DEF Doing
  <2>13. StepsRight
    BY <1>3, <2>9, <2>10, <2>11, <2>12, IsReturn
  <2>14. NoScopeOpens
    BY <1>1, <1>2, <2>3, <2>4 DEF NoScopeOpens
  <2> QED
    BY <1>1, <1>2, <2>13, <2>14, WaitsOn DEF Well
<1> QED
  BY <1>4, <1>5

-----------------------------------------------------------------------------
(* sTRACE and sTRY                                                         *)

(* A step within a function, in which no guard is registered or visited.   *)
Alive ==
  /\ Good /\ IInv' /\ pc # "dead" /\ pc' # "dead" /\ Fr' = Fr
  /\ ctx'.scope_jmp_stack = ctx.scope_jmp_stack

(* How such a step changes the calls.                                      *)
LEMMA AliveCalls ==
  ASSUME Alive
  PROVE  /\ Seen(Calls, frames, blocks, ctx.scope_jmp_stack)
         /\ Seen(Calls', frames', blocks', ctx.scope_jmp_stack)
         /\ Len(frames') = Len(frames) /\ Len(frames) = Fr
<1>1. ctx'.scope_jmp_stack = ctx.scope_jmp_stack /\ Fr' = Fr
  BY DEF Alive
<1>2. /\ Seen(Calls, frames, blocks, ctx.scope_jmp_stack)
      /\ Seen(Calls', frames', blocks', ctx'.scope_jmp_stack)
  BY CallsSeen DEF Alive, Good
<1> QED
  BY <1>1, <1>2 DEF Fr

LEMMA Opens ==
  ASSUME Alive, NEW b, Grows(blocks, b, blocks'), IsStatement(b, Fr),
         Resume(frames', frames, blocks)
  PROVE  Calls' = [Calls EXCEPT ![Len(Calls)].blocks =
                     Append(Inner(Calls), StatementOf(frames', b))]
  BY AliveCalls, Begins

LEMMA OpensSilently ==
  ASSUME Alive, NEW b, Grows(blocks, b, blocks'), b.kind \notin {"try", "catch", "guard"},
         Resume(frames', frames, blocks)
  PROVE  Calls' = Calls
  BY AliveCalls, SameCallsGrow

LEMMA Closes ==
  ASSUME Alive, NEW b \in Blocks, Grows(blocks', b, blocks), IsStatement(b, Fr),
         Resume(frames, frames', blocks')
  PROVE  Ends(Calls, Calls', StatementOf(frames, b))
  BY AliveCalls, Finishes

LEMMA ClosesSilently ==
  ASSUME Alive, NEW b, Grows(blocks', b, blocks), b.kind \notin {"try", "catch", "guard"},
         Resume(frames, frames', blocks')
  PROVE  Calls' = Calls
  BY AliveCalls, SameCallsShrink

LEMMA ClosesBoth ==
  ASSUME Alive, NEW t \in Blocks, NEW b \in Blocks, NEW ks, Grows(blocks', t, ks),
         t.kind = "try", t.fr = Fr, Grows(ks, b, blocks), b.kind = "catch", b.fr = Fr,
         Resume(frames, frames', blocks')
  PROVE  EndsBoth(Calls, Calls')
  BY AliveCalls, FinishesBoth

LEMMA KeepsCalls ==
  ASSUME Alive, blocks' = blocks, Resume(frames, frames', blocks)
  PROVE  Calls' = Calls
<1>1. Seen(Calls', frames', blocks, ctx.scope_jmp_stack)
  BY AliveCalls
<1> QED
  BY <1>1, AliveCalls, SameCallsStay

(* Constructs opened and closed, other than scopes.                        *)
LEMMA OpensNoScope ==
  ASSUME NEW b, Grows(blocks, b, blocks'), b.kind # "scope"
  PROVE  \A f : ScopeOpen(blocks', f) => ScopeOpen(blocks, f)
  BY OwnsGrows

LEMMA ClosesNoScope ==
  ASSUME NEW b, Grows(blocks', b, blocks)
  PROVE  \A f : ScopeOpen(blocks', f) => ScopeOpen(blocks, f)
  BY OwnsGrows

(* Such a step keeps GuardsWait if no scan begins or ends.                 *)
LEMMA WaitsWell ==
  ASSUME Alive, StepsRight, KeepsScans, \A f : ScopeOpen(blocks', f) => ScopeOpen(blocks, f)
  PROVE  Well
  BY NoScopeOpened, WaitsOn DEF Alive, Good, Well

(* SKIT_THREAD_CHECK_ENTRY.                                                *)
LEMMA EntersScans ==
  ASSUME NEW fs, Repointed(frames, EnteredFrames, Fr), Len(fs) = Fr,
         \A f \in 1 .. Fr : fs[f].scope_fn_exit = EnteredFrames[f].scope_fn_exit, frames' = fs
  PROVE  KeepsScans
  BY DEF KeepsScans, Repointed, Fr

(* sTRACE and its end are not shown.                                       *)
LEMMA TraceRefines == ASSUME Good, IInv', sTRACE PROVE Well
<1> DEFINE b == [Block("trace") EXCEPT !.pos = Position(Entered)]
           c == Entered
           d == [Guarded(c, b) EXCEPT !.debug_depth = @ + 1]
<1>1. /\ pc = "run" /\ ctx' = d /\ blocks' = Append(blocks, b)
      /\ frames' = EnteredFrames /\ pc' = "run"
  BY DEF sTRACE, AtStatement
<1>2. IInv /\ Control /\ blocks \in Seq(Blocks)
  BY DEF Good, IInv
<1>3. Alike(ctx, c) /\ c \in Contexts /\ Repointed(frames, EnteredFrames, Fr)
  BY <1>1, <1>2, EnteredAlso
<1>4. Len(EnteredFrames) = Fr /\ Fr \in Nat \ {0}
  BY <1>1, <1>2, EnteredFrom
<1>5. b \in Blocks /\ b.kind = "trace"
  <2>1. Block("trace") \in Blocks /\ Position(c) \in Positions
    BY <1>2, <1>3, BlockType, PositionType DEF IInv, FramesOK, Kinds
  <2> QED
    BY <2>1 DEF Blocks, Block
<1> HIDE DEF b, c
<1>6. Alike(ctx, d)
  <2>1. d.scope_jmp_stack = c.scope_jmp_stack /\ d.exc_nodes = c.exc_nodes /\ d.exc_used = c.exc_used
    BY <1>3 DEF Guarded, Contexts
  <2> HIDE DEF d
  <2> QED
    BY <1>3, <2>1, CodesStay DEF Alike
<1> HIDE DEF d
<1>7. KeepsScans
  BY <1>1, <1>3, <1>4, EntersScans
<1>8. Alive
  BY <1>1, <1>6, <1>7 DEF Alive, Alike, KeepsScans
<1>9. Grows(blocks, b, blocks')
  BY <1>1, <1>2, <1>5, AppendGrows
<1>10. Resume(frames', frames, blocks)
  BY <1>2, <1>7, BlocksOwned, ScansResume
<1>11. Stays
  <2>1. Calls' = Calls
    BY <1>5, <1>8, <1>9, <1>10, OpensSilently
  <2>2. Thrown' = Thrown
    BY <1>1, <1>6, ThrownStays
  <2> QED
    BY <1>1, <2>1, <2>2 DEF Stays, Doing
<1> QED
  BY <1>5, <1>7, <1>8, <1>9, <1>11, IsStutter, OpensNoScope, WaitsWell

LEMMA TryRefines ==
  ASSUME Good, IInv', NEW catches \in CatchLists, sTRY(catches)
  PROVE  Well
<1> DEFINE b == [Block("try") EXCEPT !.catches = catches]
           c == Entered
           d == [Guarded(c, b) EXCEPT !.try_jmp_stack = Append(@, Len(blocks) + 1)]
           gs == [EnteredFrames EXCEPT ![Fr].nesting_level = @ + 1]
<1>1. /\ pc = "run" /\ ctx' = d /\ blocks' = Append(blocks, b) /\ frames' = gs /\ pc' = "run"
  BY DEF sTRY, AtStatement
<1>2. IInv /\ Control /\ blocks \in Seq(Blocks)
  BY DEF Good, IInv
<1>3. Alike(ctx, c) /\ c \in Contexts /\ Repointed(frames, EnteredFrames, Fr)
  BY <1>1, <1>2, EnteredAlso
<1>4. Len(EnteredFrames) = Fr /\ Fr \in Nat \ {0} /\ EnteredFrames \in Seq(Frames)
  BY <1>1, <1>2, EnteredFrom
<1>5. /\ b \in Blocks /\ b.kind = "try" /\ b.fr = Fr /\ b.catches = catches
      /\ catches \in SUBSET Codes
  <2>1. Block("try") \in Blocks /\ catches \in SUBSET Codes
    BY <1>2, BlockType, CodesAssumption DEF IInv, FramesOK, Kinds
  <2> QED
    BY <2>1 DEF Blocks, Block
<1> HIDE DEF b, c
<1>6. Alike(ctx, d)
  <2>1. d.scope_jmp_stack = c.scope_jmp_stack /\ d.exc_nodes = c.exc_nodes /\ d.exc_used = c.exc_used
    BY <1>3 DEF Guarded, Contexts
  <2> HIDE DEF d
  <2> QED
    BY <1>3, <2>1, CodesStay DEF Alike
<1> HIDE DEF d
<1>7. KeepsScans
  <2>1. Nests(EnteredFrames, gs, Fr, 1) /\ Len(gs) = Fr
    <3>1. Nests(EnteredFrames, gs, Fr, 1)
      BY <1>4, NestsUp
    <3>2. Len(gs) = Fr
      BY <1>4
    <3> QED
      BY <3>1, <3>2
  <2> HIDE DEF gs
  <2>2. \A f \in 1 .. Fr : gs[f].scope_fn_exit = EnteredFrames[f].scope_fn_exit
    BY <2>1 DEF Nests
  <2> QED
    BY <1>1, <1>3, <2>1, <2>2, EntersScans
<1> HIDE DEF gs
<1>8. Alive
  BY <1>1, <1>6, <1>7 DEF Alive, Alike, KeepsScans
<1>9. Grows(blocks, b, blocks')
  BY <1>1, <1>2, <1>5, AppendGrows
<1>10. Resume(frames', frames, blocks)
  BY <1>2, <1>7, BlocksOwned, ScansResume
<1>11. StepsRight
  <2>1. IsStatement(b, Fr) /\ StatementOf(frames', b) = [kind |-> "try", codes |-> catches]
    BY <1>5 DEF IsStatement, StatementOf
  <2>2. Calls' = [Calls EXCEPT ![Len(Calls)].blocks =
                    Append(Inner(Calls), [kind |-> "try", codes |-> catches])]
    BY <1>8, <1>9, <1>10, <2>1, Opens
  <2>3. Thrown' = Thrown
    BY <1>1, <1>6, ThrownStays
  <2>4. Doing = "run" /\ Doing' = "run"
    BY <1>1 DEF Doing
  <2> QED
    BY <1>5, <2>2, <2>3, <2>4, IsEnterTry
<1> QED
  BY <1>5, <1>7, <1>8, <1>9, <1>11, OpensNoScope, WaitsWell

(* The ways out of sTRACE and sTRY without a throw.                        *)
LEMMA LeavesScans ==
  ASSUME NEW fs, FramesOK(fs), Len(fs) = Fr, NEW c, frames' = LeftFrames(fs, c),
         \A f \in 1 .. Fr : fs[f].scope_fn_exit = frames[f].scope_fn_exit
  PROVE  KeepsScans
<1>1. /\ Len(LeftFrames(fs, c)) = Len(fs)
      /\ \A f \in 1 .. Len(fs) : LeftFrames(fs, c)[f].scope_fn_exit = fs[f].scope_fn_exit
  BY LeftScans
<1> QED
  BY <1>1 DEF KeepsScans, Fr

(* A construct other than a scope is closed and its entry check undone.    *)
LEMMA LeftWell ==
  ASSUME Good, IInv', Control', pc \in {"run", "break"}, pc' \in {"run", "break"}, ctx.live,
         KeepsScans, NEW c \in Contexts, c.exc_used = ctx.exc_used, Alike(ctx, c), ctx' = Left(c),
         NEW b, Grows(blocks', b, blocks), b.kind # "scope"
  PROVE  Alive /\ Alike(ctx, ctx') /\ Thrown' = Thrown /\ Resume(frames, frames', blocks')
<1>1. /\ IInv /\ Control /\ pc # "dead" /\ pc' # "dead"
      /\ Len(blocks') \in Nat /\ Len(blocks) = Len(blocks') + 1 /\ blocks[Len(blocks)] = b
  BY DEF Good, Grows
<1>2. \A i \in 1 .. Len(blocks) : blocks[i].kind = "scope" => i \in 1 .. Len(blocks')
  BY <1>1
<1>3. Alike(ctx, ctx')
  BY <1>1, <1>2, LeftAlso
<1>4. Alive
  BY <1>1, <1>3 DEF Alive, Alike, KeepsScans
<1>5. Thrown' = Thrown
  BY <1>1, <1>3, ThrownStays
<1>6. Resume(frames, frames', blocks')
  BY <1>1, BlocksOwned, OwnedBelow, ScansResume
<1> QED
  BY <1>3, <1>4, <1>5, <1>6

LEMMA TraceEndRefines == ASSUME Good, IInv', Control', sTRACE_End PROVE Well
<1> DEFINE bs == Front(blocks)
           b == Last(blocks)
           c == Reconciled(Untraced, b.pos)
<1>1. /\ pc = "run" /\ Inside("trace") /\ ctx' = Left(c) /\ frames' = LeftFrames(frames, c)
      /\ blocks' = bs /\ pc' = IF PoppedTooFar(Untraced, b.pos) THEN "dead" ELSE "run"
  BY DEF sTRACE_End
<1>2. IInv /\ Control /\ FramesOK(frames) /\ Len(frames) = Fr
  BY DEF Good, IInv, Fr
<1>3. /\ bs \in Seq(Blocks) /\ b \in Blocks /\ b.kind = "trace" /\ b.fr = Fr
      /\ blocks = Append(bs, b)
  BY <1>1, <1>2, TopOf
<1>4. /\ Core(frames, Fr, Append(bs, b), ctx, "run", 0) /\ ctx.live /\ Fr \in Nat \ {0}
      /\ frames \in Seq(Frames) /\ ctx \in Contexts /\ Plain("run")
  BY <1>1, <1>2, InsideFacts
<1> HIDE DEF bs, b
<1>5. PopTraceResult(frames, Fr, bs, b, ctx, Untraced, "run")
  <2> DEFINE p == "run"
  <2>1. Plain(p) /\ Core(frames, Fr, Append(bs, b), ctx, p, 0)
    BY <1>4
  <2> HIDE DEF p
  <2>2. PopTraceResult(frames, Fr, bs, b, ctx,
           [ctx EXCEPT !.debug_depth = @ - 1, !.exc_jmp_stack = Front(@)], p)
    BY <1>2, <1>3, <1>4, <2>1, PopTrace
  <2> QED
    BY <2>2 DEF p, Untraced
<1>6. /\ c = Untraced /\ c \in Contexts /\ c.exc_nodes = ctx.exc_nodes /\ c.exc_used = ctx.exc_used
      /\ ~ PoppedTooFar(Untraced, b.pos)
  BY <1>5 DEF PopTraceResult, Popped, SameExceptions
<1>7. Alike(ctx, c)
  <2>1. Untraced.scope_jmp_stack = ctx.scope_jmp_stack
    BY <1>4 DEF Untraced, Contexts
  <2> HIDE DEF c
  <2> QED
    BY <1>6, <2>1, CodesStay DEF Alike
<1>8. pc' = "run"
  BY <1>1, <1>6
<1> HIDE DEF c
<1>9. KeepsScans
  BY <1>1, <1>2, LeavesScans
<1>10. Grows(blocks', b, blocks)
  BY <1>1, <1>3, AppendGrows
<1>11. Alive /\ Thrown' = Thrown /\ Resume(frames, frames', blocks')
  <2>1. pc \in {"run", "break"} /\ pc' \in {"run", "break"} /\ b.kind # "scope"
    BY <1>1, <1>3, <1>8
  <2> QED
    BY <1>1, <1>4, <1>6, <1>7, <1>9, <1>10, <2>1, LeftWell
<1>12. Stays
  <2>1. Calls' = Calls
    BY <1>3, <1>10, <1>11, ClosesSilently
  <2> QED
    BY <1>1, <1>8, <1>11, <2>1 DEF Stays, Doing
<1> QED
  BY <1>9, <1>10, <1>11, <1>12, IsStutter, ClosesNoScope, WaitsWell

(* A function is one sTRY less deep.                                       *)
Unnested == [frames EXCEPT ![Fr].nesting_level = @ - 1]

LEMMA UnnestedFacts ==
  ASSUME IInv
  PROVE  /\ FramesOK(Unnested) /\ Len(Unnested) = Fr
         /\ \A f \in 1 .. Fr : Unnested[f].scope_fn_exit = frames[f].scope_fn_exit
<1> DEFINE x == 0 - 1
<1>1. FramesOK(frames) /\ frames \in Seq(Frames) /\ Fr \in Nat \ {0} /\ Fr = Len(frames)
  BY FrType DEF IInv
<1>2. FramesOK(Unnested)
  BY <1>1, NestingDown DEF Unnested
<1>3. Nests(frames, Unnested, Fr, x)
  BY <1>1, NestsDown DEF Unnested
<1>4. Len(Unnested) = Fr
  BY <1>1 DEF Unnested
<1> QED
  BY <1>2, <1>3, <1>4 DEF Nests

LEMMA CleanUpAlike ==
  ASSUME NEW c \in Contexts
  PROVE  /\ CleanUp(c) \in Contexts /\ CleanUp(c).exc_used = c.exc_used
         /\ Alike(c, CleanUp(c)) /\ CleanUp(c).live = c.live
<1>1. LET d == CleanUp(c)
      IN  d \in Contexts /\ d.live = c.live /\ SameExceptions(c, d)
          /\ d.scope_jmp_stack = c.scope_jmp_stack
  BY CleanUpFacts
<1> QED
  BY <1>1, CodesStay DEF Alike, SameExceptions

(* The sTRY ends.                                                          *)
LEMMA EndOfTryRefines == ASSUME Good, IInv', Control', EndOfTry PROVE Well
<1> DEFINE bs == Front(blocks)
           b == Last(blocks)
           c == CleanUp(ctx)
<1>1. /\ pc = "run" /\ Inside("try") /\ ctx' = Left(c) /\ frames' = LeftFrames(Unnested, c)
      /\ blocks' = bs /\ pc' = "run"
  BY DEF EndOfTry, LeaveTry, Unnested
<1>2. IInv /\ Control
  BY DEF Good
<1>3. /\ bs \in Seq(Blocks) /\ b \in Blocks /\ b.kind = "try" /\ b.fr = Fr
      /\ blocks = Append(bs, b)
  BY <1>1, <1>2, TopOf
<1>4. ctx.live /\ ctx \in Contexts
  BY <1>1, <1>2, InsideFacts
<1>5. c \in Contexts /\ c.exc_used = ctx.exc_used /\ Alike(ctx, c)
  BY <1>4, CleanUpAlike
<1> HIDE DEF bs, b, c
<1>6. KeepsScans
  BY <1>1, <1>2, UnnestedFacts, LeavesScans
<1>7. Grows(blocks', b, blocks)
  BY <1>1, <1>3, AppendGrows
<1>8. Alive /\ Thrown' = Thrown /\ Resume(frames, frames', blocks')
  <2>1. pc \in {"run", "break"} /\ pc' \in {"run", "break"} /\ b.kind # "scope"
    BY <1>1, <1>3
  <2> QED
    BY <1>1, <1>4, <1>5, <1>6, <1>7, <2>1, LeftWell
<1>9. StepsRight
  <2>1. IsStatement(b, Fr) /\ StatementOf(frames, b).kind = "try"
    BY <1>3 DEF IsStatement, StatementOf
  <2>2. Ends(Calls, Calls', StatementOf(frames, b))
    BY <1>3, <1>7, <1>8, <2>1, Closes
  <2>3. Doing = "run" /\ Doing' = "run"
    BY <1>1 DEF Doing
  <2> QED
    BY <1>8, <2>1, <2>2, <2>3, IsEndTry
<1> QED
  BY <1>6, <1>7, <1>8, <1>9, ClosesNoScope, WaitsWell

-----------------------------------------------------------------------------
(* sCATCH, breaks and throws                                               *)

(* The end of an sCATCH block clears the caught exception's node, which is *)
(* none of those in flight.                                                *)
LEMMA CatchNode ==
  ASSUME IInv, Control, pc = "run", Inside("catch")
  PROVE  LET b == Last(blocks)
             c == [ctx EXCEPT !.exc_jmp_stack = Front(@), !.exc_nodes[b.node] = NoException]
         IN  c \in Contexts /\ c.live = ctx.live /\ c.exc_used = ctx.exc_used /\ Alike(ctx, c)
<1> DEFINE cs == Front(blocks)
           b == Last(blocks)
           c == [ctx EXCEPT !.exc_jmp_stack = Front(@), !.exc_nodes[b.node] = NoException]
           p == "run"
<1>1. cs \in Seq(Blocks) /\ b \in Blocks /\ b.kind = "catch" /\ b.fr = Fr
  BY TopOf
<1>2. /\ Core(frames, Fr, Append(cs, b), ctx, p, 0) /\ Fr \in Nat \ {0} /\ ctx \in Contexts
  BY InsideFacts
<1>3. Unwinds(p) = 0
  BY DEF Unwinds, Unwound
<1> HIDE DEF cs, b, p
<1>4. b.node \in 1 .. MaxExceptions /\ b.node > Rank(frames, Targets, Fr)
  <2>1. b.node \in 1 .. MaxExceptions
    BY <1>1, BoundsAssumption DEF Blocks
  <2>2. ThrowsFit(frames, Append(cs, b), ctx.exc_nodes) /\ Grows(cs, b, Append(cs, b))
    BY <1>1, <1>2, AppendGrows DEF Core
  <2>3. CatchFits(frames, b)
    BY <2>2, ThrowsPop
  <2> QED
    BY <1>1, <2>1, <2>3 DEF CatchFits
<1>5. /\ c \in Contexts /\ c.scope_jmp_stack = ctx.scope_jmp_stack /\ c.live = ctx.live
      /\ c.exc_used = ctx.exc_used /\ \A j \in 1 .. b.node - 1 : c.exc_nodes[j] = ctx.exc_nodes[j]
  BY <1>2, <1>4, PoppedNode
<1> HIDE DEF c
<1>6. ctx.exc_used = Rank(frames, Targets, Fr)
  <2>1. UsedFits(frames, Fr, ctx, p)
    BY <1>2 DEF Core, Counted
  <2>2. Rank(frames, Targets, Fr) \in Nat
    BY <1>2, RankType
  <2> QED
    BY <1>3, <2>1, <2>2 DEF UsedFits
<1>7. CodesOf(c) = CodesOf(ctx)
  <2>1. ctx.exc_used \in Nat
    BY <1>2, ContextTypes, BoundsAssumption
  <2>2. \A j \in 1 .. ctx.exc_used : c.exc_nodes[j] = ctx.exc_nodes[j]
    BY <1>4, <1>5, <1>6, <2>1, BoundsAssumption
  <2> QED
    BY <1>5, <2>2 DEF CodesOf
<1> QED
  BY <1>5, <1>7 DEF Alike, c, b

LEMMA AlikeBoth ==
  ASSUME NEW c, NEW d, NEW e, Alike(c, d), Alike(d, e)
  PROVE  Alike(c, e)
  BY DEF Alike

(* LeftWell where an sTRY ends with its sCATCH.                            *)
LEMMA LeftBothWell ==
  ASSUME Good, IInv', Control', pc \in {"run", "break"}, pc' \in {"run", "break"}, ctx.live,
         KeepsScans, NEW c \in Contexts, c.exc_used = ctx.exc_used, Alike(ctx, c), ctx' = Left(c),
         NEW t, NEW ks, Grows(blocks', t, ks), t.kind # "scope",
         NEW b, Grows(ks, b, blocks), b.kind # "scope"
  PROVE  /\ Alive /\ Alike(ctx, ctx') /\ Thrown' = Thrown /\ Resume(frames, frames', blocks')
         /\ \A f : ScopeOpen(blocks', f) => ScopeOpen(blocks, f)
<1>1. /\ IInv /\ Control /\ pc # "dead" /\ pc' # "dead"
      /\ Len(blocks') \in Nat /\ Len(ks) = Len(blocks') + 1 /\ ks[Len(ks)] = t
      /\ Len(blocks) = Len(ks) + 1 /\ blocks[Len(blocks)] = b
      /\ \A i \in 1 .. Len(ks) : blocks[i] = ks[i]
  BY DEF Good, Grows
<1>2. blocks[Len(blocks) - 1] = t /\ Len(blocks) = Len(blocks') + 2
  BY <1>1
<1>3. \A i \in 1 .. Len(blocks) : blocks[i].kind = "scope" => i \in 1 .. Len(blocks')
  BY <1>1, <1>2
<1>4. Alike(ctx, ctx')
  BY <1>1, <1>3, LeftAlso
<1>5. Alive
  BY <1>1, <1>4 DEF Alive, Alike, KeepsScans
<1>6. Thrown' = Thrown
  BY <1>1, <1>4, ThrownStays
<1>7. Resume(frames, frames', blocks')
  <2>1. \A i \in 1 .. Len(ks) : ks[i].fr \in 1 .. Fr
    BY <1>1, BlocksOwned, OwnedBelow
  <2> QED
    BY <2>1, OwnedBelow, ScansResume
<1>8. \A f : ScopeOpen(blocks', f) => ScopeOpen(blocks, f)
  <2>1. \A f : ScopeOpen(blocks', f) => ScopeOpen(ks, f)
    BY OwnsGrows
  <2>2. \A f : ScopeOpen(ks, f) => ScopeOpen(blocks, f)
    BY OwnsGrows
  <2> QED
    BY <2>1, <2>2
<1> QED
  BY <1>4, <1>5, <1>6, <1>7, <1>8

(* The sCATCH block ends, and its sTRY.                                    *)
LEMMA EndOfCatchRefines == ASSUME Good, IInv', Control', EndOfCatch PROVE Well
<1> DEFINE cs == Front(blocks)
           b == Last(blocks)
           bs == Front(cs)
           t == Last(cs)
           c == [ctx EXCEPT !.exc_jmp_stack = Front(@), !.exc_nodes[b.node] = NoException]
           d == CleanUp(c)
<1>1. /\ pc = "run" /\ Inside("catch") /\ ctx' = Left(d)
      /\ frames' = LeftFrames(Unnested, d) /\ blocks' = bs /\ pc' = "run"
  BY DEF EndOfCatch, LeaveTry, Unnested
<1>2. IInv /\ Control
  BY DEF Good
<1>3. cs \in Seq(Blocks) /\ b \in Blocks /\ b.kind = "catch" /\ b.fr = Fr /\ blocks = Append(cs, b)
  BY <1>1, <1>2, TopOf
<1>4. /\ Core(frames, Fr, Append(cs, b), ctx, "run", 0) /\ ctx.live /\ Fr \in Nat \ {0}
  BY <1>1, <1>2, InsideFacts
<1>5. c \in Contexts /\ c.live = ctx.live /\ c.exc_used = ctx.exc_used /\ Alike(ctx, c)
  BY <1>1, <1>2, CatchNode
<1>6. /\ cs = Append(bs, t) /\ bs \in Seq(Blocks)
      /\ t \in Blocks /\ t.kind = "try" /\ t.fr = Fr
  <2> HIDE DEF cs, b
  <2>1. Nested(Append(cs, b), Fr)
    BY <1>4 DEF Core
  <2> QED
    BY <1>3, <1>4, <2>1, CatchOnTry
<1> HIDE DEF cs, b, bs, t, c
<1>7. d \in Contexts /\ d.exc_used = ctx.exc_used /\ Alike(ctx, d)
  BY <1>5, CleanUpAlike, AlikeBoth
<1> HIDE DEF d
<1>8. KeepsScans
  BY <1>1, <1>2, UnnestedFacts, LeavesScans
<1>9. Grows(blocks', t, cs) /\ Grows(cs, b, blocks)
  BY <1>1, <1>3, <1>6, AppendGrows
<1>10. /\ Alive /\ Thrown' = Thrown /\ Resume(frames, frames', blocks')
       /\ \A f : ScopeOpen(blocks', f) => ScopeOpen(blocks, f)
  <2>1. /\ pc \in {"run", "break"} /\ pc' \in {"run", "break"}
        /\ b.kind # "scope" /\ t.kind # "scope"
    BY <1>1, <1>3, <1>6
  <2> QED
    BY <1>1, <1>4, <1>7, <1>8, <1>9, <2>1, LeftBothWell
<1>11. StepsRight
  <2>1. EndsBoth(Calls, Calls')
    BY <1>3, <1>6, <1>9, <1>10, ClosesBoth
  <2>2. Doing = "run" /\ Doing' = "run"
    BY <1>1 DEF Doing
  <2> QED
    BY <1>10, <2>1, <2>2, IsEndCatch
<1> QED
  BY <1>8, <1>10, <1>11, WaitsWell

(* Breaks and throws.                                                      *)
LEMMA BreakOutRefines == ASSUME PlainUses, Good, IInv', Control', BreakOut PROVE Well
<1> DEFINE bs == Front(blocks)
           b == Last(blocks)
           c == CleanUp(ctx)
<1>1. /\ pc = "run" /\ Inside("try") /\ ctx' = Left(c) /\ frames' = LeftFrames(frames, c)
      /\ blocks' = bs /\ pc' = "break"
  BY DEF BreakOut, PlainUses
<1>2. IInv /\ Control /\ FramesOK(frames) /\ Len(frames) = Fr
  BY DEF Good, IInv, Fr
<1>3. /\ bs \in Seq(Blocks) /\ b \in Blocks /\ b.kind = "try" /\ b.fr = Fr
      /\ blocks = Append(bs, b)
  BY <1>1, <1>2, TopOf
<1>4. ctx.live /\ ctx \in Contexts
  BY <1>1, <1>2, InsideFacts
<1>5. c \in Contexts /\ c.exc_used = ctx.exc_used /\ Alike(ctx, c)
  BY <1>4, CleanUpAlike
<1> HIDE DEF bs, b, c
<1>6. KeepsScans
  BY <1>1, <1>2, LeavesScans
<1>7. Grows(blocks', b, blocks)
  BY <1>1, <1>3, AppendGrows
<1>8. Alive /\ Thrown' = Thrown /\ Resume(frames, frames', blocks')
  <2>1. pc \in {"run", "break"} /\ pc' \in {"run", "break"} /\ b.kind # "scope"
    BY <1>1, <1>3
  <2> QED
    BY <1>1, <1>4, <1>5, <1>6, <1>7, <2>1, LeftWell
<1>9. StepsRight
  <2>1. IsStatement(b, Fr) /\ StatementOf(frames, b).kind = "try"
    BY <1>3 DEF IsStatement, StatementOf
  <2>2. Ends(Calls, Calls', StatementOf(frames, b))
    BY <1>3, <1>7, <1>8, <2>1, Closes
  <2>3. Doing = "run" /\ Doing' = "break"
    BY <1>1 DEF Doing
  <2> QED
    BY <1>8, <2>1, <2>2, <2>3, IsBreak
<1> QED
  BY <1>6, <1>7, <1>8, <1>9, ClosesNoScope, WaitsWell

(* A throw goes on from fs, with the innermost function's guards or not.   *)
LEMMA GoesOnThrowing ==
  ASSUME IInv', Control', Fr \in Nat \ {0}, NEW fs, FramesOK(fs), Len(fs) = Fr,
         \A f \in 1 .. Fr : fs[f].scope_fn_exit = frames[f].scope_fn_exit, PropagateFrom(fs)
  PROVE  ScanStarted("throw") /\ pc' # "dead" /\ Doing' = "throw" /\ Fr' = Fr
<1> DEFINE target == "throw"
<1>1. /\ frames' = Scanning(fs, "failure", target)
      /\ pc' = IF Scans(fs) THEN "visit" ELSE "propagate"
  BY DEF PropagateFrom
<1>2. target \in {"return", "throw", "scope"} /\ (pc' \in Visits <=> Scans(fs))
  BY <1>1 DEF Visits
<1> HIDE DEF target
<1>3. ScanStarted(target)
  BY <1>1, <1>2, ScanStarts
<1>4. Doing' = "throw"
  <2>1. CASE pc' = "propagate"
    BY <2>1 DEF Doing
  <2>2. CASE pc' = "visit"
    <3>1. Me'.scope_fn_exit = target
      BY <1>3, <2>2 DEF ScanStarted, Visits
    <3> QED
      BY <2>2, <3>1 DEF Doing, target
  <2> QED
    BY <1>1, <2>1, <2>2
<1> QED
  BY <1>1, <1>3, <1>4 DEF target, ScanStarted

LEMMA ScanWell ==
  ASSUME Alive, StepsRight, NEW target, ScanStarted(target),
         \A f : ScopeOpen(blocks', f) => ScopeOpen(blocks, f)
  PROVE  Well
  BY ScanWaits DEF Alive, Good, Well

(* A throw adds its code to those in flight.                               *)
LEMMA PushedAlso ==
  ASSUME NEW c \in Contexts, c.exc_used < MaxExceptions, NEW e \in Exceptions
  PROVE  /\ Pushed(c, e).scope_jmp_stack = c.scope_jmp_stack
         /\ CodesOf(Pushed(c, e)) = Append(CodesOf(c), e.code)
<1> DEFINE d == Pushed(c, e)
           k == c.exc_used
<1>1. k \in Nat /\ k + 1 \in 1 .. MaxExceptions /\ c.exc_nodes \in [1 .. MaxExceptions -> Exceptions]
  BY ContextTypes, BoundsAssumption
<1>2. /\ d.scope_jmp_stack = c.scope_jmp_stack /\ d.exc_used = k + 1
      /\ d.exc_nodes = [c.exc_nodes EXCEPT ![k + 1] = e]
  BY DEF Pushed, Contexts
<1>3. d.exc_nodes[k + 1] = e /\ \A n \in 1 .. k : d.exc_nodes[n] = c.exc_nodes[n]
  BY <1>1, <1>2, BoundsAssumption
<1>4. \A n \in 1 .. k : c.exc_nodes[n] \in Exceptions
  BY <1>1, BoundsAssumption
<1> HIDE DEF d, k
<1>5. /\ CodesOf(c) \in Seq(Codes) /\ Len(CodesOf(c)) = k
      /\ \A n \in 1 .. k : CodesOf(c)[n] = c.exc_nodes[n].code
  <2>1. CodesOf(c) = [n \in 1 .. k |-> c.exc_nodes[n].code]
    BY DEF CodesOf, k
  <2>2. \A n \in 1 .. k : c.exc_nodes[n].code \in Codes
    BY <1>4 DEF Exceptions
  <2> QED
    BY <1>1, <2>1, <2>2
<1>6. CodesOf(d) = [n \in 1 .. k + 1 |-> d.exc_nodes[n].code]
  BY <1>2 DEF CodesOf
<1>7. CodesOf(d) \in Seq(Codes) /\ Len(CodesOf(d)) = k + 1
  <2>1. \A n \in 1 .. k + 1 : d.exc_nodes[n].code \in Codes
    <3>1. \A n \in 1 .. k + 1 : n \in 1 .. k \/ n = k + 1
      BY <1>1
    <3> QED
      BY <1>3, <1>4, <3>1 DEF Exceptions
  <2> QED
    BY <1>1, <1>6, <2>1
<1>8. e.code \in Codes
  BY DEF Exceptions
<1>9. CodesOf(d) = Append(CodesOf(c), e.code)
  <2> DEFINE s == Append(CodesOf(c), e.code)
             u == CodesOf(d)
  <2>1. s \in Seq(Codes) /\ Len(s) = k + 1 /\ s[k + 1] = e.code
        /\ \A n \in 1 .. k : s[n] = c.exc_nodes[n].code
    BY <1>5, <1>8, AppendFacts
  <2>2. \A n \in 1 .. k + 1 : u[n] = d.exc_nodes[n].code
    BY <1>6
  <2>3. u \in Seq(Codes) /\ Len(u) = k + 1
    BY <1>7
  <2> HIDE DEF s, u
  <2>4. \A n \in 1 .. k + 1 : s[n] = u[n]
    <3>1. \A n \in 1 .. k + 1 : n \in 1 .. k \/ n = k + 1
      BY <1>1
    <3> QED
      BY <1>1, <1>3, <2>1, <2>2, <3>1
  <2>5. s = u
    BY <2>1, <2>3, <2>4
  <2> QED
    BY <2>5 DEF s, u
<1> QED
  BY <1>2, <1>9 DEF d

(* All that throws: a new exception or the one that was caught.            *)
LEMMA RaiseRefines ==
  ASSUME Good, IInv', Control', pc \in {"run", "break"}, NEW e \in Exceptions,
         ctx.exc_used < MaxExceptions, Raise(e)
  PROVE  Well
<1> DEFINE c == Entered
<1>1. ctx' = Pushed(c, e) /\ PropagateFrom(EnteredFrames) /\ blocks' = blocks
  BY DEF Raise
<1>2. IInv /\ Control
  BY DEF Good
<1>3. /\ Alike(ctx, c) /\ c \in Contexts /\ c.exc_used = ctx.exc_used
      /\ Repointed(frames, EnteredFrames, Fr)
  BY <1>2, EnteredAlso
<1>4. FramesOK(EnteredFrames) /\ Len(EnteredFrames) = Fr /\ Fr \in Nat \ {0}
  BY <1>2, EnteredFrom, EnteredFramesType DEF IInv
<1> HIDE DEF c
<1>5. ScanStarted("throw") /\ pc' # "dead" /\ Doing' = "throw" /\ Fr' = Fr
  <2>1. \A f \in 1 .. Fr : EnteredFrames[f].scope_fn_exit = frames[f].scope_fn_exit
    BY <1>3 DEF Repointed
  <2> QED
    BY <1>1, <1>4, <2>1, GoesOnThrowing
<1>6. /\ Pushed(c, e).scope_jmp_stack = c.scope_jmp_stack
      /\ CodesOf(Pushed(c, e)) = Append(CodesOf(c), e.code)
  BY <1>3, PushedAlso
<1>7. Alive
  BY <1>1, <1>3, <1>5, <1>6 DEF Alive, Alike
<1>8. Calls' = Calls
  BY <1>1, <1>5, <1>7, KeepsCalls DEF ScanStarted
<1>9. Thrown' = Append(Thrown, e.code)
  <2>1. Thrown = CodesOf(ctx) /\ Thrown' = CodesOf(ctx')
    BY <1>5, ThrownIs
  <2>2. CodesOf(ctx') = Append(CodesOf(ctx), e.code)
    BY <1>1, <1>3, <1>6 DEF Alike
  <2> QED
    BY <2>1, <2>2
<1>10. StepsRight
  <2>1. Doing \in {"run", "break"} /\ e.code \in Codes
    BY DEF Doing, Exceptions
  <2> QED
    BY <1>5, <1>8, <1>9, <2>1, IsThrow
<1> QED
  BY <1>1, <1>5, <1>7, <1>10, ScanWell

LEMMA ThrowRefines ==
  ASSUME Good, IInv', Control', NEW code \in ThrowCodes, sTHROW(code)
  PROVE  Well
<1> DEFINE e == [code |-> code, text |-> TRUE]
<1>1. pc = "run" /\ ctx.exc_used < MaxExceptions /\ Raise(e)
  BY DEF sTHROW, AtStatement
<1>2. e \in Exceptions
  BY CodesAssumption DEF Exceptions
<1> HIDE DEF e
<1> QED
  BY <1>1, <1>2, RaiseRefines

LEMMA RethrowRefines ==
  ASSUME Good, IInv', Control', SKIT_THROW_EXCEPTION
  PROVE  Well
<1>1. PICK i \in DOMAIN blocks :
        blocks[i].kind = "catch" /\ Raise(ctx.exc_nodes[blocks[i].node])
  BY DEF SKIT_THROW_EXCEPTION
<1>2. pc = "run" /\ ctx.exc_used < MaxExceptions
  BY DEF SKIT_THROW_EXCEPTION, AtStatement
<1>3. ctx.exc_nodes[blocks[i].node] \in Exceptions
  <2>1. blocks[i] \in Blocks /\ ctx.exc_nodes \in [1 .. MaxExceptions -> Exceptions]
    BY Types, ContextTypes DEF Good
  <2>2. blocks[i].node \in 1 .. MaxExceptions
    BY <1>1, <2>1, BoundsAssumption DEF Blocks
  <2> QED
    BY <2>1, <2>2
<1> QED
  BY <1>1, <1>2, <1>3, RaiseRefines

LEMMA ThrowBreakRefines ==
  ASSUME Good, IInv', Control', ThrowBreak
  PROVE  Well
<1>1. PICK code \in BreakCodes : Raise([code |-> code, text |-> TRUE])
  BY DEF ThrowBreak
<1> DEFINE e == [code |-> code, text |-> TRUE]
<1>2. e \in Exceptions
  BY CodesAssumption DEF Exceptions
<1>3. Raise(e)
  BY <1>1
<1> HIDE DEF e
<1>4. pc = "break" /\ ctx.exc_used < MaxExceptions
  BY DEF ThrowBreak, Good, IInv
<1> QED
  BY <1>2, <1>3, <1>4, RaiseRefines

-----------------------------------------------------------------------------
(* The jump, and where it lands                                            *)

(* The jump leaves functions without statements and guards behind: Unwind. *)
LEMMA PropagateRefines ==
  ASSUME Good, IInv', skit_propogate_exceptions
  PROVE  Well
<1> DEFINE d == [ctx EXCEPT !.entry_check_count = ctx.entry_check_count - 1]
           m == Target.blk.fr
<1>1. pc = "propagate" /\ IInv /\ Control
  BY DEF skit_propogate_exceptions, Good
<1>2. /\ ctx' = d /\ frames' = SubSeq(frames, 1, m) /\ pc' = "land"
      /\ blocks' = IF Target.blk.kind = "bottom" THEN << >>
                   ELSE Append(SubSeq(blocks, 1, Target.at), Target.blk)
  BY <1>1, JumpDefined DEF skit_propogate_exceptions
<1>3. /\ Core(frames, Fr, blocks, ctx, "propagate", 0) /\ blocks \in Seq(Blocks)
      /\ ctx \in Contexts /\ frames \in Seq(Frames) /\ Fr \in Nat \ {0} /\ Len(frames) = Fr
  BY <1>1, FrType DEF Control, Consistent, IInv
<1>4. blocks' = blocks
  <2>1. CASE Len(blocks) = 0
    BY <1>1, <1>2, <1>3, <2>1, TargetIs
  <2>2. CASE Len(blocks) > 0
    <3>1. /\ Target.blk = blocks[Len(blocks)] /\ Target.at = Len(blocks) - 1
      BY <1>1, <1>3, <2>2, TargetIs DEF Jmp
    <3>2. blocks[Len(blocks)].kind # "bottom"
      BY <1>3, <2>2 DEF Core, Nested
    <3>3. blocks = Append(SubSeq(blocks, 1, Len(blocks) - 1), blocks[Len(blocks)])
      BY <1>3, <2>2
    <3> QED
      BY <1>2, <3>1, <3>2, <3>3
  <2> QED
    BY <1>3, <2>1, <2>2
<1>5. m \in 1 .. Fr /\ \A i \in 1 .. Len(blocks) : blocks[i].fr \in 1 .. m
  BY <1>1, <1>3, LandsThere DEF LandsIn
<1>6. Len(frames') = m /\ \A f \in 1 .. m : frames'[f] = frames[f]
  <2>1. m \in 0 .. Len(frames)
    BY <1>3, <1>5
  <2> QED
    BY <1>2, <1>3, <2>1, PrefixType
<1>7. Alike(ctx, ctx')
  <2>1. ctx.entry_check_count - 1 \in Int
    BY <1>3 DEF Contexts
  <2>2. SameBut(ctx, d)
    BY <1>3, <2>1, CountIs
  <2> QED
    BY <1>2, <2>2, CodesStay DEF SameBut, SameStacks, Alike
<1> HIDE DEF d, m
<1>8. /\ Seen(Calls, frames, blocks, ctx.scope_jmp_stack)
      /\ Seen(Calls', frames', blocks, ctx.scope_jmp_stack)
  BY <1>1, <1>2, <1>4, <1>7, CallsSeen DEF Alike
<1>9. Within(blocks, ctx.scope_jmp_stack, Len(frames'))
  <2>1. AtRest
    BY <1>1, <1>3, CoreRests
  <2>2. \A k \in 1 .. Len(ctx.scope_jmp_stack) : ctx.scope_jmp_stack[k].fr <= m
    BY <1>5, <2>1 DEF AtRest, InScope
  <2> QED
    BY <1>5, <1>6, <2>2 DEF Within
<1>10. Resume(frames, frames', blocks)
  BY <1>5, <1>6 DEF Resume
<1>11. /\ Calls' = SubSeq(Calls, 1, m) /\ Len(Calls) = Fr
       /\ \A f \in m + 1 .. Len(Calls) : Calls[f] = Clean
  <2>1. ctx.scope_jmp_stack \in Seq(ScopeJmps) /\ Len(frames') <= Len(frames)
    BY <1>3, <1>5, <1>6, ContextTypes
  <2>2. /\ Calls' = SubSeq(Calls, 1, Len(frames'))
        /\ \A f \in Len(frames') + 1 .. Len(Calls) : Calls[f] = Clean
    BY <1>8, <1>9, <1>10, <2>1, Cutting
  <2> QED
    BY <1>3, <1>6, <1>8, <2>2 DEF Seen
<1>12. Doing = "throw" /\ Doing' = "throw" /\ Thrown' = Thrown
  BY <1>1, <1>2, <1>7, ThrownStays DEF Doing
<1>13. StepsRight
  <2>1. CASE m = Fr
    <3>1. Calls \in Seq(CallRecords)
      BY <1>8 DEF Seen
    <3>2. Calls' = Calls
      BY <1>11, <2>1, <3>1
    <3> QED
      BY <1>12, <3>2, IsStutter DEF Stays
  <2>2. CASE m # Fr
    <3>1. m \in 1 .. Len(Calls) - 1
      BY <1>3, <1>5, <1>11, <2>2
    <3> QED
      BY <1>11, <1>12, <3>1, IsUnwind
  <2> QED
    BY <2>1, <2>2
<1>14. NoScopeOpens
  <2>1. Fr' = m
    BY <1>6 DEF Fr
  <2> QED
    BY <1>3, <1>4, <1>5, <1>6, <2>1 DEF NoScopeOpens
<1> QED
  BY <1>7, <1>13, <1>14, WaitsOn DEF Well, Good, Alike

(* Where a throw lands.                                                    *)
LEMMA TopStatement ==
  ASSUME NEW cs, NEW fs, NEW gs, NEW bs \in Seq(Blocks), NEW b \in Blocks,
         Seen(cs, fs, Append(bs, b), gs), IsStatement(b, Len(fs))
  PROVE  cs # << >> /\ Inner(cs) # << >> /\ Inner(cs)[Len(Inner(cs))] = StatementOf(fs, b)
<1> DEFINE ks == Append(bs, b)
           n == Len(fs)
           x == StatementOf(fs, b)
           s == StatementsOf(fs, bs, n)
<1>1. Grows(bs, b, ks) /\ Resume(fs, fs, bs)
  BY AppendGrows DEF Resume
<1>2. StatementsOf(fs, ks, n) = Append(s, x)
  <2> HIDE DEF ks, n
  <2>1. IsStatement(b, n)
    BY DEF n
  <2> QED
    BY <1>1, <2>1, StatementsGrow
<1>3. s \in Seq(Spoken) /\ x \in Spoken
  BY StatementsType, StatementType
<1>4. cs # << >> /\ Inner(cs) = Append(s, x)
  BY <1>2, TopCall
<1> HIDE DEF s, x
<1> QED
  BY <1>3, <1>4, AppendEnds DEF x

LEMMA ThrownLast ==
  ASSUME NEW c \in Contexts, c.exc_used > 0
  PROVE  CodesOf(c)[Len(CodesOf(c))] = c.exc_nodes[c.exc_used].code
<1>1. c.exc_used \in Nat \ {0}
  BY ContextTypes, BoundsAssumption
<1>2. Len(CodesOf(c)) = c.exc_used /\ c.exc_used \in 1 .. c.exc_used
  BY <1>1 DEF CodesOf
<1> QED
  BY <1>2 DEF CodesOf

LEMMA ThrownPop ==
  ASSUME NEW c \in Contexts, c.exc_used > 0, NEW d, d.exc_used = c.exc_used - 1,
         d.exc_nodes = c.exc_nodes
  PROVE  CodesOf(d) = Without(CodesOf(c))
<1> DEFINE k == c.exc_used
           s == CodesOf(c)
<1>1. k \in Nat \ {0} /\ c.exc_nodes \in [1 .. MaxExceptions -> Exceptions] /\ k <= MaxExceptions
  BY ContextTypes, BoundsAssumption
<1>2. \A n \in 1 .. k : c.exc_nodes[n].code \in Codes
  BY <1>1, BoundsAssumption DEF Exceptions
<1>3. s \in Seq(Codes) /\ Len(s) = k /\ \A n \in 1 .. k : s[n] = c.exc_nodes[n].code
  BY <1>1, <1>2 DEF CodesOf
<1>4. CodesOf(d) = [n \in 1 .. k - 1 |-> c.exc_nodes[n].code]
  BY DEF CodesOf
<1> HIDE DEF k, s
<1>5. SubSeq(s, 1, k - 1) = [n \in 1 .. k - 1 |-> s[n]]
  BY <1>1, <1>3
<1>6. \A n \in 1 .. k - 1 : s[n] = c.exc_nodes[n].code
  BY <1>1, <1>3
<1>7. [n \in 1 .. k - 1 |-> s[n]] = [n \in 1 .. k - 1 |-> c.exc_nodes[n].code]
  BY <1>6
<1> QED
  BY <1>3, <1>4, <1>5, <1>7 DEF Without, s

LEMMA SeenNow ==
  ASSUME IInv, pc # "dead"
  PROVE  Seen(Calls, frames, blocks, ctx.scope_jmp_stack)
<1>1. ctx.scope_jmp_stack \in Seq(ScopeJmps) /\ FramesOK(frames) /\ blocks \in Seq(Blocks)
  BY ContextTypes DEF IInv
<1>2. Calls = CallsIn(frames, blocks, ctx.scope_jmp_stack)
  BY DEF Calls, CallOf, CallsIn, View
<1> QED
  BY <1>1, <1>2, CallsInSeen

LEMMA Dies ==
  ASSUME pc' = "dead"
  PROVE  Calls' = << >> /\ Thrown' = << >> /\ Doing' = "dead"
  BY DEF Calls, Thrown, Doing

(* Nobody catches it.                                                      *)
LEMMA AtBottomRefines == ASSUME Good, LandAtBottom PROVE StepsRight
<1>1. pc = "land" /\ pc' = "dead" /\ Lands("bottom") /\ IInv /\ Control
  BY DEF LandAtBottom, Lands, Good
<1>2. Len(blocks) = 0 /\ AtRest
  BY <1>1, LandsOn, CoreRests
<1>3. Seen(Calls, frames, blocks, ctx.scope_jmp_stack) /\ ctx.scope_jmp_stack \in Seq(ScopeJmps)
  BY <1>1, SeenNow, ContextTypes DEF IInv
<1>4. Within(blocks, ctx.scope_jmp_stack, 0)
  BY <1>2 DEF AtRest, InScope, Within
<1>5. ASSUME NEW f \in 1 .. Len(Calls)
      PROVE  Calls[f] = Clean
  <2>1. /\ f \in Nat /\ f > 0 /\ Calls[f] \in CallRecords /\ Len(blocks) \in Nat
        /\ Calls[f].blocks = StatementsOf(frames, blocks, f)
        /\ Calls[f].guards = GuardsOf(ctx.scope_jmp_stack, f)
    BY <1>3 DEF Seen
  <2>2. StatementsOf(frames, blocks, f) = << >> /\ GuardsOf(ctx.scope_jmp_stack, f) = << >>
    BY <1>3, <1>4, <2>1, ViewClean
  <2> QED
    BY <2>1, <2>2, CleanIs
<1>6. \A f \in DOMAIN Calls : Calls[f] = Clean
  BY <1>3, <1>5 DEF Seen
<1>7. Doing = "throw"
  BY <1>1 DEF Doing
<1> QED
  BY <1>1, <1>6, <1>7, Dies, IsDie

(* It would leave a guard: Die.                                            *)
LEMMA InGuardRefines == ASSUME Good, LandInGuard PROVE StepsRight
<1> DEFINE bs == Front(blocks)
           b == Last(blocks)
<1>1. pc = "land" /\ pc' = "dead" /\ Lands("guard") /\ IInv /\ Control /\ Len(frames) = Fr
  BY DEF LandInGuard, Lands, Good, Fr
<1>2. bs \in Seq(Blocks) /\ b \in Blocks /\ b.kind = "guard" /\ b.fr = Fr /\ blocks = Append(bs, b)
  BY <1>1, LandsOnTop
<1> HIDE DEF bs, b
<1>3. Seen(Calls, frames, Append(bs, b), ctx.scope_jmp_stack)
  BY <1>1, <1>2, SeenNow
<1>4. IsStatement(b, Len(frames)) /\ StatementOf(frames, b).kind = "guard"
  BY <1>1, <1>2 DEF IsStatement, StatementOf
<1>5. Inner(Calls) # << >> /\ Inner(Calls)[Len(Inner(Calls))].kind = "guard"
  BY <1>2, <1>3, <1>4, TopStatement
<1>6. Doing = "throw"
  BY <1>1 DEF Doing
<1> QED
  BY <1>1, <1>5, <1>6, Dies, IsDie

(* sTRACE passes it on, and nothing of that is shown.                      *)
LEMMA InTraceRefines == ASSUME Good, IInv', Control', LandInTrace PROVE Well
<1> DEFINE bs == Front(blocks)
           b == Last(blocks)
           p == "land"
<1>1. Lands("trace") /\ IInv /\ Control
  BY DEF LandInTrace, Good
<1>2. /\ bs \in Seq(Blocks) /\ b \in Blocks /\ b.kind = "trace" /\ b.fr = Fr
      /\ Core(frames, Fr, Append(bs, b), ctx, p, 0) /\ ctx.live /\ Target.blk = b
      /\ blocks = Append(bs, b) /\ pc = p
  BY <1>1, LandsOnTop
<1>3. Fr \in Nat \ {0} /\ frames \in Seq(Frames) /\ ctx \in Contexts /\ Plain(p)
      /\ FramesOK(frames)
  BY <1>1, FrType DEF IInv, FramesOK, Plain
<1>4. Len(frames) = Fr
  BY DEF Fr
<1> HIDE DEF bs, b, p
<1>5. PopTraceResult(frames, Fr, bs, b, ctx, Untraced, p)
  <2>1. PopTraceResult(frames, Fr, bs, b, ctx,
           [ctx EXCEPT !.debug_depth = @ - 1, !.exc_jmp_stack = Front(@)], p)
    BY <1>2, <1>3, <1>4, PopTrace
  <2> QED
    BY <2>1 DEF Untraced
<1>6. /\ SameExceptions(ctx, Untraced)
      /\ Reconciled(Untraced, b.pos) = Untraced /\ ~ PoppedTooFar(Untraced, b.pos)
  BY <1>5 DEF PopTraceResult, p
<1>7. ctx' = Untraced /\ blocks' = bs /\ PropagateFrom(frames)
  BY <1>2, <1>6 DEF LandInTrace, bs
<1>8. Alike(ctx, ctx')
  <2>1. Untraced.scope_jmp_stack = ctx.scope_jmp_stack
    BY <1>3 DEF Untraced, Contexts
  <2> QED
    BY <1>6, <1>7, <2>1, CodesStay DEF Alike, SameExceptions
<1>9. ScanStarted("throw") /\ pc' # "dead" /\ Doing' = "throw" /\ Fr' = Fr
  BY <1>3, <1>4, <1>7, GoesOnThrowing
<1>10. Alive
  BY <1>2, <1>8, <1>9 DEF Alive, Alike, p
<1>11. Grows(blocks', b, blocks)
  BY <1>2, <1>7, AppendGrows
<1>12. Stays
  <2>1. Calls' = Calls
    BY <1>2, <1>9, <1>10, <1>11, ClosesSilently DEF ScanStarted
  <2>2. Thrown' = Thrown
    BY <1>2, <1>8, <1>9, ThrownStays DEF p
  <2>3. Doing = "throw"
    BY <1>2 DEF Doing, p
  <2> QED
    BY <1>9, <2>1, <2>2, <2>3 DEF Stays
<1> QED
  BY <1>9, <1>10, <1>11, <1>12, IsStutter, ClosesNoScope, ScanWell

(* No sCATCH of the sTRY matches: the sTRY is left.                        *)
LEMMA UnhandledRefines == ASSUME Good, IInv', Control', LandInTryUnhandled PROVE Well
<1> DEFINE bs == Front(blocks)
           b == Last(blocks)
           c == CleanUp(ctx)
           code == ctx.exc_nodes[ctx.exc_used].code
<1>1. /\ Lands("try") /\ ctx' = c /\ blocks' = bs /\ PropagateFrom(Unnested)
      /\ ~ Matches(code, Target.blk.catches) /\ IInv /\ Control /\ ctx.exc_used > 0
  BY DEF LandInTryUnhandled, Unhandled, Unnested, Good
<1>2. /\ bs \in Seq(Blocks) /\ b \in Blocks /\ b.kind = "try" /\ b.fr = Fr
      /\ Target.blk = b /\ blocks = Append(bs, b) /\ pc = "land"
  BY <1>1, LandsOnTop
<1>3. Fr \in Nat \ {0} /\ ctx \in Contexts
  BY <1>1, FrType DEF IInv
<1> HIDE DEF bs, b
<1>4. Alike(ctx, ctx')
  BY <1>1, <1>3, CleanUpAlike
<1> HIDE DEF c
<1>5. ScanStarted("throw") /\ pc' # "dead" /\ Doing' = "throw" /\ Fr' = Fr
  BY <1>1, <1>3, UnnestedFacts, GoesOnThrowing
<1>6. Alive
  BY <1>2, <1>4, <1>5 DEF Alive, Alike
<1>7. Grows(blocks', b, blocks)
  BY <1>1, <1>2, AppendGrows
<1>8. Thrown' = Thrown /\ Thrown[Len(Thrown)] = code
  BY <1>1, <1>2, <1>3, <1>4, <1>5, ThrownStays, ThrownIs, ThrownLast
<1>9. StepsRight
  <2>1. /\ IsStatement(b, Fr) /\ StatementOf(frames, b).kind = "try"
        /\ StatementOf(frames, b).codes = b.catches
    BY <1>2 DEF IsStatement, StatementOf
  <2>2. Ends(Calls, Calls', StatementOf(frames, b))
    BY <1>2, <1>5, <1>6, <1>7, <2>1, Closes DEF ScanStarted
  <2>3. ~ Matches(Thrown[Len(Thrown)], StatementOf(frames, b).codes)
    BY <1>1, <1>2, <1>8, <2>1
  <2>4. Doing = "throw"
    BY <1>2 DEF Doing
  <2> QED
    BY <1>5, <1>8, <2>1, <2>2, <2>3, <2>4, IsPassesTry
<1> QED
  BY <1>5, <1>6, <1>7, <1>9, ClosesNoScope, ScanWell

(* It leaves an sCATCH block, and the sTRY with it.                        *)
LEMMA InCatchRefines == ASSUME Good, IInv', Control', LandInCatch PROVE Well
<1> DEFINE cs == Front(blocks)
           b == Last(blocks)
           bs == Front(cs)
           t == Last(cs)
           c == [ctx EXCEPT !.exc_jmp_stack = Front(@)]
           d == CleanUp(c)
<1>1. /\ Lands("catch") /\ ctx' = d /\ blocks' = bs /\ PropagateFrom(Unnested)
      /\ IInv /\ Control
  BY DEF LandInCatch, Unhandled, Unnested, Good
<1>2. /\ cs \in Seq(Blocks) /\ b \in Blocks /\ b.kind = "catch" /\ b.fr = Fr
      /\ Core(frames, Fr, Append(cs, b), ctx, "land", 0)
      /\ blocks = Append(cs, b) /\ pc = "land"
  BY <1>1, LandsOnTop
<1>3. Fr \in Nat \ {0} /\ ctx \in Contexts
  BY <1>1, FrType DEF IInv
<1> HIDE DEF cs, b
<1>4. cs = Append(bs, t) /\ bs \in Seq(Blocks) /\ t \in Blocks /\ t.kind = "try" /\ t.fr = Fr
  <2>1. Nested(Append(cs, b), Fr)
    BY <1>2 DEF Core
  <2> QED
    BY <1>2, <1>3, <2>1, CatchOnTry
<1> HIDE DEF bs, t
<1>5. Alike(ctx, ctx')
  <2>1. /\ c \in Contexts /\ c.scope_jmp_stack = ctx.scope_jmp_stack
        /\ c.exc_used = ctx.exc_used /\ c.exc_nodes = ctx.exc_nodes
    BY <1>3, PoppedType DEF Contexts
  <2> HIDE DEF c
  <2>2. Alike(ctx, c)
    BY <2>1, CodesStay DEF Alike
  <2> QED
    BY <1>1, <2>1, <2>2, CleanUpAlike, AlikeBoth
<1> HIDE DEF c, d
<1>6. ScanStarted("throw") /\ pc' # "dead" /\ Doing' = "throw" /\ Fr' = Fr
  BY <1>1, <1>3, UnnestedFacts, GoesOnThrowing
<1>7. Alive
  BY <1>2, <1>5, <1>6 DEF Alive, Alike
<1>8. Grows(blocks', t, cs) /\ Grows(cs, b, blocks)
  BY <1>1, <1>2, <1>4, AppendGrows
<1>9. \A f : ScopeOpen(blocks', f) => ScopeOpen(blocks, f)
  <2>1. \A f : ScopeOpen(blocks', f) => ScopeOpen(cs, f)
    BY <1>8, OwnsGrows
  <2>2. \A f : ScopeOpen(cs, f) => ScopeOpen(blocks, f)
    BY <1>8, OwnsGrows
  <2> QED
    BY <2>1, <2>2
<1>10. StepsRight
  <2>1. EndsBoth(Calls, Calls')
    BY <1>2, <1>4, <1>6, <1>7, <1>8, ClosesBoth DEF ScanStarted
  <2>2. Thrown' = Thrown
    BY <1>2, <1>5, <1>6, ThrownStays
  <2>3. Doing = "throw"
    BY <1>2 DEF Doing
  <2> QED
    BY <1>6, <2>1, <2>2, <2>3, IsPassesCatch
<1> QED
  BY <1>6, <1>7, <1>9, <1>10, ScanWell

(* The sCATCH matches: Catches.                                            *)
LEMMA CatchRefines == ASSUME Good, IInv', sCATCH PROVE Well
<1> DEFINE node == ctx.exc_used
           b == [Block("catch") EXCEPT !.node = node, !.caught = ctx.exc_nodes[node]]
           d == Caught(ctx, b)
           bs == Front(blocks)
           t == Last(blocks)
<1>1. /\ Lands("try") /\ node > 0 /\ ctx' = d /\ blocks' = Append(blocks, b)
      /\ pc' = "run" /\ frames' = frames /\ Matches(ctx.exc_nodes[node].code, Target.blk.catches)
      /\ IInv /\ Control
  BY DEF sCATCH, Good
<1>2. /\ bs \in Seq(Blocks) /\ t \in Blocks /\ t.kind = "try" /\ t.fr = Fr
      /\ Target.blk = t /\ blocks = Append(bs, t) /\ pc = "land"
  BY <1>1, LandsOnTop
<1>3. Fr \in Nat \ {0} /\ ctx \in Contexts /\ blocks \in Seq(Blocks) /\ Len(frames) = Fr
  BY <1>1, FrType DEF IInv
<1>4. node \in 1 .. MaxExceptions /\ ctx.exc_nodes[node] \in Exceptions
  BY <1>1, BoundsAssumption, Types, ContextTypes
<1>5. b \in Blocks /\ b.kind = "catch" /\ b.fr = Fr
  <2>1. b \in Blocks
    BY <1>1, <1>4, CatchBlockType
  <2>2. b.kind = "catch" /\ b.fr = Fr
    BY DEF Block
  <2> QED
    BY <2>1, <2>2
<1> HIDE DEF b, bs, t
<1>6. d.scope_jmp_stack = ctx.scope_jmp_stack /\ d.exc_used = ctx.exc_used - 1
      /\ d.exc_nodes = ctx.exc_nodes
  BY <1>1, <1>3, <1>5, CaughtFacts
<1> HIDE DEF d
<1>7. KeepsScans
  BY <1>1 DEF KeepsScans, Fr
<1>8. Alive
  BY <1>1, <1>2, <1>6, <1>7 DEF Alive, KeepsScans
<1>9. Grows(blocks, b, blocks')
  BY <1>1, <1>3, <1>5, AppendGrows
<1>10. Resume(frames', frames, blocks)
  BY <1>1 DEF Resume
<1>11. Thrown[Len(Thrown)] = ctx.exc_nodes[node].code /\ Thrown' = Without(Thrown)
  <2>1. Thrown = CodesOf(ctx) /\ Thrown' = CodesOf(ctx')
    BY <1>1, <1>2, ThrownIs
  <2>2. CodesOf(d) = Without(CodesOf(ctx))
    BY <1>1, <1>3, <1>6, ThrownPop
  <2>3. CodesOf(ctx)[Len(CodesOf(ctx))] = ctx.exc_nodes[node].code
    BY <1>1, <1>3, ThrownLast
  <2> QED
    BY <1>1, <2>1, <2>2, <2>3
<1>12. StepsRight
  <2> DEFINE s == StatementOf(frames, t)
  <2>1. IsStatement(b, Fr) /\ StatementOf(frames', b) = [kind |-> "catch"]
    BY <1>5 DEF IsStatement, StatementOf
  <2>2. Calls' = [Calls EXCEPT ![Len(Calls)].blocks = Append(Inner(Calls), [kind |-> "catch"])]
    BY <1>8, <1>9, <1>10, <2>1, Opens
  <2>3. s.kind = "try" /\ s.codes = t.catches /\ IsStatement(t, Len(frames))
    BY <1>2, <1>3 DEF IsStatement, StatementOf
  <2>4. Seen(Calls, frames, Append(bs, t), ctx.scope_jmp_stack)
    BY <1>1, <1>2, SeenNow
  <2>5. Inner(Calls) # << >> /\ Inner(Calls)[Len(Inner(Calls))] = s
    BY <1>2, <2>3, <2>4, TopStatement
  <2> HIDE DEF s
  <2>6. Matches(Thrown[Len(Thrown)], s.codes)
    BY <1>1, <1>2, <1>11, <2>3
  <2>7. Doing = "throw" /\ Doing' = "run"
    BY <1>1, <1>2 DEF Doing
  <2> QED
    BY <1>11, <2>2, <2>3, <2>5, <2>6, <2>7, IsCatches
<1> QED
  BY <1>5, <1>7, <1>8, <1>9, <1>12, OpensNoScope, WaitsWell

(* It lands in a scope, whose guards are scanned.                          *)
LEMMA InScopeRefines == ASSUME Good, IInv', Control', LandInScope PROVE Well
<1> DEFINE target == "scope"
<1>1. /\ frames' = Scanning(frames, "failure", target) /\ Lands("scope") /\ pc = "land"
      /\ pc' = IF Scans(frames) THEN "visit" ELSE "leaving"
      /\ blocks' = blocks /\ ctx' = ctx /\ IInv /\ Control
  BY DEF LandInScope, Lands, Good
<1>2. Fr \in Nat \ {0} /\ FramesOK(frames) /\ Len(frames) = Fr
  BY <1>1, FrType DEF IInv
<1>3. target \in {"return", "throw", "scope"} /\ (pc' \in Visits <=> Scans(frames))
      /\ target # "return"
  BY <1>1 DEF Visits
<1> HIDE DEF target
<1>4. ScanStarted(target)
  BY <1>1, <1>2, <1>3, ScanStarts
<1>5. Alive
  BY <1>1, <1>4 DEF Alive, ScanStarted
<1>6. Stays
  <2>1. Calls' = Calls
    BY <1>1, <1>4, <1>5, KeepsCalls DEF ScanStarted
  <2>2. Thrown' = Thrown
    <3>1. Alike(ctx, ctx')
      BY <1>1 DEF Alike
    <3> QED
      BY <1>1, <3>1, ThrownStays
  <2>3. Doing = "throw"
    BY <1>1 DEF Doing
  <2>4. Doing' = "throw"
    <3>1. CASE pc' = "leaving"
      BY <3>1 DEF Doing
    <3>2. CASE pc' = "visit"
      BY <1>3, <1>4, <3>2 DEF Doing, ScanStarted, Visits
    <3> QED
      BY <1>1, <3>1, <3>2
  <2> QED
    BY <2>1, <2>2, <2>3, <2>4 DEF Stays
<1> QED
  BY <1>1, <1>4, <1>5, <1>6, IsStutter, ScanWell

LEMMA LeaveScopeRefines == ASSUME Good, IInv', LeaveScope PROVE Well
<1>1. /\ pc = "leaving" /\ pc' = "propagate" /\ ctx' = Entered /\ frames' = EnteredFrames
      /\ blocks' = blocks /\ IInv /\ Control
  BY DEF LeaveScope, Good
<1>2. Alike(ctx, ctx') /\ Repointed(frames, EnteredFrames, Fr)
  BY <1>1, EnteredAlso
<1>3. Len(EnteredFrames) = Fr
  BY <1>1, EnteredFrom
<1>4. KeepsScans
  BY <1>1, <1>2, <1>3, EntersScans
<1>5. Alive
  BY <1>1, <1>2, <1>4 DEF Alive, Alike, KeepsScans
<1>6. Resume(frames, frames', blocks)
  BY <1>1, <1>4, BlocksOwned, ScansResume
<1>7. Stays
  <2>1. Calls' = Calls
    BY <1>1, <1>5, <1>6, KeepsCalls
  <2>2. Thrown' = Thrown
    BY <1>1, <1>2, ThrownStays
  <2> QED
    BY <1>1, <2>1, <2>2 DEF Stays, Doing
<1> QED
  BY <1>1, <1>4, <1>5, <1>7, IsStutter, WaitsWell

-----------------------------------------------------------------------------
(* Guards are registered                                                   *)

(* Guards are registered.                                                  *)
LEMMA RegistersPush ==
  ASSUME NEW gs \in Seq(ScopeJmps), NEW g \in ScopeJmps, NEW n, g.fr = n, ~ g.exit
  PROVE  Registers(gs, Append(gs, g), n, g.mask)
<1>1. \A f : Waits(g, f) <=> f = n
  BY DEF Waits
<1> QED
  BY <1>1, GuardsOfPush DEF Registers

LEMMA ExitPush ==
  ASSUME NEW gs \in Seq(ScopeJmps), NEW g \in ScopeJmps, g.exit
  PROVE  \A f : GuardsOf(Append(gs, g), f) = GuardsOf(gs, f)
<1>1. \A f : ~ Waits(g, f)
  BY DEF Waits
<1> QED
  BY <1>1, GuardsOfPush

LEMMA Registered ==
  ASSUME Good, IInv', pc = "run", pc' = "run", Fr' = Fr, Thrown' = Thrown,
         NEW mask \in SUBSET {"success", "failure"},
         \A f : StatementsOf(frames', blocks', f) = StatementsOf(frames, blocks, f),
         Registers(ctx.scope_jmp_stack, ctx'.scope_jmp_stack, Fr, mask),
         StatementsOf(frames, blocks, Fr) = << >>
  PROVE  StepsRight
<1>1. /\ Seen(Calls, frames, blocks, ctx.scope_jmp_stack)
      /\ Seen(Calls', frames', blocks', ctx'.scope_jmp_stack)
  BY CallsSeen DEF Good
<1>2. Len(frames') = Len(frames) /\ Len(frames) = Fr
  BY DEF Fr
<1>3. Registers(ctx.scope_jmp_stack, ctx'.scope_jmp_stack, Len(frames), mask)
      /\ StatementsOf(frames, blocks, Len(frames)) = << >>
  BY <1>2
<1>4. Inner(Calls) = << >> /\ Calls' = [Calls EXCEPT ![Len(Calls)].guards = Append(@, mask)]
  BY <1>1, <1>2, <1>3, Registering
<1>5. Doing = "run" /\ Doing' = "run"
  BY DEF Doing
<1> QED
  BY <1>4, <1>5, IsAddGuard

LEMMA RegisteredWaits ==
  ASSUME Waited, KeepsScans, NEW gs \in Seq(ScopeJmps), NEW g \in ScopeJmps, Waits(g, Fr),
         \A f : HasGuard(ctx.scope_jmp_stack, f) => HasGuard(gs, f),
         ctx'.scope_jmp_stack = Append(gs, g),
         \A f : ScopeOpen(blocks', f) => ScopeOpen(blocks, f) \/ f = Fr
  PROVE  Waited'
<1>1. ASSUME NEW f \in 1 .. Fr', ScopeOpen(blocks', f), frames'[f].scope_fn_exit = "none"
      PROVE  HasGuard(ctx'.scope_jmp_stack, f)
  <2>1. f \in 1 .. Fr /\ frames[f].scope_fn_exit = "none"
    BY <1>1 DEF KeepsScans
  <2>2. HasGuard(gs, f) \/ Waits(g, f)
    BY <1>1, <2>1 DEF Waited, GuardsWait
  <2>3. HasGuard(Append(gs, g), f)
    BY <2>2, HasGuardPush
  <2> QED
    BY <2>3
<1> QED
  BY <1>1 DEF Waited, GuardsWait

(* The first guard of a function opens its scope, in a function that has   *)
(* its context already (PlainUses): AddGuard.                              *)
LEMMA FirstGuardRefines ==
  ASSUME PlainUses, Good, IInv', NEW mask \in Masks, FirstGuard(mask)
  PROVE  Well
<1> DEFINE at == Len(blocks) + 1
           b == Block("scope")
           c == Entered
           exit == ScopeJmp(at, TRUE, {})
           guard == ScopeJmp(at, FALSE, mask)
           d == [Guarded(c, b) EXCEPT !.scope_jmp_stack = @ \o <<exit, guard>>]
           gs == [frames EXCEPT ![Fr].guards_used = TRUE]
           gl == ctx.scope_jmp_stack
<1>1. /\ MayGuard /\ ~ Me.guards_used /\ pc = "run" /\ ctx' = d /\ pc' = "run"
      /\ blocks' = Append(blocks, b)
      /\ frames' = [EnteredFrames EXCEPT ![Fr].guards_used = TRUE]
  BY DEF FirstGuard, MayGuard, AtStatement
<1>2. IInv /\ Control /\ Waited /\ blocks \in Seq(Blocks) /\ gl \in Seq(ScopeJmps)
      /\ frames \in Seq(Frames)
  BY ContextTypes DEF Good, IInv, FramesOK
<1>3. ctx.live /\ ~ Owns(blocks, Fr)
  BY <1>1, <1>2, FirstGuardPlace
<1>4. Alike(ctx, c) /\ c \in Contexts
  BY <1>1, <1>2, EnteredAlso
<1>5. Fr \in Nat \ {0} /\ EnteredFrames = frames /\ Fr = Len(frames)
  <2>1. EnteredAlike /\ Fr \in Nat \ {0}
    BY <1>1, <1>2, EnteredFrom
  <2> QED
    BY <1>3, <2>1 DEF EnteredAlike, Fr
<1>6. b \in Blocks /\ b.kind = "scope" /\ b.fr = Fr
  BY <1>2, BlockType DEF Block, Kinds, IInv, FramesOK
<1>7. /\ exit \in ScopeJmps /\ exit.exit
      /\ guard \in ScopeJmps /\ guard.fr = Fr /\ ~ guard.exit
  <2>1. at \in Nat
    BY <1>2
  <2> QED
    BY <1>2, <2>1, ScopeJmpsMade
<1>8. guard.mask = mask /\ mask \in SUBSET {"success", "failure"}
  BY MasksAssumption DEF ScopeJmp
<1>9. /\ Len(gs) = Fr
      /\ \A f \in 1 .. Fr : gs[f].scope_fn_exit = frames[f].scope_fn_exit
  <2>1. GuardsUsedIn(frames, gs, Fr)
    BY <1>2, <1>5, GuardsUsedFacts
  <2> HIDE DEF gs
  <2> QED
    BY <2>1 DEF GuardsUsedIn
<1>10. frames' = gs
  BY <1>1, <1>5
<1> HIDE DEF b, c, exit, guard, gs, at
<1>11. d.exc_nodes = c.exc_nodes /\ d.exc_used = c.exc_used
       /\ d.scope_jmp_stack = c.scope_jmp_stack \o <<exit, guard>>
  BY <1>4 DEF Guarded, Contexts
<1> HIDE DEF d
<1>12. d.scope_jmp_stack = Append(Append(gl, exit), guard) /\ Append(gl, exit) \in Seq(ScopeJmps)
  <2>1. c.scope_jmp_stack = gl
    BY <1>4 DEF Alike
  <2> QED
    BY <1>2, <1>7, <1>11, <2>1
<1> HIDE DEF gl
<1>13. KeepsScans
  BY <1>9, <1>10 DEF KeepsScans, Fr
<1>14. Thrown' = Thrown
  <2>1. CodesOf(ctx') = CodesOf(ctx)
    BY <1>1, <1>4, <1>11, CodesStay DEF Alike
  <2>2. pc # "dead" /\ pc' # "dead"
    BY <1>1
  <2> QED
    BY <2>1, <2>2, ThrownIs
<1>15. Grows(blocks, b, blocks') /\ Len(blocks) \in Nat
  BY <1>1, <1>2, <1>6, AppendGrows
<1>16. \A f : StatementsOf(frames', blocks', f) = StatementsOf(frames, blocks, f)
  <2>1. Resume(frames', frames, blocks)
    BY <1>2, <1>13, BlocksOwned, ScansResume
  <2>2. \A f : ~ IsStatement(b, f)
    BY <1>6 DEF IsStatement
  <2> QED
    BY <1>15, <2>1, <2>2, StatementsGrow
<1>17. StatementsOf(frames, blocks, Fr) = << >>
  <2>1. \A i \in 1 .. Len(blocks) : ~ IsStatement(blocks[i], Fr)
    BY <1>3 DEF Owns, IsStatement
  <2> QED
    BY <1>15, <2>1, StatementsNone
<1>18. Registers(gl, ctx'.scope_jmp_stack, Fr, mask)
  <2>1. Registers(Append(gl, exit), Append(Append(gl, exit), guard), Fr, mask)
    BY <1>7, <1>8, <1>12, RegistersPush
  <2>2. \A f : GuardsOf(Append(gl, exit), f) = GuardsOf(gl, f)
    BY <1>2, <1>7, ExitPush
  <2>3. ctx'.scope_jmp_stack = Append(Append(gl, exit), guard)
    BY <1>1, <1>12
  <2> QED
    BY <2>1, <2>2, <2>3 DEF Registers
<1>19. StepsRight
  BY <1>1, <1>8, <1>13, <1>14, <1>16, <1>17, <1>18, Registered DEF gl, KeepsScans
<1>20. Waited'
  <2>1. \A f : HasGuard(ctx.scope_jmp_stack, f) => HasGuard(Append(gl, exit), f)
    BY <1>2, <1>7, HasGuardPush DEF gl
  <2>2. Waits(guard, Fr)
    BY <1>7 DEF Waits
  <2>3. ctx'.scope_jmp_stack = Append(Append(gl, exit), guard)
    BY <1>1, <1>12
  <2>4. \A f : ScopeOpen(blocks', f) => ScopeOpen(blocks, f) \/ f = Fr
    BY <1>6, <1>15, OwnsGrows
  <2> DEFINE hl == Append(gl, exit)
  <2>5. hl \in Seq(ScopeJmps) /\ ctx'.scope_jmp_stack = Append(hl, guard)
        /\ \A f : HasGuard(ctx.scope_jmp_stack, f) => HasGuard(hl, f)
    BY <1>12, <2>1, <2>3
  <2> HIDE DEF hl
  <2> QED
    BY <1>2, <1>7, <1>13, <2>2, <2>4, <2>5, RegisteredWaits
<1> QED
  BY <1>19, <1>20 DEF Well

(* A guard more: AddGuard.                                                 *)
LEMMA NextGuardRefines ==
  ASSUME Good, IInv', NEW mask \in Masks, NextGuard(mask)
  PROVE  Well
<1> DEFINE guard == ScopeJmp(Len(blocks), FALSE, mask)
           d == [ctx EXCEPT !.scope_jmp_stack = Append(@, guard)]
           gl == ctx.scope_jmp_stack
<1>1. /\ pc = "run" /\ (Own => Inside("scope")) /\ frames[Fr].guards_used
      /\ ctx' = d /\ pc' = "run" /\ blocks' = blocks /\ frames' = frames
  BY DEF NextGuard, MayGuard, AtStatement, Me
<1>2. /\ IInv /\ Control /\ Waited /\ Core(frames, Fr, blocks, ctx, "run", 0)
      /\ blocks \in Seq(Blocks) /\ gl \in Seq(ScopeJmps)
      /\ Fr \in Nat \ {0} /\ Fr \in 1 .. Fr /\ ctx \in Contexts
  BY <1>1, FrType, ContextTypes DEF Good, Control, Consistent, IInv
<1>3. Nested(blocks, Fr) /\ ScopesFit(frames, Fr, blocks, "run")
  BY <1>2 DEF Core
<1>4. Owns(blocks, Fr)
  <2>1. FrameFits(frames, Fr, blocks, "run", Fr)
    BY <1>2, <1>3 DEF ScopesFit
  <2>2. ScopeOpen(blocks, Fr)
    BY <1>1, <2>1 DEF FrameFits, Leaves
  <2> QED
    BY <2>2 DEF ScopeOpen, Owns
<1>5. Inside("scope")
  <2>1. ~ Own => ~ Owns(blocks, Fr)
    BY <1>2, <1>3, NotOwning
  <2> QED
    BY <1>1, <1>4, <2>1
<1>6. Len(blocks) > 0 /\ blocks[Len(blocks)].kind = "scope" /\ blocks[Len(blocks)].fr = Fr
  BY <1>2, <1>5, TopOf
<1>7. ScopeTop(blocks, Fr) /\ Len(blocks) \in Nat
  BY <1>2, <1>3, <1>6, OnlyScope
<1>8. guard \in ScopeJmps /\ guard.fr = Fr /\ ~ guard.exit
  BY <1>2, <1>7, ScopeJmpsMade
<1>9. guard.mask = mask /\ mask \in SUBSET {"success", "failure"}
  BY MasksAssumption DEF ScopeJmp
<1> HIDE DEF guard
<1>10. d.exc_nodes = ctx.exc_nodes /\ d.exc_used = ctx.exc_used
       /\ d.scope_jmp_stack = Append(gl, guard)
  BY <1>2 DEF Contexts
<1> HIDE DEF d, gl
<1>11. Thrown' = Thrown
  <2>1. CodesOf(ctx') = CodesOf(ctx)
    BY <1>1, <1>10, CodesStay
  <2>2. pc # "dead" /\ pc' # "dead"
    BY <1>1
  <2> QED
    BY <2>1, <2>2, ThrownIs
<1>12. StatementsOf(frames, blocks, Fr) = << >>
  BY <1>2, <1>7, NoStatementAtScope
<1>13. Registers(gl, ctx'.scope_jmp_stack, Fr, mask)
  BY <1>1, <1>2, <1>8, <1>9, <1>10, RegistersPush
<1>14. Fr' = Fr /\ KeepsScans
  BY <1>1 DEF Fr, KeepsScans
<1>15. StepsRight
  <2>1. \A f : StatementsOf(frames', blocks', f) = StatementsOf(frames, blocks, f)
    BY <1>1
  <2> QED
    BY <1>1, <1>9, <1>11, <1>12, <1>13, <1>14, <2>1, Registered DEF gl
<1>16. Waited'
  <2>1. Waits(guard, Fr)
    BY <1>8 DEF Waits
  <2> QED
    BY <1>1, <1>2, <1>8, <1>10, <1>14, <2>1, RegisteredWaits DEF gl
<1> QED
  BY <1>15, <1>16 DEF Well

-----------------------------------------------------------------------------
(* Guards are run and passed over                                          *)

(* A function scans its guards.                                            *)
LEMMA ScanTop ==
  ASSUME IInv, Control, pc \in Visits
  PROVE  /\ ScopeTop(blocks, Fr) /\ frames[Fr].scope_fn_exit # "none" /\ ctx.live
         /\ GuardsListed(blocks, ctx.scope_jmp_stack, pc)
         /\ blocks \in Seq(Blocks) /\ Len(blocks) \in Nat /\ Fr \in Nat \ {0}
         /\ ctx.scope_jmp_stack \in Seq(ScopeJmps)
<1>1. /\ blocks \in Seq(Blocks) /\ Len(blocks) \in Nat /\ Fr \in Nat \ {0}
      /\ ctx.scope_jmp_stack \in Seq(ScopeJmps)
  BY FrType, ContextTypes DEF IInv
<1>2. Core(frames, Fr, blocks, ctx, pc, 0) /\ Nested(blocks, Fr)
  BY DEF Control, Consistent, Core
<1>3. InItsScope(frames, Fr, blocks, ctx, pc)
  <2> DEFINE k == 0
  <2>1. Core(frames, Fr, blocks, ctx, pc, k)
    BY <1>2
  <2> HIDE DEF k
  <2> QED
    BY ONLY <2>1, pc \in Visits, OpenScope
<1>4. ScopeTop(blocks, Fr)
  BY <1>1, <1>2, <1>3, OnlyScope DEF InItsScope
<1> QED
  BY <1>1, <1>3, <1>4 DEF InItsScope, Stacks

(* While guards are visited, the exit that StructuredExceptions sees is    *)
(* the one that the macros recorded.                                       *)
LEMMA ScanDoing ==
  ASSUME Good, pc \in Visits
  PROVE  /\ Doing \in {"throw", "return"} /\ Me.exit_status = ExitOf(Doing)
         /\ Doing = "return" <=> Me.scope_fn_exit = "return"
<1>1. frames[Fr].scope_fn_exit # "none" /\ Fr \in 1 .. Len(frames)
  BY ScanTop DEF Good, Fr
<1>2. ExitFits(frames[Fr])
  BY <1>1 DEF Good, ExitsFit
<1>3. Doing = IF Me.scope_fn_exit = "return" THEN "return" ELSE "throw"
  BY DEF Doing, Visits
<1> QED
  BY <1>1, <1>2, <1>3 DEF ExitFits, ExitOf, Me

(* Taking a guard of the function that is scanned leaves those of others.  *)
LEMMA VisitWaits ==
  ASSUME Waited, KeepsScans, NEW gs \in Seq(ScopeJmps), NEW g \in ScopeJmps,
         ctx.scope_jmp_stack = Append(gs, g), ctx'.scope_jmp_stack = gs,
         \A f \in 1 .. Fr : frames[f].scope_fn_exit = "none" => ~ Waits(g, f),
         \A f : ScopeOpen(blocks', f) => ScopeOpen(blocks, f)
  PROVE  Waited'
<1>1. ASSUME NEW f \in 1 .. Fr', ScopeOpen(blocks', f), frames'[f].scope_fn_exit = "none"
      PROVE  HasGuard(ctx'.scope_jmp_stack, f)
  <2>1. f \in 1 .. Fr /\ frames[f].scope_fn_exit = "none"
    BY <1>1 DEF KeepsScans
  <2>2. HasGuard(Append(gs, g), f)
    BY <1>1, <2>1 DEF Waited, GuardsWait
  <2>3. HasGuard(gs, f)
    BY <2>1, <2>2, HasGuardPop
  <2> QED
    BY <2>3
<1> QED
  BY <1>1 DEF Waited, GuardsWait

(* The jump to the guard that is visited.                                  *)
VisitedGuard ==
  /\ ctx.scope_jmp_stack = Append(PoppedScope.scope_jmp_stack, Visited)
  /\ PoppedScope.scope_jmp_stack \in Seq(ScopeJmps) /\ Visited \in ScopeJmps
  /\ Visited.fr = Fr /\ VisitFrames = frames /\ VisitBlocks = blocks
  /\ Last(VisitFrames).exit_status = Me.exit_status
  /\ CodesOf(PoppedScope) = CodesOf(ctx)

LEMMA VisitFacts ==
  ASSUME Good, pc = "visit"
  PROVE  VisitedGuard
<1>1. IInv /\ Control
  BY DEF Good
<1>2. VisitsHere
  BY <1>1, VisitDefined
<1>3. ctx.scope_jmp_stack # << >> /\ Visited.fr = Fr /\ VisitFrames = frames /\ VisitBlocks = blocks
  BY <1>2 DEF VisitsHere, VisitIsDefined
<1>4. ctx.scope_jmp_stack \in Seq(ScopeJmps)
  BY <1>1, ContextTypes DEF IInv
<1>5. /\ Front(ctx.scope_jmp_stack) \in Seq(ScopeJmps) /\ Visited \in ScopeJmps
      /\ ctx.scope_jmp_stack = Append(Front(ctx.scope_jmp_stack), Visited)
  BY <1>3, <1>4, FrontLast DEF Visited
<1>6. PoppedScope.scope_jmp_stack = Front(ctx.scope_jmp_stack) /\ CodesOf(PoppedScope) = CodesOf(ctx)
  BY <1>1, PoppedScopeFacts, CodesStay
<1>7. Last(VisitFrames) = Me
  BY <1>3 DEF Last, Me, Fr
<1> QED
  BY <1>3, <1>5, <1>6, <1>7 DEF VisitedGuard

(* What visiting a guard does to the calls.                                *)
LEMMA VisitsLast ==
  ASSUME Good, IInv', pc = "visit", pc' # "dead", Fr' = Fr, ~ Visited.exit,
         ctx'.scope_jmp_stack = PoppedScope.scope_jmp_stack,
         \A f : f # Fr => StatementsOf(frames', blocks', f) = StatementsOf(frames, blocks, f),
         NEW new, StatementsOf(frames', blocks', Fr) = new
  PROVE  VisitsGuard(Calls, Calls', Visited.mask, new)
<1> DEFINE gs == ctx.scope_jmp_stack
           is == PoppedScope.scope_jmp_stack
           mask == Visited.mask
<1>1. /\ Seen(Calls, frames, blocks, gs)
      /\ Seen(Calls', frames', blocks', ctx'.scope_jmp_stack)
  BY CallsSeen DEF Good
<1>2. Seen(Calls', frames', blocks', is)
  BY <1>1
<1>3. Len(frames') = Len(frames) /\ Len(frames) = Fr
  BY DEF Fr
<1>4. gs = Append(is, Visited) /\ is \in Seq(ScopeJmps) /\ Visited \in ScopeJmps /\ Visited.fr = Fr
  BY VisitFacts DEF VisitedGuard
<1>5. mask \in SUBSET {"success", "failure"}
  BY <1>4 DEF ScopeJmps
<1>6. gs \in Seq(ScopeJmps) /\ is \in Seq(ScopeJmps)
  BY <1>4
<1>7. Registers(is, gs, Len(frames), mask)
  BY <1>3, <1>4, RegistersPush
<1>8. StatementsOf(frames, blocks, Len(frames)) = << >>
  <2>1. ScopeTop(blocks, Fr) /\ Len(blocks) \in Nat /\ Fr \in Nat
    BY ScanTop DEF Good, Visits
  <2> QED
    BY <1>3, <2>1, NoStatementAtScope
<1>9. /\ StatementsOf(frames', blocks', Len(frames)) = new
      /\ \A f : f # Len(frames) => StatementsOf(frames', blocks', f) = StatementsOf(frames, blocks, f)
  BY <1>3
<1> HIDE DEF gs, is, mask
<1>10. VisitsGuard(Calls, Calls', mask, new)
  <2>1. Seen(Calls, frames, blocks, gs) /\ Len(frames') = Len(frames)
    BY <1>1, <1>3
  <2>2. SameBelow(frames, blocks, frames', blocks') /\ IsMask(mask)
    BY <1>5, <1>9 DEF SameBelow, IsMask
  <2>3. VisitsGuard(Calls, Calls', mask, StatementsOf(frames', blocks', Len(frames)))
    BY ONLY <1>2, <1>6, <1>7, <1>8, <2>1, <2>2, Visiting
  <2> QED
    BY <1>9, <2>3
<1> QED
  BY <1>10 DEF mask

LEMMA VisitedWaits ==
  ASSUME Good, pc = "visit", KeepsScans, ctx'.scope_jmp_stack = PoppedScope.scope_jmp_stack,
         \A f : ScopeOpen(blocks', f) => ScopeOpen(blocks, f)
  PROVE  Waited'
<1>1. VisitedGuard /\ frames[Fr].scope_fn_exit # "none"
  BY VisitFacts, ScanTop DEF Good, Visits
<1>2. \A f \in 1 .. Fr : frames[f].scope_fn_exit = "none" => ~ Waits(Visited, f)
  BY <1>1 DEF VisitedGuard, Waits
<1> QED
  BY <1>1, <1>2, VisitWaits DEF VisitedGuard, Good

(* The guard runs on this exit: VisitGuard.                                *)
LEMMA RunGuardRefines == ASSUME Good, IInv', RunGuard PROVE Well
<1> DEFINE b == [Block("guard") EXCEPT !.fr = Visited.fr]
           d == [PoppedScope EXCEPT !.exc_jmp_stack = Append(@, Jmp(Visited.at, b))]
           r == Doing
<1>1. /\ pc = "visit" /\ ~ Visited.exit /\ Applies /\ ctx' = d /\ pc' = "run"
      /\ blocks' = Append(VisitBlocks, b) /\ frames' = VisitFrames
  BY DEF RunGuard
<1>2. /\ Visited.fr = Fr /\ frames' = frames /\ blocks' = Append(blocks, b)
      /\ Last(VisitFrames).exit_status = Me.exit_status /\ CodesOf(PoppedScope) = CodesOf(ctx)
  BY <1>1, VisitFacts DEF VisitedGuard
<1>3. IInv /\ Control /\ blocks \in Seq(Blocks) /\ Fr \in Nat \ {0} /\ Len(blocks) \in Nat
  BY FrType DEF Good, IInv
<1>4. b \in Blocks /\ b.kind = "guard" /\ b.fr = Fr
  <2>1. Block("guard") \in Blocks
    BY <1>3, BlockType DEF Kinds, IInv, FramesOK
  <2>2. b = Block("guard")
    BY <1>2 DEF Block
  <2> QED
    BY <2>1, <2>2 DEF Block
<1> HIDE DEF b
<1>5. /\ d.scope_jmp_stack = PoppedScope.scope_jmp_stack
      /\ d.exc_nodes = PoppedScope.exc_nodes /\ d.exc_used = PoppedScope.exc_used
  BY <1>3, PoppedScopeFacts DEF Contexts
<1> HIDE DEF d
<1>6. Fr' = Fr /\ KeepsScans
  BY <1>2 DEF Fr, KeepsScans
<1>7. Thrown' = Thrown
  <2>1. CodesOf(ctx') = CodesOf(ctx)
    BY <1>1, <1>2, <1>5, CodesStay
  <2>2. pc # "dead" /\ pc' # "dead"
    BY <1>1
  <2> QED
    BY <2>1, <2>2, ThrownIs
<1>8. Grows(blocks, b, blocks')
  BY <1>2, <1>3, <1>4, AppendGrows
<1>9. Doing \in {"throw", "return"} /\ Me.exit_status = ExitOf(Doing)
      /\ (Doing = "return" <=> Me.scope_fn_exit = "return")
  BY <1>1, ScanDoing DEF Visits
<1>10. Doing' = "run"
  BY <1>1 DEF Doing
<1>11. StatementOf(frames, b) = [kind |-> "guard", resumes |-> Doing]
  BY <1>4, <1>9 DEF StatementOf, Me
<1>12. /\ \A f : f # Fr => StatementsOf(frames', blocks', f) = StatementsOf(frames, blocks, f)
       /\ StatementsOf(frames', blocks', Fr) = << [kind |-> "guard", resumes |-> Doing] >>
  <2>1. \A f : StatementsOf(frames', blocks', f)
                 = IF IsStatement(b, f) THEN Append(StatementsOf(frames, blocks, f), StatementOf(frames, b))
                   ELSE StatementsOf(frames, blocks, f)
    BY <1>2, <1>3, <1>8, StatementsPush
  <2>2. \A f : IsStatement(b, f) <=> f = Fr
    BY <1>4 DEF IsStatement
  <2>3. StatementsOf(frames, blocks, Fr) = << >>
    <3>1. ScopeTop(blocks, Fr)
      BY <1>1, <1>3, ScanTop DEF Visits
    <3> QED
      BY <1>3, <3>1, NoStatementAtScope
  <2>4. \A x : Append(<< >>, x) = << x >>
    OBVIOUS
  <2> QED
    BY <1>11, <2>1, <2>2, <2>3, <2>4
<1>13. StepsRight
  <2> DEFINE new == << [kind |-> "guard", resumes |-> r] >>
             mask == Visited.mask
  <2>1. ExitOf(Doing) \in mask
    BY <1>1, <1>2, <1>9 DEF Applies
  <2>2. StatementsOf(frames', blocks', Fr) = new
    BY <1>12
  <2>3. pc' # "dead" /\ ctx'.scope_jmp_stack = PoppedScope.scope_jmp_stack
    BY <1>1, <1>5
  <2> HIDE DEF new, mask
  <2>4. VisitsGuard(Calls, Calls', mask, new)
    BY <1>1, <1>6, <1>12, <2>2, <2>3, VisitsLast DEF mask
  <2> QED
    BY <1>7, <1>9, <1>10, <2>1, <2>4, IsRunGuard DEF new, VisitsGuard, Without
<1>14. Waited'
  <2>1. \A f : ScopeOpen(blocks', f) => ScopeOpen(blocks, f)
    BY <1>4, <1>8, OpensNoScope
  <2> QED
    BY <1>1, <1>5, <1>6, <2>1, VisitedWaits
<1> QED
  BY <1>13, <1>14 DEF Well

(* The guard is for the other exit: VisitGuard without a body.             *)
LEMMA PassGuardRefines == ASSUME Good, IInv', PassGuard PROVE Well
<1>1. /\ pc = "visit" /\ ~ Visited.exit /\ ~ Applies /\ ctx' = PoppedScope /\ pc' = "visit"
      /\ blocks' = VisitBlocks /\ frames' = VisitFrames
  BY DEF PassGuard
<1>2. /\ frames' = frames /\ blocks' = blocks
      /\ Last(VisitFrames).exit_status = Me.exit_status /\ CodesOf(PoppedScope) = CodesOf(ctx)
  BY <1>1, VisitFacts DEF VisitedGuard
<1>3. IInv /\ Control /\ Fr \in Nat \ {0}
  BY FrType DEF Good, IInv
<1>4. Fr' = Fr /\ KeepsScans /\ Me' = Me
  BY <1>2 DEF Fr, KeepsScans, Me
<1>5. Thrown' = Thrown
  <2>1. pc # "dead" /\ pc' # "dead" /\ CodesOf(ctx') = CodesOf(ctx)
    BY <1>1, <1>2
  <2> QED
    BY <2>1, ThrownIs
<1>6. Doing \in {"throw", "return"} /\ Me.exit_status = ExitOf(Doing)
  BY <1>1, ScanDoing DEF Visits
<1>7. Doing' = Doing
  BY <1>1, <1>4 DEF Doing
<1>8. StepsRight
  <2> DEFINE new == << >>
             mask == Visited.mask
  <2>1. ExitOf(Doing) \notin mask
    BY <1>1, <1>2, <1>6 DEF Applies
  <2>2. StatementsOf(frames', blocks', Fr) = new
    <3>1. ScopeTop(blocks, Fr) /\ Len(blocks) \in Nat
      BY <1>1, <1>3, ScanTop DEF Visits
    <3>2. StatementsOf(frames, blocks, Fr) = << >>
      BY <1>3, <3>1, NoStatementAtScope
    <3> QED
      BY <1>2, <3>2
  <2>3. /\ pc' # "dead" /\ ctx'.scope_jmp_stack = PoppedScope.scope_jmp_stack
        /\ \A f : f # Fr => StatementsOf(frames', blocks', f) = StatementsOf(frames, blocks, f)
    BY <1>1, <1>2
  <2> HIDE DEF new, mask
  <2>4. VisitsGuard(Calls, Calls', mask, new)
    BY <1>1, <1>4, <2>2, <2>3, VisitsLast DEF mask
  <2> QED
    BY <1>5, <1>6, <1>7, <2>1, <2>4, IsPassGuard DEF new, VisitsGuard, Without
<1>9. Waited'
  <2>1. ctx'.scope_jmp_stack = PoppedScope.scope_jmp_stack
    BY <1>1
  <2> QED
    BY <1>1, <1>2, <1>4, <2>1, VisitedWaits
<1> QED
  BY <1>8, <1>9 DEF Well

(* The scan meets its exit: nothing is shown.                              *)
LEMMA EndVisitRefines == ASSUME Good, IInv', EndVisit PROVE Well
<1>1. pc = "visit" /\ VisitsHere
  BY VisitDefined DEF EndVisit, Good
<1>2. /\ Visited.exit /\ ctx' = PoppedScope /\ frames' = frames /\ blocks' = blocks
      /\ pc' = "visited"
  BY <1>1 DEF EndVisit, VisitsHere
<1>3. VisitedGuard
  BY <1>1, VisitFacts
<1>4. Fr' = Fr /\ KeepsScans /\ Me' = Me
  BY <1>2 DEF Fr, KeepsScans, Me
<1>5. Thrown' = Thrown
  <2>1. pc # "dead" /\ pc' # "dead" /\ CodesOf(ctx') = CodesOf(ctx)
    BY <1>1, <1>2, <1>3 DEF VisitedGuard
  <2> QED
    BY <2>1, ThrownIs
<1>6. Doing' = Doing
  BY <1>1, <1>2, <1>4 DEF Doing
<1>7. Calls' = Calls
  <2>1. /\ Seen(Calls, frames, blocks, ctx.scope_jmp_stack)
        /\ Seen(Calls', frames', blocks', ctx'.scope_jmp_stack)
    BY <1>1, <1>2, CallsSeen DEF Good
  <2>2. \A f : GuardsOf(ctx'.scope_jmp_stack, f) = GuardsOf(ctx.scope_jmp_stack, f)
    BY <1>2, <1>3, ExitPush DEF VisitedGuard
  <2>3. Len(frames') = Len(frames)
        /\ \A f : StatementsOf(frames', blocks', f) = StatementsOf(frames, blocks, f)
    BY <1>2
  <2> QED
    BY <2>1, <2>2, <2>3, SameCalls
<1>8. Waited'
  <2>1. ctx'.scope_jmp_stack = PoppedScope.scope_jmp_stack
    BY <1>2
  <2> QED
    BY <1>1, <1>2, <1>4, <2>1, VisitedWaits
<1> QED
  BY <1>5, <1>6, <1>7, <1>8, IsStutter DEF Well, Stays

(* The guard's body ends and the scan goes on: EndGuard.                   *)
LEMMA EndGuardRefines == ASSUME Good, IInv', sEND_SCOPE_GUARD PROVE Well
<1> DEFINE d == [ctx EXCEPT !.exc_jmp_stack = Front(@)]
           bs == Front(blocks)
           b == Last(blocks)
<1>1. /\ pc = "run" /\ Inside("guard") /\ ctx' = d /\ blocks' = bs /\ pc' = "visit"
      /\ frames' = frames
  BY DEF sEND_SCOPE_GUARD
<1>2. IInv /\ Control /\ ctx \in Contexts
  BY DEF Good, IInv
<1>3. /\ bs \in Seq(Blocks) /\ b \in Blocks /\ b.kind = "guard" /\ b.fr = Fr
      /\ blocks = Append(bs, b)
  BY <1>1, <1>2, TopOf
<1> HIDE DEF bs, b
<1>4. Alike(ctx, ctx')
  <2>1. d.scope_jmp_stack = ctx.scope_jmp_stack /\ d.exc_nodes = ctx.exc_nodes /\ d.exc_used = ctx.exc_used
    BY <1>2 DEF Contexts
  <2> HIDE DEF d
  <2> QED
    BY <1>1, <2>1, CodesStay DEF Alike
<1>5. Fr' = Fr /\ KeepsScans /\ Me' = Me
  BY <1>1 DEF Fr, KeepsScans, Me
<1>6. Alive
  BY <1>1, <1>4, <1>5 DEF Alive, Alike
<1>7. Grows(blocks', b, blocks)
  BY <1>1, <1>3, AppendGrows
<1>8. StepsRight
  <2>1. IsStatement(b, Fr) /\ Resume(frames, frames', blocks')
    BY <1>1, <1>3 DEF IsStatement, Resume
  <2>2. Ends(Calls, Calls', StatementOf(frames, b))
    BY <1>3, <1>6, <1>7, <2>1, Closes
  <2>3. StatementOf(frames, b) = [kind |-> "guard", resumes |-> Doing']
    BY <1>1, <1>3, <1>5 DEF StatementOf, Doing, Me
  <2>4. Thrown' = Thrown
    <3>1. pc # "dead" /\ pc' # "dead"
      BY <1>1
    <3> QED
      BY <1>4, <3>1, ThrownStays
  <2>5. Doing = "run"
    BY <1>1 DEF Doing
  <2> QED
    BY <2>2, <2>3, <2>4, <2>5, IsEndGuard
<1> QED
  BY <1>5, <1>6, <1>7, <1>8, ClosesNoScope, WaitsWell

-----------------------------------------------------------------------------
(* The last guard has been visited                                         *)

(* A construct that is no statement is closed.                             *)
LEMMA SeenSilently ==
  ASSUME NEW cs, NEW fs, NEW bs, NEW b, NEW ks, NEW gs, Seen(cs, fs, ks, gs), Grows(bs, b, ks),
         b.kind \notin {"try", "catch", "guard"}
  PROVE  Seen(cs, fs, bs, gs)
<1>1. Len(bs) \in Nat
  BY DEF Grows
<1>2. \A f : ~ IsStatement(b, f)
  BY DEF IsStatement
<1>3. ASSUME NEW f
      PROVE  StatementsOf(fs, ks, f) = StatementsOf(fs, bs, f)
  <2>1. Resume(fs, fs, bs)
    BY DEF Resume
  <2> QED
    BY <1>2, <2>1, StatementsGrow
<1> QED
  BY <1>1, <1>3 DEF Seen

(* The scan ends: the function has returned (Returned), or the throw goes  *)
(* on from it.                                                             *)
LEMMA EndScanRefines == ASSUME Good, IInv', EndScan PROVE Well
<1> DEFINE c == [ctx EXCEPT !.exc_jmp_stack = Front(@)]
           hs == [frames EXCEPT ![Fr].scope_fn_exit = "none"]
           bs == Front(blocks)
           b == Last(blocks)
           target == frames[Fr].scope_fn_exit
           gl == ctx.scope_jmp_stack
<1>1. /\ pc = "visited" /\ ctx' = Left(c) /\ blocks' = bs
      /\ frames' = IF target = "return" THEN Front(LeftFrames(hs, c)) ELSE LeftFrames(hs, c)
      /\ pc' = CASE target = "return" -> "run"
                 [] target = "throw"  -> "propagate"
                 [] OTHER             -> "leaving"
  BY DEF EndScan, Me
<1>2. /\ IInv /\ Control /\ ctx \in Contexts /\ ctx.entry_check_count > 1
      /\ frames \in Seq(Frames) /\ Fr = Len(frames)
  BY EndScanControl, FrType DEF Good, IInv
<1>3. /\ ScopeTop(blocks, Fr) /\ target # "none"
      /\ GuardsListed(blocks, gl, "visited") /\ gl \in Seq(ScopeJmps)
      /\ blocks \in Seq(Blocks) /\ Len(blocks) \in Nat /\ Fr \in Nat \ {0}
  BY <1>1, <1>2, ScanTop DEF Visits
<1>4. target \in {"return", "throw", "scope"}
  <2>1. frames[Fr] \in Frames
    BY <1>2, <1>3
  <2> QED
    BY <1>3, <2>1 DEF Frames
<1>5. /\ bs \in Seq(Blocks) /\ b \in Blocks /\ blocks = Append(bs, b)
      /\ b.kind = "scope" /\ b.fr = Fr
  <2>1. blocks # << >> /\ blocks[Len(blocks)].kind = "scope" /\ blocks[Len(blocks)].fr = Fr
    BY <1>3 DEF ScopeTop
  <2> QED
    BY <1>3, <2>1, FrontLast
<1>6. hs \in Seq(Frames) /\ Len(hs) = Fr /\ ScanEnded(frames, hs, Fr)
  BY <1>2, <1>3, ScanEndedFacts
<1>7. /\ \A f \in 1 .. Fr - 1 : hs[f].scope_fn_exit = frames[f].scope_fn_exit
      /\ hs[Fr].scope_fn_exit = "none"
  BY <1>6 DEF ScanEnded
<1>8. /\ c.scope_jmp_stack = gl /\ c.exc_nodes = ctx.exc_nodes /\ c.exc_used = ctx.exc_used
      /\ c.entry_check_count = ctx.entry_check_count /\ c \in Contexts
  BY <1>2, PoppedType DEF Contexts
<1> HIDE DEF c, hs, bs, b
<1>9. c.entry_check_count # 1
  BY <1>2, <1>8
<1>10. LeftFrames(hs, c) = hs
  BY <1>9 DEF LeftFrames
<1>11. Alike(ctx, ctx')
  <2>1. ctx' = [c EXCEPT !.entry_check_count = c.entry_check_count - 1]
    BY <1>1, <1>9 DEF Left
  <2>2. c.entry_check_count - 1 \in Int
    BY <1>8, ContextTypes
  <2>3. SameBut(c, ctx')
    BY <1>8, <2>1, <2>2, CountIs
  <2>4. ctx'.scope_jmp_stack = c.scope_jmp_stack /\ CodesOf(ctx') = CodesOf(c)
    BY <2>3, CodesStay DEF SameBut, SameStacks
  <2>5. CodesOf(c) = CodesOf(ctx)
    BY <1>8, CodesStay
  <2> QED
    BY <1>8, <2>4, <2>5 DEF Alike
<1>12. Thrown' = Thrown
  <2>1. pc # "dead" /\ pc' # "dead"
    BY <1>1
  <2> QED
    BY <1>11, <2>1, ThrownStays
<1>13. Grows(blocks', b, blocks) /\ Len(blocks') \in Nat
  <2>1. Grows(blocks', b, blocks)
    BY <1>1, <1>5, AppendGrows
  <2> QED
    BY <2>1 DEF Grows
<1>14. \A i \in 1 .. Len(blocks') : blocks'[i].fr \in 1 .. Fr - 1
  <2>1. \A i \in 1 .. Len(blocks') : i \in 1 .. Len(blocks) - 1 /\ blocks[i] = blocks'[i]
    BY <1>13 DEF Grows
  <2> QED
    BY <1>3, <2>1 DEF ScopeTop
<1>15. /\ \A f : ScopeOpen(blocks', f) => ScopeOpen(blocks, f)
       /\ \A f : ScopeOpen(blocks', f) => f \in 1 .. Fr - 1
  BY <1>13, <1>14, ClosesNoScope DEF ScopeOpen
<1>16. /\ Seen(Calls, frames, blocks, gl) /\ Seen(Calls', frames', blocks', gl)
  <2>1. pc # "dead" /\ pc' # "dead"
    BY <1>1
  <2>2. /\ Seen(Calls, frames, blocks, gl) /\ Seen(Calls', frames', blocks', ctx'.scope_jmp_stack)
    BY <1>2, <2>1, CallsSeen
  <2> QED
    BY <1>11, <2>2 DEF Alike
<1>17. CASE target = "return"
  <2>1. frames' = SubSeq(hs, 1, Fr - 1) /\ pc' = "run"
    <3>1. frames' = Front(hs) /\ pc' = "run"
      BY <1>1, <1>10, <1>17
    <3> QED
      BY <1>6, <3>1 DEF Front
  <2>2. Fr - 1 \in 0 .. Len(hs)
    BY <1>3, <1>6
  <2>3. Len(frames') = Fr - 1 /\ \A f \in 1 .. Fr - 1 : frames'[f] = hs[f]
    BY <1>6, <2>1, <2>2, PrefixType
  <2>4. Fr' = Fr - 1
    BY <2>3 DEF Fr
  <2>5. \A f \in 1 .. Fr - 1 : frames'[f].scope_fn_exit = frames[f].scope_fn_exit
    BY <1>7, <2>3
  <2>6. Resume(frames, frames', blocks')
    BY <1>14, <2>5 DEF Resume
  <2>7. Within(blocks', gl, Len(frames'))
    <3>1. ASSUME NEW k \in 1 .. Len(gl)
          PROVE  gl[k].fr <= Fr - 1
      <4> DEFINE i == gl[k].at
      <4>1. i \in 1 .. Len(blocks) /\ blocks[i].fr = gl[k].fr /\ i < Len(blocks)
        BY <1>3, <3>1 DEF GuardsListed, InScope
      <4>2. i \in 1 .. Len(blocks) - 1
        BY <1>3, <4>1
      <4>3. blocks[i].fr \in 1 .. Fr - 1
        BY <1>3, <4>2 DEF ScopeTop
      <4> QED
        BY <1>3, <4>1, <4>3
    <3> QED
      BY <1>3, <1>14, <2>3, <3>1 DEF Within
  <2>8. Seen(Calls, frames, blocks', gl)
    BY <1>5, <1>13, <1>16, SeenSilently
  <2>9. /\ Calls' = SubSeq(Calls, 1, Len(frames'))
        /\ \A f \in Len(frames') + 1 .. Len(Calls) : Calls[f] = Clean
    <3>1. Len(frames') <= Len(frames)
      BY <1>2, <1>3, <2>3
    <3> HIDE DEF gl
    <3> QED
      BY <1>3, <1>16, <2>6, <2>7, <2>8, <3>1, Cutting
  <2>10. Calls' = SubSeq(Calls, 1, Len(Calls) - 1) /\ Calls[Len(Calls)] = Clean
    <3>1. Len(Calls) = Fr
      BY <1>2, <1>16, TopCall
    <3>2. Len(Calls) \in Len(frames') + 1 .. Len(Calls)
      BY <1>3, <2>3, <3>1
    <3> QED
      BY <2>3, <2>9, <3>1, <3>2
  <2>11. Inner(Calls) = << >> /\ Rest(Calls) = << >>
    BY <2>10 DEF Inner, Rest, Clean
  <2>12. Doing = "return" /\ Doing' = "run"
    BY <1>1, <1>17, <2>1 DEF Doing, Me
  <2>13. StepsRight
    BY <1>12, <2>10, <2>11, <2>12, IsReturned
  <2>14. NoScopeOpens
    BY <1>3, <1>15, <2>4, <2>5 DEF NoScopeOpens
  <2> QED
    BY <1>11, <2>13, <2>14, WaitsOn DEF Well, Good, Alike
<1>18. CASE target # "return"
  <2>1. frames' = hs /\ pc' \in {"propagate", "leaving"}
    BY <1>1, <1>4, <1>10, <1>18
  <2>2. Fr' = Fr /\ Len(frames') = Len(frames)
    BY <1>2, <1>6, <2>1 DEF Fr
  <2>3. \A f \in 1 .. Fr - 1 : frames'[f].scope_fn_exit = frames[f].scope_fn_exit
    BY <1>7, <2>1
  <2>4. Resume(frames, frames', blocks')
    BY <1>14, <2>3 DEF Resume
  <2>5. Calls' = Calls
    BY <1>5, <1>13, <1>16, <2>2, <2>4, SameCallsShrink
  <2>6. Doing = "throw" /\ Doing' = "throw"
    BY <1>1, <1>18, <2>1 DEF Doing, Me
  <2>7. StepsRight
    BY <1>12, <2>5, <2>6, IsStutter DEF Stays
  <2>8. NoScopeOpens
    BY <1>3, <1>15, <2>2, <2>3 DEF NoScopeOpens
  <2> QED
    BY <1>11, <2>7, <2>8, WaitsOn DEF Well, Good, Alike
<1> QED
  BY <1>17, <1>18

-----------------------------------------------------------------------------
(* The inductive invariant, and the refinement                             *)

(* On top of CInv: what a scan has recorded of its exit, and that a scope  *)
(* that is open and not scanned has a guard.                               *)
MInv ==
  /\ CInv
  /\ ExitsFit(frames)
  /\ pc # "dead" => Waited

(* The program's own steps, and those of the macros save the two that stop *)
(* the program.                                                            *)
LEMMA ProgramRefines ==
  ASSUME PlainUses, Good, IInv', Program
  PROVE  Well
<1>1. Control'
  BY ProgramControl DEF Good
<1>2. CASE Call
  BY <1>2, CallRefines
<1>3. CASE Return
  BY <1>1, <1>3, ReturnRefines
<1>4. CASE sTRACE
  BY <1>4, TraceRefines
<1>5. CASE sTRACE_End
  BY <1>1, <1>5, TraceEndRefines
<1>6. ASSUME NEW catches \in CatchLists, sTRY(catches)
      PROVE  Well
  BY <1>6, TryRefines
<1>7. CASE EndOfTry
  BY <1>1, <1>7, EndOfTryRefines
<1>8. CASE EndOfCatch
  BY <1>1, <1>8, EndOfCatchRefines
<1>9. CASE BreakOut
  BY <1>1, <1>9, BreakOutRefines
<1>10. ASSUME NEW code \in ThrowCodes, sTHROW(code)
       PROVE  Well
  BY <1>1, <1>10, ThrowRefines
<1>11. CASE SKIT_THROW_EXCEPTION
  BY <1>1, <1>11, RethrowRefines
<1>12. ASSUME NEW mask \in Masks, FirstGuard(mask)
       PROVE  Well
  BY <1>12, FirstGuardRefines
<1>13. ASSUME NEW mask \in Masks, NextGuard(mask)
       PROVE  Well
  BY <1>13, NextGuardRefines
<1>14. CASE sEND_SCOPE_GUARD
  BY <1>14, EndGuardRefines
<1> QED
  BY <1>2, <1>3, <1>4, <1>5, <1>6, <1>7, <1>8, <1>9, <1>10, <1>11, <1>12, <1>13, <1>14 DEF Program

LEMMA MachineRefines ==
  ASSUME PlainUses, Good, IInv', Machine, ~ LandAtBottom, ~ LandInGuard
  PROVE  Well
<1>1. Control'
  BY MachineControl DEF Good
<1>2. CASE ThrowBreak
  BY <1>1, <1>2, ThrowBreakRefines
<1>3. CASE skit_propogate_exceptions
  BY <1>3, PropagateRefines
<1>4. CASE LandInTrace
  BY <1>1, <1>4, InTraceRefines
<1>5. CASE sCATCH
  BY <1>5, CatchRefines
<1>6. CASE LandInTryUnhandled
  BY <1>1, <1>6, UnhandledRefines
<1>7. CASE LandInCatch
  BY <1>1, <1>7, InCatchRefines
<1>8. CASE LandInScope
  BY <1>1, <1>8, InScopeRefines
<1>9. CASE LeaveScope
  BY <1>9, LeaveScopeRefines
<1>10. CASE RunGuard
  BY <1>10, RunGuardRefines
<1>11. CASE PassGuard
  BY <1>11, PassGuardRefines
<1>12. CASE EndVisit
  BY <1>12, EndVisitRefines
<1>13. CASE EndScan
  BY <1>13, EndScanRefines
<1> QED
  BY <1>2, <1>3, <1>4, <1>5, <1>6, <1>7, <1>8, <1>9, <1>10, <1>11, <1>12, <1>13 DEF Machine

(* Nothing happens: nothing is seen to happen.                             *)
LEMMA StandingStill ==
  ASSUME UNCHANGED vars
  PROVE  StepsRight /\ (Waited => Waited')
<1>1. frames' = frames /\ blocks' = blocks /\ ctx' = ctx /\ pc' = pc
  BY DEF vars
<1>2. Fr' = Fr
  BY <1>1 DEF Fr
<1>3. Me' = Me
  BY <1>1, <1>2 DEF Me
<1>4. \A fr : CallOf(fr)' = CallOf(fr)
  BY <1>1 DEF CallOf
<1>5. Calls' = Calls
  BY <1>1, <1>4, Zenon DEF Calls
<1>6. Thrown' = Thrown
  BY <1>1 DEF Thrown
<1>7. Doing' = Doing
  BY <1>1, <1>3 DEF Doing
<1>8. StepsRight
  BY <1>5, <1>6, <1>7, IsStutter DEF Stays
<1> QED
  BY <1>1, <1>2, <1>8 DEF Waited

(* The invariant is inductive, and a step from it shows a step.            *)
LEMMA MInvStep ==
  ASSUME PlainUses, MInv, [Next]_vars
  PROVE  StepsRight /\ MInv'
<1>1. CInv' /\ IInv' /\ ExitsFit(frames') /\ IInv
  BY CInvInductive, ExitsStep DEF MInv, CInv
<1>2. pc # "dead" => Good
  BY DEF MInv, CInv, Good
<1>3. CASE UNCHANGED vars
  <2>1. pc' = pc
    BY <1>3 DEF vars
  <2> QED
    BY <1>1, <1>3, <2>1, StandingStill DEF MInv
<1>4. CASE pc = "dead"
  BY <1>3, <1>4, DeadStops
<1>5. CASE pc # "dead" /\ Program
  BY <1>1, <1>2, <1>5, ProgramRefines DEF MInv, Well
<1>6. CASE pc # "dead" /\ LandAtBottom
  <2>1. pc' = "dead"
    BY <1>6 DEF LandAtBottom
  <2> QED
    BY <1>1, <1>2, <1>6, <2>1, AtBottomRefines DEF MInv
<1>7. CASE pc # "dead" /\ LandInGuard
  <2>1. pc' = "dead"
    BY <1>7 DEF LandInGuard
  <2> QED
    BY <1>1, <1>2, <1>7, <2>1, InGuardRefines DEF MInv
<1>8. CASE pc # "dead" /\ Machine /\ ~ LandAtBottom /\ ~ LandInGuard
  BY <1>1, <1>2, <1>8, MachineRefines DEF MInv, Well
<1> QED
  BY <1>3, <1>4, <1>5, <1>6, <1>7, <1>8 DEF Next

LEMMA MInvInit == Init => MInv /\ Structured!Init
<1> SUFFICES ASSUME Init
             PROVE  MInv /\ Structured!Init
  OBVIOUS
<1>1. /\ frames = <<NewFrame("null")>> /\ blocks = << >> /\ ctx = NoContext /\ pc = "run"
  BY DEF Init
<1>2. CInv
  BY InitControl
<1>3. FramesOK(frames) /\ frames \in Seq(Frames) /\ Len(frames) = 1 /\ Fr = 1
  <2>1. Len(frames) = 1
    BY <1>1
  <2> QED
    BY <1>2, <2>1 DEF CInv, IInv, Fr, FramesOK
<1>4. ExitsFit(frames)
  <2>1. frames[1].scope_fn_exit = "none"
    BY <1>1 DEF NewFrame
  <2>2. \A f \in 1 .. Len(frames) : f = 1
    BY <1>3
  <2> QED
    BY <1>3, <2>1, <2>2 DEF ExitsFit, ExitFits
<1>5. Waited
  <2>1. \A f : ~ ScopeOpen(blocks, f)
    BY <1>1 DEF ScopeOpen
  <2> QED
    BY <2>1 DEF Waited, GuardsWait
<1>6. Len(blocks) = 0 /\ ctx.scope_jmp_stack = << >> /\ ctx.exc_used = 0
  BY <1>1 DEF NoContext, NewContext
<1>7. CallOf(1) = Clean
  <2>1. StatementsOf(frames, blocks, 1) = << >>
    BY <1>6, StatementsNone
  <2>2. GuardsOf(ctx.scope_jmp_stack, 1) = << >>
    BY <1>6, GuardsOfNone
  <2> QED
    BY <2>1, <2>2 DEF CallOf, Clean
<1>8. Calls = <<Clean>>
  <2>1. Calls = [fr \in DOMAIN frames |-> CallOf(fr)]
    BY <1>1 DEF Calls
  <2>2. DOMAIN frames = {1}
    BY <1>3
  <2>3. Calls = [fr \in {1} |-> Clean]
    BY <1>7, <2>1, <2>2
  <2> QED
    BY <2>3
<1>9. Thrown = << >>
  BY <1>1, <1>6 DEF Thrown
<1>10. Doing = "run"
  BY <1>1 DEF Doing
<1>11. Structured!Init
  BY <1>8, <1>9, <1>10 DEF Structured!Init, Structured!NewCall, Clean
<1> QED
  BY <1>1, <1>2, <1>4, <1>5, <1>11 DEF MInv

(* For every program of the plain uses, with any number of functions,      *)
(* constructs, guards and exceptions, any codes and any catch lists, the   *)
(* macros do what StructuredExceptions says: a throw ends in the innermost *)
(* sCATCH that matches, with the code that was thrown; every guard of      *)
(* every function that is left runs once, the last first, on the exits it  *)
(* is for; and a return goes on where it was called.                       *)
THEOREM StructuredlyThrown == PlainUses => (Spec => ImplementsStructuredExceptions)
<1> SUFFICES ASSUME PlainUses
             PROVE  Spec => ImplementsStructuredExceptions
  OBVIOUS
<1>1. Init => MInv /\ Structured!Init
  BY MInvInit
<1>2. MInv /\ [Next]_vars => MInv'
  BY MInvStep
<1>3. MInv /\ [Next]_vars => [Structured!Next]_<<Calls, Thrown, Doing>>
  BY MInvStep DEF StepsRight
<1> QED
  BY <1>1, <1>2, <1>3, PTL DEF Spec, ImplementsStructuredExceptions, Structured!Spec, Structured!vars
=============================================================================
