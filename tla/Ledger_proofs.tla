---------------------------- MODULE Ledger_proofs ----------------------------
(***************************************************************************)
(* What the sums over the books are, for any lines: the totals per account,  *)
(* per class, per month and per IVA regime are the totals of the lines, the  *)
(* balance sheet closes exactly when the entries do, and the cash flow and   *)
(* the changes in equity explain what their method can explain.              *)
(*                                                                         *)
(* A sum is a fold over a finite set, a recursive function under a CHOOSE.   *)
(* That such a function exists and is unique is shown first, by taking the   *)
(* smallest set where it would fail; every other fact about sums follows by  *)
(* the induction of InduccionFinita.                                         *)
(***************************************************************************)
EXTENDS Ledger, FiniteSetTheorems, TLAPS

(* Least and greatest elements, which the lookups take. *)

(* A non-empty set of natural numbers has a least element: the intervals below
   its elements are finite sets, which strict inclusion orders well. *)
LEMMA Minimo ==
  ASSUME NEW T, T \subseteq Nat, T # {}
  PROVE  \E x \in T : \A y \in T : x <= y
<1> DEFINE U == {0..(n - 1) : n \in T}
<1>1. U \subseteq FiniteSubsetsOf(Int) /\ U # {}
  <2>1. ASSUME NEW n \in T
        PROVE  0..(n - 1) \in FiniteSubsetsOf(Int)
    <3>1. n - 1 \in Int /\ 0 \in Int
      OBVIOUS
    <3>2. IsFiniteSet(0..(n - 1))
      BY <3>1, FS_Interval
    <3> QED BY <3>2 DEF FiniteSubsetsOf
  <2> QED BY <2>1
<1>2. PICK V \in U : \A W \in U : <<W, V>> \notin StrictSubsetOrdering(Int)
  <2> HIDE DEF U
  <2> QED BY <1>1, FS_StrictSubsetOrderingWellFounded, WFMin
<1>3. PICK x \in T : V = 0..(x - 1)
  OBVIOUS
<1>4. ASSUME NEW y \in T, y < x
      PROVE  FALSE
  <2>1. 0..(y - 1) \subseteq 0..(x - 1) /\ y \in 0..(x - 1) /\ y \notin 0..(y - 1) /\ 0..(x - 1) \subseteq Int
    BY <1>4
  <2>2. 0..(y - 1) # 0..(x - 1)
    BY <2>1
  <2>3. <<0..(y - 1), V>> \in StrictSubsetOrdering(Int)
    BY <2>1, <2>2, <1>3 DEF StrictSubsetOrdering
  <2> QED BY <2>3, <1>2
<1> QED BY <1>4

(* One that is bounded has a greatest element. *)
LEMMA Maximo ==
  ASSUME NEW T, T \subseteq Nat, T # {}, NEW n \in Nat, \A x \in T : x <= n
  PROVE  \E x \in T : \A y \in T : y <= x
<1> DEFINE R == {n - x : x \in T}
<1>1. R \subseteq Nat /\ R # {}
  <2>1. \A x \in T : n - x \in Nat
    OBVIOUS
  <2> QED BY <2>1
<1>2. PICK m \in R : \A k \in R : m <= k
  <2> HIDE DEF R
  <2> QED BY <1>1, Minimo
<1>3. PICK x \in T : m = n - x
  OBVIOUS
<1>4. ASSUME NEW y \in T
      PROVE  y <= x
  <2>1. n - x <= n - y
    BY <1>2, <1>3
  <2> QED BY <2>1
<1> QED BY <1>4
----------------------------------------------------------------------------
(* Sums *)

(* Induction over a finite set, for what a set of its subsets can express: a
   family that holds the empty set, and with a set also what one more element
   makes of it, holds the whole. *)
LEMMA InduccionFinita ==
  ASSUME NEW S, IsFiniteSet(S), NEW B, {} \in B,
         \A A \in SUBSET S : \A x \in S \ A : A \in B => A \cup {x} \in B
  PROVE  S \in B
<1> DEFINE U == (SUBSET S) \ B
<1>1. SUFFICES ASSUME S \notin B
               PROVE  FALSE
  OBVIOUS
<1>2. U \subseteq FiniteSubsetsOf(S) /\ U # {}
  BY <1>1, FS_Subset DEF FiniteSubsetsOf
<1>3. PICK V \in U : \A W \in U : <<W, V>> \notin StrictSubsetOrdering(S)
  <2> HIDE DEF U
  <2> QED BY <1>2, FS_StrictSubsetOrderingWellFounded, WFMin
<1>4. PICK x \in V : TRUE
  OBVIOUS
<1>5. V \ {x} \notin U
  BY <1>3, <1>4 DEF StrictSubsetOrdering
<1>6. (V \ {x}) \cup {x} = V /\ x \in S \ (V \ {x}) /\ V \ {x} \in SUBSET S
  BY <1>4
<1> QED BY <1>5, <1>6

(* The equation of the recursive function behind a sum. *)
Elegido(s) == CHOOSE x \in s : TRUE
EsAcumulada(g, F, S) ==
  g = [s \in SUBSET S |-> IF s = {} THEN 0 ELSE F[Elegido(s)] + g[s \ {Elegido(s)}]]

Resto(s) == s \ {Elegido(s)}

LEMMA ElegidoEsta == \A s : s # {} => Elegido(s) \in s
  BY DEF Elegido

LEMMA AcumuladaEn ==
  ASSUME NEW F, NEW S, NEW g, EsAcumulada(g, F, S)
  PROVE  /\ \A s \in SUBSET S : s # {} => g[s] = F[Elegido(s)] + g[Resto(s)]
         /\ g[{}] = 0
<1> DEFINE h == [s \in SUBSET S |-> IF s = {} THEN 0 ELSE F[Elegido(s)] + g[s \ {Elegido(s)}]]
<1>1. g = h
  BY DEF EsAcumulada
<1>2. \A s \in SUBSET S : h[s] = IF s = {} THEN 0 ELSE F[Elegido(s)] + g[Resto(s)]
  BY DEF Resto
<1> HIDE DEF h
<1> QED BY <1>1, <1>2

LEMMA AcumuladaUnica ==
  ASSUME NEW F, NEW G, NEW S, NEW T, IsFiniteSet(S), S \subseteq T,
         \A x \in S : F[x] = G[x],
         NEW g, NEW h, EsAcumulada(g, F, S), EsAcumulada(h, G, T)
  PROVE  \A s \in SUBSET S : g[s] = h[s]
<1>0. \A s \in SUBSET T : s # {} => h[s] = G[Elegido(s)] + h[Resto(s)]
  BY AcumuladaEn
<1> DEFINE U == {s \in SUBSET S : g[s] # h[s]}
<1>1. SUFFICES ASSUME U # {}
               PROVE  FALSE
  OBVIOUS
<1>2. U \subseteq FiniteSubsetsOf(S)
  BY FS_Subset DEF FiniteSubsetsOf
<1>3. PICK V \in U : \A W \in U : <<W, V>> \notin StrictSubsetOrdering(S)
  <2> HIDE DEF U
  <2> QED BY <1>1, <1>2, FS_StrictSubsetOrderingWellFounded, WFMin
<1>4. V # {}
  BY AcumuladaEn
<1>5. Elegido(V) \in V /\ V \in SUBSET S
  BY <1>4, ElegidoEsta
<1>6. V \ {Elegido(V)} \notin U
  BY <1>3, <1>5 DEF StrictSubsetOrdering
<1>7. g[V \ {Elegido(V)}] = h[V \ {Elegido(V)}]
  BY <1>5, <1>6
<1>8. F[Elegido(V)] = G[Elegido(V)]
  BY <1>5
<1> HIDE DEF U
<1>9. g[V] = F[Elegido(V)] + g[Resto(V)]
  BY <1>4, <1>5, AcumuladaEn
<1>10. h[V] = G[Elegido(V)] + h[Resto(V)]
  <2>1. V \in SUBSET T
    BY <1>5
  <2> QED BY <1>0, <1>4, <2>1
<1> QED BY <1>7, <1>8, <1>9, <1>10, <1>3 DEF U, Resto

LEMMA AcumuladaExiste ==
  ASSUME NEW F, NEW S, IsFiniteSet(S)
  PROVE  \E g : EsAcumulada(g, F, S)
<1> DEFINE U == {A \in SUBSET S : ~\E g : EsAcumulada(g, F, A)}
<1>1. SUFFICES ASSUME U # {}
               PROVE  FALSE
  OBVIOUS
<1>2. U \subseteq FiniteSubsetsOf(S)
  BY FS_Subset DEF FiniteSubsetsOf
<1>3. PICK V \in U : \A W \in U : <<W, V>> \notin StrictSubsetOrdering(S)
  <2> HIDE DEF U
  <2> QED BY <1>1, <1>2, FS_StrictSubsetOrderingWellFounded, WFMin
<1> DEFINE H(A) == CHOOSE g : EsAcumulada(g, F, A)
<1>4. ASSUME NEW A \in SUBSET V, A # V
      PROVE  EsAcumulada(H(A), F, A) /\ IsFiniteSet(A)
  <2>1. A \in SUBSET S /\ A \notin U
    BY <1>3, <1>4 DEF StrictSubsetOrdering
  <2>2. IsFiniteSet(A)
    BY <2>1, FS_Subset
  <2>3. \E g : EsAcumulada(g, F, A)
    BY <2>1
  <2> QED BY <2>2, <2>3
<1> DEFINE f == [s \in SUBSET V |-> IF s = {} THEN 0
                                    ELSE F[Elegido(s)] + H(s \ {Elegido(s)})[s \ {Elegido(s)}]]
<1>5. \A s \in SUBSET V : s # {} => s \ {Elegido(s)} \in SUBSET V /\ s \ {Elegido(s)} # V
  BY ElegidoEsta
<1>6. ASSUME NEW A \in SUBSET V, A # V
      PROVE  f[A] = H(A)[A]
  <2>1. CASE A = {}
    BY <2>1, <1>4, <1>6, AcumuladaEn
  <2>2. CASE A # {}
    <3> DEFINE C == Resto(A)
    <3>1. C \in SUBSET A /\ C \in SUBSET V /\ C # V /\ C \in SUBSET C
      BY <1>5, <2>2 DEF Resto
    <3>2. EsAcumulada(H(C), F, C) /\ IsFiniteSet(C) /\ EsAcumulada(H(A), F, A)
      BY <1>4, <1>6, <3>1
    <3>3. f[A] = F[Elegido(A)] + H(C)[C]
      BY <2>2 DEF Resto
    <3>4. H(A)[A] = F[Elegido(A)] + H(A)[C]
      <4> HIDE DEF H, f
      <4>1. A \in SUBSET A
        OBVIOUS
      <4> QED BY <3>2, <4>1, <2>2, AcumuladaEn DEF C
    <3>5. H(C)[C] = H(A)[C]
      <4> HIDE DEF H, f, C
      <4> QED BY <3>1, <3>2, AcumuladaUnica
    <3> HIDE DEF H, f, C
    <3> QED BY <3>3, <3>4, <3>5
  <2> QED BY <2>1, <2>2
<1>7. f = [s \in SUBSET V |-> IF s = {} THEN 0 ELSE F[Elegido(s)] + f[s \ {Elegido(s)}]]
  <2>1. \A s \in SUBSET V : s # {} =>
          f[s \ {Elegido(s)}] = H(s \ {Elegido(s)})[s \ {Elegido(s)}]
    <3> HIDE DEF H, f
    <3> QED BY <1>5, <1>6
  <2> HIDE DEF H
  <2>2. \A s \in SUBSET V : (IF s = {} THEN 0 ELSE F[Elegido(s)] + H(s \ {Elegido(s)})[s \ {Elegido(s)}])
                          = (IF s = {} THEN 0 ELSE F[Elegido(s)] + f[s \ {Elegido(s)}])
    BY <2>1
  <2>3. f = [s \in SUBSET V |-> IF s = {} THEN 0
                                    ELSE F[Elegido(s)] + H(s \ {Elegido(s)})[s \ {Elegido(s)}]]
    OBVIOUS
  <2> HIDE DEF f
  <2> QED BY <2>2, <2>3
<1>8. EsAcumulada(f, F, V)
  <2> HIDE DEF f
  <2> QED BY <1>7 DEF EsAcumulada
<1> QED BY <1>3, <1>8

LEMMA SumaAcumulada ==
  ASSUME NEW F, NEW S, IsFiniteSet(S)
  PROVE  \E g : EsAcumulada(g, F, S) /\ SumFunctionOnSet(F, S) = g[S]
<1> DEFINE it == CHOOSE g : EsAcumulada(g, F, S)
<1>1. EsAcumulada(it, F, S)
  BY AcumuladaExiste
<1>2. SumFunctionOnSet(F, S) = it[S]
  BY DEF SumFunctionOnSet, FoldFunctionOnSet, MapThenFoldSet, EsAcumulada, Elegido
<1> QED BY <1>1, <1>2
LEMMA SumaVacia == \A F : SumFunctionOnSet(F, {}) = 0
<1>1. TAKE F
<1>2. PICK g : EsAcumulada(g, F, {}) /\ SumFunctionOnSet(F, {}) = g[{}]
  BY FS_EmptySet, SumaAcumulada
<1> QED BY <1>2, AcumuladaEn

(* Sums of equal figures are equal. *)
LEMMA SumaIgual ==
  ASSUME NEW F, NEW G, NEW S, IsFiniteSet(S), \A x \in S : F[x] = G[x]
  PROVE  SumFunctionOnSet(F, S) = SumFunctionOnSet(G, S)
<1>1. PICK g : EsAcumulada(g, F, S) /\ SumFunctionOnSet(F, S) = g[S]
  BY SumaAcumulada
<1>2. PICK h : EsAcumulada(h, G, S) /\ SumFunctionOnSet(G, S) = h[S]
  BY SumaAcumulada
<1>3. \A s \in SUBSET S : g[s] = h[s]
  BY <1>1, <1>2, AcumuladaUnica
<1> QED BY <1>1, <1>2, <1>3

(* The element the fold takes first. *)
LEMMA SumaElegido ==
  ASSUME NEW F, NEW S, IsFiniteSet(S), S # {}
  PROVE  SumFunctionOnSet(F, S) = F[Elegido(S)] + SumFunctionOnSet(F, S \ {Elegido(S)})
<1> DEFINE T == S \ {Elegido(S)}
<1>1. PICK g : EsAcumulada(g, F, S) /\ SumFunctionOnSet(F, S) = g[S]
  BY SumaAcumulada
<1>2. IsFiniteSet(T) /\ T \subseteq S
  BY FS_Subset
<1> HIDE DEF T
<1>3. PICK h : EsAcumulada(h, F, T) /\ SumFunctionOnSet(F, T) = h[T]
  BY <1>2, SumaAcumulada
<1>4. \A s \in SUBSET T : h[s] = g[s]
  BY <1>1, <1>2, <1>3, AcumuladaUnica
<1>5. \A s \in SUBSET S : s # {} => g[s] = F[Elegido(s)] + g[Resto(s)]
  BY <1>1, AcumuladaEn
<1>6. g[S] = F[Elegido(S)] + g[T]
  BY <1>5 DEF T, Resto
<1> QED BY <1>1, <1>3, <1>4, <1>6 DEF T

(* A sum of integers is an integer. *)
LEMMA SumaEntera ==
  ASSUME NEW F, NEW S, IsFiniteSet(S), \A x \in S : F[x] \in Int
  PROVE  SumFunctionOnSet(F, S) \in Int
<1> DEFINE U == {A \in SUBSET S : SumFunctionOnSet(F, A) \notin Int}
<1>1. SUFFICES ASSUME U # {}
               PROVE  FALSE
  OBVIOUS
<1>2. U \subseteq FiniteSubsetsOf(S)
  BY FS_Subset DEF FiniteSubsetsOf
<1>3. PICK V \in U : \A W \in U : <<W, V>> \notin StrictSubsetOrdering(S)
  <2> HIDE DEF U
  <2> QED BY <1>1, <1>2, FS_StrictSubsetOrderingWellFounded, WFMin
<1>4. V # {}
  BY SumaVacia
<1>5. Elegido(V) \in V /\ V \in SUBSET S /\ IsFiniteSet(V)
  BY <1>2, <1>4, ElegidoEsta DEF FiniteSubsetsOf
<1>6. V \ {Elegido(V)} \notin U
  BY <1>3, <1>5 DEF StrictSubsetOrdering
<1>7. SumFunctionOnSet(F, V \ {Elegido(V)}) \in Int /\ F[Elegido(V)] \in Int
  BY <1>5, <1>6
<1>8. SumFunctionOnSet(F, V) = F[Elegido(V)] + SumFunctionOnSet(F, V \ {Elegido(V)})
  BY <1>4, <1>5, SumaElegido
<1> QED BY <1>7, <1>8

(* Any element may be taken first. *)
LEMMA SumaDesde ==
  ASSUME NEW F, NEW S, IsFiniteSet(S), \A x \in S : F[x] \in Int
  PROVE  \A x \in S : SumFunctionOnSet(F, S) = F[x] + SumFunctionOnSet(F, S \ {x})
<1> DEFINE U == {A \in SUBSET S : \E x \in A : SumFunctionOnSet(F, A) # F[x] + SumFunctionOnSet(F, A \ {x})}
<1>1. SUFFICES ASSUME U # {}
               PROVE  FALSE
  OBVIOUS
<1>2. U \subseteq FiniteSubsetsOf(S)
  BY FS_Subset DEF FiniteSubsetsOf
<1>3. PICK V \in U : \A W \in U : <<W, V>> \notin StrictSubsetOrdering(S)
  <2> HIDE DEF U
  <2> QED BY <1>1, <1>2, FS_StrictSubsetOrderingWellFounded, WFMin
<1>4. PICK x \in V : SumFunctionOnSet(F, V) # F[x] + SumFunctionOnSet(F, V \ {x})
  OBVIOUS
<1> DEFINE y == Elegido(V)
           W == V \ {x, y}
<1>5. y \in V /\ V \in SUBSET S /\ IsFiniteSet(V)
  BY <1>2, <1>4, ElegidoEsta DEF FiniteSubsetsOf
<1>6. V \ {y} \notin U /\ V \ {x} \notin U
  BY <1>3, <1>5 DEF StrictSubsetOrdering
<1>7. SumFunctionOnSet(F, V) = F[y] + SumFunctionOnSet(F, V \ {y})
  BY <1>4, <1>5, SumaElegido
<1>8. x # y
  BY <1>4, <1>7
<1>9. SumFunctionOnSet(F, V \ {y}) = F[x] + SumFunctionOnSet(F, W)
  <2>1. x \in V \ {y} /\ (V \ {y}) \ {x} = W /\ V \ {y} \in SUBSET S
    BY <1>5, <1>8
  <2> HIDE DEF y, W
  <2> QED BY <2>1, <1>6
<1>10. SumFunctionOnSet(F, V \ {x}) = F[y] + SumFunctionOnSet(F, W)
  <2>1. y \in V \ {x} /\ (V \ {x}) \ {y} = W /\ V \ {x} \in SUBSET S
    BY <1>5, <1>8
  <2> HIDE DEF y, W
  <2> QED BY <2>1, <1>6
<1>11. SumFunctionOnSet(F, W) \in Int /\ F[x] \in Int /\ F[y] \in Int
  <2>1. IsFiniteSet(W) /\ (\A z \in W : F[z] \in Int) /\ y \in S
    BY <1>5, FS_Subset
  <2> HIDE DEF W
  <2> QED BY <2>1, SumaEntera, <1>5
<1> HIDE DEF y, W, U
<1> QED BY <1>4, <1>7, <1>9, <1>10, <1>11

LEMMA SumaMas ==
  ASSUME NEW F, NEW S, IsFiniteSet(S), NEW x, x \notin S, \A y \in S \cup {x} : F[y] \in Int
  PROVE  SumFunctionOnSet(F, S \cup {x}) = F[x] + SumFunctionOnSet(F, S)
<1>1. IsFiniteSet(S \cup {x}) /\ (S \cup {x}) \ {x} = S
  BY FS_AddElement
<1>2. \A y \in S \cup {x} : SumFunctionOnSet(F, S \cup {x}) = F[y] + SumFunctionOnSet(F, (S \cup {x}) \ {y})
  BY <1>1, SumaDesde
<1> QED BY <1>1, <1>2

LEMMA SumaCero ==
  ASSUME NEW F, NEW S, IsFiniteSet(S), \A x \in S : F[x] = 0
  PROVE  SumFunctionOnSet(F, S) = 0
<1> DEFINE B == {A \in SUBSET S : SumFunctionOnSet(F, A) = 0}
<1>1. {} \in B
  BY SumaVacia
<1>2. ASSUME NEW A \in SUBSET S, NEW x \in S \ A, A \in B
      PROVE  A \cup {x} \in B
  <2>1. SumFunctionOnSet(F, A \cup {x}) = F[x] + SumFunctionOnSet(F, A)
    BY FS_Subset, SumaMas
  <2> QED BY <2>1, <1>2
<1>3. S \in B
  <2> HIDE DEF B
  <2> QED BY <1>1, <1>2, InduccionFinita
<1> QED BY <1>3

(* The sum over two sets that share nothing. *)
LEMMA SumaUnion ==
  ASSUME NEW F, NEW S, NEW T, IsFiniteSet(S), IsFiniteSet(T), S \cap T = {},
         \A x \in S \cup T : F[x] \in Int
  PROVE  SumFunctionOnSet(F, S \cup T) = SumFunctionOnSet(F, S) + SumFunctionOnSet(F, T)
<1> DEFINE B == {A \in SUBSET T : SumFunctionOnSet(F, S \cup A) = SumFunctionOnSet(F, S) + SumFunctionOnSet(F, A)}
<1>0. SumFunctionOnSet(F, S) \in Int
  BY SumaEntera
<1>1. {} \in B
  <2>1. S \cup {} = S
    OBVIOUS
  <2> QED BY <1>0, <2>1, SumaVacia
<1>2. ASSUME NEW A \in SUBSET T, NEW x \in T \ A, A \in B
      PROVE  A \cup {x} \in B
  <2>1. IsFiniteSet(A) /\ IsFiniteSet(S \cup A)
    BY FS_Subset, FS_Union
  <2>2. SumFunctionOnSet(F, A \cup {x}) = F[x] + SumFunctionOnSet(F, A)
    BY <2>1, SumaMas
  <2>3. SumFunctionOnSet(F, (S \cup A) \cup {x}) = F[x] + SumFunctionOnSet(F, S \cup A)
    BY <2>1, SumaMas
  <2>4. S \cup (A \cup {x}) = (S \cup A) \cup {x}
    OBVIOUS
  <2>5. SumFunctionOnSet(F, A) \in Int /\ F[x] \in Int
    BY <2>1, SumaEntera
  <2>6. SumFunctionOnSet(F, S \cup A) = SumFunctionOnSet(F, S) + SumFunctionOnSet(F, A)
    BY <1>2
  <2>7. SumFunctionOnSet(F, S \cup (A \cup {x})) = SumFunctionOnSet(F, S) + SumFunctionOnSet(F, A \cup {x})
    <3> DEFINE todo == SumFunctionOnSet(F, S \cup (A \cup {x}))
               antes == SumFunctionOnSet(F, S \cup A)
               a == SumFunctionOnSet(F, A)
    <3>1. todo = F[x] + antes
      BY <2>3, <2>4
    <3> HIDE DEF todo, antes, a
    <3> QED BY <3>1, <2>2, <2>5, <2>6, <1>0 DEF todo, antes, a
  <2> QED BY <2>7
<1>3. T \in B
  <2> HIDE DEF B
  <2> QED BY <1>1, <1>2, InduccionFinita
<1> QED BY <1>3

LEMMA SumaDiferencia ==
  ASSUME NEW F, NEW G, NEW H, NEW S, IsFiniteSet(S),
         \A x \in S : F[x] \in Int /\ G[x] \in Int /\ H[x] = F[x] - G[x]
  PROVE  SumFunctionOnSet(H, S) = SumFunctionOnSet(F, S) - SumFunctionOnSet(G, S)
<1> DEFINE B == {A \in SUBSET S : SumFunctionOnSet(H, A) = SumFunctionOnSet(F, A) - SumFunctionOnSet(G, A)}
<1>1. {} \in B
  BY SumaVacia
<1>2. ASSUME NEW A \in SUBSET S, NEW x \in S \ A, A \in B
      PROVE  A \cup {x} \in B
  <2>1. IsFiniteSet(A)
    BY FS_Subset
  <2>2. \A y \in A \cup {x} : F[y] \in Int /\ G[y] \in Int /\ H[y] \in Int
    OBVIOUS
  <2>3. SumFunctionOnSet(F, A \cup {x}) = F[x] + SumFunctionOnSet(F, A)
    BY <2>1, <2>2, SumaMas
  <2>4. SumFunctionOnSet(G, A \cup {x}) = G[x] + SumFunctionOnSet(G, A)
    BY <2>1, <2>2, SumaMas
  <2>5. SumFunctionOnSet(H, A \cup {x}) = H[x] + SumFunctionOnSet(H, A)
    BY <2>1, <2>2, SumaMas
  <2>6. SumFunctionOnSet(F, A) \in Int /\ SumFunctionOnSet(G, A) \in Int
    BY <2>1, <2>2, SumaEntera
  <2> QED BY <2>2, <2>3, <2>4, <2>5, <2>6, <1>2
<1>3. S \in B
  <2> HIDE DEF B
  <2> QED BY <1>1, <1>2, InduccionFinita
<1> QED BY <1>3

DeParte(S, parte, k) == {x \in S : parte[x] = k}

(* What is summed part by part is summed: parte says which part each element
   belongs to, G holds the sum of each part. *)
LEMMA SumaPorPartes ==
  ASSUME NEW F, NEW G, NEW S, IsFiniteSet(S), NEW K, IsFiniteSet(K), NEW parte,
         \A x \in S : F[x] \in Int /\ parte[x] \in K,
         \A k \in K : G[k] = SumFunctionOnSet(F, DeParte(S, parte, k))
  PROVE  SumFunctionOnSet(G, K) = SumFunctionOnSet(F, S)
<1> DEFINE De(A) == {x \in S : parte[x] \in A}
           B == {A \in SUBSET K : SumFunctionOnSet(G, A) = SumFunctionOnSet(F, De(A))}
<1>1. {} \in B
  <2>1. De({}) = {}
    OBVIOUS
  <2> QED BY <2>1, SumaVacia
<1>2. ASSUME NEW A \in SUBSET K, NEW k \in K \ A, A \in B
      PROVE  A \cup {k} \in B
  <2> DEFINE P == DeParte(S, parte, k)
  <2>1. IsFiniteSet(A) /\ IsFiniteSet(De(A)) /\ IsFiniteSet(P)
    BY FS_Subset DEF DeParte
  <2>2. De(A \cup {k}) = P \cup De(A) /\ P \cap De(A) = {}
    BY DEF DeParte
  <2>3. \A j \in A \cup {k} : G[j] \in Int
    <3> TAKE j \in A \cup {k}
    <3> DEFINE Q == DeParte(S, parte, j)
    <3>1. IsFiniteSet(Q) /\ (\A x \in Q : F[x] \in Int) /\ G[j] = SumFunctionOnSet(F, Q)
      BY FS_Subset DEF DeParte
    <3> HIDE DEF Q
    <3> QED BY <3>1, SumaEntera
  <2>4. SumFunctionOnSet(G, A \cup {k}) = G[k] + SumFunctionOnSet(G, A)
    BY <2>1, <2>3, SumaMas
  <2>5. SumFunctionOnSet(F, P \cup De(A)) = SumFunctionOnSet(F, P) + SumFunctionOnSet(F, De(A))
    <3>1. \A x \in P \cup De(A) : F[x] \in Int
      BY DEF DeParte
    <3> HIDE DEF P, De
    <3> QED BY <3>1, <2>1, <2>2, SumaUnion
  <2>6. G[k] = SumFunctionOnSet(F, P) /\ SumFunctionOnSet(G, A) = SumFunctionOnSet(F, De(A))
    BY <1>2
  <2> HIDE DEF P, De
  <2> QED BY <2>2, <2>4, <2>5, <2>6
<1>3. K \in B
  <2> HIDE DEF B
  <2> QED BY <1>1, <1>2, InduccionFinita
<1>4. De(K) = S
  OBVIOUS
<1> QED BY <1>3, <1>4
(* A sum in which only the members of T count. *)
LEMMA SumaFiltrada ==
  ASSUME NEW F, NEW G, NEW S, IsFiniteSet(S), NEW T, T \subseteq S,
         \A x \in T : F[x] = G[x] /\ G[x] \in Int,
         \A x \in S \ T : F[x] = 0
  PROVE  SumFunctionOnSet(F, S) = SumFunctionOnSet(G, T)
<1> DEFINE U == S \ T
<1>1. IsFiniteSet(T) /\ IsFiniteSet(U) /\ S = T \cup U /\ T \cap U = {}
  BY FS_Subset
<1>2. (\A x \in T \cup U : F[x] \in Int) /\ (\A x \in U : F[x] = 0)
  OBVIOUS
<1> HIDE DEF U
<1>3. SumFunctionOnSet(F, S) = SumFunctionOnSet(F, T) + SumFunctionOnSet(F, U)
  BY <1>1, <1>2, SumaUnion
<1>4. SumFunctionOnSet(F, T) = SumFunctionOnSet(G, T) /\ SumFunctionOnSet(G, T) \in Int
  BY <1>1, SumaIgual, SumaEntera
<1>5. SumFunctionOnSet(F, U) = 0
  BY <1>1, <1>2, SumaCero
<1> QED BY <1>3, <1>4, <1>5

(* The values a function takes on a finite set. *)
LEMMA ImagenFinita ==
  ASSUME NEW S, IsFiniteSet(S), NEW f
  PROVE  IsFiniteSet({f[x] : x \in S})
<1> DEFINE g == [x \in S |-> f[x]]
           T == {f[x] : x \in S}
<1>1. g \in Surjection(S, T)
  BY DEF Surjection
<1> HIDE DEF g
<1> QED BY <1>1, FS_Surjection
----------------------------------------------------------------------------
(* Codes *)

(* Every code has one first digit. *)
LEMMA ClaseHay == \A c \in Codigos : \E d \in 1..9 : Starts(c, d)
<1> TAKE c \in Codigos
<1>0. c \in Nat /\ c >= 1 /\ c <= 999999999
  BY SMT DEF Codigos
<1>1. \E q \in Potencias : c \div q \in 1..9
  BY <1>0, SMTT(30) DEF Potencias
<1> QED BY <1>1 DEF Starts

LEMMA ClaseUna ==
  \A c \in Codigos : \A d \in 1..9, e \in 1..9 : Starts(c, d) /\ Starts(c, e) => d = e
<1> SUFFICES ASSUME NEW c \in Codigos, NEW d \in 1..9, NEW e \in 1..9,
                    NEW q \in Potencias, NEW r \in Potencias,
                    c \div q = d, c \div r = e
             PROVE  d = e
  BY DEF Starts
<1>0. c \in Nat /\ c >= 1 /\ c <= 999999999
  BY SMT DEF Codigos
<1> QED BY <1>0, SMTT(30) DEF Potencias

LEMMA ClaseEs == \A c \in Codigos : \A d \in 1..9 : Starts(c, d) <=> Clase(c) = d
<1> TAKE c \in Codigos
<1>1. Clase(c) \in 1..9 /\ Starts(c, Clase(c))
  BY ClaseHay DEF Clase
<1> QED BY <1>1, ClaseUna

(* The subaccounts of 2408 are distinct, and under it. *)
LEMMA PrefijosIva ==
  \A c \in Codigos :
    /\ \A p \in {240805, 240802, 240810} : Starts(c, p) => Starts(c, 2408) /\ c # 2408
    /\ Starts(c, 240805) => ~Starts(c, 240802) /\ ~Starts(c, 240810)
    /\ Starts(2408, 2408)
<1> TAKE c \in Codigos
<1>0. c \in Nat /\ c >= 1 /\ c <= 999999999
  BY SMT DEF Codigos
<1>1. Starts(2408, 2408)
  BY SMT DEF Starts, Potencias
<1>2. ASSUME NEW p \in {240805, 240802, 240810}, Starts(c, p)
      PROVE  Starts(c, 2408) /\ c # 2408
  <2>1. PICK q \in Potencias : c \div q = p
    BY <1>2 DEF Starts
  <2>2. q <= 1000 /\ q \in {1, 10, 100, 1000}
    BY <1>0, <2>1, SMTT(30) DEF Potencias
  <2>3. c \div (100 * q) = 2408 /\ 100 * q \in Potencias
    BY <1>0, <2>1, <2>2, SMTT(30) DEF Potencias
  <2>4. c # 2408
    BY <1>0, <2>1, <2>2, SMTT(30)
  <2> QED BY <2>3, <2>4 DEF Starts
<1>3. Starts(c, 240805) => ~Starts(c, 240802) /\ ~Starts(c, 240810)
  <2> SUFFICES ASSUME NEW q \in Potencias, NEW r \in Potencias, NEW p \in {240802, 240810},
                      c \div q = 240805, c \div r = p
               PROVE  FALSE
    BY DEF Starts
  <2> QED BY <1>0, SMTT(30) DEF Potencias
<1> QED BY <1>1, <1>2, <1>3
----------------------------------------------------------------------------
(* Sets of lines *)

LEMMA SumaDeFuncion == \A f : SumFunction(f) = SumFunctionOnSet(f, DOMAIN f)
  BY DEF SumFunction

NetoDe(L) == [l \in L |-> l.debito - l.credito]
SinNeto(L) == [l \in L |-> l.credito - l.debito]

(* Part of a set of lines is one, and its totals are sums over the whole. *)
LEMMA Parte ==
  ASSUME NEW L, EsLineas(L), NEW M, M \subseteq L
  PROVE  /\ EsLineas(M) /\ IsFiniteSet(M)
         /\ Debitos(M) = SumFunctionOnSet([l \in L |-> l.debito], M) /\ Debitos(M) \in Int
         /\ Creditos(M) = SumFunctionOnSet([l \in L |-> l.credito], M) /\ Creditos(M) \in Int
         /\ DebitNature(M) = SumFunctionOnSet(NetoDe(L), M) /\ DebitNature(M) \in Int
         /\ CreditNature(M) = SumFunctionOnSet(SinNeto(L), M) /\ CreditNature(M) = -DebitNature(M)
<1> DEFINE D == [l \in L |-> l.debito]
           C == [l \in L |-> l.credito]
           d == [l \in M |-> l.debito]
           k == [l \in M |-> l.credito]
<1>1. IsFiniteSet(M) /\ EsLineas(M)
  BY FS_Subset DEF EsLineas
<1>2. \A x \in M : /\ d[x] = D[x] /\ k[x] = C[x] /\ D[x] \in Int /\ C[x] \in Int
                   /\ NetoDe(L)[x] = D[x] - C[x] /\ SinNeto(L)[x] = C[x] - D[x]
  BY DEF EsLineas, NetoDe, SinNeto
<1>3. Debitos(M) = SumFunctionOnSet(d, M) /\ Creditos(M) = SumFunctionOnSet(k, M)
  BY SumaDeFuncion DEF Debitos, Creditos
<1> HIDE DEF D, C, d, k
<1>4. Debitos(M) = SumFunctionOnSet(D, M) /\ Creditos(M) = SumFunctionOnSet(C, M)
  BY <1>1, <1>2, <1>3, SumaIgual
<1>5. SumFunctionOnSet(D, M) \in Int /\ SumFunctionOnSet(C, M) \in Int
  BY <1>1, <1>2, SumaEntera
<1>6. SumFunctionOnSet(NetoDe(L), M) = SumFunctionOnSet(D, M) - SumFunctionOnSet(C, M)
  BY <1>1, <1>2, SumaDiferencia
<1>7. SumFunctionOnSet(SinNeto(L), M) = SumFunctionOnSet(C, M) - SumFunctionOnSet(D, M)
  BY <1>1, <1>2, SumaDiferencia
<1> DEFINE sd == SumFunctionOnSet(D, M)
           sc == SumFunctionOnSet(C, M)
<1> HIDE DEF sd, sc
<1>8. /\ DebitNature(M) = sd - sc /\ CreditNature(M) = sc - sd /\ sd \in Int /\ sc \in Int
  BY <1>4, <1>5 DEF DebitNature, CreditNature, sd, sc
<1>9. DebitNature(M) \in Int /\ CreditNature(M) = -DebitNature(M)
  BY <1>8
<1> QED BY <1>1, <1>4, <1>5, <1>6, <1>7, <1>8, <1>9 DEF D, C, sd, sc

LEMMA NatVacia == DebitNature({}) = 0 /\ CreditNature({}) = 0 /\ Debitos({}) = 0 /\ Creditos({}) = 0
<1>1. SumFunction([l \in {} |-> l.debito]) = 0 /\ SumFunction([l \in {} |-> l.credito]) = 0
  BY SumaDeFuncion, SumaVacia
<1>2. Debitos({}) = 0 /\ Creditos({}) = 0
  BY <1>1 DEF Debitos, Creditos
<1> QED BY <1>2 DEF DebitNature, CreditNature

(* Totals add up over two parts that share nothing. *)
LEMMA NatUnion ==
  ASSUME NEW L, EsLineas(L), NEW M, NEW N, M \subseteq L, N \subseteq L, M \cap N = {}
  PROVE  /\ DebitNature(M \cup N) = DebitNature(M) + DebitNature(N)
         /\ DebitNature(M) \in Int /\ DebitNature(N) \in Int
<1>1. M \cup N \subseteq L
  OBVIOUS
<1>2. DebitNature(M \cup N) = SumFunctionOnSet(NetoDe(L), M \cup N)
  BY <1>1, Parte
<1>3. \A x \in M \cup N : NetoDe(L)[x] \in Int
  BY DEF EsLineas, NetoDe
<1>4. IsFiniteSet(M) /\ DebitNature(M) = SumFunctionOnSet(NetoDe(L), M) /\ DebitNature(M) \in Int
  BY Parte
<1>5. IsFiniteSet(N) /\ DebitNature(N) = SumFunctionOnSet(NetoDe(L), N) /\ DebitNature(N) \in Int
  BY Parte
<1>6. SumFunctionOnSet(NetoDe(L), M \cup N) = SumFunctionOnSet(NetoDe(L), M) + SumFunctionOnSet(NetoDe(L), N)
  BY <1>3, <1>4, <1>5, SumaUnion
<1> QED BY <1>2, <1>4, <1>5, <1>6

LEMMA CuentasFinitas == \A L : EsLineas(L) => IsFiniteSet(Cuentas(L)) /\ Cuentas(L) \subseteq Codigos
<1> SUFFICES ASSUME NEW L, EsLineas(L)
             PROVE  IsFiniteSet(Cuentas(L)) /\ Cuentas(L) \subseteq Codigos
  OBVIOUS
<1> DEFINE f == [l \in L |-> l.cuenta]
<1>1. IsFiniteSet({f[l] : l \in L})
  <2> HIDE DEF f
  <2> QED BY ImagenFinita DEF EsLineas
<1>2. Cuentas(L) = {f[l] : l \in L}
  BY DEF Cuentas
<1> QED BY <1>1, <1>2 DEF Cuentas, EsLineas

(* The lines of a set of accounts, and what they move. *)
DeCuentas(L, A) == {l \in L : l.cuenta \in A}
Mueve(L, A) == DebitNature(DeCuentas(L, A))

LEMMA MueveUnion ==
  ASSUME NEW L, EsLineas(L), NEW A, NEW B, A \cap B = {}
  PROVE  Mueve(L, A \cup B) = Mueve(L, A) + Mueve(L, B) /\ Mueve(L, A) \in Int /\ Mueve(L, B) \in Int
<1>1. DeCuentas(L, A \cup B) = DeCuentas(L, A) \cup DeCuentas(L, B)
  BY DEF DeCuentas
<1>2. DeCuentas(L, A) \cap DeCuentas(L, B) = {} /\ DeCuentas(L, A) \subseteq L /\ DeCuentas(L, B) \subseteq L
  BY DEF DeCuentas
<1> DEFINE M == DeCuentas(L, A)
           N == DeCuentas(L, B)
<1>3. M \subseteq L /\ N \subseteq L /\ M \cap N = {} /\ DeCuentas(L, A \cup B) = M \cup N
  BY <1>1, <1>2
<1> HIDE DEF M, N
<1>4. /\ DebitNature(M \cup N) = DebitNature(M) + DebitNature(N)
      /\ DebitNature(M) \in Int /\ DebitNature(N) \in Int
  BY <1>3, NatUnion
<1> QED BY <1>3, <1>4 DEF Mueve, M, N

(* Balances of accounts add up to what their lines move. *)
LEMMA SaldosDeudores ==
  ASSUME NEW L, EsLineas(L), NEW K, IsFiniteSet(K), NEW G,
         \A c \in K : G[c] = DebitNature(DeCuenta(L, c))
  PROVE  SumFunctionOnSet(G, K) = Mueve(L, K)
<1> DEFINE S == DeCuentas(L, K)
           parte == [l \in S |-> l.cuenta]
<1>1. S \subseteq L /\ \A x \in S : NetoDe(L)[x] \in Int /\ parte[x] \in K
  BY DEF DeCuentas, NetoDe, EsLineas
<1>2. \A c \in K : DeParte(S, parte, c) = DeCuenta(L, c) /\ DeCuenta(L, c) \subseteq L
  BY DEF DeCuentas, DeCuenta, DeParte
<1> HIDE DEF S, parte
<1>3. IsFiniteSet(S) /\ DebitNature(S) = SumFunctionOnSet(NetoDe(L), S)
  BY <1>1, Parte
<1>4. \A c \in K : G[c] = SumFunctionOnSet(NetoDe(L), DeParte(S, parte, c))
  BY <1>2, Parte
<1>5. SumFunctionOnSet(G, K) = SumFunctionOnSet(NetoDe(L), S)
  BY <1>1, <1>3, <1>4, SumaPorPartes
<1> QED BY <1>3, <1>5 DEF Mueve, S

LEMMA SaldosAcreedores ==
  ASSUME NEW L, EsLineas(L), NEW K, IsFiniteSet(K), NEW G,
         \A c \in K : G[c] = CreditNature(DeCuenta(L, c))
  PROVE  SumFunctionOnSet(G, K) = -Mueve(L, K)
<1> DEFINE S == DeCuentas(L, K)
           parte == [l \in S |-> l.cuenta]
<1>1. S \subseteq L /\ \A x \in S : SinNeto(L)[x] \in Int /\ parte[x] \in K
  BY DEF DeCuentas, SinNeto, EsLineas
<1>2. \A c \in K : DeParte(S, parte, c) = DeCuenta(L, c) /\ DeCuenta(L, c) \subseteq L
  BY DEF DeCuentas, DeCuenta, DeParte
<1> HIDE DEF S, parte
<1>3. IsFiniteSet(S)
  BY <1>1, Parte
<1>4. CreditNature(S) = SumFunctionOnSet(SinNeto(L), S) /\ CreditNature(S) = -DebitNature(S)
  BY <1>1, Parte
<1>5. \A c \in K : G[c] = SumFunctionOnSet(SinNeto(L), DeParte(S, parte, c))
  BY <1>2, Parte
<1>6. SumFunctionOnSet(G, K) = SumFunctionOnSet(SinNeto(L), S)
  BY <1>1, <1>3, <1>5, SumaPorPartes
<1> QED BY <1>4, <1>6 DEF Mueve, S
----------------------------------------------------------------------------
(* The balance sheet *)

(* Reported accounts that roll up to class k; the assets with a credit balance. *)
EnClase(L, clase, k) == {c \in DelBalance(L) : clase[c] = k}
Anticipos(L, clase) == {c \in DelBalance(L) : clase[c] = 1 /\ Saldos(L, clase)[c] < 0}
Quedan(L, clase, k) == {c \in DelBalance(L) \ Anticipos(L, clase) : clase[c] = k}
Total(L, clase, k) == SumFunctionOnSet(Saldos(L, clase), Quedan(L, clase, k))

LEMMA TotalesPorPartes ==
  \A L, clase :
    Totales(L, clase) =
      [assets |-> Total(L, clase, 1),
       liabilities |-> Total(L, clase, 2) - SumFunctionOnSet(Saldos(L, clase), Anticipos(L, clase)),
       equity |-> Total(L, clase, 3),
       net_profit |-> Total(L, clase, 4) - Total(L, clase, 5) - Total(L, clase, 6),
       total_equity |-> Total(L, clase, 3)
                        + (Total(L, clase, 4) - Total(L, clase, 5) - Total(L, clase, 6))]
  BY DEF Totales, Total, Quedan, Anticipos

(* The total of a class is what its accounts moved, on the natural side. *)
LEMMA TotalDeClase ==
  ASSUME NEW L, EsLineas(L), NEW clase, NEW k \in 1..6
  PROVE  /\ k # 1 => Quedan(L, clase, k) = EnClase(L, clase, k)
         /\ k \in {1, 5, 6} => Total(L, clase, k) = Mueve(L, Quedan(L, clase, k))
         /\ k \in {2, 3, 4} => Total(L, clase, k) = -Mueve(L, Quedan(L, clase, k))
<1>1. IsFiniteSet(Quedan(L, clase, k))
  <2>1. Quedan(L, clase, k) \subseteq Cuentas(L)
    BY DEF Quedan, DelBalance
  <2> QED BY <2>1, CuentasFinitas, FS_Subset
<1>2. k # 1 => Quedan(L, clase, k) = EnClase(L, clase, k)
  BY DEF Quedan, EnClase, Anticipos
<1>3. ASSUME k \in {1, 5, 6}
      PROVE  Total(L, clase, k) = Mueve(L, Quedan(L, clase, k))
  <2>1. \A c \in Quedan(L, clase, k) : Saldos(L, clase)[c] = DebitNature(DeCuenta(L, c))
    BY <1>3 DEF Saldos, Quedan
  <2> QED BY <1>1, <2>1, SaldosDeudores DEF Total
<1>4. ASSUME k \in {2, 3, 4}
      PROVE  Total(L, clase, k) = -Mueve(L, Quedan(L, clase, k))
  <2>1. \A c \in Quedan(L, clase, k) : Saldos(L, clase)[c] = CreditNature(DeCuenta(L, c))
    BY <1>4 DEF Saldos, Quedan
  <2> QED BY <1>1, <2>1, SaldosAcreedores DEF Total
<1> QED BY <1>2, <1>3, <1>4

(* An advance leaves the assets for the liabilities: the difference of both is
   what the accounts of classes 1 and 2 moved. *)
LEMMA TotalesSon ==
  ASSUME NEW L, EsLineas(L), NEW clase
  PROVE  LET t == Totales(L, clase)
             m(k) == Mueve(L, EnClase(L, clase, k))
         IN /\ t.assets \in Int /\ t.liabilities \in Int /\ t.equity \in Int /\ t.net_profit \in Int
            /\ \A k \in 1..6 : m(k) \in Int
            /\ t.assets - t.liabilities = m(1) + m(2)
            /\ t.equity = -m(3)
            /\ t.net_profit = -m(4) - m(5) - m(6)
            /\ t.total_equity = t.equity + t.net_profit
<1> DEFINE t == Totales(L, clase)
           m(k) == Mueve(L, EnClase(L, clase, k))
           T(k) == Total(L, clase, k)
           A == Anticipos(L, clase)
           a == SumFunctionOnSet(Saldos(L, clase), A)
           Q == Quedan(L, clase, 1)
<1>1. /\ t.assets = T(1) /\ t.liabilities = T(2) - a /\ t.equity = T(3)
      /\ t.net_profit = T(4) - T(5) - T(6) /\ t.total_equity = T(3) + (T(4) - T(5) - T(6))
  BY TotalesPorPartes
<1>2. /\ T(2) = -m(2) /\ T(3) = -m(3) /\ T(4) = -m(4) /\ T(5) = m(5) /\ T(6) = m(6)
      /\ T(1) = Mueve(L, Q)
  BY TotalDeClase
<1>3. a = Mueve(L, A)
  <2>1. A \subseteq Cuentas(L)
    BY DEF Anticipos, DelBalance
  <2>2. \A c \in A : Saldos(L, clase)[c] = DebitNature(DeCuenta(L, c))
    BY DEF Saldos, Anticipos
  <2>3. IsFiniteSet(A)
    BY <2>1, CuentasFinitas, FS_Subset
  <2> HIDE DEF A
  <2> QED BY <2>2, <2>3, SaldosDeudores
<1>4. Q \cup A = EnClase(L, clase, 1) /\ Q \cap A = {}
  BY DEF Quedan, Anticipos, EnClase
<1>5. m(1) = Mueve(L, Q) + Mueve(L, A) /\ Mueve(L, Q) \in Int /\ Mueve(L, A) \in Int
  <2> HIDE DEF Q, A
  <2> QED BY <1>4, MueveUnion
<1>6. \A k \in 1..6 : m(k) \in Int
  <2>1. \A B : Mueve(L, B) \in Int
    <3> TAKE B
    <3>1. DeCuentas(L, B) \subseteq L
      BY DEF DeCuentas
    <3> QED BY <3>1, Parte DEF Mueve
  <2> QED BY <2>1
<1>7. m(1) \in Int /\ m(2) \in Int /\ m(3) \in Int /\ m(4) \in Int /\ m(5) \in Int /\ m(6) \in Int
  BY <1>6
<1> HIDE DEF t, m, T, A, a, Q
<1>8. /\ t.assets \in Int /\ t.liabilities \in Int /\ t.equity \in Int /\ t.net_profit \in Int
      /\ t.assets - t.liabilities = m(1) + m(2)
      /\ t.equity = -m(3)
      /\ t.net_profit = -m(4) - m(5) - m(6)
      /\ t.total_equity = t.equity + t.net_profit
  BY <1>1, <1>2, <1>3, <1>5, <1>7
<1> QED BY <1>6, <1>8 DEF t, m

(* What the six classes moved is what the reported lines moved. *)
LEMMA SeisClases ==
  ASSUME NEW L, EsLineas(L), NEW clase, \A c \in DelBalance(L) : clase[c] \in 1..6
  PROVE  LET m(k) == Mueve(L, EnClase(L, clase, k))
         IN DebitNature({l \in L : SeReporta(l.cuenta)}) = ((((m(1) + m(2)) + m(3)) + m(4)) + m(5)) + m(6)
<1> DEFINE E(k) == EnClase(L, clase, k)
           m(k) == Mueve(L, E(k))
           E2 == E(1) \cup E(2)
           E3 == E2 \cup E(3)
           E4 == E3 \cup E(4)
           E5 == E4 \cup E(5)
           E6 == E5 \cup E(6)
<1>1. /\ E(1) \cap E(2) = {} /\ E2 \cap E(3) = {} /\ E3 \cap E(4) = {}
      /\ E4 \cap E(5) = {} /\ E5 \cap E(6) = {}
  BY DEF EnClase
<1>2. E6 = DelBalance(L)
  BY DEF EnClase
<1>3. DeCuentas(L, DelBalance(L)) = {l \in L : SeReporta(l.cuenta)}
  BY DEF DeCuentas, DelBalance, Cuentas
<1> HIDE DEF E
<1>4. /\ Mueve(L, E2) = m(1) + m(2) /\ Mueve(L, E3) = Mueve(L, E2) + m(3)
      /\ Mueve(L, E4) = Mueve(L, E3) + m(4) /\ Mueve(L, E5) = Mueve(L, E4) + m(5)
      /\ Mueve(L, E6) = Mueve(L, E5) + m(6)
  BY <1>1, MueveUnion
<1> HIDE DEF E2, E3, E4, E5, E6
<1>5. Mueve(L, E6) = ((((m(1) + m(2)) + m(3)) + m(4)) + m(5)) + m(6)
  BY <1>4
<1> QED BY <1>2, <1>3, <1>5 DEF Mueve, E

(* The balance sheet closes exactly when the entries of its accounts do,
   whichever class each account rolls up to. *)
LEMMA BalanceCierra ==
  ASSUME NEW L, EsLineas(L), NEW clase, \A c \in DelBalance(L) : clase[c] \in 1..6
  PROVE  LET t == Totales(L, clase)
         IN t.assets - (t.liabilities + t.total_equity) = DebitNature({l \in L : SeReporta(l.cuenta)})
<1> DEFINE t == Totales(L, clase)
           m(k) == Mueve(L, EnClase(L, clase, k))
           n == DebitNature({l \in L : SeReporta(l.cuenta)})
<1>1. /\ t.assets \in Int /\ t.liabilities \in Int /\ t.equity \in Int /\ t.net_profit \in Int
      /\ t.assets - t.liabilities = m(1) + m(2)
      /\ t.equity = -m(3)
      /\ t.net_profit = -m(4) - m(5) - m(6)
      /\ t.total_equity = t.equity + t.net_profit
  BY TotalesSon
<1>2. m(1) \in Int /\ m(2) \in Int /\ m(3) \in Int /\ m(4) \in Int /\ m(5) \in Int /\ m(6) \in Int
  BY TotalesSon
<1>3. n = ((((m(1) + m(2)) + m(3)) + m(4)) + m(5)) + m(6)
  BY SeisClases
<1> HIDE DEF t, m, n
<1>4. t.assets - (t.liabilities + t.total_equity) = n
  BY <1>1, <1>2, <1>3
<1> QED BY <1>4 DEF t, n
----------------------------------------------------------------------------
(* Ledgers and income statements *)

LEMMA MayorDe ==
  ASSUME NEW L, NEW ini, NEW fin
  PROVE  LET en == get_daily_journal(L, ini, fin)
             mayor == get_general_ledger(L, ini, fin)
         IN /\ DOMAIN mayor = Cuentas(en)
            /\ \A c \in Cuentas(en) : /\ mayor[c].debito = Debitos(DeCuenta(en, c))
                                      /\ mayor[c].credito = Creditos(DeCuenta(en, c))
                                      /\ Deudor(mayor[c]) = DebitNature(DeCuenta(en, c))
                                      /\ Acreedor(mayor[c]) = CreditNature(DeCuenta(en, c))
  BY DEF get_general_ledger, Deudor, Acreedor, DebitNature, CreditNature

LEMMA JournalLineas ==
  ASSUME NEW L, EsLineas(L), NEW ini, NEW fin
  PROVE  /\ get_daily_journal(L, ini, fin) \subseteq L /\ EsLineas(get_daily_journal(L, ini, fin))
         /\ IsFiniteSet(Cuentas(get_daily_journal(L, ini, fin)))
<1>1. get_daily_journal(L, ini, fin) \subseteq L
  BY DEF get_daily_journal
<1> QED BY <1>1, Parte, CuentasFinitas

CuentasClase(L, k) == {c \in Cuentas(L) : Clase(c) = k}

LEMMA ClaseMueve ==
  ASSUME NEW L, EsLineas(L), NEW k
  PROVE  /\ DebitNature(DeClase(L, k)) = Mueve(L, CuentasClase(L, k)) /\ Mueve(L, CuentasClase(L, k)) \in Int
         /\ CreditNature(DeClase(L, k)) = -Mueve(L, CuentasClase(L, k))
         /\ IsFiniteSet(CuentasClase(L, k))
<1>1. DeCuentas(L, CuentasClase(L, k)) = DeClase(L, k) /\ DeClase(L, k) \subseteq L
  BY DEF DeCuentas, CuentasClase, DeClase, Cuentas
<1>2. CuentasClase(L, k) \subseteq Cuentas(L)
  BY DEF CuentasClase
<1>3. /\ DebitNature(DeClase(L, k)) \in Int
      /\ CreditNature(DeClase(L, k)) = -DebitNature(DeClase(L, k))
  BY <1>1, Parte
<1>4. IsFiniteSet(CuentasClase(L, k))
  BY <1>2, CuentasFinitas, FS_Subset
<1> QED BY <1>1, <1>3, <1>4 DEF Mueve

(* The profit of the income statement, account by account and class by class. *)
LEMMA UtilidadDePnl ==
  ASSUME NEW L, EsLineas(L), NEW ini, NEW fin
  PROVE  build_pnl(L, ini, fin).utilidad_neta = get_pnl(L, ini, fin).utilidad_neta
<1> DEFINE en == get_daily_journal(L, ini, fin)
           mayor == get_general_ledger(L, ini, fin)
           K(k) == CuentasClase(en, k)
           i == SumFunction([c \in K(4) |-> Acreedor(mayor[c])])
           g == SumFunction([c \in K(5) |-> Deudor(mayor[c])])
           o == SumFunction([c \in K(6) |-> Deudor(mayor[c])])
<1>1. EsLineas(en) /\ \A k : K(k) \subseteq Cuentas(en)
  BY JournalLineas DEF CuentasClase
<1>2. build_pnl(L, ini, fin).utilidad_neta = (i - o) - g
  BY MayorDe DEF build_pnl, CuentasClase
<1>3. get_pnl(L, ini, fin).utilidad_neta
        = (CreditNature(DeClase(en, 4)) - DebitNature(DeClase(en, 6))) - DebitNature(DeClase(en, 5))
  BY DEF get_pnl
<1>4. i = -Mueve(en, K(4))
  <2> DEFINE G == [c \in K(4) |-> Acreedor(mayor[c])]
  <2>1. \A c \in K(4) : G[c] = CreditNature(DeCuenta(en, c))
    BY <1>1, MayorDe
  <2>2. i = SumFunctionOnSet(G, K(4))
    BY SumaDeFuncion
  <2>3. IsFiniteSet(K(4))
    BY <1>1, ClaseMueve
  <2> HIDE DEF G, K, en, mayor, i
  <2> QED BY <1>1, <2>1, <2>2, <2>3, SaldosAcreedores
<1>5. g = Mueve(en, K(5))
  <2> DEFINE G == [c \in K(5) |-> Deudor(mayor[c])]
  <2>1. \A c \in K(5) : G[c] = DebitNature(DeCuenta(en, c))
    BY <1>1, MayorDe
  <2>2. g = SumFunctionOnSet(G, K(5))
    BY SumaDeFuncion
  <2>3. IsFiniteSet(K(5))
    BY <1>1, ClaseMueve
  <2> HIDE DEF G, K, en, mayor, g
  <2> QED BY <1>1, <2>1, <2>2, <2>3, SaldosDeudores
<1>6. o = Mueve(en, K(6))
  <2> DEFINE G == [c \in K(6) |-> Deudor(mayor[c])]
  <2>1. \A c \in K(6) : G[c] = DebitNature(DeCuenta(en, c))
    BY <1>1, MayorDe
  <2>2. o = SumFunctionOnSet(G, K(6))
    BY SumaDeFuncion
  <2>3. IsFiniteSet(K(6))
    BY <1>1, ClaseMueve
  <2> HIDE DEF G, K, en, mayor, o
  <2> QED BY <1>1, <2>1, <2>2, <2>3, SaldosDeudores
<1> HIDE DEF en, mayor, i, g, o
<1>7. /\ CreditNature(DeClase(en, 4)) = i /\ DebitNature(DeClase(en, 6)) = o /\ DebitNature(DeClase(en, 5)) = g
  BY <1>1, <1>4, <1>5, <1>6, ClaseMueve
<1> QED BY <1>2, <1>3, <1>7

(* The profit of a balance sheet that keeps classes 4 to 6 where they are. *)
LEMMA UtilidadDelBalance ==
  ASSUME NEW L, EsLineas(L), NEW clase,
         \A c \in DelBalance(L) : \A k \in 4..6 : clase[c] = k <=> Clase(c) = k
  PROVE  Totales(L, clase).net_profit
           = (CreditNature(DeClase(L, 4)) - DebitNature(DeClase(L, 6))) - DebitNature(DeClase(L, 5))
<1> DEFINE K(k) == CuentasClase(L, k)
           m(k) == Mueve(L, EnClase(L, clase, k))
           u == Totales(L, clase).net_profit
           a == CreditNature(DeClase(L, 4))
           b == DebitNature(DeClase(L, 5))
           d == DebitNature(DeClase(L, 6))
<1>1. EnClase(L, clase, 4) = K(4) /\ EnClase(L, clase, 5) = K(5) /\ EnClase(L, clase, 6) = K(6)
  BY DEF EnClase, CuentasClase, DelBalance, SeReporta
<1>2. u = -m(4) - m(5) - m(6)
  BY TotalesSon
<1>3. m(4) \in Int /\ m(5) \in Int /\ m(6) \in Int
  BY TotalesSon
<1>4. a = -m(4) /\ b = m(5) /\ d = m(6)
  BY <1>1, ClaseMueve
<1> HIDE DEF m, u, a, b, d
<1>5. u = (a - d) - b
  BY <1>2, <1>3, <1>4
<1> QED BY <1>5 DEF u, a, b, d
----------------------------------------------------------------------------
(* The IVA report and the queries by regime and by month *)

LEMMA SinMovimiento ==
  ASSUME NEW M, EsLineas(M)
  PROVE  /\ (\A l \in M : l.debito = 0) => Debitos(M) = 0
         /\ (\A l \in M : l.credito = 0) => Creditos(M) = 0
<1> DEFINE D == [l \in M |-> l.debito]
           C == [l \in M |-> l.credito]
<1>1. Debitos(M) = SumFunctionOnSet(D, M) /\ Creditos(M) = SumFunctionOnSet(C, M) /\ IsFiniteSet(M)
  BY SumaDeFuncion DEF Debitos, Creditos, EsLineas
<1>2. /\ (\A l \in M : l.debito = 0) => \A l \in M : D[l] = 0
      /\ (\A l \in M : l.credito = 0) => \A l \in M : C[l] = 0
  OBVIOUS
<1> HIDE DEF D, C
<1> QED BY <1>1, <1>2, SumaCero

(* What the IVA report reads off an account. *)
Generado(m, c) == IF Starts(c, 240805) THEN m[c].credito
                  ELSE IF c = 2408 /\ (Deudor(m[c]) > 0) = FALSE THEN Acreedor(m[c]) ELSE 0
Descontable(m, c) == IF StartsAny(c, {240802, 240810}) THEN m[c].debito
                     ELSE IF c = 2408 /\ (Deudor(m[c]) > 0) = TRUE THEN Deudor(m[c]) ELSE 0

LEMMA IvaDeCuenta ==
  ASSUME NEW L, EsLineas(L), NEW ini, NEW fin, IvaPorSuLado(get_daily_journal(L, ini, fin)),
         NEW c \in Cuentas(get_daily_journal(L, ini, fin))
  PROVE  LET en == get_daily_journal(L, ini, fin)
             mayor == get_general_ledger(L, ini, fin)
         IN /\ Generado(mayor, c) \in Int /\ Descontable(mayor, c) \in Int
            /\ Generado(mayor, c) - Descontable(mayor, c)
                 = IF Starts(c, 2408) THEN CreditNature(DeCuenta(en, c)) ELSE 0
<1> DEFINE en == get_daily_journal(L, ini, fin)
           mayor == get_general_ledger(L, ini, fin)
           M == DeCuenta(en, c)
           d == Debitos(M)
           k == Creditos(M)
<1>1. EsLineas(en) /\ M \subseteq en /\ c \in Codigos /\ \A l \in M : l \in en /\ l.cuenta = c
  BY JournalLineas, CuentasFinitas DEF DeCuenta
<1>2. PICK l0 \in en : l0.cuenta = c
  BY DEF Cuentas
<1>3. EsLineas(M) /\ d \in Int /\ k \in Int
  <2> HIDE DEF en, M
  <2> QED BY <1>1, Parte
<1>4. /\ mayor[c].debito = d /\ mayor[c].credito = k
      /\ Deudor(mayor[c]) = d - k /\ Acreedor(mayor[c]) = k - d /\ CreditNature(M) = k - d
  BY MayorDe DEF Deudor, Acreedor, CreditNature, DebitNature
<1>5. /\ \A p \in {240805, 240802, 240810} : Starts(c, p) => Starts(c, 2408) /\ c # 2408
      /\ Starts(c, 240805) => ~Starts(c, 240802) /\ ~Starts(c, 240810)
      /\ Starts(2408, 2408)
  BY <1>1, PrefijosIva
<1>6. Starts(c, 2408) => \/ c = 2408 \/ Starts(c, 240805) \/ StartsAny(c, {240802, 240810})
  BY <1>2 DEF IvaPorSuLado, ConPrefijo
<1>7. Starts(c, 240805) => d = 0
  <2>1. Starts(c, 240805) => \A l \in M : l.debito = 0
    BY <1>1, <1>5 DEF IvaPorSuLado, ConPrefijo, StartsAny
  <2> HIDE DEF M
  <2> QED BY <1>3, <2>1, SinMovimiento
<1>8. StartsAny(c, {240802, 240810}) => k = 0
  <2>1. StartsAny(c, {240802, 240810}) => \A l \in M : l.credito = 0
    BY <1>1, <1>5 DEF IvaPorSuLado, ConPrefijo, StartsAny
  <2> HIDE DEF M
  <2> QED BY <1>3, <2>1, SinMovimiento
<1> DEFINE g == Generado(mayor, c)
           x == Descontable(mayor, c)
<1>9. CASE Starts(c, 240805)
  <2>1. ~StartsAny(c, {240802, 240810}) /\ c # 2408 /\ Starts(c, 2408)
    BY <1>5, <1>9 DEF StartsAny
  <2>2. g = k /\ x = 0
    BY <1>4, <1>9, <2>1 DEF Generado, Descontable
  <2> HIDE DEF g, x, d, k, M
  <2>3. CreditNature(M) = k /\ g - x = k
    BY <1>3, <1>4, <1>7, <1>9, <2>2
  <2> QED BY <1>3, <2>1, <2>2, <2>3 DEF g, x, M
<1>10. CASE StartsAny(c, {240802, 240810})
  <2>1. ~Starts(c, 240805) /\ c # 2408 /\ Starts(c, 2408)
    BY <1>5, <1>10 DEF StartsAny
  <2>2. g = 0 /\ x = d
    BY <1>4, <1>10, <2>1 DEF Generado, Descontable
  <2> HIDE DEF g, x, d, k, M
  <2>3. CreditNature(M) = 0 - d /\ g - x = 0 - d
    BY <1>3, <1>4, <1>8, <1>10, <2>2
  <2> QED BY <1>3, <2>1, <2>2, <2>3 DEF g, x, M
<1>11. CASE c = 2408
  <2>1. ~Starts(c, 240805) /\ ~StartsAny(c, {240802, 240810}) /\ Starts(c, 2408)
    BY <1>5, <1>11 DEF StartsAny
  <2>2. g = (IF (Deudor(mayor[c]) > 0) = FALSE THEN k - d ELSE 0)
        /\ x = (IF (Deudor(mayor[c]) > 0) = TRUE THEN d - k ELSE 0)
    BY <1>4, <1>11, <2>1 DEF Generado, Descontable
  <2> HIDE DEF g, x, d, k, M, mayor
  <2>3. CASE Deudor(mayor[c]) > 0
    <3>1. g = 0 /\ x = d - k
      BY <2>2, <2>3
    <3> QED BY <1>3, <1>4, <2>1, <3>1 DEF g, x, M, mayor
  <2>4. CASE ~(Deudor(mayor[c]) > 0)
    <3>1. g = k - d /\ x = 0
      BY <2>2, <2>4
    <3> QED BY <1>3, <1>4, <2>1, <3>1 DEF g, x, M, mayor
  <2> QED BY <2>3, <2>4
<1>12. CASE ~Starts(c, 240805) /\ ~StartsAny(c, {240802, 240810}) /\ c # 2408
  <2>1. ~Starts(c, 2408) /\ g = 0 /\ x = 0
    BY <1>6, <1>12 DEF Generado, Descontable
  <2> QED BY <2>1
<1> QED BY <1>9, <1>10, <1>11, <1>12

(* When each entry is on its side, the IVA to pay is what 2408 moved. *)
LEMMA IvaCuadra ==
  ASSUME NEW L, EsLineas(L), NEW ini, NEW fin, IvaPorSuLado(get_daily_journal(L, ini, fin))
  PROVE  build_iva(L, ini, fin).iva_a_pagar = CreditNature(ConPrefijo(get_daily_journal(L, ini, fin), 2408))
<1> DEFINE en == get_daily_journal(L, ini, fin)
           mayor == get_general_ledger(L, ini, fin)
           K == Cuentas(en)
           T == {c \in K : Starts(c, 2408)}
           F == [c \in K |-> Generado(mayor, c)]
           G == [c \in K |-> Descontable(mayor, c)]
           H == [c \in K |-> F[c] - G[c]]
           S == [c \in T |-> CreditNature(DeCuenta(en, c))]
<1>1. EsLineas(en) /\ IsFiniteSet(K) /\ DOMAIN mayor = K
  BY JournalLineas, MayorDe
<1>2. build_iva(L, ini, fin).iva_a_pagar = SumFunction(F) - SumFunction(G)
  BY <1>1 DEF build_iva, Generado, Descontable
<1>3. SumFunction(F) = SumFunctionOnSet(F, K) /\ SumFunction(G) = SumFunctionOnSet(G, K)
  BY SumaDeFuncion
<1>4. \A c \in K : /\ F[c] \in Int /\ G[c] \in Int /\ H[c] = F[c] - G[c]
                   /\ H[c] = IF Starts(c, 2408) THEN CreditNature(DeCuenta(en, c)) ELSE 0
  BY IvaDeCuenta
<1>5. /\ T \subseteq K /\ IsFiniteSet(T) /\ (\A c \in K \ T : H[c] = 0)
      /\ \A c \in T : H[c] = S[c] /\ S[c] = CreditNature(DeCuenta(en, c))
  BY <1>1, <1>4, FS_Subset
<1>6. \A c \in T : S[c] \in Int
  <2> HIDE DEF F, G
  <2> QED BY <1>4, <1>5
<1>7. SumFunctionOnSet(H, K) = SumFunctionOnSet(F, K) - SumFunctionOnSet(G, K)
  <2> HIDE DEF F, G, H, K
  <2> QED BY <1>1, <1>4, SumaDiferencia
<1>8. SumFunctionOnSet(H, K) = SumFunctionOnSet(S, T)
  <2> HIDE DEF S, T, H, K
  <2> QED BY <1>1, <1>5, <1>6, SumaFiltrada
<1>9. SumFunctionOnSet(S, T) = -Mueve(en, T)
  <2> HIDE DEF S, T, en
  <2> QED BY <1>1, <1>5, SaldosAcreedores
<1>10. DeCuentas(en, T) = ConPrefijo(en, 2408) /\ ConPrefijo(en, 2408) \subseteq en
  BY DEF DeCuentas, ConPrefijo, Cuentas
<1>11. CreditNature(ConPrefijo(en, 2408)) = -Mueve(en, T)
  <2> DEFINE M == ConPrefijo(en, 2408)
  <2>1. Mueve(en, T) = DebitNature(M) /\ M \subseteq en
    BY <1>10 DEF Mueve
  <2> HIDE DEF en, T, M
  <2>2. CreditNature(M) = -DebitNature(M)
    BY <1>1, <2>1, Parte
  <2> QED BY <2>1, <2>2 DEF M
<1> HIDE DEF F, G, H, S, T, K, en, mayor
<1> QED BY <1>2, <1>3, <1>7, <1>8, <1>9, <1>11 DEF en

(* The credits of class 4 of each regime add up to those of the class. *)
LEMMA IngresosPorRegimen ==
  ASSUME NEW L, EsLineas(L), NEW ini, NEW fin
  PROVE  SumFunction(get_revenue_by_tipo_iva(L, ini, fin))
           = Creditos(DeClase(get_daily_journal(L, ini, fin), 4))
<1> DEFINE en == ConPrefijo(get_daily_journal(L, ini, fin), 4)
           R == {l.tipoIva : l \in en}
           parte == [l \in en |-> l.tipoIva]
           C == [l \in en |-> l.credito]
           G == [t \in R |-> Creditos({l \in en : l.tipoIva = t})]
<1>1. EsLineas(en) /\ IsFiniteSet(en)
  <2>1. en \subseteq L
    BY DEF ConPrefijo, get_daily_journal
  <2> HIDE DEF en
  <2> QED BY <2>1, Parte
<1>2. en = DeClase(get_daily_journal(L, ini, fin), 4)
  <2>1. \A l \in get_daily_journal(L, ini, fin) : l.cuenta \in Codigos
    BY JournalLineas DEF EsLineas
  <2> QED BY <2>1, ClaseEs DEF ConPrefijo, DeClase
<1>3. IsFiniteSet(R)
  <2>1. R = {parte[l] : l \in en}
    OBVIOUS
  <2>2. IsFiniteSet({parte[l] : l \in en})
    <3> HIDE DEF parte, en
    <3> QED BY <1>1, ImagenFinita
  <2> QED BY <2>1, <2>2
<1>4. \A t \in R : G[t] = SumFunctionOnSet(C, DeParte(en, parte, t))
  <2> TAKE t \in R
  <2>1. DeParte(en, parte, t) = {l \in en : l.tipoIva = t} /\ DeParte(en, parte, t) \subseteq en
    BY DEF DeParte
  <2>2. Creditos(DeParte(en, parte, t)) = SumFunctionOnSet(C, DeParte(en, parte, t))
    <3> HIDE DEF en, parte
    <3> QED BY <1>1, <2>1, Parte
  <2> QED BY <2>1, <2>2
<1>5. \A l \in en : C[l] \in Int /\ parte[l] \in R
  BY <1>1 DEF EsLineas
<1>6. SumFunctionOnSet(G, R) = SumFunctionOnSet(C, en)
  <2> HIDE DEF G, R, C, en, parte
  <2> QED BY <1>1, <1>3, <1>4, <1>5, SumaPorPartes
<1>7. Creditos(en) = SumFunctionOnSet(C, en)
  <2> HIDE DEF en
  <2> QED BY <1>1, Parte
<1>8. SumFunction(get_revenue_by_tipo_iva(L, ini, fin)) = SumFunctionOnSet(G, R)
  BY SumaDeFuncion DEF get_revenue_by_tipo_iva
<1> QED BY <1>2, <1>6, <1>7, <1>8

(* One batched query per month is one query per prefix and month. *)
LEMMA MesesPorClase ==
  ASSUME NEW L, EsLineas(L), NEW desde, NEW p \in ClassMap
  PROVE  get_monthly_totals_by_class(L, desde)[p] = get_monthly_trend(L, p, desde)
<1> DEFINE en == {l \in L : l.fecha >= desde}
           de == {l \in ConPrefijo(L, p) : l.fecha >= desde}
           F(m) == [l \in en |-> IF Starts(l.cuenta, p) /\ l.fecha = m THEN l.debito - l.credito ELSE 0]
           T(m) == {l \in de : l.fecha = m}
           M == {l.fecha : l \in de}
           N == {n \in {l.fecha : l \in en} : \E l \in en : Starts(l.cuenta, p) /\ l.fecha = n}
<1>1. N = M
  BY DEF ConPrefijo
<1>2. ASSUME NEW m
      PROVE  SumFunction(F(m)) = DebitNature(T(m))
  <2>1. T(m) \subseteq en /\ T(m) \subseteq L /\ en \subseteq L
    BY DEF ConPrefijo
  <2>2. /\ \A l \in T(m) : F(m)[l] = NetoDe(L)[l] /\ NetoDe(L)[l] \in Int
        /\ \A l \in en \ T(m) : F(m)[l] = 0
    BY DEF ConPrefijo, NetoDe, EsLineas
  <2>3. SumFunction(F(m)) = SumFunctionOnSet(F(m), en)
    BY SumaDeFuncion
  <2> HIDE DEF F, T, en
  <2>4. IsFiniteSet(en) /\ DebitNature(T(m)) = SumFunctionOnSet(NetoDe(L), T(m))
    BY <2>1, Parte
  <2>5. SumFunctionOnSet(F(m), en) = SumFunctionOnSet(NetoDe(L), T(m))
    BY <2>1, <2>2, <2>4, SumaFiltrada
  <2> QED BY <2>3, <2>4, <2>5
<1>3. get_monthly_totals_by_class(L, desde)[p] = [m \in N |-> SumFunction(F(m))]
  BY DEF get_monthly_totals_by_class
<1>4. get_monthly_trend(L, p, desde) = [m \in M |-> DebitNature(T(m))]
  BY DEF get_monthly_trend
<1> HIDE DEF F, T, M, N
<1> QED BY <1>1, <1>2, <1>3, <1>4
----------------------------------------------------------------------------
(* The three agreements *)

LEMMA SumaDelDebe ==
  ASSUME NEW L, EsLineas(L), NEW K, IsFiniteSet(K), NEW f, DOMAIN f = K,
         \A c \in K : f[c] = DebitNature(DeCuenta(L, c))
  PROVE  SumFunction(f) = Mueve(L, K)
BY SaldosDeudores, SumaDeFuncion

LEMMA SumaDelHaber ==
  ASSUME NEW L, EsLineas(L), NEW K, IsFiniteSet(K), NEW f, DOMAIN f = K,
         \A c \in K : f[c] = CreditNature(DeCuenta(L, c))
  PROVE  SumFunction(f) = -Mueve(L, K)
BY SaldosAcreedores, SumaDeFuncion

THEOREM ElPeriodoCuadra ==
  ASSUME NEW L, EsLineas(L), NEW ini, NEW fin
  PROVE  PeriodAgrees(L, ini, fin)
<1> DEFINE en == get_daily_journal(L, ini, fin)
           b == get_balance_sheet_for_period(L, ini, fin)
           clase == PorClase(en)
<1>1. EsLineas(en)
  BY JournalLineas
<1>2. b = Totales(en, clase)
  BY DEF get_balance_sheet_for_period
<1>3. \A c \in DelBalance(en) : clase[c] = Clase(c) /\ clase[c] \in 1..6
  BY DEF PorClase, DelBalance, SeReporta
<1>4. b.assets - (b.liabilities + b.total_equity) = DebitNature({l \in en : SeReporta(l.cuenta)})
  <2> HIDE DEF en, clase, b
  <2> QED BY <1>1, <1>2, <1>3, BalanceCierra
<1>5. IsBalanced(b) <=> Cierra(en)
  BY <1>4 DEF IsBalanced, Cierra
<1>6. build_pnl(L, ini, fin).utilidad_neta = get_pnl(L, ini, fin).utilidad_neta
  BY UtilidadDePnl
<1>7. get_pnl(L, ini, fin).utilidad_neta = b.net_profit
  <2>1. get_pnl(L, ini, fin).utilidad_neta
          = (CreditNature(DeClase(en, 4)) - DebitNature(DeClase(en, 6))) - DebitNature(DeClase(en, 5))
    BY DEF get_pnl
  <2>2. \A c \in DelBalance(en) : \A k \in 4..6 : clase[c] = k <=> Clase(c) = k
    BY <1>3
  <2> HIDE DEF en, clase, b
  <2> QED BY <1>1, <1>2, <2>1, <2>2, UtilidadDelBalance
<1>8. IvaPorSuLado(en) => build_iva(L, ini, fin).iva_a_pagar = CreditNature(ConPrefijo(en, 2408))
  BY IvaCuadra
<1>9. SumFunction(get_revenue_by_tipo_iva(L, ini, fin)) = Creditos(DeClase(en, 4))
  BY IngresosPorRegimen
<1>10. \A p \in ClassMap : get_monthly_totals_by_class(L, ini)[p] = get_monthly_trend(L, p, ini)
  BY MesesPorClase
<1> QED BY <1>5, <1>6, <1>7, <1>8, <1>9, <1>10 DEF PeriodAgrees

(* The catalogue moves accounts between classes 1, 2 and 3 only, and none to 3. *)
LEMMA PresentacionEs ==
  \A c : SeReporta(c) => /\ PresentationClass(c) \in 1..6
                         /\ \A k \in 4..6 : PresentationClass(c) = k <=> Clase(c) = k
                         /\ PresentationClass(c) = 3 => Clase(c) = 3
<1> TAKE c
<1>1. \/ PresentationClass(c) \in {1, 2} /\ Clase(c) \in {1, 2, 3}
      \/ PresentationClass(c) = Clase(c)
  BY DEF PresentationClass
<1> QED BY <1>1 DEF SeReporta

THEOREM ElBalanceCuadra ==
  ASSUME NEW L, EsLineas(L), NEW fin \in Nat
  PROVE  BalanceAgrees(L, fin)
<1> DEFINE en == Hasta(L, fin)
           t == get_balance_sheet(L, fin)
           clase == Presentacion(en)
           mayor == get_general_ledger(L, 0, fin)
           de(k) == CuentasClase(en, k)
           activos == {c \in de(1) : Deudor(mayor[c]) >= 0} \cup {c \in de(2) : Acreedor(mayor[c]) < 0}
           pasivos == {c \in de(2) : Acreedor(mayor[c]) >= 0} \cup {c \in de(1) : Deudor(mayor[c]) < 0}
           m(k) == Mueve(en, EnClase(en, clase, k))
           b == build_balance(L, fin)
<1>1. en = get_daily_journal(L, 0, fin)
  BY DEF Hasta, get_daily_journal, EsLineas
<1>2. EsLineas(en) /\ IsFiniteSet(Cuentas(en))
  BY <1>1, JournalLineas
<1>3. t = Totales(en, clase)
  BY DEF get_balance_sheet
<1>4. \A c \in DelBalance(en) : /\ clase[c] \in 1..6
                                /\ \A k \in 4..6 : clase[c] = k <=> Clase(c) = k
                                /\ clase[c] = 3 => Clase(c) = 3
                                /\ clase[c] = PresentationClass(c)
  BY PresentacionEs DEF Presentacion, DelBalance
<1>5. IsBalanced(t) <=> Cierra(en)
  <2>1. t.assets - (t.liabilities + t.total_equity) = DebitNature({l \in en : SeReporta(l.cuenta)})
    <3> HIDE DEF en, clase, t
    <3> QED BY <1>2, <1>3, <1>4, BalanceCierra
  <2> QED BY <2>1 DEF IsBalanced, Cierra
<1>6. t.net_profit = get_pnl(L, 0, fin).utilidad_neta
  <2>1. get_pnl(L, 0, fin).utilidad_neta
          = (CreditNature(DeClase(en, 4)) - DebitNature(DeClase(en, 6))) - DebitNature(DeClase(en, 5))
    BY <1>1 DEF get_pnl
  <2> HIDE DEF en, clase, t
  <2> QED BY <1>2, <1>3, <1>4, <2>1, UtilidadDelBalance
<1>7. /\ DOMAIN mayor = Cuentas(en)
      /\ \A c \in Cuentas(en) : /\ Deudor(mayor[c]) = DebitNature(DeCuenta(en, c))
                                /\ Acreedor(mayor[c]) = CreditNature(DeCuenta(en, c))
  BY <1>1, MayorDe
<1>8. \A c \in Cuentas(en) : /\ Deudor(mayor[c]) \in Int
                             /\ Acreedor(mayor[c]) = -Deudor(mayor[c])
                             /\ CreditNature(DeCuenta(en, c)) = -DebitNature(DeCuenta(en, c))
  <2>1. \A c : DeCuenta(en, c) \subseteq en
    BY DEF DeCuenta
  <2> HIDE DEF en, mayor
  <2> QED BY <1>2, <1>7, <2>1, Parte
<1> DEFINE fa == [c \in activos |-> Absolute(Deudor(mayor[c]))]
           fp == [c \in pasivos |-> Absolute(Deudor(mayor[c]))]
           fe == [c \in de(3) |-> Acreedor(mayor[c])]
<1>9. b = [totales |-> t, activos_detalle |-> fa, pasivos_detalle |-> fp, patrimonio_detalle |-> fe]
  BY <1>7 DEF build_balance, CuentasClase
<1>10. /\ activos \subseteq Cuentas(en) /\ pasivos \subseteq Cuentas(en) /\ \A k : de(k) \subseteq Cuentas(en)
       /\ IsFiniteSet(activos) /\ IsFiniteSet(pasivos) /\ IsFiniteSet(de(3))
  <2>1. activos \subseteq Cuentas(en) /\ pasivos \subseteq Cuentas(en) /\ \A k : de(k) \subseteq Cuentas(en)
    BY DEF CuentasClase
  <2> HIDE DEF activos, pasivos, en, de
  <2> QED BY <1>2, <2>1, FS_Subset
<1>11. SumFunction(fa) = Mueve(en, activos)
  <2>1. \A c \in activos : Deudor(mayor[c]) >= 0
    <3> HIDE DEF mayor, en
    <3> QED BY <1>8, <1>10
  <2>2. \A c \in activos : fa[c] = DebitNature(DeCuenta(en, c))
    <3> HIDE DEF mayor, en, activos
    <3> QED BY <1>7, <1>8, <1>10, <2>1 DEF Absolute
  <2>3. DOMAIN fa = activos
    OBVIOUS
  <2> HIDE DEF fa, activos, en
  <2> QED BY <1>2, <1>10, <2>2, <2>3, SumaDelDebe
<1>12. SumFunction(fp) = -Mueve(en, pasivos)
  <2>1. \A c \in pasivos : Deudor(mayor[c]) <= 0
    <3> HIDE DEF mayor, en
    <3> QED BY <1>8, <1>10
  <2>2. \A c \in pasivos : fp[c] = CreditNature(DeCuenta(en, c))
    <3> HIDE DEF mayor, en, pasivos
    <3> QED BY <1>7, <1>8, <1>10, <2>1 DEF Absolute
  <2>3. DOMAIN fp = pasivos
    OBVIOUS
  <2> HIDE DEF fp, pasivos, en
  <2> QED BY <1>2, <1>10, <2>2, <2>3, SumaDelHaber
<1>13. SumFunction(fe) = -Mueve(en, de(3))
  <2>1. DOMAIN fe = de(3) /\ \A c \in de(3) : fe[c] = CreditNature(DeCuenta(en, c))
    BY <1>7, <1>10
  <2> HIDE DEF fe, de, en
  <2> QED BY <1>2, <1>10, <2>1, SumaDelHaber
<1> DEFINE E(k) == EnClase(en, clase, k)
<1>14. /\ activos \cap pasivos = {} /\ (activos \cup pasivos) \cap de(3) = {}
       /\ activos \cup pasivos = de(1) \cup de(2)
       /\ E(1) \cap E(2) = {} /\ (E(1) \cup E(2)) \cap E(3) = {}
       /\ (E(1) \cup E(2)) \cup E(3) = (de(1) \cup de(2)) \cup de(3)
  <2>1. \A c \in Cuentas(en) : /\ (Acreedor(mayor[c]) < 0 <=> ~(Acreedor(mayor[c]) >= 0))
                               /\ (Deudor(mayor[c]) < 0 <=> ~(Deudor(mayor[c]) >= 0))
    <3> HIDE DEF en, mayor
    <3> QED BY <1>8
  <2>2. /\ activos \cap pasivos = {} /\ (activos \cup pasivos) \cap de(3) = {}
        /\ activos \cup pasivos = de(1) \cup de(2)
    <3> HIDE DEF en, mayor
    <3> QED BY <2>1 DEF CuentasClase
  <2>3. E(1) \cap E(2) = {} /\ (E(1) \cup E(2)) \cap E(3) = {}
    BY DEF EnClase
  <2>4. \A c \in DelBalance(en) : clase[c] \in {1, 2, 3} <=> Clase(c) \in {1, 2, 3}
    <3>1. \A c \in DelBalance(en) : Clase(c) \in 1..6
      BY DEF DelBalance, SeReporta
    <3> HIDE DEF en, clase
    <3> QED BY <1>4, <3>1
  <2>5. (E(1) \cup E(2)) \cup E(3) = {c \in DelBalance(en) : clase[c] \in {1, 2, 3}}
    BY DEF EnClase
  <2>6. (de(1) \cup de(2)) \cup de(3) = {c \in DelBalance(en) : Clase(c) \in {1, 2, 3}}
    BY DEF CuentasClase, DelBalance, SeReporta
  <2> HIDE DEF en, clase, E, de, activos, pasivos
  <2> QED BY <2>2, <2>3, <2>4, <2>5, <2>6
<1>15. (SumFunction(fa) - SumFunction(fp)) - SumFunction(fe) = (t.assets - t.liabilities) - t.equity
  <2> HIDE DEF en, clase, E, de, activos, pasivos, t
  <2>1. /\ Mueve(en, activos \cup pasivos) = Mueve(en, activos) + Mueve(en, pasivos)
        /\ Mueve(en, activos) \in Int /\ Mueve(en, pasivos) \in Int
    BY <1>2, <1>14, MueveUnion
  <2>2. /\ Mueve(en, (activos \cup pasivos) \cup de(3)) = Mueve(en, activos \cup pasivos) + Mueve(en, de(3))
        /\ Mueve(en, de(3)) \in Int
    BY <1>2, <1>14, MueveUnion
  <2>3. /\ Mueve(en, E(1) \cup E(2)) = Mueve(en, E(1)) + Mueve(en, E(2))
        /\ Mueve(en, E(1)) \in Int /\ Mueve(en, E(2)) \in Int
    BY <1>2, <1>14, MueveUnion
  <2>4. /\ Mueve(en, (E(1) \cup E(2)) \cup E(3)) = Mueve(en, E(1) \cup E(2)) + Mueve(en, E(3))
        /\ Mueve(en, E(3)) \in Int
    BY <1>2, <1>14, MueveUnion
  <2>5. (E(1) \cup E(2)) \cup E(3) = (activos \cup pasivos) \cup de(3)
    BY <1>14
  <2>6. /\ t.assets \in Int /\ t.liabilities \in Int /\ t.equity \in Int
        /\ t.assets - t.liabilities = Mueve(en, E(1)) + Mueve(en, E(2))
        /\ t.equity = -Mueve(en, E(3))
    BY <1>2, <1>3, TotalesSon DEF E
  <2> DEFINE a == Mueve(en, activos)
             p == Mueve(en, pasivos)
             q == Mueve(en, de(3))
             e1 == Mueve(en, E(1))
             e2 == Mueve(en, E(2))
             e3 == Mueve(en, E(3))
             sa == SumFunction(fa)
             sp == SumFunction(fp)
             se == SumFunction(fe)
  <2>7. (a + p) + q = (e1 + e2) + e3
    BY <2>1, <2>2, <2>3, <2>4, <2>5
  <2>8. sa = a /\ sp = -p /\ se = -q /\ a \in Int /\ p \in Int /\ q \in Int
    BY <1>11, <1>12, <1>13, <2>1, <2>2
  <2>9. /\ e1 \in Int /\ e2 \in Int /\ e3 \in Int
        /\ t.assets - t.liabilities = e1 + e2 /\ t.equity = -e3
    BY <2>3, <2>4, <2>6
  <2> HIDE DEF a, p, q, e1, e2, e3, sa, sp, se
  <2>10. (sa - sp) - se = (t.assets - t.liabilities) - t.equity
    BY <2>7, <2>8, <2>9
  <2> QED BY <2>10 DEF sa, sp, se
<1>16. (\A c \in Cuentas(en) : Clase(c) = 3 => PresentationClass(c) = 3) => SumFunction(fe) = t.equity
  <2> SUFFICES ASSUME \A c \in Cuentas(en) : Clase(c) = 3 => PresentationClass(c) = 3
               PROVE  SumFunction(fe) = t.equity
    OBVIOUS
  <2>1. E(3) = de(3)
    <3>1. de(3) = {c \in DelBalance(en) : Clase(c) = 3} /\ \A c \in DelBalance(en) : c \in Cuentas(en)
      BY DEF CuentasClase, DelBalance, SeReporta
    <3> HIDE DEF en, clase, de
    <3> QED BY <1>4, <3>1 DEF EnClase
  <2>2. t.equity = -Mueve(en, E(3))
    <3> HIDE DEF en, clase, t
    <3> QED BY <1>2, <1>3, TotalesSon DEF E
  <2> HIDE DEF en, clase, de, E, t, fe
  <2> QED BY <1>13, <2>1, <2>2
<1> HIDE DEF t, fa, fp, fe, en, b
<1>17. /\ b.totales = t /\ b.activos_detalle = fa /\ b.pasivos_detalle = fp /\ b.patrimonio_detalle = fe
  BY <1>9
<1> QED BY <1>5, <1>6, <1>15, <1>16, <1>17 DEF BalanceAgrees, en, b
----------------------------------------------------------------------------
(* The comparison of two periods adds up to the difference of their entries. *)
LEMMA ComparacionSuma ==
  ASSUME NEW L, EsLineas(L), NEW p, NEW q
  PROVE  SumFunction(get_period_comparison(L, p, q))
           = DebitNature(get_daily_journal(L, q.ini, q.fin)) - DebitNature(get_daily_journal(L, p.ini, p.fin))
<1> DEFINE ea == get_daily_journal(L, p.ini, p.fin)
           eb == get_daily_journal(L, q.ini, q.fin)
           a == get_general_ledger(L, p.ini, p.fin)
           b == get_general_ledger(L, q.ini, q.fin)
           K == Cuentas(ea) \cup Cuentas(eb)
           valor(m, c) == IF c \in DOMAIN m THEN Deudor(m[c]) ELSE 0
           F == [c \in K |-> valor(b, c)]
           G == [c \in K |-> valor(a, c)]
           H == [c \in K |-> valor(b, c) - valor(a, c)]
<1>1. /\ EsLineas(ea) /\ IsFiniteSet(Cuentas(ea))
      /\ EsLineas(eb) /\ IsFiniteSet(Cuentas(eb))
  BY JournalLineas
<1>2. IsFiniteSet(K) /\ Cuentas(ea) \subseteq K /\ Cuentas(eb) \subseteq K
  <2> HIDE DEF ea, eb
  <2> QED BY <1>1, FS_Union
<1>3. /\ DOMAIN a = Cuentas(ea) /\ \A c \in Cuentas(ea) : Deudor(a[c]) = DebitNature(DeCuenta(ea, c))
      /\ DOMAIN b = Cuentas(eb) /\ \A c \in Cuentas(eb) : Deudor(b[c]) = DebitNature(DeCuenta(eb, c))
  BY MayorDe
<1>4. /\ \A c : DebitNature(DeCuenta(ea, c)) \in Int
      /\ \A c : DebitNature(DeCuenta(eb, c)) \in Int
  <2>1. /\ \A c : DeCuenta(ea, c) \subseteq ea
        /\ \A c : DeCuenta(eb, c) \subseteq eb
    BY DEF DeCuenta
  <2> HIDE DEF ea, eb
  <2> QED BY <1>1, <2>1, Parte
<1>5. SumFunction(get_period_comparison(L, p, q)) = SumFunctionOnSet(H, K)
  <2>1. get_period_comparison(L, p, q) = [c \in DOMAIN a \cup DOMAIN b |-> valor(b, c) - valor(a, c)]
    BY DEF get_period_comparison
  <2>2. get_period_comparison(L, p, q) = H /\ DOMAIN H = K
    <3> HIDE DEF valor, a, b, ea, eb
    <3> QED BY <1>3, <2>1
  <2> HIDE DEF H, K
  <2> QED BY <2>2, SumaDeFuncion
<1> HIDE DEF ea, eb, a, b
<1>6. /\ \A c \in K : F[c] \in Int /\ G[c] \in Int /\ H[c] = F[c] - G[c]
      /\ \A c \in Cuentas(ea) : G[c] = DebitNature(DeCuenta(ea, c))
      /\ \A c \in Cuentas(eb) : F[c] = DebitNature(DeCuenta(eb, c))
      /\ \A c \in K \ Cuentas(ea) : G[c] = 0
      /\ \A c \in K \ Cuentas(eb) : F[c] = 0
  BY <1>3, <1>4
<1> HIDE DEF F, G, H, K
<1>7. SumFunctionOnSet(H, K) = SumFunctionOnSet(F, K) - SumFunctionOnSet(G, K)
  BY <1>2, <1>6, SumaDiferencia
<1>8. SumFunctionOnSet(G, K) = SumFunctionOnSet(G, Cuentas(ea))
  BY <1>2, <1>4, <1>6, SumaFiltrada
<1>9. SumFunctionOnSet(F, K) = SumFunctionOnSet(F, Cuentas(eb))
  BY <1>2, <1>4, <1>6, SumaFiltrada
<1>10. SumFunctionOnSet(G, Cuentas(ea)) = Mueve(ea, Cuentas(ea))
  BY <1>1, <1>6, SaldosDeudores
<1>11. SumFunctionOnSet(F, Cuentas(eb)) = Mueve(eb, Cuentas(eb))
  BY <1>1, <1>6, SaldosDeudores
<1>12. DeCuentas(ea, Cuentas(ea)) = ea /\ DeCuentas(eb, Cuentas(eb)) = eb
  BY DEF DeCuentas, Cuentas
<1>13. SumFunctionOnSet(H, K) = DebitNature(eb) - DebitNature(ea)
  BY <1>7, <1>8, <1>9, <1>10, <1>11, <1>12 DEF Mueve
<1> QED BY <1>5, <1>13 DEF ea, eb

Antes(L, corte) == {l \in L : l.fecha < corte}

(* What an account has at the close is what it had before and what it moved. *)
LEMMA SaldoFinal ==
  ASSUME NEW L, EsLineas(L), NEW ini \in Nat, NEW fin \in Nat, ini <= fin + 1, NEW c
  PROVE  LET antes == Antes(L, ini)
             en == get_daily_journal(L, ini, fin)
             hasta == get_daily_journal(L, 0, fin)
         IN /\ Cuentas(hasta) = Cuentas(antes) \cup Cuentas(en)
            /\ DebitNature(DeCuenta(hasta, c))
                 = DebitNature(DeCuenta(antes, c)) + DebitNature(DeCuenta(en, c))
            /\ DebitNature(DeCuenta(antes, c)) \in Int
            /\ c \notin Cuentas(en) => DebitNature(DeCuenta(en, c)) = 0
<1> DEFINE antes == Antes(L, ini)
           en == get_daily_journal(L, ini, fin)
           hasta == get_daily_journal(L, 0, fin)
<1>1. \A l \in L : l.fecha \in Nat
  BY DEF EsLineas
<1>2. hasta = antes \cup en /\ antes \cap en = {} /\ antes \subseteq L /\ en \subseteq L
  BY <1>1 DEF get_daily_journal, Antes
<1> HIDE DEF antes, en, hasta
<1>3. Cuentas(hasta) = Cuentas(antes) \cup Cuentas(en)
  BY <1>2 DEF Cuentas
<1> DEFINE A == DeCuenta(antes, c)
           N == DeCuenta(en, c)
<1>4. /\ DeCuenta(hasta, c) = A \cup N /\ A \subseteq L /\ N \subseteq L /\ A \cap N = {}
      /\ c \notin Cuentas(en) => N = {}
  BY <1>2 DEF DeCuenta, Cuentas
<1> HIDE DEF A, N
<1>5. DebitNature(A \cup N) = DebitNature(A) + DebitNature(N) /\ DebitNature(A) \in Int
  BY <1>4, NatUnion
<1> QED BY <1>3, <1>4, <1>5, NatVacia DEF A, N, antes, en, hasta

THEOREM LosAuxiliaresEncadenan ==
  ASSUME NEW L, EsLineas(L), NEW p, NEW q,
         p.ini \in Nat, p.fin \in Nat, q.ini \in Nat, q.fin \in Nat
  PROVE  SubledgersChain(L, p, q)
<1> DEFINE a == build_libro_auxiliar_cuentas(L, p.ini, p.fin)
           b == build_libro_auxiliar_cuentas(L, q.ini, q.fin)
           mayor == get_general_ledger(L, 0, p.fin)
           libro == build_libro_auxiliar(L, p.ini, p.fin)
           antes == Antes(L, p.ini)
           en == get_daily_journal(L, p.ini, p.fin)
           hasta == get_daily_journal(L, 0, p.fin)
           i(c) == DebitNature(DeCuenta(antes, c))
           n(c) == DebitNature(DeCuenta(en, c))
<1>1. /\ DOMAIN a = {d \in Cuentas(antes) \cup Cuentas(en) : i(d) # 0 \/ d \in Cuentas(en)}
      /\ \A c \in DOMAIN a : a[c].saldo_inicial = i(c) /\ a[c].saldo_final = i(c) + n(c)
  BY DEF build_libro_auxiliar_cuentas, Antes
<1>2. /\ DOMAIN mayor = Cuentas(hasta)
      /\ \A c \in Cuentas(hasta) : Deudor(mayor[c]) = DebitNature(DeCuenta(hasta, c))
  BY MayorDe
<1>3. /\ DOMAIN libro = Cuentas(en)
      /\ \A c \in Cuentas(en) : libro[c].movimientos = DeCuenta(en, c) /\ libro[c].saldo = n(c)
  BY DEF build_libro_auxiliar
<1>4. \A c : i(c) \in Int /\ n(c) \in Int
  <2>1. \A c : DeCuenta(antes, c) \subseteq L /\ DeCuenta(en, c) \subseteq L
    BY DEF DeCuenta, get_daily_journal, Antes
  <2> HIDE DEF antes, en
  <2> QED BY <2>1, Parte
<1>5. ASSUME p.ini <= p.fin + 1
      PROVE  /\ \A c \in DOMAIN a : c \in DOMAIN mayor /\ a[c].saldo_final = Deudor(mayor[c])
             /\ \A c \in DOMAIN mayor \ DOMAIN a : Deudor(mayor[c]) = 0
             /\ p.fin + 1 = q.ini => \A c \in DOMAIN a \cap DOMAIN b : b[c].saldo_inicial = a[c].saldo_final
  <2>1. /\ Cuentas(hasta) = Cuentas(antes) \cup Cuentas(en)
        /\ \A c : DebitNature(DeCuenta(hasta, c)) = i(c) + n(c)
        /\ \A c : c \notin Cuentas(en) => n(c) = 0
    <3>1. ASSUME NEW c
          PROVE  /\ Cuentas(hasta) = Cuentas(antes) \cup Cuentas(en)
                 /\ DebitNature(DeCuenta(hasta, c)) = i(c) + n(c)
                 /\ c \notin Cuentas(en) => n(c) = 0
      BY <1>5, SaldoFinal
    <3> HIDE DEF antes, en, hasta, i, n
    <3> QED BY <3>1
  <2>2. p.fin + 1 = q.ini => \A c \in DOMAIN b : b[c].saldo_inicial = DebitNature(DeCuenta(hasta, c))
    <3> SUFFICES ASSUME p.fin + 1 = q.ini, NEW c \in DOMAIN b
                 PROVE  b[c].saldo_inicial = DebitNature(DeCuenta(hasta, c))
      OBVIOUS
    <3>1. b[c].saldo_inicial = DebitNature(DeCuenta({l \in L : l.fecha < q.ini}, c))
      BY DEF build_libro_auxiliar_cuentas
    <3>2. {l \in L : l.fecha < q.ini} = hasta
      BY DEF get_daily_journal, EsLineas
    <3> QED BY <3>1, <3>2
  <2> HIDE DEF a, b, mayor, antes, en, hasta, i, n
  <2>3. \A c \in DOMAIN a : c \in DOMAIN mayor /\ a[c].saldo_final = Deudor(mayor[c])
    BY <1>1, <1>2, <2>1
  <2>4. \A c \in DOMAIN mayor \ DOMAIN a : Deudor(mayor[c]) = 0
    BY <1>1, <1>2, <1>4, <2>1
  <2> QED BY <1>1, <1>2, <2>1, <2>2, <2>3, <2>4
<1>6. \A c \in DOMAIN libro :
        /\ libro[c].movimientos = get_subsidiary_journal(L, c, p.ini, p.fin)
        /\ c \in DOMAIN a /\ libro[c].saldo = a[c].saldo_final - a[c].saldo_inicial
  <2>1. \A c : get_subsidiary_journal(L, c, p.ini, p.fin) = DeCuenta(en, c)
    BY DEF get_subsidiary_journal
  <2> HIDE DEF a, libro, en, antes, i, n
  <2> QED BY <1>1, <1>3, <1>4, <2>1
<1>7. SumFunction(get_period_comparison(L, p, q))
        = DebitNature(get_daily_journal(L, q.ini, q.fin)) - DebitNature(get_daily_journal(L, p.ini, p.fin))
  BY ComparacionSuma
<1> HIDE DEF a, b, mayor, libro
<1> QED BY <1>5, <1>6, <1>7 DEF SubledgersChain, a, b, mayor, libro

(* The books of several transactions together. *)
LEMMA UnionDeLineas ==
  ASSUME NEW S, IsFiniteSet(S), NEW A, \A t \in S : EsLineas(A[t])
  PROVE  EsLineas(UNION {A[t] : t \in S})
<1> DEFINE U == {A[t] : t \in S}
<1>1. IsFiniteSet(U)
  BY ImagenFinita
<1>2. \A M \in U : IsFiniteSet(M)
  BY DEF EsLineas
<1>3. IsFiniteSet(UNION U)
  <2> HIDE DEF U
  <2> QED BY <1>1, <1>2, FS_UNION
<1> QED BY <1>3 DEF EsLineas
----------------------------------------------------------------------------
(* Six-digit accounts *)

(* Six-digit accounts: their group is their first two digits, which give the
   class; a longer prefix is one of a code of the same group. *)
LEMMA CodigoDeSubcuenta ==
  \A c \in Codigos : Subcuenta(c) =>
    /\ Grupo(c) \in 10..99
    /\ \A g \in 10..99 : Starts(c, g) <=> Grupo(c) = g
    /\ Clase(c) \in 1..9 /\ \A d \in 1..9 : Clase(c) = d <=> 10 * d <= Grupo(c) /\ Grupo(c) <= 10 * d + 9
<1> SUFFICES ASSUME NEW c \in Codigos, Subcuenta(c)
             PROVE  /\ Grupo(c) \in 10..99
                    /\ \A g \in 10..99 : Starts(c, g) <=> Grupo(c) = g
                    /\ Clase(c) \in 1..9
                    /\ \A d \in 1..9 : Clase(c) = d <=> 10 * d <= Grupo(c) /\ Grupo(c) <= 10 * d + 9
  OBVIOUS
<1>0. c \in Nat /\ 100000 <= c /\ c <= 999999
  BY SMT DEF Codigos, Subcuenta
<1>1. Grupo(c) \in 10..99
  BY <1>0, SMTT(30) DEF Grupo
<1>2. ASSUME NEW g \in 10..99
      PROVE  Starts(c, g) <=> Grupo(c) = g
  <2>1. ASSUME NEW q \in Potencias, c \div q = g
        PROVE  q = 10000
    BY <1>0, <2>1, SMTT(30) DEF Potencias
  <2>2. 10000 \in Potencias
    BY SMT DEF Potencias
  <2> QED BY <2>1, <2>2, SMT DEF Starts, Grupo
<1>3. ASSUME NEW d \in 1..9
      PROVE  Starts(c, d) <=> 10 * d <= Grupo(c) /\ Grupo(c) <= 10 * d + 9
  <2>1. ASSUME NEW q \in Potencias, c \div q = d
        PROVE  q = 100000
    BY <1>0, <2>1, SMTT(30) DEF Potencias
  <2>2. 100000 \in Potencias
    BY SMT DEF Potencias
  <2>3. Starts(c, d) <=> c \div 100000 = d
    BY <2>1, <2>2, SMT DEF Starts
  <2>4. c \div 100000 = d <=> 10 * d <= c \div 10000 /\ c \div 10000 <= 10 * d + 9
    BY <1>0, SMTT(30)
  <2> QED BY <2>3, <2>4 DEF Grupo
<1>4. \E d \in 1..9 : Starts(c, d) /\ Clase(c) = d
  BY ClaseHay, ClaseEs
<1> QED BY <1>1, <1>2, <1>3, <1>4, ClaseEs, SMT

LEMMA PrefijosDeSubcuenta ==
  \A c \in Codigos : Subcuenta(c) =>
    /\ Starts(c, 159) => Grupo(c) = 15
    /\ Starts(c, 3705) => Grupo(c) = 37
    /\ Starts(c, 519) => Grupo(c) = 51
    /\ Starts(c, 5160) => Grupo(c) = 51
    /\ Starts(c, 5260) => Grupo(c) = 52
    /\ Starts(c, 7560) => Grupo(c) = 75
<1> SUFFICES ASSUME NEW c \in Codigos, Subcuenta(c)
             PROVE  /\ Starts(c, 159) => Grupo(c) = 15
                    /\ Starts(c, 3705) => Grupo(c) = 37
                    /\ Starts(c, 519) => Grupo(c) = 51
                    /\ Starts(c, 5160) => Grupo(c) = 51
                    /\ Starts(c, 5260) => Grupo(c) = 52
                    /\ Starts(c, 7560) => Grupo(c) = 75
  OBVIOUS
<1>0. c \in Nat /\ 100000 <= c /\ c <= 999999
  BY SMT DEF Codigos, Subcuenta
<1>1. ASSUME NEW p \in {159, 519}, Starts(c, p)
      PROVE  Grupo(c) = p \div 10
  <2>1. PICK q \in Potencias : c \div q = p
    BY <1>1, SMT DEF Starts
  <2>2. q = 1000
    BY <1>0, <2>1, SMTT(30) DEF Potencias
  <2> QED BY <1>0, <2>1, <2>2, SMTT(30) DEF Grupo
<1>2. ASSUME NEW p \in {3705, 5160, 5260, 7560}, Starts(c, p)
      PROVE  Grupo(c) = p \div 100
  <2>1. PICK q \in Potencias : c \div q = p
    BY <1>2, SMT DEF Starts
  <2>2. q = 100
    BY <1>0, <2>1, SMTT(30) DEF Potencias
  <2> QED BY <1>0, <2>1, <2>2, SMTT(30) DEF Grupo
<1>3. 159 \div 10 = 15 /\ 519 \div 10 = 51 /\ 3705 \div 100 = 37 /\ 5160 \div 100 = 51 /\ 5260 \div 100 = 52
        /\ 7560 \div 100 = 75
  BY SMT
<1> QED BY <1>1, <1>2, <1>3, SMT

(* Six-digit accounts are the leaves, whatever groups of theirs are listed too. *)
LEMMA SonHojas ==
  ASSUME NEW F, NEW A, NEW G, DOMAIN F = A \cup G, A \subseteq Codigos, \A c \in A : Subcuenta(c),
         \A g \in G : \E c \in A : g = Grupo(c)
  PROVE  leaf_accounts(F) = [c \in A |-> F[c]]
<1>1. \A c \in A : c \in Nat /\ 100000 <= c /\ c <= 999999
  BY SMT DEF Codigos, Subcuenta
<1>2. \A c \in A : Grupo(c) \in 10..99 /\ Starts(c, Grupo(c)) /\ Grupo(c) # c
  <2> TAKE c \in A
  <2>1. c \in Codigos /\ Subcuenta(c)
    OBVIOUS
  <2>2. Grupo(c) \in 10..99 /\ Starts(c, Grupo(c))
    BY <2>1, CodigoDeSubcuenta
  <2> QED BY <1>1, <2>2, SMT
<1>3. ASSUME NEW c \in A, NEW e \in A \cup G, Starts(e, c)
      PROVE  e = c
  <2>1. PICK q \in Potencias : e \div q = c
    BY <1>3, SMT DEF Starts
  <2>2. e \in Nat /\ e <= 999999 /\ q \in Nat \ {0}
    BY <1>1, <1>2, SMT DEF Potencias
  <2>3. q = 1
    BY <1>1, <2>1, <2>2, SMTT(30) DEF Potencias
  <2> QED BY <2>1, <2>2, <2>3, SMT
<1>4. \A c \in A : c < 100000000
  BY <1>1, SMT
<1>5. \A g \in G : g \in A \/ \E e \in A : e # g /\ Starts(e, g)
  BY <1>2
<1>6. {d \in DOMAIN F : d < 100000000 /\ ~\E e \in DOMAIN F : e # d /\ Starts(e, d)} = A
  <2>1. ASSUME NEW g \in G, g \in A
        PROVE FALSE
    <3>1. g <= 99 /\ g >= 100000 /\ g \in Nat
      BY <1>1, <1>2, <2>1, SMT
    <3> QED BY <3>1, SMT
  <2> QED BY <1>3, <1>4, <1>5, <2>1, SMT
<1> QED BY <1>6, SMT DEF leaf_accounts
----------------------------------------------------------------------------
(* The accounts of a balance *)

(* The accounts a figure adds up. *)
Elegidas(P, X) == {c \in Codigos : StartsAny(c, P) /\ ~StartsAny(c, X)}

(* The accounts of lines M with their balances, and perhaps the result of the
   year. *)
SonSaldos(H, M) ==
  /\ IsFiniteSet(DOMAIN H) /\ Cuentas(M) \subseteq DOMAIN H
  /\ DOMAIN H \subseteq Cuentas(M) \cup {UtilidadDelEjercicio}
  /\ \A c \in Cuentas(M) : H[c] = SaldoNatural(M, c)

(* A figure over accounts of one class is what their lines moved. *)
LEMMA SumaDeHojas ==
  ASSUME NEW M, EsLineas(M), NEW H, SonSaldos(H, M), NEW P, NEW X, NEW k \in 1..9,
         \A c \in Elegidas(P, X) \cap DOMAIN H : c \in Cuentas(M) /\ Clase(c) = k,
         \A c \in DOMAIN H : c \in Codigos
  PROVE  /\ Mueve(M, Elegidas(P, X)) \in Int
         /\ k \in {1, 5, 6} => sum_leaves(H, P, X) = Mueve(M, Elegidas(P, X))
         /\ k \notin {1, 5, 6} => sum_leaves(H, P, X) = -Mueve(M, Elegidas(P, X))
<1> DEFINE E == Elegidas(P, X)
           K == {c \in DOMAIN H : StartsAny(c, P) /\ ~StartsAny(c, X)}
<1>1. K = E \cap DOMAIN H /\ K \subseteq DOMAIN H
  BY DEF Elegidas
<1>2. sum_leaves(H, P, X) = SumFunctionOnSet(H, K)
  BY DEF sum_leaves
<1>3. DeCuentas(M, K) = DeCuentas(M, E) /\ DeCuentas(M, E) \subseteq M
  BY <1>1 DEF DeCuentas, SonSaldos, Cuentas
<1>4. IsFiniteSet(K)
  <2> HIDE DEF K
  <2> QED BY <1>1, FS_Subset DEF SonSaldos
<1>5. \A c \in K : Clase(c) = k /\ H[c] = SaldoNatural(M, c)
  BY <1>1 DEF SonSaldos
<1> HIDE DEF K, E
<1>6. Mueve(M, E) \in Int /\ Mueve(M, K) = Mueve(M, E)
  BY <1>3, Parte DEF Mueve
<1>7. ASSUME k \in {1, 5, 6}
      PROVE  SumFunctionOnSet(H, K) = Mueve(M, K)
  <2>1. \A c \in K : H[c] = DebitNature(DeCuenta(M, c))
    BY <1>5, <1>7 DEF SaldoNatural
  <2> QED BY <1>4, <2>1, SaldosDeudores
<1>8. ASSUME k \notin {1, 5, 6}
      PROVE  SumFunctionOnSet(H, K) = -Mueve(M, K)
  <2>1. \A c \in K : H[c] = CreditNature(DeCuenta(M, c))
    BY <1>5, <1>8 DEF SaldoNatural
  <2> QED BY <1>4, <2>1, SaldosAcreedores
<1> QED BY <1>2, <1>6, <1>7, <1>8 DEF E

(* The result of the year, when nobody closed it, on its own account. *)
LEMMA SaldosDelDiario ==
  ASSUME NEW L, NEW corte, EsLineas(Hasta(L, corte)), \A c \in Cuentas(Hasta(L, corte)) : Subcuenta(c)
  PROVE  LET F == build_bg_data_from_journal(L, corte).cuentas
             M == Hasta(L, corte)
             utilidad == get_balance_sheet(L, corte).net_profit
         IN /\ SonSaldos(F, M)
            /\ \A c \in DOMAIN F : c \in Codigos /\ Subcuenta(c)
            /\ UtilidadDelEjercicio \notin Cuentas(M) /\ UtilidadDelEjercicio \in DOMAIN F =>
                 F[UtilidadDelEjercicio] = utilidad
            /\ (\A c \in Cuentas(M) : ~Starts(c, 36)) /\ utilidad # 0 => UtilidadDelEjercicio \in DOMAIN F
<1> DEFINE F == build_bg_data_from_journal(L, corte).cuentas
           M == Hasta(L, corte)
           utilidad == get_balance_sheet(L, corte).net_profit
           G == [c \in Cuentas(M) |-> SaldoNatural(M, c)]
           U == UtilidadDelEjercicio
           sola == [c \in {U} |-> utilidad]
           sintetica == utilidad # 0 /\ \A c \in Cuentas(M) : ~Starts(c, 36)
<1>1. F = IF sintetica THEN Merge(G, sola) ELSE G
  BY DEF build_bg_data_from_journal
<1>2. IsFiniteSet(Cuentas(M)) /\ Cuentas(M) \subseteq Codigos
  BY CuentasFinitas
<1>3. U \in Codigos /\ Subcuenta(U)
  BY SMT DEF UtilidadDelEjercicio, Codigos, Subcuenta
<1>4. IsFiniteSet(Cuentas(M) \cup {U})
  BY <1>2, FS_AddElement
<1>5. DOMAIN G = Cuentas(M) /\ \A c \in Cuentas(M) : G[c] = SaldoNatural(M, c)
  OBVIOUS
<1>6. DOMAIN sola = {U} /\ sola[U] = utilidad
  OBVIOUS
<1>7. CASE sintetica
  <2>1. F = Merge(G, sola)
    BY <1>1, <1>7
  <2> HIDE DEF F, M, utilidad, G, U, sola
  <2>2. DOMAIN F = Cuentas(M) \cup {U} /\ \A c \in Cuentas(M) : F[c] = SaldoNatural(M, c)
    BY <1>5, <1>6, <2>1 DEF Merge
  <2>3. U \notin Cuentas(M) => F[U] = utilidad
    BY <1>5, <1>6, <2>1 DEF Merge
  <2>4. SonSaldos(F, M)
    BY <1>4, <2>2 DEF SonSaldos, U
  <2> QED BY <1>2, <1>3, <2>2, <2>3, <2>4 DEF F, M, utilidad, U
<1>8. CASE ~sintetica
  <2>1. F = G
    BY <1>1, <1>8
  <2>2. ~(utilidad # 0 /\ \A c \in Cuentas(M) : ~Starts(c, 36))
    BY <1>8
  <2> HIDE DEF F, M, utilidad, G, U, sola
  <2>3. SonSaldos(F, M) /\ DOMAIN F = Cuentas(M)
    BY <1>2, <1>5, <2>1 DEF SonSaldos
  <2> QED BY <1>2, <2>2, <2>3 DEF F, M, utilidad, U
<1> QED BY <1>7, <1>8
----------------------------------------------------------------------------
(* The cash flow *)

(* What accounts moved up to a date is what they moved before a period and in
   it. *)
LEMMA MueveHasta ==
  ASSUME NEW L, EsLineas(L), NEW ini \in Nat, NEW fin \in Nat, ini <= fin + 1, NEW A
  PROVE  /\ Mueve(Hasta(L, fin), A) = Mueve(Antes(L, ini), A) + Mueve(get_daily_journal(L, ini, fin), A)
         /\ Mueve(Antes(L, ini), A) \in Int /\ Mueve(get_daily_journal(L, ini, fin), A) \in Int
<1> DEFINE M == DeCuentas(Antes(L, ini), A)
           N == DeCuentas(get_daily_journal(L, ini, fin), A)
           T == DeCuentas(Hasta(L, fin), A)
<1>0. T = M \cup N
  BY DEF DeCuentas, Antes, get_daily_journal, Hasta, EsLineas
<1>1. M \subseteq L /\ N \subseteq L /\ M \cap N = {}
  BY DEF DeCuentas, Antes, get_daily_journal, EsLineas
<1> HIDE DEF M, N, T
<1>2. DebitNature(M \cup N) = DebitNature(M) + DebitNature(N) /\ DebitNature(M) \in Int /\ DebitNature(N) \in Int
  BY <1>1, NatUnion
<1>3. /\ Mueve(Hasta(L, fin), A) = DebitNature(T) /\ Mueve(Antes(L, ini), A) = DebitNature(M)
      /\ Mueve(get_daily_journal(L, ini, fin), A) = DebitNature(N)
  BY DEF Mueve, M, N, T
<1> QED BY <1>0, <1>2, <1>3

LEMMA SumaHasta ==
  ASSUME NEW G, NEW n \in Nat, n > 0, \A i \in 1..n : G[i] \in Int
  PROVE  SumFunctionOnSet(G, 1..n) = SumFunctionOnSet(G, 1..(n - 1)) + G[n] /\ SumFunctionOnSet(G, 1..n) \in Int
<1> DEFINE S == 1..(n - 1)
<1>1. 1..n = S \cup {n} /\ n \notin S
  OBVIOUS
<1>2. IsFiniteSet(S) /\ IsFiniteSet(1..n)
  BY FS_Interval
<1>3. \A i \in S \cup {n} : G[i] \in Int
  BY <1>1
<1> HIDE DEF S
<1>4. SumFunctionOnSet(G, S \cup {n}) = G[n] + SumFunctionOnSet(G, S)
  BY <1>1, <1>2, <1>3, SumaMas
<1>5. SumFunctionOnSet(G, S) \in Int /\ SumFunctionOnSet(G, 1..n) \in Int
  BY <1>1, <1>2, <1>3, SumaEntera
<1>6. G[n] \in Int
  BY <1>3
<1>7. SumFunctionOnSet(G, 1..n) = SumFunctionOnSet(G, S \cup {n})
  BY <1>1, Zenon
<1>8. SumFunctionOnSet(G, 1..n) = SumFunctionOnSet(G, S) + G[n]
  BY <1>4, <1>5, <1>6, <1>7
<1> QED BY <1>5, <1>8 DEF S

LEMMA SumaDeCatorce ==
  ASSUME NEW G, \A i \in 1..14 : G[i] \in Int
  PROVE  SumFunctionOnSet(G, 1..14)
           = G[1] + G[2] + G[3] + G[4] + G[5] + G[6] + G[7] + G[8] + G[9] + G[10] + G[11] + G[12] + G[13] + G[14]
<1>1. \A n \in 1..14 : /\ SumFunctionOnSet(G, 1..n) = SumFunctionOnSet(G, 1..(n - 1)) + G[n]
                       /\ SumFunctionOnSet(G, 1..n) \in Int
  <2> TAKE n \in 1..14
  <2>1. n \in Nat /\ n > 0 /\ \A i \in 1..n : G[i] \in Int
    OBVIOUS
  <2> QED BY <2>1, SumaHasta
<1>2. SumFunctionOnSet(G, 1..0) = 0
  BY SumaVacia
<1> DEFINE s(n) == SumFunctionOnSet(G, 1..n)
<1>3. s(0) = 0 /\ \A n \in 1..14 : s(n) = s(n - 1) + G[n] /\ s(n) \in Int
  BY <1>1, <1>2
<1> HIDE DEF s
<1>4. /\ s(1) = s(0) + G[1] /\ s(2) = s(1) + G[2] /\ s(3) = s(2) + G[3] /\ s(4) = s(3) + G[4]
      /\ s(5) = s(4) + G[5] /\ s(6) = s(5) + G[6] /\ s(7) = s(6) + G[7]
  BY <1>3
<1>5. /\ s(8) = s(7) + G[8] /\ s(9) = s(8) + G[9] /\ s(10) = s(9) + G[10] /\ s(11) = s(10) + G[11]
      /\ s(12) = s(11) + G[12] /\ s(13) = s(12) + G[13] /\ s(14) = s(13) + G[14]
  BY <1>3
<1>6. /\ G[1] \in Int /\ G[2] \in Int /\ G[3] \in Int /\ G[4] \in Int /\ G[5] \in Int /\ G[6] \in Int /\ G[7] \in Int
      /\ G[8] \in Int /\ G[9] \in Int /\ G[10] \in Int /\ G[11] \in Int /\ G[12] \in Int /\ G[13] \in Int
      /\ G[14] \in Int
  OBVIOUS
<1> QED BY <1>3, <1>4, <1>5, <1>6 DEF s

(* The parts the indirect method adds up, one per figure. *)
Parcial == <<{11}, {12}, {13}, {14}, {15}, {159}, {16}, {21}, {22, 23, 24, 25, 26}, {31}, {3705}, {4}, {5}, {6}>>
Menos == <<{}, {}, {}, {}, {159}, {}, {}, {}, {}, {}, {}, {}, {}, {}>>
Explicada(c) ==
  /\ c \in Codigos /\ Subcuenta(c)
  /\ Grupo(c) \in 11..16 \cup 21..26 \cup {31} \/ Starts(c, 3705) \/ Clase(c) \in {4, 5, 6}
Pieza(c) ==
  CASE Grupo(c) \in 11..14 -> Grupo(c) - 10
    [] Grupo(c) = 15 -> IF Starts(c, 159) THEN 6 ELSE 5
    [] Grupo(c) = 16 -> 7
    [] Grupo(c) = 21 -> 8
    [] Grupo(c) \in 22..26 -> 9
    [] Grupo(c) = 31 -> 10
    [] Grupo(c) = 37 -> 11
    [] OTHER -> Clase(c) + 8


LEMMA EnParte ==
  ASSUME NEW c, Explicada(c)
  PROVE  /\ Pieza(c) \in 1..14
         /\ \A i \in 1..14 : c \in Elegidas(Parcial[i], Menos[i]) <=> Pieza(c) = i
<1> DEFINE g == Grupo(c)
           k == Clase(c)
           en(p) == Starts(c, p)
<1>1. g \in 10..99 /\ k \in 1..9
  BY CodigoDeSubcuenta DEF Explicada
<1>2. \A h \in 10..99 : en(h) <=> g = h
  BY CodigoDeSubcuenta DEF Explicada
<1>3. \A d \in 1..9 : k = d <=> 10 * d <= g /\ g <= 10 * d + 9
  BY CodigoDeSubcuenta DEF Explicada
<1>4. en(159) => g = 15
  BY PrefijosDeSubcuenta DEF Explicada
<1>5. en(3705) => g = 37
  BY PrefijosDeSubcuenta DEF Explicada
<1>6. \A d \in 1..9 : en(d) <=> k = d
  BY ClaseEs DEF Explicada
<1>7. g \in 11..16 \cup 21..26 \cup {31} \/ en(3705) \/ k \in {4, 5, 6}
  BY DEF Explicada
<1>8. \A P, X : c \in Elegidas(P, X) <=> (\E p \in P : en(p)) /\ ~\E x \in X : en(x)
  BY DEF Elegidas, StartsAny, Explicada
<1>9. Pieza(c) = CASE g \in 11..14 -> g - 10
                   [] g = 15 -> IF en(159) THEN 6 ELSE 5
                   [] g = 16 -> 7
                   [] g = 21 -> 8
                   [] g \in 22..26 -> 9
                   [] g = 31 -> 10
                   [] g = 37 -> 11
                   [] OTHER -> k + 8
  BY DEF Pieza
<1> DEFINE z == Pieza(c)
<1> HIDE DEF g, k, en, z
<1>10. /\ g \in 11..14 => z = g - 10
       /\ g = 15 => z = IF en(159) THEN 6 ELSE 5
       /\ g = 16 => z = 7
       /\ g = 21 => z = 8
       /\ g \in 22..26 => z = 9
       /\ g = 31 => z = 10
       /\ g = 37 => z = 11
       /\ ~(g \in 11..16 \/ g = 21 \/ g \in 22..26 \/ g = 31 \/ g = 37) => z = k + 8
  BY <1>1, <1>9 DEF z
<1>11. k = 1 <=> g \in 10..19
  BY <1>1, <1>3
<1>12. k = 2 <=> g \in 20..29
  BY <1>1, <1>3
<1>13. k = 3 <=> g \in 30..39
  BY <1>1, <1>3
<1>14. /\ k = 4 <=> g \in 40..49
       /\ k = 5 <=> g \in 50..59
       /\ k = 6 <=> g \in 60..69
  BY <1>1, <1>3
<1>15. z \in 1..14
  BY <1>1, <1>5, <1>7, <1>10, <1>14
<1>16. \A i \in 1..14 : c \in Elegidas(Parcial[i], Menos[i]) <=> z = i
  <2>1. c \in Elegidas(Parcial[1], Menos[1]) <=> z = 1
    <3>1. c \in Elegidas(Parcial[1], Menos[1]) <=> en(11)
      BY <1>8 DEF Parcial, Menos
    <3> QED BY <3>1, <1>1, <1>2, <1>4, <1>5, <1>6, <1>7, <1>10, <1>11, <1>12, <1>13, <1>14
  <2>2. c \in Elegidas(Parcial[2], Menos[2]) <=> z = 2
    <3>1. c \in Elegidas(Parcial[2], Menos[2]) <=> en(12)
      BY <1>8 DEF Parcial, Menos
    <3> QED BY <3>1, <1>1, <1>2, <1>4, <1>5, <1>6, <1>7, <1>10, <1>11, <1>12, <1>13, <1>14
  <2>3. c \in Elegidas(Parcial[3], Menos[3]) <=> z = 3
    <3>1. c \in Elegidas(Parcial[3], Menos[3]) <=> en(13)
      BY <1>8 DEF Parcial, Menos
    <3> QED BY <3>1, <1>1, <1>2, <1>4, <1>5, <1>6, <1>7, <1>10, <1>11, <1>12, <1>13, <1>14
  <2>4. c \in Elegidas(Parcial[4], Menos[4]) <=> z = 4
    <3>1. c \in Elegidas(Parcial[4], Menos[4]) <=> en(14)
      BY <1>8 DEF Parcial, Menos
    <3> QED BY <3>1, <1>1, <1>2, <1>4, <1>5, <1>6, <1>7, <1>10, <1>11, <1>12, <1>13, <1>14
  <2>5. c \in Elegidas(Parcial[5], Menos[5]) <=> z = 5
    <3>1. c \in Elegidas(Parcial[5], Menos[5]) <=> en(15) /\ ~en(159)
      BY <1>8 DEF Parcial, Menos
    <3> QED BY <3>1, <1>1, <1>2, <1>4, <1>5, <1>6, <1>7, <1>10, <1>11, <1>12, <1>13, <1>14
  <2>6. c \in Elegidas(Parcial[6], Menos[6]) <=> z = 6
    <3>1. c \in Elegidas(Parcial[6], Menos[6]) <=> en(159)
      BY <1>8 DEF Parcial, Menos
    <3> QED BY <3>1, <1>1, <1>2, <1>4, <1>5, <1>6, <1>7, <1>10, <1>11, <1>12, <1>13, <1>14
  <2>7. c \in Elegidas(Parcial[7], Menos[7]) <=> z = 7
    <3>1. c \in Elegidas(Parcial[7], Menos[7]) <=> en(16)
      BY <1>8 DEF Parcial, Menos
    <3> QED BY <3>1, <1>1, <1>2, <1>4, <1>5, <1>6, <1>7, <1>10, <1>11, <1>12, <1>13, <1>14
  <2>8. c \in Elegidas(Parcial[8], Menos[8]) <=> z = 8
    <3>1. c \in Elegidas(Parcial[8], Menos[8]) <=> en(21)
      BY <1>8 DEF Parcial, Menos
    <3> QED BY <3>1, <1>1, <1>2, <1>4, <1>5, <1>6, <1>7, <1>10, <1>11, <1>12, <1>13, <1>14
  <2>9. c \in Elegidas(Parcial[9], Menos[9]) <=> z = 9
    <3>1. c \in Elegidas(Parcial[9], Menos[9]) <=> en(22) \/ en(23) \/ en(24) \/ en(25) \/ en(26)
      BY <1>8 DEF Parcial, Menos
    <3> QED BY <3>1, <1>1, <1>2, <1>4, <1>5, <1>6, <1>7, <1>10, <1>11, <1>12, <1>13, <1>14
  <2>10. c \in Elegidas(Parcial[10], Menos[10]) <=> z = 10
    <3>1. c \in Elegidas(Parcial[10], Menos[10]) <=> en(31)
      BY <1>8 DEF Parcial, Menos
    <3> QED BY <3>1, <1>1, <1>2, <1>4, <1>5, <1>6, <1>7, <1>10, <1>11, <1>12, <1>13, <1>14
  <2>11. c \in Elegidas(Parcial[11], Menos[11]) <=> z = 11
    <3>1. c \in Elegidas(Parcial[11], Menos[11]) <=> en(3705)
      BY <1>8 DEF Parcial, Menos
    <3> QED BY <3>1, <1>1, <1>2, <1>4, <1>5, <1>6, <1>7, <1>10, <1>11, <1>12, <1>13, <1>14
  <2>12. c \in Elegidas(Parcial[12], Menos[12]) <=> z = 12
    <3>1. c \in Elegidas(Parcial[12], Menos[12]) <=> en(4)
      BY <1>8 DEF Parcial, Menos
    <3> QED BY <3>1, <1>1, <1>2, <1>4, <1>5, <1>6, <1>7, <1>10, <1>11, <1>12, <1>13, <1>14
  <2>13. c \in Elegidas(Parcial[13], Menos[13]) <=> z = 13
    <3>1. c \in Elegidas(Parcial[13], Menos[13]) <=> en(5)
      BY <1>8 DEF Parcial, Menos
    <3> QED BY <3>1, <1>1, <1>2, <1>4, <1>5, <1>6, <1>7, <1>10, <1>11, <1>12, <1>13, <1>14
  <2>14. c \in Elegidas(Parcial[14], Menos[14]) <=> z = 14
    <3>1. c \in Elegidas(Parcial[14], Menos[14]) <=> en(6)
      BY <1>8 DEF Parcial, Menos
    <3> QED BY <3>1, <1>1, <1>2, <1>4, <1>5, <1>6, <1>7, <1>10, <1>11, <1>12, <1>13, <1>14
  <2> QED BY <2>1, <2>2, <2>3, <2>4, <2>5, <2>6, <2>7, <2>8, <2>9, <2>10, <2>11, <2>12, <2>13, <2>14
<1> QED BY <1>15, <1>16 DEF z

(* The leaves of a balance whose accounts all have six digits. *)
SonHojasDe(H, M) == SonSaldos(H, M) /\ \A c \in DOMAIN H : c \in Codigos /\ Subcuenta(c)

LEMMA GrupoUtilidad == Grupo(UtilidadDelEjercicio) = 36
  BY SMT DEF Grupo, UtilidadDelEjercicio

(* What a figure of the balance changes by in a period. *)
LEMMA Delta ==
  ASSUME NEW L, EsLineas(L), NEW ini \in Nat, NEW fin \in Nat, ini <= fin + 1,
         NEW H, SonHojasDe(H, Hasta(L, fin)), NEW A, SonHojasDe(A, Antes(L, ini)),
         NEW P, NEW X, NEW k \in 1..9,
         \A c \in Elegidas(P, X) : Subcuenta(c) => Clase(c) = k /\ Grupo(c) # 36
  PROVE  LET m == Mueve(get_daily_journal(L, ini, fin), Elegidas(P, X))
         IN /\ m \in Int /\ sum_leaves(H, P, X) \in Int /\ sum_leaves(A, P, X) \in Int
            /\ k \in {1, 5, 6} => sum_leaves(H, P, X) - sum_leaves(A, P, X) = m
            /\ k \notin {1, 5, 6} => sum_leaves(H, P, X) - sum_leaves(A, P, X) = -m
            /\ k \in {1, 5, 6} => sum_leaves(H, P, X) = Mueve(Hasta(L, fin), Elegidas(P, X))
            /\ k \notin {1, 5, 6} => sum_leaves(H, P, X) = -Mueve(Hasta(L, fin), Elegidas(P, X))
<1> DEFINE m == Mueve(get_daily_journal(L, ini, fin), Elegidas(P, X))
           a == Mueve(Antes(L, ini), Elegidas(P, X))
           h == Mueve(Hasta(L, fin), Elegidas(P, X))
           sh == sum_leaves(H, P, X)
           sa == sum_leaves(A, P, X)
<1>1. EsLineas(Hasta(L, fin)) /\ EsLineas(Antes(L, ini))
  <2>1. Hasta(L, fin) \subseteq L /\ Antes(L, ini) \subseteq L
    BY DEF Hasta, Antes
  <2> QED BY <2>1, Parte
<1>2. \A c \in Elegidas(P, X) \cap DOMAIN H : c \in Cuentas(Hasta(L, fin)) /\ Clase(c) = k
  BY GrupoUtilidad DEF SonHojasDe, SonSaldos
<1>3. \A c \in Elegidas(P, X) \cap DOMAIN A : c \in Cuentas(Antes(L, ini)) /\ Clase(c) = k
  BY GrupoUtilidad DEF SonHojasDe, SonSaldos
<1>4. /\ SonSaldos(H, Hasta(L, fin)) /\ \A c \in DOMAIN H : c \in Codigos
      /\ SonSaldos(A, Antes(L, ini)) /\ \A c \in DOMAIN A : c \in Codigos
  BY DEF SonHojasDe
<1>5. h \in Int /\ (k \in {1, 5, 6} => sh = h) /\ (k \notin {1, 5, 6} => sh = -h)
  BY <1>1, <1>2, <1>4, SumaDeHojas
<1>6. a \in Int /\ (k \in {1, 5, 6} => sa = a) /\ (k \notin {1, 5, 6} => sa = -a)
  BY <1>1, <1>3, <1>4, SumaDeHojas
<1>7. h = a + m /\ m \in Int
  BY MueveHasta
<1> HIDE DEF m, a, h, sh, sa
<1>8. /\ m \in Int /\ sh \in Int /\ sa \in Int
      /\ k \in {1, 5, 6} => sh - sa = m
      /\ k \notin {1, 5, 6} => sh - sa = -m
  <2>1. CASE k \in {1, 5, 6}
    BY <1>5, <1>6, <1>7, <2>1
  <2>2. CASE k \notin {1, 5, 6}
    BY <1>5, <1>6, <1>7, <2>2
  <2> QED BY <2>1, <2>2
<1> QED BY <1>5, <1>8 DEF m, h, sh, sa

(* The parts of the balance are of one class each, and not the result's. *)
LEMMA ClaseDeParte ==
  \A c \in Codigos : Subcuenta(c) =>
    /\ \A i \in 1..7 : c \in Elegidas(Parcial[i], Menos[i]) => Clase(c) = 1 /\ Grupo(c) # 36
    /\ \A i \in 8..9 : c \in Elegidas(Parcial[i], Menos[i]) => Clase(c) = 2 /\ Grupo(c) # 36
    /\ c \in Elegidas(Parcial[10], Menos[10]) => Clase(c) = 3 /\ Grupo(c) # 36
<1> SUFFICES ASSUME NEW c \in Codigos, Subcuenta(c)
             PROVE  /\ \A i \in 1..7 : c \in Elegidas(Parcial[i], Menos[i]) => Clase(c) = 1 /\ Grupo(c) # 36
                    /\ \A i \in 8..9 : c \in Elegidas(Parcial[i], Menos[i]) => Clase(c) = 2 /\ Grupo(c) # 36
                    /\ c \in Elegidas(Parcial[10], Menos[10]) => Clase(c) = 3 /\ Grupo(c) # 36
  OBVIOUS
<1>1. \A i \in 1..10 : c \in Elegidas(Parcial[i], Menos[i]) => \E p \in Parcial[i] : Starts(c, p)
  BY DEF Elegidas, StartsAny
<1>2. /\ \A i \in 1..7 : Parcial[i] \subseteq 11..16 \cup {159}
      /\ \A i \in 8..9 : Parcial[i] \subseteq 21..26
      /\ Parcial[10] = {31}
  BY DEF Parcial
<1>3. \A h \in 10..99 : Starts(c, h) <=> Grupo(c) = h
  BY CodigoDeSubcuenta
<1>4. Starts(c, 159) => Grupo(c) = 15
  BY PrefijosDeSubcuenta
<1>5. /\ Grupo(c) \in 11..16 => Clase(c) = 1
      /\ Grupo(c) \in 21..26 => Clase(c) = 2
      /\ Grupo(c) = 31 => Clase(c) = 3
  <2>1. \A d \in 1..9 : Clase(c) = d <=> 10 * d <= Grupo(c) /\ Grupo(c) <= 10 * d + 9
    BY CodigoDeSubcuenta
  <2> DEFINE g == Grupo(c)
  <2> HIDE DEF g
  <2>2. /\ Clase(c) = 1 <=> 10 * 1 <= g /\ g <= 10 * 1 + 9
        /\ Clase(c) = 2 <=> 10 * 2 <= g /\ g <= 10 * 2 + 9
        /\ Clase(c) = 3 <=> 10 * 3 <= g /\ g <= 10 * 3 + 9
    BY <2>1 DEF g
  <2>3. (g \in 11..16 => Clase(c) = 1) /\ (g \in 21..26 => Clase(c) = 2) /\ (g = 31 => Clase(c) = 3)
    BY <2>2
  <2> QED BY <2>3 DEF g
<1>6. ASSUME NEW i \in 1..7, c \in Elegidas(Parcial[i], Menos[i])
      PROVE  Grupo(c) \in 11..16
  BY <1>1, <1>2, <1>3, <1>4, <1>6
<1>7. ASSUME NEW i \in 8..9, c \in Elegidas(Parcial[i], Menos[i])
      PROVE  Grupo(c) \in 21..26
  BY <1>1, <1>2, <1>3, <1>7
<1>8. c \in Elegidas(Parcial[10], Menos[10]) => Grupo(c) = 31
  <2>1. c \in Elegidas(Parcial[10], Menos[10]) => Starts(c, 31)
    BY <1>2 DEF Elegidas, StartsAny
  <2> QED BY <2>1, <1>3
<1> QED BY <1>5, <1>6, <1>7, <1>8

(* A peso of difference is within what the statements tolerate. *)
LEMMA Holgura ==
  ASSUME NEW x \in Int, Absolute(x) <= 1, NEW y \in Int
  PROVE  200 * Absolute(x) <= Max({Absolute(y), 200})
<1>1. Absolute(y) \in Int /\ Absolute(x) \in Int
  BY DEF Absolute
<1> DEFINE S == {Absolute(y), 200}
<1>2. \E z \in S : \A w \in S : z >= w
  BY <1>1
<1>3. Max(S) \in S /\ \A w \in S : Max(S) >= w
  BY <1>2 DEF Max
<1>4. Max(S) \in Int /\ Max(S) >= 200
  BY <1>1, <1>3
<1> QED BY <1>1, <1>4

LEMMA DelPeriodo ==
  ASSUME NEW L, EsLineas(L), NEW ini, NEW fin
  PROVE  EsLineas(get_daily_journal(L, ini, fin)) /\ get_daily_journal(L, ini, fin) \subseteq Hasta(L, fin)
<1>1. EsLineas(get_daily_journal(L, ini, fin))
  BY JournalLineas
<1>2. get_daily_journal(L, ini, fin) \subseteq Hasta(L, fin)
  BY DEF get_daily_journal, Hasta
<1> QED BY <1>1, <1>2

(* Entries the method explains are those of its fourteen parts. *)
LEMMA EntradasPorPartes ==
  ASSUME NEW L, EsLineas(L), NEW ini \in Nat, NEW fin \in Nat, MetodoExplica(L, ini, fin)
  PROVE  LET en == get_daily_journal(L, ini, fin)
             m(i) == Mueve(en, Elegidas(Parcial[i], Menos[i]))
         IN /\ \A l \in en : Explicada(l.cuenta)
            /\ \A i \in 1..14 : m(i) \in Int
            /\ DebitNature(en) = m(1) + m(2) + m(3) + m(4) + m(5) + m(6) + m(7) + m(8) + m(9) + m(10) + m(11)
                                   + m(12) + m(13) + m(14)
            /\ DebitNature(en) \in Int /\ Absolute(DebitNature(en)) <= 1
<1> DEFINE en == get_daily_journal(L, ini, fin)
           m(i) == Mueve(en, Elegidas(Parcial[i], Menos[i]))
<1>1. EsLineas(en) /\ en \subseteq Hasta(L, fin)
  BY DelPeriodo
<1>2. \A l \in en : Explicada(l.cuenta)
  <2> TAKE l \in en
  <2>1. l.cuenta \in Codigos /\ l.cuenta \in Cuentas(Hasta(L, fin))
    BY <1>1 DEF EsLineas, Cuentas
  <2>2. Subcuenta(l.cuenta)
    BY <2>1 DEF MetodoExplica
  <2>3. \/ Grupo(l.cuenta) \in 11..16 \cup 21..26 \cup {31} \/ Starts(l.cuenta, 3705)
        \/ Clase(l.cuenta) \in {4, 5, 6}
    BY DEF MetodoExplica
  <2> QED BY <2>1, <2>2, <2>3 DEF Explicada
<1> DEFINE G == [i \in 1..14 |-> m(i)]
           parte == [l \in en |-> Pieza(l.cuenta)]
<1>3. \A l \in en : /\ NetoDe(en)[l] \in Int /\ parte[l] \in 1..14
                    /\ \A i \in 1..14 : l.cuenta \in Elegidas(Parcial[i], Menos[i]) <=> parte[l] = i
  BY <1>1, <1>2, EnParte DEF EsLineas, NetoDe
<1>4. \A i \in 1..14 : DeCuentas(en, Elegidas(Parcial[i], Menos[i])) = DeParte(en, parte, i)
  <2> TAKE i \in 1..14
  <2>1. \A l \in en : l.cuenta \in Elegidas(Parcial[i], Menos[i]) <=> parte[l] = i
    BY <1>3
  <2> HIDE DEF parte
  <2> QED BY <2>1 DEF DeCuentas, DeParte
<1>5. \A i \in 1..14 : G[i] = m(i) /\ m(i) = DebitNature(DeCuentas(en, Elegidas(Parcial[i], Menos[i])))
  BY DEF Mueve
<1> HIDE DEF en, m, G, parte
<1>6. \A i \in 1..14 : G[i] = SumFunctionOnSet(NetoDe(en), DeParte(en, parte, i)) /\ G[i] \in Int
  <2> TAKE i \in 1..14
  <2>1. DeParte(en, parte, i) \subseteq en
    BY DEF DeParte
  <2>2. G[i] = DebitNature(DeParte(en, parte, i))
    BY <1>4, <1>5
  <2> QED BY <1>1, <2>1, <2>2, Parte
<1>7. IsFiniteSet(en) /\ IsFiniteSet(1..14)
  <2>1. 1 \in Int /\ 14 \in Int
    OBVIOUS
  <2> QED BY <1>1, <2>1, FS_Interval DEF EsLineas
<1>8. SumFunctionOnSet(G, 1..14) = SumFunctionOnSet(NetoDe(en), en)
  <2> DEFINE K == 1..14
  <2>1. /\ IsFiniteSet(en) /\ IsFiniteSet(K)
        /\ \A l \in en : NetoDe(en)[l] \in Int /\ parte[l] \in K
        /\ \A i \in K : G[i] = SumFunctionOnSet(NetoDe(en), DeParte(en, parte, i))
    BY <1>3, <1>6, <1>7
  <2> HIDE DEF K
  <2>2. SumFunctionOnSet(G, K) = SumFunctionOnSet(NetoDe(en), en)
    BY <2>1, SumaPorPartes
  <2> QED BY <2>2 DEF K
<1>9. DebitNature(en) = SumFunctionOnSet(NetoDe(en), en) /\ DebitNature(en) \in Int
  BY <1>1, Parte
<1>10. SumFunctionOnSet(G, 1..14)
        = G[1] + G[2] + G[3] + G[4] + G[5] + G[6] + G[7] + G[8] + G[9] + G[10] + G[11] + G[12] + G[13] + G[14]
  BY <1>6, SumaDeCatorce
<1>11. DebitNature(en) = m(1) + m(2) + m(3) + m(4) + m(5) + m(6) + m(7) + m(8) + m(9) + m(10) + m(11)
                           + m(12) + m(13) + m(14)
  BY <1>5, <1>8, <1>9, <1>10
<1>12. \A i \in 1..14 : m(i) \in Int
  BY <1>5, <1>6
<1>13. Absolute(DebitNature(en)) <= 1
  <2>1. \A l \in en : SeReporta(l.cuenta)
    <3> TAKE l \in en
    <3> DEFINE c == l.cuenta
    <3>0. Explicada(c)
      BY <1>2
    <3> HIDE DEF c
    <3>1. Clase(c) \in 1..9 /\ \A d \in 1..9 : Clase(c) = d <=> 10 * d <= Grupo(c) /\ Grupo(c) <= 10 * d + 9
      BY <3>0, CodigoDeSubcuenta DEF Explicada
    <3>2. Grupo(c) \in 11..16 \cup 21..26 \cup {31} \/ Grupo(c) = 37 \/ Clase(c) \in {4, 5, 6}
      BY <3>0, PrefijosDeSubcuenta DEF Explicada
    <3>3. (Clase(c) = 7 => Grupo(c) >= 70) /\ (Clase(c) = 8 => Grupo(c) >= 80) /\ (Clase(c) = 9 => Grupo(c) >= 90)
      BY <3>1
    <3>4. Clase(c) \in 1..6
      BY <3>1, <3>2, <3>3
    <3> QED BY <3>4 DEF SeReporta, c
  <2>2. {l \in en : SeReporta(l.cuenta)} = en
    BY <2>1
  <2>3. Cierra(en)
    BY DEF MetodoExplica, en
  <2> QED BY <2>2, <2>3 DEF Cierra
<1> QED BY <1>2, <1>9, <1>11, <1>12, <1>13 DEF en, m

(* The profit, the dividends and the expenses without cash of such entries. *)
LEMMA ResultadoPorPartes ==
  ASSUME NEW L, EsLineas(L), NEW ini \in Nat, NEW fin \in Nat, MetodoExplica(L, ini, fin)
  PROVE  LET en == get_daily_journal(L, ini, fin)
             m(i) == Mueve(en, Elegidas(Parcial[i], Menos[i]))
             eh == leaf_accounts(get_pnl(L, ini, fin).cuentas)
         IN /\ get_pnl(L, ini, fin).utilidad_neta = -m(12) - m(13) - m(14)
            /\ Debitos(ConPrefijo(en, 3705)) = m(11)
            /\ CreditNature(ConPrefijo(en, 159)) = -m(6) /\ m(6) <= 0
            /\ sum_leaves(eh, {519}, {}) = 0
            /\ m(6) = 0 => sum_leaves(eh, {5160, 5260, 7560}, {}) = 0
<1> DEFINE en == get_daily_journal(L, ini, fin)
           m(i) == Mueve(en, Elegidas(Parcial[i], Menos[i]))
           er == get_pnl(L, ini, fin)
           eh == leaf_accounts(er.cuentas)
<1>1. EsLineas(en) /\ \A l \in en : Explicada(l.cuenta)
  BY DelPeriodo, EntradasPorPartes
<1>2. \A i \in 1..14 : m(i) \in Int
  BY EntradasPorPartes
<1>3. /\ Parcial[12] = {4} /\ Parcial[13] = {5} /\ Parcial[14] = {6} /\ Parcial[11] = {3705} /\ Parcial[6] = {159}
      /\ Menos[12] = {} /\ Menos[13] = {} /\ Menos[14] = {} /\ Menos[11] = {} /\ Menos[6] = {}
  BY DEF Parcial, Menos
<1>4. \A p : DeCuentas(en, Elegidas({p}, {})) = ConPrefijo(en, p) /\ ConPrefijo(en, p) \subseteq en
  BY <1>1 DEF DeCuentas, Elegidas, StartsAny, ConPrefijo, EsLineas
<1>5. \A k \in 1..9 : DeClase(en, k) = ConPrefijo(en, k)
  BY <1>1, ClaseEs DEF DeClase, ConPrefijo, EsLineas
<1>6. \A p : /\ DebitNature(ConPrefijo(en, p)) \in Int
             /\ CreditNature(ConPrefijo(en, p)) = -DebitNature(ConPrefijo(en, p))
  BY <1>1, <1>4, Parte
<1>7. /\ m(12) = DebitNature(ConPrefijo(en, 4)) /\ m(13) = DebitNature(ConPrefijo(en, 5))
      /\ m(14) = DebitNature(ConPrefijo(en, 6)) /\ m(11) = DebitNature(ConPrefijo(en, 3705))
      /\ m(6) = DebitNature(ConPrefijo(en, 159))
  BY <1>3, <1>4 DEF Mueve
<1>8. er.utilidad_neta = -m(12) - m(13) - m(14)
  <2>1. er.utilidad_neta = (CreditNature(DeClase(en, 4)) - DebitNature(DeClase(en, 6))) - DebitNature(DeClase(en, 5))
    BY DEF get_pnl
  <2>2. er.utilidad_neta = (CreditNature(ConPrefijo(en, 4)) - DebitNature(ConPrefijo(en, 6)))
                             - DebitNature(ConPrefijo(en, 5))
    BY <1>5, <2>1
  <2> HIDE DEF er, m, en
  <2> QED BY <1>2, <1>6, <1>7, <2>2
<1>9. Debitos(ConPrefijo(en, 3705)) = m(11)
  <2>1. \A l \in ConPrefijo(en, 3705) : l.credito = 0
    <3> TAKE l \in ConPrefijo(en, 3705)
    <3> DEFINE c == l.cuenta
    <3>1. l \in en /\ Starts(c, 3705) /\ c \in Codigos /\ Subcuenta(c)
      BY <1>1 DEF ConPrefijo, Explicada
    <3>2. \/ Grupo(c) \in 11..16 \cup 21..26 \cup {31}
          \/ Starts(c, 3705) /\ l.credito = 0
          \/ Clase(c) \in {4, 5, 6} /\ ~Starts(c, 519)
      BY <3>1 DEF MetodoExplica
    <3> HIDE DEF c
    <3>3. Grupo(c) = 37
      BY <3>1, PrefijosDeSubcuenta
    <3>4. \A d \in 1..9 : Clase(c) = d <=> 10 * d <= Grupo(c) /\ Grupo(c) <= 10 * d + 9
      BY <3>1, CodigoDeSubcuenta
    <3>5. Clase(c) \notin {4, 5, 6}
      BY <3>3, <3>4
    <3> QED BY <3>2, <3>3, <3>5
  <2>2. EsLineas(ConPrefijo(en, 3705)) /\ Debitos(ConPrefijo(en, 3705)) \in Int
    <3> DEFINE M == ConPrefijo(en, 3705)
    <3>1. M \subseteq en
      BY <1>4
    <3> HIDE DEF M, en
    <3>2. EsLineas(M) /\ Debitos(M) \in Int
      BY <1>1, <3>1, Parte
    <3> QED BY <3>2 DEF M
  <2>3. Creditos(ConPrefijo(en, 3705)) = 0
    BY <2>1, <2>2, SinMovimiento
  <2> HIDE DEF en, m
  <2> QED BY <1>7, <2>2, <2>3 DEF DebitNature
<1>10. CreditNature(ConPrefijo(en, 159)) = -m(6) /\ m(6) <= 0
  <2>1. CreditNature(ConPrefijo(en, 159)) >= 0
    BY DEF MetodoExplica
  <2> HIDE DEF en, m
  <2> QED BY <1>2, <1>6, <1>7, <2>1
<1>11. DOMAIN eh \subseteq Cuentas(en)
  <2>1. DOMAIN er.cuentas \subseteq Cuentas(en)
    BY DEF get_pnl
  <2> HIDE DEF er, en
  <2>2. DOMAIN eh \subseteq DOMAIN er.cuentas
    BY SMT DEF leaf_accounts
  <2> QED BY <2>1, <2>2
<1>12. \A P : (\A l \in en : ~StartsAny(l.cuenta, P)) => sum_leaves(eh, P, {}) = 0
  <2> TAKE P
  <2> HAVE \A l \in en : ~StartsAny(l.cuenta, P)
  <2>1. {c \in DOMAIN eh : StartsAny(c, P) /\ ~StartsAny(c, {})} = {}
    BY <1>11 DEF Cuentas
  <2> HIDE DEF eh
  <2> QED BY <2>1, SumaVacia DEF sum_leaves
<1>13. sum_leaves(eh, {519}, {}) = 0
  <2>1. \A l \in en : ~Starts(l.cuenta, 519)
    <3> TAKE l \in en
    <3> DEFINE c == l.cuenta
    <3>1. c \in Codigos /\ Subcuenta(c)
      BY <1>1 DEF Explicada
    <3>2. \/ Grupo(c) \in 11..16 \cup 21..26 \cup {31}
          \/ Starts(c, 3705) /\ l.credito = 0
          \/ Clase(c) \in {4, 5, 6} /\ ~Starts(c, 519)
      BY DEF MetodoExplica
    <3> HIDE DEF c
    <3>3. (Starts(c, 519) => Grupo(c) = 51) /\ (Starts(c, 3705) => Grupo(c) = 37)
      BY <3>1, PrefijosDeSubcuenta
    <3>4. ~Starts(c, 519)
      BY <3>2, <3>3
    <3> QED BY <3>4 DEF c
  <2>2. \A l \in en : ~StartsAny(l.cuenta, {519})
    BY <2>1 DEF StartsAny
  <2> QED BY <1>12, <2>2
<1>14. ASSUME m(6) = 0
       PROVE  sum_leaves(eh, {5160, 5260, 7560}, {}) = 0
  <2>1. ~\E l \in en : StartsAny(l.cuenta, {5160, 5260})
    <3>1. (\E l \in en : StartsAny(l.cuenta, {5160, 5260})) => CreditNature(ConPrefijo(en, 159)) > 0
      BY DEF MetodoExplica
    <3> HIDE DEF en, m
    <3> QED BY <1>10, <1>14, <3>1
  <2>2. \A l \in en : ~Starts(l.cuenta, 7560)
    <3> TAKE l \in en
    <3> DEFINE c == l.cuenta
    <3>0. Explicada(c)
      BY <1>1
    <3> HIDE DEF c
    <3>1. \A d \in 1..9 : Clase(c) = d <=> 10 * d <= Grupo(c) /\ Grupo(c) <= 10 * d + 9
      BY <3>0, CodigoDeSubcuenta DEF Explicada
    <3>2. (Starts(c, 7560) => Grupo(c) = 75) /\ (Starts(c, 3705) => Grupo(c) = 37)
      BY <3>0, PrefijosDeSubcuenta DEF Explicada
    <3>3. Grupo(c) \in 11..16 \cup 21..26 \cup {31} \/ Starts(c, 3705) \/ Clase(c) \in {4, 5, 6}
      BY <3>0 DEF Explicada
    <3>4. Grupo(c) = 75 => Clase(c) \notin {4, 5, 6}
      BY <3>1
    <3>5. ~Starts(c, 7560)
      BY <3>2, <3>3, <3>4
    <3> QED BY <3>5 DEF c
  <2>3. \A l \in en : ~StartsAny(l.cuenta, {5160, 5260, 7560})
    BY <2>1, <2>2 DEF StartsAny
  <2> QED BY <1>12, <2>3
<1> QED BY <1>8, <1>9, <1>10, <1>13, <1>14

(* Such a period is explained by its cash flow, and the note on cash and the
   cash report say the closing cash of it. *)
THEOREM ElFlujoCierra ==
  ASSUME NEW L, EsLineas(L), NEW ini \in Nat, NEW fin \in Nat, MetodoExplica(L, ini, fin),
         NEW bg, SonHojasDe(leaf_accounts(bg.cuentas), Hasta(L, fin)),
         NEW prior, SonHojasDe(leaf_accounts(prior.cuentas), Antes(L, ini))
  PROVE  LET er == get_pnl(L, ini, fin)
             flujo == compute_cash_flow_indirect(bg, prior, er, get_daily_journal(L, ini, fin))
             notas == compute_notes(bg, er)
         IN /\ flujo.verificacion
            /\ 4 \in DOMAIN notas => SumFunction(notas[4]) = flujo.fin
            /\ flujo.fin = build_cashflow(L, 0, fin)
<1> DEFINE en == get_daily_journal(L, ini, fin)
           er == get_pnl(L, ini, fin)
           H == leaf_accounts(bg.cuentas)
           A == leaf_accounts(prior.cuentas)
           eh == leaf_accounts(er.cuentas)
           flujo == compute_cash_flow_indirect(bg, prior, er, en)
           notas == compute_notes(bg, er)
           m(i) == Mueve(en, Elegidas(Parcial[i], Menos[i]))
           h(P, X) == sum_leaves(H, P, X)
           a(P, X) == sum_leaves(A, P, X)
           s(P, X) == h(P, X) - a(P, X)
           dep == IF h({159}, {}) # 0 \/ a({159}, {}) # 0 THEN Absolute(s({159}, {}))
                                                          ELSE sum_leaves(eh, {5160, 5260, 7560}, {})
           operacion == er.utilidad_neta + dep + sum_leaves(eh, {519}, {})
                          - s({13}, {}) - s({14}, {}) + s({22, 23, 24, 25, 26}, {})
           inversion == -s({15}, {159}) - s({16}, {}) - s({12}, {})
           financiacion == s({21}, {}) + s({31}, {}) - Debitos(ConPrefijo(en, 3705))
           dif == h({11}, {}) - (a({11}, {}) + operacion + inversion + financiacion)
<1>1. ini <= fin + 1
  BY DEF MetodoExplica
<1>2. ASSUME NEW i \in 1..7
      PROVE  /\ s(Parcial[i], Menos[i]) = m(i) /\ m(i) \in Int
             /\ h(Parcial[i], Menos[i]) \in Int /\ a(Parcial[i], Menos[i]) \in Int
  <2> DEFINE P == Parcial[i]
             X == Menos[i]
  <2>1. \A c \in Elegidas(P, X) : Subcuenta(c) => Clase(c) = 1 /\ Grupo(c) # 36
    BY ClaseDeParte DEF Elegidas
  <2> HIDE DEF P, X
  <2>2. /\ sum_leaves(H, P, X) - sum_leaves(A, P, X) = Mueve(en, Elegidas(P, X))
        /\ Mueve(en, Elegidas(P, X)) \in Int /\ sum_leaves(H, P, X) \in Int /\ sum_leaves(A, P, X) \in Int
    BY <1>1, <2>1, Delta
  <2> QED BY <2>2 DEF P, X
<1>3. ASSUME NEW i \in 8..10
      PROVE  /\ s(Parcial[i], Menos[i]) = -m(i) /\ m(i) \in Int
             /\ h(Parcial[i], Menos[i]) \in Int /\ a(Parcial[i], Menos[i]) \in Int
  <2> DEFINE P == Parcial[i]
             X == Menos[i]
             k == IF i = 10 THEN 3 ELSE 2
  <2>1. k \in 1..9 /\ k \notin {1, 5, 6} /\ \A c \in Elegidas(P, X) : Subcuenta(c) => Clase(c) = k /\ Grupo(c) # 36
    <3>1. \A c \in Elegidas(P, X) : Subcuenta(c) => Clase(c) = k /\ Grupo(c) # 36
      BY ClaseDeParte DEF Elegidas
    <3> QED BY <3>1
  <2> HIDE DEF P, X, k
  <2>2. /\ sum_leaves(H, P, X) - sum_leaves(A, P, X) = -Mueve(en, Elegidas(P, X))
        /\ Mueve(en, Elegidas(P, X)) \in Int /\ sum_leaves(H, P, X) \in Int /\ sum_leaves(A, P, X) \in Int
    BY <1>1, <2>1, Delta
  <2> QED BY <2>2 DEF P, X
<1>4. /\ er.utilidad_neta = -m(12) - m(13) - m(14) /\ Debitos(ConPrefijo(en, 3705)) = m(11) /\ m(6) <= 0
      /\ sum_leaves(eh, {519}, {}) = 0
      /\ m(6) = 0 => sum_leaves(eh, {5160, 5260, 7560}, {}) = 0
  BY ResultadoPorPartes
<1> DEFINE d == DebitNature(en)
<1>5. /\ d = m(1) + m(2) + m(3) + m(4) + m(5) + m(6) + m(7) + m(8) + m(9) + m(10) + m(11) + m(12) + m(13) + m(14)
      /\ \A i \in 1..14 : m(i) \in Int
      /\ d \in Int /\ Absolute(d) <= 1
  BY EntradasPorPartes
<1>6. /\ flujo.fin = h({11}, {})
      /\ flujo.verificacion <=> 200 * Absolute(dif) <= Max({Absolute(h({11}, {})), 200})
  <2> DEFINE v == 200 * Absolute(dif) <= Max({Absolute(h({11}, {})), 200})
             f == h({11}, {})
             i == a({11}, {})
  <2>1. flujo = [operacion |-> operacion, inversion |-> inversion, financiacion |-> financiacion,
                 inicio |-> i, fin |-> f, verificacion |-> v]
    BY DEF compute_cash_flow_indirect
  <2> HIDE DEF flujo, v, f, i, operacion, inversion, financiacion
  <2>2. flujo.fin = f /\ flujo.verificacion = v
    BY <2>1
  <2> QED BY <2>2, Zenon DEF v, f
<1>7. dif = d
  <2>1. /\ s({11}, {}) = m(1) /\ s({12}, {}) = m(2) /\ s({13}, {}) = m(3) /\ s({14}, {}) = m(4)
        /\ s({15}, {159}) = m(5) /\ s({159}, {}) = m(6) /\ s({16}, {}) = m(7)
        /\ h({11}, {}) \in Int /\ a({11}, {}) \in Int /\ h({159}, {}) \in Int /\ a({159}, {}) \in Int
    <3> HIDE DEF s, h, a, m
    <3> QED BY <1>2 DEF Parcial, Menos
  <2>2. s({21}, {}) = -m(8) /\ s({22, 23, 24, 25, 26}, {}) = -m(9) /\ s({31}, {}) = -m(10)
    <3> HIDE DEF s, h, a, m
    <3> QED BY <1>3 DEF Parcial, Menos
  <2>3. s({11}, {}) = h({11}, {}) - a({11}, {}) /\ s({159}, {}) = h({159}, {}) - a({159}, {})
    OBVIOUS
  <2> DEFINE x == sum_leaves(eh, {5160, 5260, 7560}, {})
             y == sum_leaves(eh, {519}, {})
             u == er.utilidad_neta
             p == Debitos(ConPrefijo(en, 3705))
  <2> HIDE DEF s, h, a, m, d, x, y, u, p
  <2>4. /\ m(1) \in Int /\ m(2) \in Int /\ m(3) \in Int /\ m(4) \in Int /\ m(5) \in Int /\ m(6) \in Int /\ m(7) \in Int
        /\ m(8) \in Int /\ m(9) \in Int /\ m(10) \in Int /\ m(11) \in Int /\ m(12) \in Int /\ m(13) \in Int
        /\ m(14) \in Int
    BY <1>5
  <2>5. u = -m(12) - m(13) - m(14) /\ p = m(11) /\ y = 0 /\ m(6) <= 0 /\ (m(6) = 0 => x = 0)
    BY <1>4 DEF x, y, u, p
  <2>6. dep = -m(6)
    <3>1. CASE h({159}, {}) # 0 \/ a({159}, {}) # 0
      <4>1. dep = Absolute(m(6))
        BY <2>1, <3>1
      <4> QED BY <2>4, <2>5, <4>1 DEF Absolute
    <3>2. CASE h({159}, {}) = 0 /\ a({159}, {}) = 0
      <4>1. m(6) = 0
        BY <2>1, <2>3, <3>2
      <4>2. dep = x
        BY <3>2 DEF x
      <4> QED BY <2>5, <4>1, <4>2
    <3> QED BY <3>1, <3>2
  <2>7. operacion = u + dep + y - s({13}, {}) - s({14}, {}) + s({22, 23, 24, 25, 26}, {})
    BY DEF u, y
  <2>8. financiacion = s({21}, {}) + s({31}, {}) - p
    BY DEF p
  <2> HIDE DEF dep
  <2>9. operacion = -m(12) - m(13) - m(14) - m(6) - m(3) - m(4) - m(9)
    BY <2>1, <2>2, <2>4, <2>5, <2>6, <2>7
  <2>10. inversion = -m(5) - m(7) - m(2)
    BY <2>1, <2>4
  <2>11. financiacion = -m(8) - m(10) - m(11)
    BY <2>2, <2>4, <2>5, <2>8
  <2>12. m(1) = h({11}, {}) - a({11}, {}) /\ h({11}, {}) \in Int /\ a({11}, {}) \in Int
    BY <2>1, <2>3
  <2> DEFINE h11 == h({11}, {})
             a11 == a({11}, {})
  <2>13. dif = h11 - (a11 + operacion + inversion + financiacion)
    OBVIOUS
  <2> HIDE DEF operacion, inversion, financiacion, h11, a11, dif
  <2>14. d = m(1) + m(2) + m(3) + m(4) + m(5) + m(6) + m(7) + m(8) + m(9) + m(10) + m(11) + m(12) + m(13) + m(14)
    BY <1>5
  <2>15. m(1) = h11 - a11 /\ h11 \in Int /\ a11 \in Int
    BY <2>12 DEF h11, a11
  <2> QED BY <2>4, <2>9, <2>10, <2>11, <2>13, <2>14, <2>15
<1>8. flujo.verificacion
  <2>1. h({11}, {}) \in Int
    <3> HIDE DEF s, h, a, m
    <3> QED BY <1>2 DEF Parcial, Menos
  <2> DEFINE z == h({11}, {})
  <2> HIDE DEF dif, d, flujo, z
  <2>2. z \in Int
    BY <2>1 DEF z
  <2>3. 200 * Absolute(d) <= Max({Absolute(z), 200})
    BY <1>5, <2>2, Holgura
  <2> QED BY <1>6, <1>7, <2>3 DEF z
<1>9. 4 \in DOMAIN notas => SumFunction(notas[4]) = flujo.fin
  <2> DEFINE K == {c \in DOMAIN H : StartsAny(c, {11})}
             g == [c \in K |-> H[c]]
  <2>1. 4 \in DOMAIN notas => notas[4] = g
    BY DEF compute_notes, NoteSpecs
  <2>2. K = {c \in DOMAIN H : StartsAny(c, {11}) /\ ~StartsAny(c, {})}
    BY DEF StartsAny
  <2>3. IsFiniteSet(K)
    <3>1. IsFiniteSet(DOMAIN H)
      BY DEF SonHojasDe, SonSaldos
    <3>2. K \subseteq DOMAIN H
      OBVIOUS
    <3> HIDE DEF K, H
    <3> QED BY <3>1, <3>2, FS_Subset
  <2>4. h({11}, {}) = SumFunctionOnSet(H, K)
    BY <2>2 DEF sum_leaves
  <2>5. DOMAIN g = K /\ \A c \in K : g[c] = H[c]
    OBVIOUS
  <2> HIDE DEF g, K, H, h
  <2>6. SumFunction(g) = SumFunctionOnSet(H, K)
    BY <2>3, <2>5, SumaDeFuncion, SumaIgual
  <2> QED BY <1>6, <2>1, <2>4, <2>6
<1>10. flujo.fin = build_cashflow(L, 0, fin)
  <2> DEFINE hasta == Hasta(L, fin)
             mayor == get_general_ledger(L, 0, fin)
             K == {c \in DOMAIN mayor : Starts(c, 11)}
             g == [c \in K |-> Deudor(mayor[c])]
  <2>1. h({11}, {}) = Mueve(hasta, Elegidas({11}, {}))
    <3>1. \A c \in Elegidas({11}, {}) : Subcuenta(c) => Clase(c) = 1 /\ Grupo(c) # 36
      <4>1. Parcial[1] = {11} /\ Menos[1] = {} /\ 1 \in 1..7
        BY DEF Parcial, Menos
      <4> QED BY <4>1, ClaseDeParte DEF Elegidas
    <3> DEFINE P == {11}
               X == {}
    <3> HIDE DEF P, X
    <3>2. sum_leaves(H, P, X) = Mueve(hasta, Elegidas(P, X))
      <4>1. \A c \in Elegidas(P, X) : Subcuenta(c) => Clase(c) = 1 /\ Grupo(c) # 36
        BY <3>1 DEF P, X
      <4> QED BY <1>1, <4>1, Delta
    <3> QED BY <3>2 DEF P, X
  <2>2. hasta = get_daily_journal(L, 0, fin)
    BY DEF Hasta, get_daily_journal, EsLineas
  <2>3. EsLineas(hasta) /\ IsFiniteSet(Cuentas(hasta)) /\ Cuentas(hasta) \subseteq Codigos
    BY <2>2, JournalLineas, CuentasFinitas
  <2>4. DOMAIN mayor = Cuentas(hasta) /\ \A c \in Cuentas(hasta) : Deudor(mayor[c]) = DebitNature(DeCuenta(hasta, c))
    BY <2>2, MayorDe
  <2>5. DeCuentas(hasta, K) = DeCuentas(hasta, Elegidas({11}, {}))
    BY <2>3, <2>4 DEF DeCuentas, Elegidas, StartsAny, Cuentas, EsLineas
  <2>6. build_cashflow(L, 0, fin) = SumFunction(g)
    BY DEF build_cashflow
  <2>7. DOMAIN g = K /\ K \subseteq Cuentas(hasta) /\ \A c \in K : g[c] = DebitNature(DeCuenta(hasta, c))
    BY <2>4
  <2> HIDE DEF g, K, mayor, hasta
  <2>8. IsFiniteSet(K)
    BY <2>3, <2>7, FS_Subset
  <2>9. SumFunction(g) = Mueve(hasta, K)
    BY <2>3, <2>7, <2>8, SumaDelDebe
  <2> QED BY <1>6, <2>1, <2>5, <2>6, <2>9 DEF Mueve
<1> QED BY <1>8, <1>9, <1>10
----------------------------------------------------------------------------
(* Changes in equity *)

(* The balance of the books up to a date, when equity is on its components. *)
LEMMA HojasDelDiario ==
  ASSUME NEW L, NEW corte, EsLineas(Hasta(L, corte)), \A c \in Cuentas(Hasta(L, corte)) : Subcuenta(c)
  PROVE  LET F == build_bg_data_from_journal(L, corte).cuentas
             H == leaf_accounts(F)
         IN SonHojasDe(H, Hasta(L, corte)) /\ H = [c \in DOMAIN F |-> F[c]]
<1> DEFINE F == build_bg_data_from_journal(L, corte).cuentas
           H == leaf_accounts(F)
           M == Hasta(L, corte)
<1>1. SonSaldos(F, M) /\ \A c \in DOMAIN F : c \in Codigos /\ Subcuenta(c)
  BY SaldosDelDiario
<1>2. H = [c \in DOMAIN F |-> F[c]]
  <2> HIDE DEF F
  <2> DEFINE A == DOMAIN F
             G == {}
  <2>1. /\ DOMAIN F = A \cup G /\ A \subseteq Codigos /\ \A c \in A : Subcuenta(c)
        /\ \A g \in G : \E c \in A : g = Grupo(c)
    BY <1>1
  <2> HIDE DEF A, G
  <2>2. leaf_accounts(F) = [c \in A |-> F[c]]
    BY <2>1, SonHojas
  <2> QED BY <2>2 DEF A
<1> HIDE DEF F, H, M
<1>3. DOMAIN H = DOMAIN F /\ \A c \in DOMAIN F : H[c] = F[c]
  BY <1>2
<1>4. SonSaldos(H, M)
  BY <1>1, <1>3 DEF SonSaldos
<1>5. SonHojasDe(H, M)
  BY <1>1, <1>3, <1>4 DEF SonHojasDe
<1> QED BY <1>2, <1>5 DEF F, H, M

(* The lines of a class and of a prefix. *)
LEMMA LineasDe ==
  ASSUME NEW M, EsLineas(M)
  PROVE  /\ \A p : DeCuentas(M, Elegidas({p}, {})) = ConPrefijo(M, p) /\ ConPrefijo(M, p) \subseteq M
         /\ \A k \in 1..9 : DeClase(M, k) = ConPrefijo(M, k)
         /\ \A p : /\ DebitNature(ConPrefijo(M, p)) = Mueve(M, Elegidas({p}, {}))
                   /\ CreditNature(ConPrefijo(M, p)) = -Mueve(M, Elegidas({p}, {}))
                   /\ Mueve(M, Elegidas({p}, {})) \in Int
<1>1. \A p : DeCuentas(M, Elegidas({p}, {})) = ConPrefijo(M, p) /\ ConPrefijo(M, p) \subseteq M
  BY DEF DeCuentas, Elegidas, StartsAny, ConPrefijo, EsLineas
<1>2. \A k \in 1..9 : DeClase(M, k) = ConPrefijo(M, k)
  BY ClaseEs DEF DeClase, ConPrefijo, EsLineas
<1>3. \A p : /\ DebitNature(ConPrefijo(M, p)) \in Int
             /\ CreditNature(ConPrefijo(M, p)) = -DebitNature(ConPrefijo(M, p))
  BY <1>1, Parte
<1> QED BY <1>1, <1>2, <1>3 DEF Mueve

EnComponentes(M) ==
  \A c \in Cuentas(M) :
    Subcuenta(c) /\ (Clase(c) = 3 => Grupo(c) \in EquityComponents \ {36} /\ PresentationClass(c) = 3)

LEMMA UtilidadPorClase ==
  ASSUME NEW L, NEW corte, EsLineas(Hasta(L, corte))
  PROVE  LET M == Hasta(L, corte)
             m(k) == Mueve(M, Elegidas({k}, {}))
             b == get_balance_sheet(L, corte)
         IN /\ b.net_profit = -m(4) - m(6) - m(5) /\ b.net_profit \in Int
            /\ b.total_equity = b.equity + b.net_profit
            /\ b.equity \in Int /\ b.equity = -Mueve(M, EnClase(M, Presentacion(M), 3))
<1> DEFINE M == Hasta(L, corte)
           m(k) == Mueve(M, Elegidas({k}, {}))
           b == get_balance_sheet(L, corte)
           clase == Presentacion(M)
<1>1. b = Totales(M, clase)
  BY DEF get_balance_sheet
<1>2. \A c \in DelBalance(M) : \A k \in 4..6 : clase[c] = k <=> Clase(c) = k
  BY PresentacionEs DEF Presentacion, DelBalance
<1> HIDE DEF M, b, clase
<1>3. EsLineas(M)
  BY DEF M
<1>4. b.net_profit = (CreditNature(DeClase(M, 4)) - DebitNature(DeClase(M, 6))) - DebitNature(DeClase(M, 5))
  BY <1>1, <1>2, <1>3, UtilidadDelBalance
<1>5. /\ DeClase(M, 4) = ConPrefijo(M, 4) /\ DeClase(M, 5) = ConPrefijo(M, 5) /\ DeClase(M, 6) = ConPrefijo(M, 6)
      /\ \A p : /\ DebitNature(ConPrefijo(M, p)) = m(p)
                /\ CreditNature(ConPrefijo(M, p)) = -m(p)
                /\ m(p) \in Int
  BY <1>3, LineasDe
<1> HIDE DEF m
<1>6. b.net_profit = -m(4) - m(6) - m(5)
  BY <1>4, <1>5
<1>7. /\ b.equity \in Int /\ b.net_profit \in Int
      /\ b.total_equity = b.equity + b.net_profit /\ b.equity = -Mueve(M, EnClase(M, clase, 3))
  BY <1>1, <1>3, TotalesSon
<1> QED BY <1>6, <1>7 DEF m, b, M, clase

LEMMA PatrimonioDelDiario ==
  ASSUME NEW L, NEW corte, EsLineas(Hasta(L, corte)), EnComponentes(Hasta(L, corte))
  PROVE  LET b == get_balance_sheet(L, corte)
             H == leaf_accounts(build_bg_data_from_journal(L, corte).cuentas)
             S == {c \in DOMAIN H : StartsAny(c, {3})}
         IN /\ SonHojasDe(H, Hasta(L, corte))
            /\ sum_leaves(H, {36}, {}) = b.net_profit
            /\ SumFunctionOnSet(H, S) = b.total_equity /\ b.total_equity \in Int
            /\ IsFiniteSet(S) /\ \A c \in S : Grupo(c) \in EquityComponents /\ H[c] \in Int
<1> DEFINE M == Hasta(L, corte)
           b == get_balance_sheet(L, corte)
           F == build_bg_data_from_journal(L, corte).cuentas
           H == leaf_accounts(F)
           U == UtilidadDelEjercicio
           S == {c \in DOMAIN H : StartsAny(c, {3})}
           N == CuentasClase(M, 3)
           K == {c \in DOMAIN H : StartsAny(c, {36}) /\ ~StartsAny(c, {})}
<1>1. \A c \in Cuentas(M) : Subcuenta(c) /\ c \in Codigos
  BY CuentasFinitas DEF EnComponentes
<1>2. SonHojasDe(H, M) /\ H = [c \in DOMAIN F |-> F[c]]
  BY <1>1, HojasDelDiario
<1>3. /\ U \notin Cuentas(M) /\ U \in DOMAIN F => F[U] = b.net_profit
      /\ (\A c \in Cuentas(M) : ~Starts(c, 36)) /\ b.net_profit # 0 => U \in DOMAIN F
  BY <1>1, SaldosDelDiario
<1>4. /\ b.net_profit \in Int /\ b.equity \in Int /\ b.total_equity = b.equity + b.net_profit
      /\ b.equity = -Mueve(M, EnClase(M, Presentacion(M), 3))
  BY UtilidadPorClase
<1>5. EnClase(M, Presentacion(M), 3) = N
  BY PresentacionEs DEF EnClase, Presentacion, DelBalance, CuentasClase, EnComponentes, SeReporta
<1>6. EsLineas(M) /\ EnComponentes(M)
  OBVIOUS
<1> HIDE DEF M, b, F, H, U
<1>7. DOMAIN H = DOMAIN F /\ \A c \in DOMAIN F : H[c] = F[c]
  BY <1>2
<1>8. \A c \in DOMAIN H : c \in Codigos /\ Subcuenta(c) /\ (c \in Cuentas(M) \/ c = U)
  BY <1>2 DEF SonHojasDe, SonSaldos, U
<1>9. Grupo(U) = 36
  BY GrupoUtilidad DEF U
<1>10. \A c \in DOMAIN H \cup Cuentas(M) : /\ Starts(c, 36) <=> Grupo(c) = 36
                                           /\ Starts(c, 3) <=> Clase(c) = 3
                                           /\ Grupo(c) = 36 => Clase(c) = 3
  <2> TAKE c \in DOMAIN H \cup Cuentas(M)
  <2>1. c \in Codigos /\ Subcuenta(c)
    BY <1>1, <1>8
  <2>2. /\ Starts(c, 36) <=> Grupo(c) = 36
        /\ Clase(c) = 3 <=> 10 * 3 <= Grupo(c) /\ Grupo(c) <= 10 * 3 + 9
    BY <2>1, CodigoDeSubcuenta
  <2>3. Starts(c, 3) <=> Clase(c) = 3
    BY <2>1, ClaseEs
  <2> QED BY <2>2, <2>3
<1>11. \A c \in Cuentas(M) : Grupo(c) # 36 /\ (Clase(c) = 3 => Grupo(c) \in EquityComponents)
  BY <1>6, <1>10 DEF EnComponentes
<1>12. U \notin Cuentas(M) /\ (b.net_profit # 0 => U \in DOMAIN H)
  BY <1>3, <1>7, <1>9, <1>10, <1>11
<1>13. U \in DOMAIN H => H[U] = b.net_profit
  BY <1>3, <1>7, <1>12
<1>14. K = {c \in DOMAIN H : c = U}
  BY <1>8, <1>9, <1>10, <1>11 DEF StartsAny
<1>15. SumFunctionOnSet(H, K) = b.net_profit /\ IsFiniteSet(K) /\ \A c \in K : H[c] \in Int
  <2>1. CASE U \in DOMAIN H
    <3>1. K = {} \cup {U}
      BY <1>14, <2>1
    <3>2. IsFiniteSet({}) /\ U \notin {} /\ \A y \in {} \cup {U} : H[y] \in Int
      BY <1>4, <1>13, <2>1, FS_EmptySet
    <3>3. SumFunctionOnSet(H, {} \cup {U}) = H[U] + SumFunctionOnSet(H, {})
      BY <3>2, SumaMas
    <3>4. IsFiniteSet({} \cup {U})
      BY <3>2, FS_AddElement
    <3> HIDE DEF K
    <3>5. SumFunctionOnSet(H, K) = H[U] + 0
      BY <3>1, <3>3, SumaVacia
    <3> QED BY <1>4, <1>13, <2>1, <3>1, <3>2, <3>4, <3>5
  <2>2. CASE U \notin DOMAIN H
    <3>1. K = {} /\ b.net_profit = 0
      BY <1>12, <1>14, <2>2
    <3> HIDE DEF K
    <3> QED BY <3>1, SumaVacia, FS_EmptySet
  <2> QED BY <2>1, <2>2
<1>16. sum_leaves(H, {36}, {}) = b.net_profit
  BY <1>15 DEF sum_leaves
<1>17. N \subseteq DOMAIN H /\ IsFiniteSet(N) /\ \A c \in N : H[c] = CreditNature(DeCuenta(M, c)) /\ H[c] \in Int
  <2>1. N \subseteq DOMAIN H /\ N \subseteq Cuentas(M)
    BY <1>2 DEF SonHojasDe, SonSaldos, CuentasClase
  <2>2. IsFiniteSet(N)
    BY <2>1, <1>6, CuentasFinitas, FS_Subset
  <2>3. \A c \in N : H[c] = CreditNature(DeCuenta(M, c))
    BY <1>2 DEF SonHojasDe, SonSaldos, CuentasClase, SaldoNatural
  <2>4. \A c : DeCuenta(M, c) \subseteq M
    BY DEF DeCuenta
  <2>5. \A c : CreditNature(DeCuenta(M, c)) \in Int
    <3>1. \A c : /\ DebitNature(DeCuenta(M, c)) \in Int
                 /\ CreditNature(DeCuenta(M, c)) = -DebitNature(DeCuenta(M, c))
      BY <1>6, <2>4, Parte
    <3> QED BY <3>1
  <2> QED BY <2>1, <2>2, <2>3, <2>5
<1>18. SumFunctionOnSet(H, N) = b.equity
  <2>1. SumFunctionOnSet(H, N) = -Mueve(M, N)
    BY <1>6, <1>17, SaldosAcreedores
  <2> QED BY <1>4, <1>5, <2>1
<1>19. S = N \cup K /\ N \cap K = {}
  <2>1. \A c \in DOMAIN H : c \in S <=> Clase(c) = 3
    BY <1>10 DEF StartsAny
  <2>2. \A c \in DOMAIN H : c \in N <=> c \in Cuentas(M) /\ Clase(c) = 3
    BY DEF CuentasClase
  <2>3. \A c \in DOMAIN H : c \in K <=> c = U
    BY <1>14
  <2>4. U \in DOMAIN H => Clase(U) = 3
    BY <1>9, <1>10
  <2>5. S \subseteq DOMAIN H /\ K \subseteq DOMAIN H
    OBVIOUS
  <2> HIDE DEF S, N, K
  <2> QED BY <1>8, <1>12, <1>17, <2>1, <2>2, <2>3, <2>4, <2>5
<1>20. \A c \in K : Grupo(c) \in EquityComponents
  BY <1>9, <1>14 DEF EquityComponents
<1>21. \A c \in N : Grupo(c) \in EquityComponents
  BY <1>11 DEF CuentasClase
<1> HIDE DEF S, N, K
<1>22. SumFunctionOnSet(H, N \cup K) = SumFunctionOnSet(H, N) + SumFunctionOnSet(H, K)
  BY <1>15, <1>17, <1>19, SumaUnion
<1>23. SumFunctionOnSet(H, S) = b.total_equity /\ b.total_equity \in Int
  BY <1>4, <1>15, <1>18, <1>19, <1>22
<1>24. IsFiniteSet(S)
  BY <1>15, <1>17, <1>19, FS_Union
<1>25. \A c \in S : Grupo(c) \in EquityComponents /\ H[c] \in Int
  BY <1>15, <1>17, <1>19, <1>20, <1>21
<1> QED BY <1>2, <1>16, <1>23, <1>24, <1>25 DEF M, b, F, H, S

(* Each component of equity rolls forward over a period, and the components and
   the note on equity add up to the equity of its balance. *)
THEOREM ElPatrimonioRueda ==
  ASSUME NEW L, EsLineas(L), NEW ini \in Nat, NEW fin \in Nat, PatrimonioEnComponentes(L, ini, fin),
         NEW previas, NEW corte, Hasta(previas, corte) = Antes(L, ini),
         NEW bg, bg.total_patrimonio = build_bg_data_from_journal(L, fin).total_patrimonio,
         leaf_accounts(bg.cuentas) = leaf_accounts(build_bg_data_from_journal(L, fin).cuentas),
         NEW prior, leaf_accounts(prior.cuentas) = leaf_accounts(build_bg_data_from_journal(previas, corte).cuentas)
  PROVE  LET er == get_pnl(L, ini, fin)
             cambios == compute_equity_changes(bg, prior, er, get_daily_journal(L, ini, fin))
             notas == compute_notes(bg, er)
         IN /\ cambios.cuadre_patrimonio
            /\ 10 \in DOMAIN notas => SumFunction(notas[10]) = bg.total_patrimonio
            /\ \A k \in EquityComponents :
                 LET c == cambios.componentes[k] IN c.final = c.inicial + c.movimiento
<1> DEFINE er == get_pnl(L, ini, fin)
           en == get_daily_journal(L, ini, fin)
           cambios == compute_equity_changes(bg, prior, er, en)
           notas == compute_notes(bg, er)
           H == leaf_accounts(bg.cuentas)
           A == leaf_accounts(prior.cuentas)
           hasta == Hasta(L, fin)
           antes == Antes(L, ini)
           b == get_balance_sheet(L, fin)
           p == get_balance_sheet(previas, corte)
           S == {c \in DOMAIN H : StartsAny(c, {3})}
           mov(k) == CreditNature(ConPrefijo(en, k)) + (IF k = 36 THEN er.utilidad_neta ELSE 0)
           com(k) == [inicial |-> sum_leaves(A, {k}, {}), final |-> sum_leaves(H, {k}, {}), movimiento |-> mov(k)]
           finales == [k \in EquityComponents |-> com(k).final]
           total == SumFunction(finales)
           v == 200 * Absolute(total - bg.total_patrimonio) <= Max({Absolute(bg.total_patrimonio), 200})
<1>1. ini <= fin + 1 /\ EnComponentes(hasta)
  BY DEF PatrimonioEnComponentes, EnComponentes
<1>2. antes \subseteq hasta /\ hasta \subseteq L /\ en \subseteq hasta
  BY DEF PatrimonioEnComponentes, Antes, Hasta, get_daily_journal, EsLineas
<1>3. EsLineas(hasta) /\ EsLineas(antes) /\ EsLineas(en)
  <2> HIDE DEF hasta, antes, en
  <2> QED BY <1>2, Parte
<1>4. EnComponentes(antes)
  <2>1. Cuentas(antes) \subseteq Cuentas(hasta)
    BY <1>2 DEF Cuentas
  <2> QED BY <1>1, <2>1 DEF EnComponentes
<1>5. /\ SonHojasDe(H, hasta) /\ sum_leaves(H, {36}, {}) = b.net_profit
      /\ SumFunctionOnSet(H, S) = b.total_equity /\ b.total_equity \in Int /\ IsFiniteSet(S)
      /\ \A c \in S : Grupo(c) \in EquityComponents /\ H[c] \in Int
  <2> DEFINE H0 == leaf_accounts(build_bg_data_from_journal(L, fin).cuentas)
             S0 == {c \in DOMAIN H0 : StartsAny(c, {3})}
  <2>1. H = H0 /\ S = S0
    <3>1. H = H0
      OBVIOUS
    <3> HIDE DEF H, H0
    <3> QED BY <3>1
  <2>2. /\ SonHojasDe(H0, hasta) /\ sum_leaves(H0, {36}, {}) = b.net_profit
        /\ SumFunctionOnSet(H0, S0) = b.total_equity /\ b.total_equity \in Int /\ IsFiniteSet(S0)
        /\ \A c \in S0 : Grupo(c) \in EquityComponents /\ H0[c] \in Int
    BY <1>1, <1>3, PatrimonioDelDiario
  <2> HIDE DEF H, S, H0, S0, b, hasta
  <2> QED BY <2>1, <2>2
<1>6. SonHojasDe(A, antes) /\ sum_leaves(A, {36}, {}) = p.net_profit
  <2> DEFINE A0 == leaf_accounts(build_bg_data_from_journal(previas, corte).cuentas)
  <2>1. SonHojasDe(A0, Hasta(previas, corte)) /\ sum_leaves(A0, {36}, {}) = p.net_profit
    BY <1>3, <1>4, PatrimonioDelDiario
  <2>2. A = A0
    OBVIOUS
  <2> HIDE DEF A, A0
  <2> QED BY <2>1, <2>2
<1>7. cambios = [componentes |-> [k \in EquityComponents |-> com(k)], cuadre_patrimonio |-> v]
  BY DEF compute_equity_changes
<1>8. bg.total_patrimonio = b.total_equity
  BY DEF build_bg_data_from_journal
<1>9. \A k \in EquityComponents \ {36} :
        sum_leaves(H, {k}, {}) = sum_leaves(A, {k}, {}) + CreditNature(ConPrefijo(en, k))
  <2> SUFFICES ASSUME NEW k \in EquityComponents \ {36}
               PROVE  sum_leaves(H, {k}, {}) = sum_leaves(A, {k}, {}) + CreditNature(ConPrefijo(en, k))
    OBVIOUS
  <2> DEFINE P == {k}
             X == {}
  <2>1. k \in 10..99 /\ k \in 30..39 /\ k # 36
    BY DEF EquityComponents
  <2>2. ASSUME NEW c \in Elegidas(P, X), Subcuenta(c)
        PROVE  Clase(c) = 3 /\ Grupo(c) # 36
    <3>1. c \in Codigos /\ Starts(c, k)
      BY DEF Elegidas, StartsAny
    <3> HIDE DEF P, X
    <3>2. Grupo(c) = k
      BY <2>1, <2>2, <3>1, CodigoDeSubcuenta
    <3>3. Clase(c) = 3 <=> 10 * 3 <= Grupo(c) /\ Grupo(c) <= 10 * 3 + 9
      BY <2>2, <3>1, CodigoDeSubcuenta
    <3> QED BY <2>1, <3>2, <3>3
  <2>3. CreditNature(ConPrefijo(en, k)) = -Mueve(en, Elegidas(P, X))
    BY <1>3, LineasDe
  <2> HIDE DEF P, X
  <2>4. /\ Mueve(en, Elegidas(P, X)) \in Int /\ sum_leaves(H, P, X) \in Int /\ sum_leaves(A, P, X) \in Int
        /\ sum_leaves(H, P, X) - sum_leaves(A, P, X) = -Mueve(en, Elegidas(P, X))
    BY <1>1, <1>5, <1>6, <2>2, Delta
  <2>5. sum_leaves(H, P, X) = sum_leaves(A, P, X) + CreditNature(ConPrefijo(en, k))
    <3> DEFINE x == sum_leaves(H, P, X)
               y == sum_leaves(A, P, X)
               z == Mueve(en, Elegidas(P, X))
               w == CreditNature(ConPrefijo(en, k))
    <3>1. z \in Int /\ x \in Int /\ y \in Int /\ x - y = -z /\ w = -z
      BY <2>3, <2>4
    <3> HIDE DEF x, y, z, w
    <3>2. x = y + w
      BY <3>1
    <3> QED BY <3>2 DEF x, y, w
  <2> QED BY <2>5 DEF P, X
<1>10. sum_leaves(H, {36}, {}) = sum_leaves(A, {36}, {}) + mov(36)
  <2>1. ConPrefijo(en, 36) = {}
    <3> SUFFICES ASSUME NEW l \in en, Starts(l.cuenta, 36)
                 PROVE  FALSE
      BY DEF ConPrefijo
    <3> DEFINE c == l.cuenta
    <3>1. c \in Codigos /\ Subcuenta(c) /\ (Clase(c) = 3 => Grupo(c) # 36)
      BY <1>1, <1>2, <1>3 DEF EnComponentes, Cuentas, EsLineas
    <3> HIDE DEF c
    <3>2. Starts(c, 36) <=> Grupo(c) = 36
      BY <3>1, CodigoDeSubcuenta
    <3>3. Clase(c) = 3 <=> 10 * 3 <= Grupo(c) /\ Grupo(c) <= 10 * 3 + 9
      BY <3>1, CodigoDeSubcuenta
    <3> QED BY <3>1, <3>2, <3>3 DEF c
  <2>2. CreditNature(ConPrefijo(en, 36)) = 0
    BY <2>1, NatVacia
  <2> DEFINE mh(k) == Mueve(hasta, Elegidas({k}, {}))
             ma(k) == Mueve(antes, Elegidas({k}, {}))
             me(k) == Mueve(en, Elegidas({k}, {}))
  <2>3. b.net_profit = -mh(4) - mh(6) - mh(5) /\ b.net_profit \in Int
    BY <1>3, UtilidadPorClase
  <2>4. p.net_profit = -ma(4) - ma(6) - ma(5) /\ p.net_profit \in Int
    BY <1>3, UtilidadPorClase
  <2>5. \A k : mh(k) = ma(k) + me(k) /\ ma(k) \in Int /\ me(k) \in Int
    BY <1>1, MueveHasta
  <2>6. er.utilidad_neta = -me(4) - me(6) - me(5)
    <3>1. er.utilidad_neta = (CreditNature(DeClase(en, 4)) - DebitNature(DeClase(en, 6))) - DebitNature(DeClase(en, 5))
      BY DEF get_pnl
    <3>2. DeClase(en, 4) = ConPrefijo(en, 4) /\ DeClase(en, 5) = ConPrefijo(en, 5) /\ DeClase(en, 6) = ConPrefijo(en, 6)
      BY <1>3, LineasDe
    <3>3. \A k : /\ DebitNature(ConPrefijo(en, k)) = me(k)
                 /\ CreditNature(ConPrefijo(en, k)) = -me(k)
                 /\ me(k) \in Int
      BY <1>3, LineasDe
    <3> HIDE DEF er, en, me
    <3> QED BY <3>1, <3>2, <3>3
  <2> DEFINE x == b.net_profit
             y == p.net_profit
             z == er.utilidad_neta
  <2>7. sum_leaves(H, {36}, {}) = x /\ sum_leaves(A, {36}, {}) = y /\ mov(36) = 0 + z
    BY <1>5, <1>6, <2>2
  <2> HIDE DEF b, p, er, mh, ma, me, x, y, z, mov, H, A
  <2>8. /\ x = -mh(4) - mh(6) - mh(5) /\ y = -ma(4) - ma(6) - ma(5) /\ z = -me(4) - me(6) - me(5)
        /\ mh(4) = ma(4) + me(4) /\ mh(5) = ma(5) + me(5) /\ mh(6) = ma(6) + me(6)
        /\ ma(4) \in Int /\ ma(5) \in Int /\ ma(6) \in Int /\ me(4) \in Int /\ me(5) \in Int /\ me(6) \in Int
    BY <2>3, <2>4, <2>5, <2>6 DEF x, y, z
  <2>9. x = y + (0 + z)
    BY <2>8
  <2> QED BY <2>7, <2>9
<1>11. \A k \in EquityComponents : LET c == cambios.componentes[k] IN c.final = c.inicial + c.movimiento
  <2> SUFFICES ASSUME NEW k \in EquityComponents
               PROVE  cambios.componentes[k].final = cambios.componentes[k].inicial + cambios.componentes[k].movimiento
    OBVIOUS
  <2>0. cambios.componentes[k] = com(k)
    <3> HIDE DEF cambios, com, v
    <3> QED BY <1>7
  <2> SUFFICES com(k).final = com(k).inicial + com(k).movimiento
    <3> HIDE DEF cambios, com
    <3> QED BY <2>0
  <2>1. CASE k = 36
    BY <1>10, <2>1
  <2>2. CASE k # 36
    <3>1. sum_leaves(H, {k}, {}) = sum_leaves(A, {k}, {}) + CreditNature(ConPrefijo(en, k))
      BY <1>9, <2>2
    <3>2. EsLineas(en) /\ CreditNature(ConPrefijo(en, k)) \in Int
      <4>1. /\ CreditNature(ConPrefijo(en, k)) = -Mueve(en, Elegidas({k}, {}))
            /\ Mueve(en, Elegidas({k}, {})) \in Int
        BY <1>3, LineasDe
      <4> QED BY <1>3, <4>1
    <3>3. mov(k) = CreditNature(ConPrefijo(en, k))
      BY <2>2, <3>2
    <3> HIDE DEF mov, H, A, en
    <3> QED BY <3>1, <3>3
  <2> QED BY <2>1, <2>2
<1>12. total = b.total_equity
  <2> DEFINE parte == [c \in S |-> Grupo(c)]
             K == EquityComponents
  <2>1. \A k \in K : finales[k] = SumFunctionOnSet(H, DeParte(S, parte, k))
    <3> SUFFICES ASSUME NEW k \in K
                 PROVE  finales[k] = SumFunctionOnSet(H, DeParte(S, parte, k))
      OBVIOUS
    <3>1. \A c \in DOMAIN H : Starts(c, k) <=> Starts(c, 3) /\ Grupo(c) = k
      <4> TAKE c \in DOMAIN H
      <4>1. c \in Codigos /\ Subcuenta(c) /\ k \in 10..99 /\ k \in 30..39
        BY <1>5 DEF SonHojasDe, EquityComponents
      <4>2. Starts(c, k) <=> Grupo(c) = k
        BY <4>1, CodigoDeSubcuenta
      <4>3. Starts(c, 3) <=> 10 * 3 <= Grupo(c) /\ Grupo(c) <= 10 * 3 + 9
        BY <4>1, CodigoDeSubcuenta, ClaseEs
      <4> QED BY <4>1, <4>2, <4>3
    <3>2. DeParte(S, parte, k) = {c \in DOMAIN H : StartsAny(c, {k}) /\ ~StartsAny(c, {})}
      <4> HIDE DEF H
      <4> QED BY <3>1 DEF DeParte, StartsAny
    <3>3. finales[k] = sum_leaves(H, {k}, {})
      OBVIOUS
    <3> HIDE DEF finales, H, parte, S
    <3> QED BY <3>2, <3>3 DEF sum_leaves
  <2>2. IsFiniteSet(K) /\ DOMAIN finales = K
    <3>1. IsFiniteSet({31} \cup {33} \cup {36} \cup {37} \cup {38})
      BY FS_Singleton, FS_Union
    <3>2. K = {31} \cup {33} \cup {36} \cup {37} \cup {38}
      BY DEF EquityComponents
    <3> HIDE DEF K
    <3> QED BY <3>1, <3>2 DEF K
  <2>3. \A c \in S : H[c] \in Int /\ parte[c] \in K
    BY <1>5
  <2> HIDE DEF finales, parte, K, S, H
  <2>4. SumFunctionOnSet(finales, K) = SumFunctionOnSet(H, S)
    BY <1>5, <2>1, <2>2, <2>3, SumaPorPartes
  <2> QED BY <1>5, <2>2, <2>4, SumaDeFuncion
<1>13. cambios.cuadre_patrimonio
  <2> DEFINE e == b.total_equity
             x == e - e
  <2>1. v <=> 200 * Absolute(total - bg.total_patrimonio) <= Max({Absolute(bg.total_patrimonio), 200})
    OBVIOUS
  <2> HIDE DEF total, b, e
  <2>2. e \in Int /\ x = 0 /\ Absolute(x) <= 1
    BY <1>5 DEF Absolute, e
  <2>3. 200 * Absolute(x) <= Max({Absolute(e), 200})
    BY <2>2, Holgura
  <2>4. total = e /\ bg.total_patrimonio = e
    BY <1>8, <1>12 DEF e
  <2>5. v
    BY <2>3, <2>4
  <2> HIDE DEF v, cambios
  <2> QED BY <1>7, <2>5
<1>14. 10 \in DOMAIN notas => SumFunction(notas[10]) = bg.total_patrimonio
  <2> DEFINE g == [c \in S |-> H[c]]
  <2>1. 10 \in DOMAIN notas => notas[10] = g
    BY DEF compute_notes, NoteSpecs
  <2>2. DOMAIN g = S /\ \A c \in S : g[c] = H[c]
    OBVIOUS
  <2> HIDE DEF g, S, H, notas
  <2>3. SumFunction(g) = SumFunctionOnSet(H, S)
    BY <1>5, <2>2, SumaDeFuncion, SumaIgual
  <2> QED BY <1>5, <1>8, <2>1, <2>3
<1> QED BY <1>11, <1>13, <1>14
=============================================================================
