-------------------------- MODULE Statements_proofs --------------------------
(***************************************************************************)
(* Proofs about the statements: what a deleted transaction, a refresh that   *)
(* commits on the way and a derivation leave in financial_statements.        *)
(*                                                                         *)
(* Proved for any company, entries, periods and bounds: which rows there are, *)
(* what they were built from, which requests may be under way, that the       *)
(* reports of the books agree, and that the derived statements of coherent    *)
(* sources close and roll forward (the sums are those of Ledger_proofs).       *)
(***************************************************************************)
EXTENDS Statements, Ledger_proofs, SequenceTheorems, TLAPS

(***************************************************************************)
(* The rows and the requests that occur.                                     *)
(***************************************************************************)
Fechas == [ini : Nat, fin : Nat, frec : Frecuencias]
FechasDe(r) == [ini |-> r.ini, fin |-> r.fin, frec |-> r.frec]

PrimerNivel == [tipo : FirstLevel, ini : Nat, fin : Nat, frec : Frecuencias,
                modo : {"direct", "derived_from_journal"}, de : SUBSET Tx]
Fuente == PrimerNivel \cup {Ninguna}
Origenes == [bg : Fuente, er : Fuente, la : Fuente, prior : PrimerNivel]
Secundarios == [tipo : DerivedTargets, ini : Nat, fin : Nat, frec : Frecuencias,
                modo : {"derived"}, de : Origenes]

Falta == Seq(FirstLevel) \ {<<>>}
Refrescos == {"borrar", "reprocesar"}
PeticionConstruir == [op : {"construir"}, p : Periodos, falta : Falta]
PeticionInicio == [op : Refrescos, fase : {"inicio"}, docs : SUBSET Tx]
PeticionPeriodos == [op : Refrescos, docs : SUBSET Tx, fase : {"periodos"}, faltan : SUBSET Fechas]
PeticionFilas == [op : Refrescos, docs : SUBSET Tx, fase : {"filas"}, p : Fechas, falta : Falta,
                  faltan : SUBSET Fechas, secundarios : BOOLEAN]
Peticiones == {Libre} \cup PeticionConstruir \cup PeticionInicio \cup PeticionPeriodos \cup PeticionFilas

EstadosDoc == {"nuevo", "pendiente", "contabilizado", "anulado", "borrado", "perdido"}

Tipos ==
  /\ via \in {"A", "B"}
  /\ pedidos \in 0..MaxPedidos
  /\ doc \in [Tx -> EstadosDoc]
  /\ estados \subseteq PrimerNivel \cup Secundarios
  /\ req \in Peticiones

(* The transactions a refresh is about are gone from the journal, and one whose
   deletion waits for a commit is one of them. *)
Anulados ==
  /\ \A t \in Tx : doc[t] = "anulado" => req.op = "reprocesar" /\ t \in req.docs
  /\ Refrescando => \A t \in req.docs : doc[t] \in {"borrado", "anulado"}

(* A row the refresh has still to rebuild. *)
PorRefrescar(r) ==
  /\ Refrescando
  /\ req.fase = "inicio" \/ FechasDe(r) \in req.faltan

(* A row of the journal counts posted transactions, and until it is rebuilt
   perhaps those just deleted. *)
Cubre(r) ==
  \/ r.de \subseteq Contabilizados
  \/ PorRefrescar(r) /\ r.de \subseteq Contabilizados \cup req.docs
SinSecundarios == \A r \in estados : r.modo # "derived"
Cobertura == SinSecundarios => \A r \in estados : r.modo = "derived_from_journal" => Cubre(r)

StatementsInv == Tipos /\ Anulados /\ LineageKept /\ DocumentKept /\ Cobertura

----------------------------------------------------------------------------
(***************************************************************************)
(* The first row of a lookup.                                                *)
(***************************************************************************)

(* Rows that close no later than n: one of them closes last. *)
LEMMA Ultima ==
  ASSUME NEW F, NEW n \in Nat, F # {},
         \A r \in F : r.fin \in Nat /\ r.fin <= n
  PROVE  \E r \in F : \A s \in F : s.fin <= r.fin
<1> DEFINE T == {r.fin : r \in F}
<1>1. T \subseteq Nat /\ T # {} /\ \A x \in T : x <= n
  OBVIOUS
<1>2. PICK x \in T : \A y \in T : y <= x
  <2> HIDE DEF T
  <2> QED BY <1>1, Maximo
<1> QED BY <1>2

(* The first row of a lookup is one of the rows found, or none. *)
LEMMA PrimeraDe ==
  ASSUME NEW F
  PROVE  Primera(F) \subseteq F \cup {Ninguna}
BY DEF Primera

(* There is a first row, whatever the rows found. *)
LEMMA HayPrimera ==
  ASSUME NEW F, NEW n \in Nat,
         \A r \in F : r.fin \in Nat /\ r.fin <= n
  PROVE  Primera(F) # {}
<1>1. CASE F = {}
  BY <1>1 DEF Primera
<1>2. CASE F # {}
  <2> DEFINE A == {r \in F : Anual(r)}
             G == IF A # {} THEN A ELSE F
  <2>1. G # {} /\ G \subseteq F
    BY <1>2
  <2>2. \E r \in G : \A s \in G : s.fin <= r.fin
    <3> HIDE DEF G
    <3> QED BY <2>1, Ultima
  <2>3. Primera(F) = {r \in G : \A s \in G : s.fin <= r.fin}
    BY <1>2 DEF Primera
  <2> QED BY <2>2, <2>3
<1> QED BY <1>1, <1>2

----------------------------------------------------------------------------
(***************************************************************************)
(* Typing of the operators the handlers use.                                 *)
(***************************************************************************)

LEMMA Clases ==
  /\ FirstLevel \cap DerivedTargets = {}
  /\ DerivationInputs \subseteq FirstLevel
  /\ Orden \in Falta
  /\ Periodos \subseteq Fechas
<1>1. Orden \in Seq(FirstLevel) /\ Orden # <<>>
  BY DEF Orden, FirstLevel
<1> QED BY <1>1, PeriodosAssumption DEF FirstLevel, DerivedTargets, DerivationInputs, Falta, Fechas

(* One statement of a build after the other. *)
LEMMA FaltaMenos ==
  ASSUME NEW f \in Falta
  PROVE  /\ Head(f) \in FirstLevel
         /\ Len(f) # 1 => Tail(f) \in Falta
<1>1. f \in Seq(FirstLevel) /\ f # <<>>
  BY DEF Falta
<1>2. Head(f) \in FirstLevel /\ Tail(f) \in Seq(FirstLevel)
  BY <1>1, HeadTailProperties
<1>3. Len(f) \in Nat \ {0}
  BY <1>1, EmptySeq
<1>4. Len(f) # 1 => Tail(f) # <<>>
  <2>1. Len(Tail(f)) = Len(f) - 1
    BY <1>1, HeadTailProperties
  <2>2. Tail(f) = <<>> => Len(Tail(f)) = 0
    BY EmptySeq
  <2> QED BY <1>3, <2>1, <2>2
<1> QED BY <1>2, <1>4 DEF Falta

(* A statement that first_level_type_exists finds is kept, another is built
   from the transactions that are posted. *)
LEMMA ConstruirAgrega ==
  ASSUME Tipos, NEW p \in Fechas, NEW tipo \in FirstLevel
  PROVE  /\ estados \subseteq Construir(p, tipo)
         /\ \A r \in Construir(p, tipo) \ estados :
              /\ r \in PrimerNivel
              /\ r.modo = "derived_from_journal" /\ r.de = Contabilizados
<1>1. Fila(tipo, p, "derived_from_journal", Contabilizados) \in PrimerNivel
  BY DEF Fila, PrimerNivel, Fechas, Contabilizados
<1>2. /\ Fila(tipo, p, "derived_from_journal", Contabilizados).modo = "derived_from_journal"
      /\ Fila(tipo, p, "derived_from_journal", Contabilizados).de = Contabilizados
  BY DEF Fila
<1> QED BY <1>1, <1>2 DEF Construir

(* The sources a derivation finds are statements that are stored. *)
LEMMA EntradasDe ==
  ASSUME NEW E, E \subseteq PrimerNivel \cup Secundarios,
         NEW p, NEW modos, NEW viaA, NEW d \in Entradas(E, p, modos, viaA)
  PROVE  /\ d \in Origenes
         /\ {d.bg, d.er, d.la, d.prior} \ {Ninguna} \subseteq E
<1> DEFINE Bgs == get_financial_statements(E, "balance_general", p, modos)
           Ers == get_financial_statements(E, "estado_resultados", p, modos)
           Las == get_financial_statements(E, "libro_auxiliar", p, modos)
           Previos == load_prior(E, "balance_general", p, viaA) \cup load_prior(E, "libro_auxiliar", p, viaA)
<1>1. d \in [bg : Primera(Bgs), er : Primera(Ers), la : Primera(Las), prior : Previos]
  BY DEF Entradas
<1>2. ASSUME NEW tipo \in FirstLevel, NEW r \in E, r.tipo = tipo
      PROVE  r \in PrimerNivel
  BY <1>2, Clases DEF Secundarios
<1>3. Bgs \subseteq PrimerNivel \cap E /\ Ers \subseteq PrimerNivel \cap E /\ Las \subseteq PrimerNivel \cap E
  BY <1>2 DEF get_financial_statements, FirstLevel
<1>4. Previos \subseteq PrimerNivel \cap E
  BY <1>2 DEF load_prior, FirstLevel
<1>5. d.prior \in PrimerNivel \cap E
  <2> HIDE DEF Previos
  <2> QED BY <1>1, <1>4
<1>6. /\ d.bg \in Bgs \cup {Ninguna}
      /\ d.er \in Ers \cup {Ninguna}
      /\ d.la \in Las \cup {Ninguna}
  <2> HIDE DEF Bgs, Ers, Las, Previos
  <2> QED BY <1>1, PrimeraDe
<1>7. d = [bg |-> d.bg, er |-> d.er, la |-> d.la, prior |-> d.prior]
  <2> HIDE DEF Bgs, Ers, Las, Previos
  <2> QED BY <1>1
<1> HIDE DEF Bgs, Ers, Las, Previos
<1>8. /\ d.bg \in (PrimerNivel \cap E) \cup {Ninguna}
      /\ d.er \in (PrimerNivel \cap E) \cup {Ninguna}
      /\ d.la \in (PrimerNivel \cap E) \cup {Ninguna}
  BY <1>3, <1>6
<1>9. d \in Origenes
  <2>1. d.bg \in Fuente /\ d.er \in Fuente /\ d.la \in Fuente
    BY <1>8 DEF Fuente
  <2> QED BY <2>1, <1>5, <1>7 DEF Origenes
<1> QED BY <1>5, <1>8, <1>9

(* What a derivation adds are derived rows on sources that are stored. *)
LEMMA DerivaAgrega ==
  ASSUME NEW E, E \subseteq PrimerNivel \cup Secundarios, NEW p \in Fechas,
         NEW d \in Origenes, {d.bg, d.er, d.la, d.prior} \ {Ninguna} \subseteq E
  PROVE  /\ E \subseteq derive_financial_statements(E, p, d)
         /\ \A r \in derive_financial_statements(E, p, d) \ E :
              r \in Secundarios /\ Fuentes(r) \subseteq E
<1>1. ASSUME NEW t \in DerivedTargets
      PROVE  Fila(t, p, "derived", d) \in Secundarios /\ Fuentes(Fila(t, p, "derived", d)) \subseteq E
  <2>1. Fila(t, p, "derived", d) \in Secundarios
    BY DEF Fila, Secundarios, Fechas
  <2>2. Fila(t, p, "derived", d).de = d
    BY DEF Fila
  <2>3. Fuentes(Fila(t, p, "derived", d)) \subseteq {d.bg, d.er, d.la, d.prior} \ {Ninguna}
    BY <2>2 DEF Fuentes
  <2> QED BY <2>1, <2>3
<1> QED BY <1>1 DEF derive_financial_statements

----------------------------------------------------------------------------
(***************************************************************************)
(* What a step does to the rows.                                             *)
(***************************************************************************)

(* The request under way, by what it does. *)
LEMMA PeticionDe ==
  ASSUME Tipos
  PROVE  /\ req.op = "construir" => req \in PeticionConstruir
         /\ Refrescando /\ req.fase = "inicio" => req \in PeticionInicio
         /\ Refrescando /\ req.fase = "periodos" => req \in PeticionPeriodos
         /\ Refrescando /\ req.fase = "filas" => req \in PeticionFilas
         /\ Refrescando => req \in PeticionInicio \cup PeticionPeriodos \cup PeticionFilas
         /\ Libre.op = "ninguna" /\ (req.op = "ninguna" => req = Libre)
<1>1. Libre.op = "ninguna"
  BY DEF Libre
<1>2. \A q \in PeticionConstruir : q.op = "construir"
  BY DEF PeticionConstruir
<1>3. \A q \in PeticionInicio : q.op \in Refrescos /\ q.fase = "inicio"
  BY DEF PeticionInicio
<1>4. \A q \in PeticionPeriodos : q.op \in Refrescos /\ q.fase = "periodos"
  BY DEF PeticionPeriodos
<1>5. \A q \in PeticionFilas : q.op \in Refrescos /\ q.fase = "filas"
  BY DEF PeticionFilas
<1>6. req \in {Libre} \cup PeticionConstruir \cup PeticionInicio \cup PeticionPeriodos \cup PeticionFilas
  BY DEF Tipos, Peticiones
<1> QED BY <1>1, <1>2, <1>3, <1>4, <1>5, <1>6 DEF Refrescos, Refrescando

(* New rows: statements built from what is posted or uploaded, and derived ones
   on stored sources. *)
Nueva(r) ==
  \/ r \in PrimerNivel /\ (r.modo = "derived_from_journal" => r.de = Contabilizados)
  \/ r \in Secundarios /\ Fuentes(r) \subseteq estados'

(* Rows are added, or a set of rows that no lineage references is deleted. *)
EstadosMove ==
  \/ estados \subseteq estados' /\ \A r \in estados' \ estados : Nueva(r)
  \/ \E D \in SUBSET estados : Borrable(D) /\ estados' = estados \ D

(* Handler by handler. *)
LEMMA UploadMove ==
  ASSUME Tipos, NEW tipo \in DerivationInputs, NEW p \in Periodos, Upload(tipo, p)
  PROVE  EstadosMove
<1> DEFINE f == Fila(tipo, p, "direct", Tx)
           E == estados \cup {f}
<1>1. p \in Fechas /\ tipo \in FirstLevel
  BY Clases
<1>2. f \in PrimerNivel /\ f.modo = "direct"
  BY <1>1 DEF Fila, PrimerNivel, Fechas
<1>3. E \subseteq PrimerNivel \cup Secundarios
  BY <1>2 DEF Tipos
<1>4. \/ estados' = E
      \/ \E d \in Entradas(E, p, Modos, FALSE) : estados' = derive_financial_statements(E, p, d)
  BY DEF Upload
<1> HIDE DEF f
<1>5. CASE estados' = E
  BY <1>2, <1>5 DEF EstadosMove, Nueva
<1>6. ASSUME NEW d \in Entradas(E, p, Modos, FALSE), estados' = derive_financial_statements(E, p, d)
      PROVE  EstadosMove
  <2> HIDE DEF E
  <2>1. d \in Origenes /\ {d.bg, d.er, d.la, d.prior} \ {Ninguna} \subseteq E
    BY <1>3, EntradasDe
  <2>2. E \subseteq estados' /\ \A r \in estados' \ E : r \in Secundarios /\ Fuentes(r) \subseteq E
    BY <1>1, <1>3, <1>6, <2>1, DerivaAgrega
  <2> QED BY <1>2, <2>2 DEF EstadosMove, Nueva, E
<1> QED BY <1>4, <1>5, <1>6

LEMMA DerivationMove ==
  ASSUME Tipos, NEW p \in Periodos, RunDerivation(p)
  PROVE  EstadosMove
<1> DEFINE modos == IF via = "A" THEN {"derived_from_journal"} ELSE {"direct"}
<1>1. PICK d \in Entradas(estados, p, modos, via = "A") : estados' = derive_financial_statements(estados, p, d)
  BY DEF RunDerivation
<1> HIDE DEF modos
<1>2. p \in Fechas /\ estados \subseteq PrimerNivel \cup Secundarios
  BY Clases DEF Tipos
<1>3. d \in Origenes /\ {d.bg, d.er, d.la, d.prior} \ {Ninguna} \subseteq estados
  BY <1>2, EntradasDe
<1>4. estados \subseteq estados' /\ \A r \in estados' \ estados : r \in Secundarios /\ Fuentes(r) \subseteq estados
  BY <1>1, <1>2, <1>3, DerivaAgrega
<1> QED BY <1>4 DEF EstadosMove, Nueva

LEMMA BuildMove ==
  ASSUME Tipos, BuildStep
  PROVE  EstadosMove
<1>1. req.p \in Fechas /\ req.falta \in Falta
  BY PeticionDe, Clases DEF BuildStep, PeticionConstruir
<1>2. Head(req.falta) \in FirstLevel
  BY <1>1, FaltaMenos
<1>3. estados' = Construir(req.p, Head(req.falta))
  BY DEF BuildStep
<1> QED BY <1>1, <1>2, <1>3, ConstruirAgrega DEF EstadosMove, Nueva

LEMMA PurgeMove ==
  ASSUME ResyncPurge
  PROVE  EstadosMove
BY DEF ResyncPurge, EstadosMove

LEMMA ClearMove ==
  ASSUME ResyncClear
  PROVE  EstadosMove
<1>1. PICK p \in req.faltan :
        LET D == {r \in estados : r.modo # "direct" /\ r.ini = p.ini /\ r.fin = p.fin}
        IN \/ Borrable(D) /\ estados' = estados \ D
           \/ estados' = estados
  BY DEF ResyncClear
<1> QED BY <1>1 DEF EstadosMove

LEMMA RowMove ==
  ASSUME Tipos, ResyncRow
  PROVE  EstadosMove
<1> DEFINE E == Construir(req.p, Head(req.falta))
           entradas == Entradas(E, req.p, {"derived_from_journal"}, TRUE)
<1>1. req.p \in Fechas /\ req.falta \in Falta
  BY PeticionDe DEF ResyncRow, PeticionFilas
<1>2. Head(req.falta) \in FirstLevel
  BY <1>1, FaltaMenos
<1>3. /\ estados \subseteq E
      /\ \A r \in E \ estados : r \in PrimerNivel /\ r.modo = "derived_from_journal" /\ r.de = Contabilizados
  BY <1>1, <1>2, ConstruirAgrega
<1>4. E \subseteq PrimerNivel \cup Secundarios
  BY <1>3 DEF Tipos
<1>5. \/ estados' = E
      \/ \E d \in entradas : estados' = derive_financial_statements(E, req.p, d)
  BY DEF ResyncRow
<1> HIDE DEF E
<1>6. CASE estados' = E
  BY <1>3, <1>6 DEF EstadosMove, Nueva
<1>7. ASSUME NEW d \in entradas, estados' = derive_financial_statements(E, req.p, d)
      PROVE  EstadosMove
  <2>1. d \in Origenes /\ {d.bg, d.er, d.la, d.prior} \ {Ninguna} \subseteq E
    BY <1>4, EntradasDe
  <2>2. E \subseteq estados' /\ \A r \in estados' \ E : r \in Secundarios /\ Fuentes(r) \subseteq E
    BY <1>1, <1>4, <1>7, <2>1, DerivaAgrega
  <2> QED BY <1>3, <2>2 DEF EstadosMove, Nueva
<1> QED BY <1>5, <1>6, <1>7

LEMMA StepMove ==
  ASSUME Tipos, [Next]_vars
  PROVE  EstadosMove
<1>1. ASSUME UNCHANGED estados
      PROVE  EstadosMove
  BY <1>1 DEF EstadosMove
<1>2. ASSUME NEW t \in Tx,
             CreateTransaction(t) \/ Post(t) \/ ManualAjuste(t) \/ DeleteTransaction(t) \/ ReprocessTransaction(t)
      PROVE  UNCHANGED estados
  BY <1>2 DEF CreateTransaction, Post, ManualAjuste, DeleteTransaction, ReprocessTransaction, Borrar
<1>3. ASSUME NEW i, DeleteByIngest(i)
      PROVE  UNCHANGED estados
  BY <1>3 DEF DeleteByIngest, Borrar
<1>4. ASSUME NEW p \in Periodos, BuildFirstLevel(p)
      PROVE  UNCHANGED estados
  BY <1>4 DEF BuildFirstLevel
<1>5. ASSUME ResyncStart \/ UNCHANGED vars
      PROVE  UNCHANGED estados
  BY <1>5 DEF ResyncStart, vars
<1>6. CASE Next
  BY <1>1, <1>2, <1>3, <1>4, <1>5, <1>6, UploadMove, DerivationMove, BuildMove, PurgeMove, ClearMove, RowMove
     DEF Next
<1> QED BY <1>1, <1>5, <1>6

----------------------------------------------------------------------------
(***************************************************************************)
(* The inductive invariant, one step at a time.                              *)
(***************************************************************************)

(* How a step changes a transaction: it is created, posted, deleted by the
   request, or, when the refresh ends or commits, settled. *)
LEMMA TerminarDoc ==
  ASSUME NEW d \in [Tx -> EstadosDoc], NEW bien \in BOOLEAN, Terminar(d, bien)
  PROVE  /\ req' = Libre
         /\ doc' \in [Tx -> EstadosDoc]
         /\ \A t \in Tx : (req.op = "reprocesar" /\ t \in req.docs) => doc'[t] \in {"pendiente", "contabilizado", "perdido"}
         /\ \A t \in Tx : (req.op = "reprocesar" /\ t \in req.docs /\ d[t] = "anulado") => doc'[t] # "perdido"
         /\ \A t \in Tx : (req.op = "reprocesar" /\ t \in req.docs /\ bien) => doc'[t] = "pendiente"
         /\ \A t \in Tx : ~(req.op = "reprocesar" /\ t \in req.docs) => doc'[t] = d[t]
BY DEF Terminar, EstadosDoc

LEMMA ComprometidoDoc ==
  ASSUME doc \in [Tx -> EstadosDoc]
  PROVE  /\ Comprometido \in [Tx -> EstadosDoc]
         /\ \A t \in Tx : Comprometido[t] = IF doc[t] = "anulado" THEN "borrado" ELSE doc[t]
BY DEF Comprometido, EstadosDoc

LEMMA BorrarDoc ==
  ASSUME Tipos, NEW S \in SUBSET Tx, NEW op \in Refrescos, Borrar(S, op)
  PROVE  /\ req = Libre /\ UNCHANGED <<via, estados>>
         /\ req' \in PeticionInicio /\ req'.op = op /\ req'.fase = "inicio" /\ req'.docs = S
         /\ doc' \in [Tx -> EstadosDoc]
         /\ \A t \in S : doc'[t] = IF op = "reprocesar" THEN "anulado" ELSE "borrado"
         /\ \A t \in Tx \ S : doc'[t] = doc[t]
         /\ pedidos' \in 0..MaxPedidos
<1>1. req' = [op |-> op, fase |-> "inicio", docs |-> S]
  BY DEF Borrar
<1>2. req' \in PeticionInicio /\ req'.op = op /\ req'.fase = "inicio" /\ req'.docs = S
  BY <1>1 DEF PeticionInicio
<1>3. pedidos' \in 0..MaxPedidos
  BY PedidosAssumption DEF Borrar, Tipos
<1>4. doc' = [t \in Tx |-> IF t \in S THEN IF op = "reprocesar" THEN "anulado" ELSE "borrado" ELSE doc[t]]
  BY DEF Borrar
<1>5. doc' \in [Tx -> EstadosDoc]
  BY <1>4 DEF Tipos, EstadosDoc
<1>6. req = Libre /\ UNCHANGED <<via, estados>>
  BY DEF Borrar
<1> QED BY <1>2, <1>3, <1>4, <1>5, <1>6

(* The transactions a request deletes are transactions of the company. *)
LEMMA BorrarCasos ==
  ASSUME NEW t \in Tx, NEW i
  PROVE  /\ DeleteTransaction(t) => Borrar({t}, "borrar")
         /\ ReprocessTransaction(t) => Borrar({t}, "reprocesar")
         /\ DeleteByIngest(i) =>
              Borrar({u \in Tx : Lote[u] = i /\ doc[u] \in {"pendiente", "contabilizado"}}, "borrar")
BY DEF DeleteTransaction, ReprocessTransaction, DeleteByIngest

LEMMA FilasTyped ==
  ASSUME Tipos, EstadosMove
  PROVE  estados' \subseteq PrimerNivel \cup Secundarios
BY DEF Tipos, EstadosMove, Nueva

(* What the refresh still has to rebuild are periods of stored statements. *)
LEMMA FechasTyped ==
  ASSUME Tipos, NEW r \in estados
  PROVE  FechasDe(r) \in Fechas
BY DEF Tipos, PrimerNivel, Secundarios, Fechas, FechasDe

LEMMA RefreshTypes ==
  ASSUME Tipos, ResyncPurge \/ ResyncStart \/ ResyncClear \/ ResyncRow
  PROVE  /\ req' \in Peticiones
         /\ doc' \in [Tx -> EstadosDoc]
         /\ UNCHANGED <<via, pedidos>>
<1>1. doc \in [Tx -> EstadosDoc] /\ Comprometido \in [Tx -> EstadosDoc]
  BY ComprometidoDoc DEF Tipos
<1>2. ASSUME NEW d \in [Tx -> EstadosDoc], NEW bien \in BOOLEAN, Terminar(d, bien)
      PROVE  req' \in Peticiones /\ doc' \in [Tx -> EstadosDoc]
  BY <1>2, TerminarDoc DEF Peticiones
<1>3. CASE ResyncPurge
  BY <1>1, <1>2, <1>3 DEF ResyncPurge
<1>4. CASE ResyncStart
  <2> DEFINE ps == {[ini |-> r.ini, fin |-> r.fin, frec |-> r.frec] :
                       r \in {s \in estados : s.modo = "derived_from_journal"}}
  <2>1. ps \subseteq Fechas
    BY FechasTyped DEF FechasDe
  <2>2. req \in PeticionInicio
    BY <1>4, PeticionDe DEF ResyncStart
  <2>3. \/ Terminar(doc, TRUE)
        \/ req' = [op |-> req.op, docs |-> req.docs, fase |-> "periodos", faltan |-> ps] /\ UNCHANGED doc
    BY <1>4 DEF ResyncStart
  <2> HIDE DEF ps
  <2>4. CASE req' = [op |-> req.op, docs |-> req.docs, fase |-> "periodos", faltan |-> ps] /\ UNCHANGED doc
    <3>1. req' \in PeticionPeriodos
      BY <2>1, <2>2, <2>4 DEF PeticionPeriodos, PeticionInicio
    <3> QED BY <3>1, <2>4, <1>1, <1>4 DEF Peticiones, ResyncStart
  <2> QED BY <1>1, <1>2, <1>4, <2>3, <2>4 DEF ResyncStart
<1>5. CASE ResyncClear
  <2>1. req \in PeticionPeriodos
    BY <1>5, PeticionDe DEF ResyncClear
  <2>2. PICK p \in req.faltan, secundarios \in BOOLEAN :
          \/ /\ doc' = Comprometido
             /\ req' = [op |-> req.op, docs |-> req.docs, fase |-> "filas", p |-> p, falta |-> Orden,
                        faltan |-> req.faltan \ {p}, secundarios |-> secundarios]
          \/ Terminar(doc, FALSE)
    BY <1>5 DEF ResyncClear
  <2>3. ASSUME req' = [op |-> req.op, docs |-> req.docs, fase |-> "filas", p |-> p, falta |-> Orden,
                       faltan |-> req.faltan \ {p}, secundarios |-> secundarios]
        PROVE  req' \in Peticiones
    <3>1. p \in Fechas /\ req.faltan \ {p} \subseteq Fechas /\ req.op \in Refrescos /\ req.docs \subseteq Tx
      BY <2>1 DEF PeticionPeriodos
    <3>2. req' \in PeticionFilas
      BY <2>3, <3>1, Clases DEF PeticionFilas
    <3> QED BY <3>2 DEF Peticiones
  <2> QED BY <1>1, <1>2, <1>5, <2>2, <2>3 DEF ResyncClear
<1>6. CASE ResyncRow
  <2>1. req \in PeticionFilas
    BY <1>6, PeticionDe DEF ResyncRow
  <2>2. CASE Len(req.falta) = 1 /\ req.faltan = {}
    BY <1>1, <1>2, <1>6, <2>2 DEF ResyncRow
  <2>3. CASE Len(req.falta) = 1 /\ req.faltan # {}
    <3>1. req' = [op |-> req.op, docs |-> req.docs, fase |-> "periodos", faltan |-> req.faltan] /\ UNCHANGED doc
      BY <1>6, <2>3 DEF ResyncRow
    <3>2. req' \in PeticionPeriodos
      BY <2>1, <3>1 DEF PeticionFilas, PeticionPeriodos
    <3> QED BY <1>1, <1>6, <3>1, <3>2 DEF Peticiones, ResyncRow
  <2>4. CASE Len(req.falta) # 1
    <3>1. req' = [req EXCEPT !.falta = Tail(@)] /\ UNCHANGED doc
      BY <1>6, <2>4 DEF ResyncRow
    <3>2. Tail(req.falta) \in Falta
      BY <2>1, <2>4, FaltaMenos DEF PeticionFilas
    <3>3. req' \in PeticionFilas
      BY <2>1, <3>1, <3>2 DEF PeticionFilas
    <3> QED BY <1>1, <1>6, <3>1, <3>3 DEF Peticiones, ResyncRow
  <2> QED BY <2>2, <2>3, <2>4
<1> QED BY <1>3, <1>4, <1>5, <1>6

LEMMA TiposStep ==
  ASSUME Tipos, [Next]_vars
  PROVE  Tipos'
<1>0. estados' \subseteq PrimerNivel \cup Secundarios
  BY StepMove, FilasTyped
<1>t. via \in {"A", "B"} /\ pedidos \in 0..MaxPedidos /\ doc \in [Tx -> EstadosDoc] /\ req \in Peticiones
  BY DEF Tipos
<1>1. ASSUME NEW t \in Tx, CreateTransaction(t) \/ Post(t) \/ ManualAjuste(t)
      PROVE  Tipos'
  <2>1. doc' \in [Tx -> EstadosDoc]
    BY <1>t, <1>1 DEF CreateTransaction, Post, ManualAjuste, EstadosDoc
  <2>2. UNCHANGED <<via, req, pedidos>>
    BY <1>1 DEF CreateTransaction, Post, ManualAjuste
  <2> QED BY <1>0, <1>t, <2>1, <2>2 DEF Tipos
<1>2. ASSUME NEW S \in SUBSET Tx, NEW op \in Refrescos, Borrar(S, op)
      PROVE  Tipos'
  <2>1. /\ UNCHANGED via /\ req' \in PeticionInicio /\ doc' \in [Tx -> EstadosDoc]
        /\ pedidos' \in 0..MaxPedidos
    BY <1>2, BorrarDoc
  <2> QED BY <1>0, <1>t, <2>1 DEF Tipos, Peticiones
<1>3. ASSUME NEW p \in Periodos, NEW tipo \in DerivationInputs, RunDerivation(p) \/ Upload(tipo, p)
      PROVE  Tipos'
  <2>1. UNCHANGED <<via, doc, req, pedidos>>
    BY <1>3 DEF RunDerivation, Upload
  <2> QED BY <1>0, <1>t, <2>1 DEF Tipos
<1>4. ASSUME NEW p \in Periodos, BuildFirstLevel(p)
      PROVE  Tipos'
  <2>1. req' \in PeticionConstruir
    BY <1>4, Clases DEF BuildFirstLevel, PeticionConstruir
  <2>2. pedidos' \in 0..MaxPedidos
    BY <1>t, <1>4, PedidosAssumption DEF BuildFirstLevel
  <2>3. UNCHANGED <<via, doc>>
    BY <1>4 DEF BuildFirstLevel
  <2> QED BY <1>0, <1>t, <2>1, <2>2, <2>3 DEF Tipos, Peticiones
<1>5. CASE BuildStep
  <2>1. req \in PeticionConstruir
    BY <1>5, PeticionDe DEF BuildStep
  <2>2. Len(req.falta) # 1 => [req EXCEPT !.falta = Tail(@)] \in PeticionConstruir
    BY <2>1, FaltaMenos DEF PeticionConstruir
  <2>3. req' \in Peticiones
    BY <1>5, <2>2 DEF BuildStep, Peticiones
  <2>4. UNCHANGED <<via, doc, pedidos>>
    BY <1>5 DEF BuildStep
  <2> QED BY <1>0, <1>t, <2>3, <2>4 DEF Tipos
<1>6. CASE ResyncPurge \/ ResyncStart \/ ResyncClear \/ ResyncRow
  <2>1. req' \in Peticiones /\ doc' \in [Tx -> EstadosDoc] /\ UNCHANGED <<via, pedidos>>
    BY <1>6, RefreshTypes
  <2> QED BY <1>0, <1>t, <2>1 DEF Tipos
<1>7. CASE UNCHANGED vars
  BY <1>7 DEF Tipos, vars
<1>8. ASSUME NEW t \in Tx, DeleteTransaction(t) \/ ReprocessTransaction(t)
      PROVE  Tipos'
  BY <1>2, <1>8, BorrarCasos DEF Refrescos
<1>9. ASSUME NEW i, DeleteByIngest(i)
      PROVE  Tipos'
  <2>1. Borrar({u \in Tx : Lote[u] = i /\ doc[u] \in {"pendiente", "contabilizado"}}, "borrar")
    BY <1>9 DEF DeleteByIngest
  <2> QED BY <2>1, <1>2 DEF Refrescos
<1>10. ASSUME NEW p \in Periodos,
              BuildFirstLevel(p) \/ RunDerivation(p) \/ \E tipo \in DerivationInputs : Upload(tipo, p)
       PROVE  Tipos'
  <2>1. "balance_general" \in DerivationInputs
    BY DEF DerivationInputs
  <2> QED BY <2>1, <1>3, <1>4, <1>10
<1>11. CASE Next
  BY <1>1, <1>5, <1>6, <1>8, <1>9, <1>10, <1>11 DEF Next
<1> QED BY <1>7, <1>11

(* The derived rows keep their sources: a set of rows is only deleted when no
   lineage references one of them. *)
LEMMA LineageStep ==
  ASSUME Tipos, LineageKept, [Next]_vars
  PROVE  LineageKept'
<1>1. CASE estados \subseteq estados' /\ \A r \in estados' \ estados : Nueva(r)
  <2>1. \A r \in PrimerNivel : Fuentes(r) = {}
    BY DEF PrimerNivel, Fuentes
  <2> QED BY <1>1, <2>1 DEF LineageKept, Nueva
<1>2. ASSUME NEW D \in SUBSET estados, Borrable(D), estados' = estados \ D
      PROVE  LineageKept'
  <2>1. ASSUME NEW r \in estados', r.modo = "derived"
        PROVE  Fuentes(r) \subseteq estados'
    BY <1>2, <2>1 DEF Borrable, LineageKept
  <2>2. ASSUME NEW r \in estados', r.modo # "derived"
        PROVE  Fuentes(r) = {}
    BY <2>2 DEF Fuentes
  <2> QED BY <2>1, <2>2 DEF LineageKept
<1> QED BY <1>1, <1>2, StepMove DEF EstadosMove

(* A derived row, once stored, is there for good. *)
LEMMA SecundariosQuedan ==
  ASSUME Tipos, [Next]_vars
  PROVE  \A r \in estados : r.modo = "derived" => r \in estados'
<1>1. ASSUME NEW D \in SUBSET estados, Borrable(D), estados' = estados \ D
      PROVE  \A r \in estados : r.modo = "derived" => r \in estados'
  BY <1>1 DEF Borrable
<1> QED BY <1>1, StepMove DEF EstadosMove

(* How a step of the refresh leaves the transactions: it ends the request, or
   goes on with it, having perhaps committed the deletion; it fails only when
   there are derived rows. *)
LEMMA RefreshDoc ==
  ASSUME ResyncPurge \/ ResyncStart \/ ResyncClear \/ ResyncRow
  PROVE  /\ Refrescando
         /\ \/ Terminar(doc, TRUE) \/ Terminar(Comprometido, TRUE)
            \/ Terminar(doc, FALSE) /\ UNCHANGED estados /\ ~SinSecundarios
            \/ req'.op = req.op /\ req'.docs = req.docs /\ doc' \in {doc, Comprometido}
<1>1. ASSUME NEW D \in SUBSET estados, ~Borrable(D)
      PROVE  ~SinSecundarios
  BY <1>1 DEF Borrable, SinSecundarios
<1>2. CASE ResyncPurge
  BY <1>1, <1>2 DEF ResyncPurge
<1>3. CASE ResyncStart
  <2>1. PICK ps : \/ Terminar(doc, TRUE)
                  \/ /\ req' = [op |-> req.op, docs |-> req.docs, fase |-> "periodos", faltan |-> ps]
                     /\ doc' = doc
    BY <1>3 DEF ResyncStart
  <2>2. Refrescando
    BY <1>3 DEF ResyncStart
  <2>3. CASE /\ req' = [op |-> req.op, docs |-> req.docs, fase |-> "periodos", faltan |-> ps]
             /\ doc' = doc
    <3>1. req'.op = req.op /\ req'.docs = req.docs
      BY <2>3
    <3> QED BY <2>2, <2>3, <3>1
  <2> QED BY <2>1, <2>2, <2>3
<1>4. CASE ResyncClear
  <2>1. PICK p \in req.faltan :
          LET D == {r \in estados : r.modo # "direct" /\ r.ini = p.ini /\ r.fin = p.fin}
          IN IF Borrable(D)
             THEN /\ doc' = Comprometido
                  /\ req' = [op |-> req.op, docs |-> req.docs, fase |-> "filas", p |-> p, falta |-> Orden,
                             faltan |-> req.faltan \ {p}, secundarios |-> \E r \in D : r.modo = "derived"]
             ELSE estados' = estados /\ Terminar(doc, FALSE)
    BY <1>4 DEF ResyncClear
  <2> DEFINE D == {r \in estados : r.modo # "direct" /\ r.ini = p.ini /\ r.fin = p.fin}
  <2>2. Refrescando /\ D \in SUBSET estados
    BY <1>4 DEF ResyncClear
  <2>3. CASE Borrable(D)
    <3>1. doc' = Comprometido /\ req'.op = req.op /\ req'.docs = req.docs
      BY <2>1, <2>3
    <3> QED BY <2>2, <3>1
  <2>4. CASE ~Borrable(D)
    <3>1. estados' = estados /\ Terminar(doc, FALSE)
      BY <2>1, <2>4
    <3>2. ~SinSecundarios
      BY <1>1, <2>2, <2>4
    <3> QED BY <2>2, <3>1, <3>2
  <2> QED BY <2>3, <2>4
<1>5. CASE ResyncRow
  <2>1. CASE Len(req.falta) = 1 /\ req.faltan = {}
    BY <1>5, <2>1 DEF ResyncRow
  <2>2. CASE Len(req.falta) = 1 /\ req.faltan # {}
    <3>1. /\ req' = [op |-> req.op, docs |-> req.docs, fase |-> "periodos", faltan |-> req.faltan]
          /\ doc' = doc
      BY <1>5, <2>2 DEF ResyncRow
    <3> QED BY <1>5, <3>1 DEF ResyncRow
  <2>3. CASE Len(req.falta) # 1
    <3>1. req' = [req EXCEPT !.falta = Tail(@)] /\ doc' = doc
      BY <1>5, <2>3 DEF ResyncRow
    <3>2. req'.op = req.op /\ req'.docs = req.docs
      BY <3>1
    <3> QED BY <1>5, <3>1, <3>2 DEF ResyncRow
  <2> QED BY <2>1, <2>2, <2>3
<1> QED BY <1>2, <1>3, <1>4, <1>5

(* The other steps: which of them touch the transactions, and how. *)
LEMMA OtherDoc ==
  ASSUME Tipos, [Next]_vars
  PROVE  \/ ResyncPurge \/ ResyncStart \/ ResyncClear \/ ResyncRow
         \/ \E S \in SUBSET Tx, op \in Refrescos : Borrar(S, op)
         \/ /\ req' = req \/ (~Refrescando /\ ~Refrescando')
            /\ \A t \in Tx : \/ doc'[t] = doc[t]
                             \/ doc[t] \in {"nuevo", "pendiente"} /\ doc'[t] \in {"pendiente", "contabilizado"}
<1>t. doc \in [Tx -> EstadosDoc]
  BY DEF Tipos
<1>1. ASSUME NEW t \in Tx, CreateTransaction(t) \/ Post(t) \/ ManualAjuste(t)
      PROVE  /\ req' = req
             /\ \A u \in Tx : \/ doc'[u] = doc[u]
                              \/ doc[u] \in {"nuevo", "pendiente"} /\ doc'[u] \in {"pendiente", "contabilizado"}
  BY <1>1, <1>t DEF CreateTransaction, Post, ManualAjuste
<1>2. ASSUME NEW t \in Tx, DeleteTransaction(t) \/ ReprocessTransaction(t)
      PROVE  \E S \in SUBSET Tx, op \in Refrescos : Borrar(S, op)
  BY <1>2, BorrarCasos DEF Refrescos
<1>3. ASSUME NEW i, DeleteByIngest(i)
      PROVE  \E S \in SUBSET Tx, op \in Refrescos : Borrar(S, op)
  BY <1>3 DEF DeleteByIngest, Refrescos
<1>4. ASSUME NEW p \in Periodos,
             BuildFirstLevel(p) \/ RunDerivation(p) \/ \E tipo \in DerivationInputs : Upload(tipo, p)
      PROVE  doc' = doc /\ (req' = req \/ (~Refrescando /\ ~Refrescando'))
  <2>1. CASE BuildFirstLevel(p)
    <3>1. req = Libre /\ req' = [op |-> "construir", p |-> p, falta |-> Orden] /\ doc' = doc
      BY <2>1 DEF BuildFirstLevel
    <3>2. req.op = "ninguna" /\ req'.op = "construir"
      BY <3>1 DEF Libre
    <3> QED BY <3>1, <3>2 DEF Refrescando
  <2>2. CASE RunDerivation(p)
    BY <2>2 DEF RunDerivation
  <2>3. ASSUME NEW tipo \in DerivationInputs, Upload(tipo, p)
        PROVE  doc' = doc /\ req' = req
    BY <2>3 DEF Upload
  <2> QED BY <1>4, <2>1, <2>2, <2>3
<1>5. CASE BuildStep
  <2>1. req \in PeticionConstruir /\ doc' = doc
    BY <1>5, PeticionDe DEF BuildStep
  <2>2. req.op = "construir" /\ [req EXCEPT !.falta = Tail(@)].op = "construir"
    BY <2>1 DEF PeticionConstruir
  <2>3. req'.op \in {"ninguna", "construir"}
    BY <1>5, <2>2 DEF BuildStep, Libre
  <2> QED BY <2>1, <2>2, <2>3 DEF Refrescando
<1>6. CASE UNCHANGED vars
  BY <1>6 DEF vars
<1>7. CASE Next
  BY <1>1, <1>2, <1>3, <1>4, <1>5, <1>7 DEF Next
<1> QED BY <1>6, <1>7

LEMMA AnuladosStep ==
  ASSUME Tipos, Anulados, [Next]_vars
  PROVE  Anulados'
<1>t. doc \in [Tx -> EstadosDoc] /\ Comprometido \in [Tx -> EstadosDoc]
  BY ComprometidoDoc DEF Tipos
<1>0. Libre.op = "ninguna"
  BY DEF Libre
<1>1. Refrescando => req.docs \subseteq Tx
  BY PeticionDe DEF PeticionInicio, PeticionPeriodos, PeticionFilas
<1>2. ASSUME NEW S \in SUBSET Tx, NEW op \in Refrescos, Borrar(S, op)
      PROVE  Anulados'
  <2>1. /\ req = Libre /\ req'.op = op /\ req'.docs = S
        /\ \A t \in S : doc'[t] = IF op = "reprocesar" THEN "anulado" ELSE "borrado"
        /\ \A t \in Tx \ S : doc'[t] = doc[t]
    BY <1>2, BorrarDoc
  <2> QED BY <1>0, <2>1 DEF Anulados
<1>3. ASSUME NEW d \in {doc, Comprometido}, NEW bien \in BOOLEAN, Terminar(d, bien), Refrescando
      PROVE  Anulados'
  <2>1. \A t \in Tx : d[t] = "anulado" => req.op = "reprocesar" /\ t \in req.docs
    BY <1>t, ComprometidoDoc DEF Anulados
  <2>2. /\ req' = Libre
        /\ \A t \in Tx : (req.op = "reprocesar" /\ t \in req.docs) => doc'[t] # "anulado"
        /\ \A t \in Tx : ~(req.op = "reprocesar" /\ t \in req.docs) => doc'[t] = d[t]
    BY <1>t, <1>3, TerminarDoc
  <2> QED BY <1>0, <2>1, <2>2 DEF Anulados, Refrescando
<1>4. ASSUME req'.op = req.op, req'.docs = req.docs, doc' \in {doc, Comprometido}, Refrescando
      PROVE  Anulados'
  <2>1. \A t \in Tx : doc'[t] = doc[t] \/ (doc[t] = "anulado" /\ doc'[t] = "borrado")
    BY <1>t, <1>4, ComprometidoDoc
  <2> QED BY <1>1, <1>4, <2>1 DEF Anulados, Refrescando
<1>5. CASE ResyncPurge \/ ResyncStart \/ ResyncClear \/ ResyncRow
  BY <1>3, <1>4, <1>5, RefreshDoc
<1>6. ASSUME req' = req \/ (~Refrescando /\ ~Refrescando'),
             \A t \in Tx : \/ doc'[t] = doc[t]
                           \/ doc[t] \in {"nuevo", "pendiente"} /\ doc'[t] \in {"pendiente", "contabilizado"}
      PROVE  Anulados'
  BY <1>1, <1>6 DEF Anulados, Refrescando
<1> QED BY <1>2, <1>5, <1>6, OtherDoc

(* A transaction is lost only by a refresh that fails. *)
LEMMA DocumentStep ==
  ASSUME Tipos, DocumentKept, [Next]_vars
  PROVE  DocumentKept'
<1>t. doc \in [Tx -> EstadosDoc] /\ Comprometido \in [Tx -> EstadosDoc]
  BY ComprometidoDoc DEF Tipos
<1>1. ~SinSecundarios => \E r \in estados' : r.modo = "derived"
  BY SecundariosQuedan DEF SinSecundarios
<1>2. ASSUME NEW t \in Tx, doc'[t] = "perdido", doc[t] # "perdido"
      PROVE  ~SinSecundarios
  <2>1. ASSUME NEW S \in SUBSET Tx, NEW op \in Refrescos, Borrar(S, op)
        PROVE  FALSE
    BY <1>2, <2>1, BorrarDoc
  <2>2. ASSUME NEW d \in {doc, Comprometido}, Terminar(d, TRUE)
        PROVE  FALSE
    <3>1. d[t] # "perdido" /\ d \in [Tx -> EstadosDoc]
      BY <1>t, <1>2, ComprometidoDoc
    <3> QED BY <1>2, <2>2, <3>1, TerminarDoc
  <2>3. ASSUME doc' \in {doc, Comprometido}
        PROVE  FALSE
    BY <1>t, <1>2, <2>3, ComprometidoDoc
  <2>4. CASE ResyncPurge \/ ResyncStart \/ ResyncClear \/ ResyncRow
    BY <2>2, <2>3, <2>4, RefreshDoc
  <2> QED BY <1>2, <2>1, <2>4, OtherDoc
<1>3. ASSUME NEW t \in Tx, doc'[t] = "perdido"
      PROVE  ~SinSecundarios
  BY <1>2, <1>3 DEF DocumentKept, SinSecundarios
<1> QED BY <1>1, <1>3 DEF DocumentKept

(* A step that deletes no posted transaction and leaves the refresh where it
   is: the new rows count what is posted. *)
LEMMA CoberturaEstable ==
  ASSUME Tipos, Cobertura, [Next]_vars,
         Contabilizados \subseteq Contabilizados',
         req' = req \/ (~Refrescando /\ ~Refrescando')
  PROVE  Cobertura'
<1> SUFFICES ASSUME SinSecundarios', NEW r \in estados', r.modo = "derived_from_journal"
             PROVE  Cubre(r)'
  BY DEF Cobertura
<1>1. SinSecundarios
  BY SecundariosQuedan DEF SinSecundarios
<1>2. r \in estados \/ Nueva(r)
  BY StepMove DEF EstadosMove
<1>3. CASE r \in estados
  BY <1>1, <1>3 DEF Cobertura, Cubre, PorRefrescar, Refrescando
<1>4. CASE Nueva(r)
  BY <1>4 DEF Nueva, Secundarios, Cubre
<1> QED BY <1>2, <1>3, <1>4

(* A deletion: all the rows counted posted transactions, and the refresh is
   about to rebuild every one. *)
LEMMA CoberturaBorrar ==
  ASSUME Tipos, Cobertura, NEW S \in SUBSET Tx, NEW op \in Refrescos, Borrar(S, op)
  PROVE  Cobertura'
<1>1. /\ req = Libre /\ UNCHANGED estados
      /\ req'.op = op /\ req'.fase = "inicio" /\ req'.docs = S
      /\ \A t \in Tx \ S : doc'[t] = doc[t]
  BY BorrarDoc
<1>2. ~Refrescando /\ Refrescando'
  BY <1>1 DEF Refrescando, Refrescos, Libre
<1>3. Contabilizados \subseteq Contabilizados' \cup S
  BY <1>1 DEF Contabilizados
<1> SUFFICES ASSUME SinSecundarios', NEW r \in estados', r.modo = "derived_from_journal"
             PROVE  Cubre(r)'
  BY DEF Cobertura
<1>4. r.de \subseteq Contabilizados
  BY <1>1, <1>2 DEF Cobertura, SinSecundarios, Cubre, PorRefrescar
<1> QED BY <1>1, <1>2, <1>3, <1>4 DEF Cubre, PorRefrescar

(* What is posted while a refresh goes on: nothing it is about. *)
LEMMA RefreshContabilizados ==
  ASSUME Tipos, Anulados, ResyncPurge \/ ResyncStart \/ ResyncClear \/ ResyncRow
  PROVE  Contabilizados \subseteq Contabilizados'
<1>t. doc \in [Tx -> EstadosDoc] /\ Comprometido \in [Tx -> EstadosDoc]
  BY ComprometidoDoc DEF Tipos
<1>1. Refrescando
  BY RefreshDoc
<1> SUFFICES ASSUME NEW t \in Tx, doc[t] = "contabilizado"
             PROVE  doc'[t] = "contabilizado"
  BY DEF Contabilizados
<1>2. t \notin req.docs
  BY <1>1 DEF Anulados
<1>3. Comprometido[t] = "contabilizado"
  BY <1>t, ComprometidoDoc
<1>4. ASSUME NEW d \in {doc, Comprometido}, NEW bien \in BOOLEAN, Terminar(d, bien)
      PROVE  doc'[t] = "contabilizado"
  <2>1. doc'[t] = d[t]
    BY <1>t, <1>2, <1>4, TerminarDoc
  <2> QED BY <1>3, <2>1
<1>5. ASSUME doc' \in {doc, Comprometido}
      PROVE  doc'[t] = "contabilizado"
  BY <1>3, <1>5
<1> QED BY <1>4, <1>5, RefreshDoc

(* The refresh: the rows of a period are deleted before the period is struck
   off the list, and rebuilt from what is posted. *)
LEMMA CoberturaRefresh ==
  ASSUME Tipos, Anulados, Cobertura, ResyncPurge \/ ResyncStart \/ ResyncClear \/ ResyncRow
  PROVE  Cobertura'
<1>0. Contabilizados \subseteq Contabilizados'
  BY RefreshContabilizados
<1>1. [Next]_vars
  BY DEF Next
<1> SUFFICES ASSUME SinSecundarios', NEW r \in estados', r.modo = "derived_from_journal"
             PROVE  Cubre(r)'
  BY DEF Cobertura
<1>2. SinSecundarios
  BY <1>1, SecundariosQuedan DEF SinSecundarios
<1>3. ASSUME r \notin estados
      PROVE  Cubre(r)'
  <2>1. Nueva(r)
    BY <1>1, <1>3, StepMove DEF EstadosMove
  <2>2. r.de = Contabilizados
    BY <2>1 DEF Nueva, Secundarios
  <2> QED BY <1>0, <2>2 DEF Cubre
<1>4. r \in estados => Cubre(r)
  BY <1>2 DEF Cobertura
<1>5. r.de \subseteq Contabilizados => Cubre(r)'
  BY <1>0 DEF Cubre
<1>6. ASSUME NEW D \in SUBSET estados, ~Borrable(D), UNCHANGED estados
      PROVE  FALSE
  BY <1>2, <1>6 DEF Borrable, SinSecundarios
<1>7. CASE ResyncPurge
  <2> DEFINE D == {s \in estados : s.modo \in {"derived_from_journal", "derived"}}
  <2>1. estados' = estados \ D
    BY <1>6, <1>7 DEF ResyncPurge
  <2> QED BY <1>3, <2>1
<1>8. CASE ResyncStart
  <2> DEFINE ps == {[ini |-> s.ini, fin |-> s.fin, frec |-> s.frec] :
                       s \in {u \in estados : u.modo = "derived_from_journal"}}
  <2>1. r \in estados /\ FechasDe(r) \in ps
    BY <1>8 DEF ResyncStart, FechasDe
  <2>2. req' = [op |-> req.op, docs |-> req.docs, fase |-> "periodos", faltan |-> ps]
    BY <1>8, <2>1 DEF ResyncStart
  <2> HIDE DEF ps
  <2>3. req'.op = req.op /\ req'.docs = req.docs /\ req'.faltan = ps
    BY <2>2
  <2>4. Refrescando /\ Refrescando'
    BY <1>8, <2>3 DEF ResyncStart, Refrescando
  <2>5. r.de \subseteq Contabilizados' \cup req'.docs
    BY <1>0, <1>4, <2>1, <2>3 DEF Cubre
  <2> QED BY <2>1, <2>3, <2>4, <2>5 DEF Cubre, PorRefrescar
<1>9. CASE ResyncClear
  <2>1. PICK p \in req.faltan :
          LET D == {s \in estados : s.modo # "direct" /\ s.ini = p.ini /\ s.fin = p.fin}
          IN IF Borrable(D)
             THEN /\ estados' = estados \ D
                  /\ req' = [op |-> req.op, docs |-> req.docs, fase |-> "filas", p |-> p, falta |-> Orden,
                             faltan |-> req.faltan \ {p}, secundarios |-> \E s \in D : s.modo = "derived"]
             ELSE estados' = estados
    BY <1>9 DEF ResyncClear
  <2> DEFINE D == {s \in estados : s.modo # "direct" /\ s.ini = p.ini /\ s.fin = p.fin}
  <2>2. Borrable(D)
    BY <1>6, <2>1
  <2>3. /\ estados' = estados \ D
        /\ req' = [op |-> req.op, docs |-> req.docs, fase |-> "filas", p |-> p, falta |-> Orden,
                   faltan |-> req.faltan \ {p}, secundarios |-> \E s \in D : s.modo = "derived"]
    BY <2>1, <2>2
  <2>4. req'.op = req.op /\ req'.docs = req.docs /\ req'.faltan = req.faltan \ {p}
    BY <2>3
  <2>5. r \in estados /\ r \notin D
    BY <2>3
  <2>6. FechasDe(r) # p
    BY <2>5 DEF FechasDe
  <2>7. Refrescando /\ Refrescando' /\ req.fase = "periodos"
    BY <1>9, <2>4 DEF ResyncClear, Refrescando
  <2> HIDE DEF D
  <2>8. CASE PorRefrescar(r) /\ r.de \subseteq Contabilizados \cup req.docs
    BY <1>0, <2>4, <2>6, <2>7, <2>8 DEF Cubre, PorRefrescar
  <2> QED BY <1>4, <1>5, <2>5, <2>8 DEF Cubre
<1>10. CASE ResyncRow
  <2>1. Refrescando /\ req.fase = "filas"
    BY <1>10 DEF ResyncRow
  <2>2. CASE Len(req.falta) = 1 /\ req.faltan = {}
    <3>1. ~PorRefrescar(r)
      BY <2>1, <2>2 DEF PorRefrescar
    <3> QED BY <1>3, <1>4, <1>5, <3>1 DEF Cubre
  <2>3. CASE ~(Len(req.falta) = 1 /\ req.faltan = {})
    <3>1. \/ req' = [op |-> req.op, docs |-> req.docs, fase |-> "periodos", faltan |-> req.faltan]
          \/ req' = [req EXCEPT !.falta = Tail(@)]
      BY <1>10, <2>3 DEF ResyncRow
    <3>2. req \in PeticionFilas
      BY <2>1, PeticionDe
    <3>3. req'.op = req.op /\ req'.docs = req.docs /\ req'.faltan = req.faltan
      BY <3>1, <3>2 DEF PeticionFilas
    <3>4. Refrescando'
      BY <2>1, <3>3 DEF Refrescando
    <3>5. CASE PorRefrescar(r) /\ r.de \subseteq Contabilizados \cup req.docs
      BY <1>0, <2>1, <3>3, <3>4, <3>5 DEF Cubre, PorRefrescar
    <3> QED BY <1>3, <1>4, <1>5, <3>5 DEF Cubre
  <2> QED BY <2>2, <2>3
<1> QED BY <1>7, <1>8, <1>9, <1>10

LEMMA CoberturaStep ==
  ASSUME Tipos, Anulados, Cobertura, [Next]_vars
  PROVE  Cobertura'
<1>1. ASSUME req' = req \/ (~Refrescando /\ ~Refrescando'),
             \A t \in Tx : \/ doc'[t] = doc[t]
                           \/ doc[t] \in {"nuevo", "pendiente"} /\ doc'[t] \in {"pendiente", "contabilizado"}
      PROVE  Cobertura'
  <2>1. Contabilizados \subseteq Contabilizados'
    BY <1>1 DEF Contabilizados
  <2> QED BY <1>1, <2>1, CoberturaEstable
<1> QED BY <1>1, CoberturaBorrar, CoberturaRefresh, OtherDoc

----------------------------------------------------------------------------
(***************************************************************************)
(* Theorems.                                                                 *)
(***************************************************************************)

LEMMA InitStatements == Init => StatementsInv
<1> SUFFICES ASSUME Init
             PROVE  StatementsInv
  OBVIOUS
<1>1. /\ via \in Vias /\ doc = [t \in Tx |-> "nuevo"]
      /\ estados = {} /\ req = Libre /\ pedidos = 0
  BY DEF Init
<1>2. Tipos
  <2>1. doc \in [Tx -> EstadosDoc]
    BY <1>1 DEF EstadosDoc
  <2> QED BY <1>1, <2>1, ViasAssumption, PedidosAssumption DEF Tipos, Peticiones
<1>3. Anulados
  BY <1>1 DEF Anulados, Refrescando, Libre
<1> QED BY <1>1, <1>2, <1>3 DEF StatementsInv, LineageKept, DocumentKept, Cobertura

LEMMA StatementsStep == StatementsInv /\ [Next]_vars => StatementsInv'
BY TiposStep, AnuladosStep, LineageStep, DocumentStep, CoberturaStep DEF StatementsInv

(* In every state the requests, transactions and rows are of the forms above,
   the lineage stands, and what a refresh has not rebuilt it still will. *)
THEOREM StatementsInvariant == Spec => []StatementsInv
BY InitStatements, StatementsStep, PTL DEF Spec

(* No deletion is left half committed once its request has ended. *)
THEOREM StatementsTypes == Spec => []StatementsTypeOK
<1>1. StatementsInv => StatementsTypeOK
  <2> SUFFICES ASSUME StatementsInv
               PROVE  StatementsTypeOK
    OBVIOUS
  <2>1. Tipos /\ Anulados
    BY DEF StatementsInv
  <2>2. \A r \in estados : r.tipo \in FirstLevel \cup DerivedTargets /\ r.modo \in Modos
    BY <2>1 DEF Tipos, PrimerNivel, Secundarios, Modos
  <2>3. req.op \in {"ninguna", "construir", "borrar", "reprocesar"}
    BY <2>1 DEF Tipos, Peticiones, PeticionConstruir, PeticionInicio, PeticionPeriodos, PeticionFilas,
                Refrescos, Libre
  <2>4. \A t \in Tx : doc[t] \in EstadosDoc
    BY <2>1 DEF Tipos
  <2>5. (\E t \in Tx : doc[t] = "anulado") => req.op = "reprocesar"
    BY <2>1 DEF Anulados
  <2>6. via \in {"A", "B"} /\ pedidos \in 0..MaxPedidos
    BY <2>1 DEF Tipos
  <2> QED BY <2>2, <2>3, <2>4, <2>5, <2>6 DEF StatementsTypeOK, EstadosDoc
<1> QED BY <1>1, StatementsInvariant, PTL

(* Every derived statement stands on rows that are still stored, whatever is
   deleted, refreshed and derived again. *)
THEOREM LineageStands == Spec => []LineageKept
<1>1. StatementsInv => LineageKept
  BY DEF StatementsInv
<1> QED BY <1>1, StatementsInvariant, PTL

(* A reprocessed transaction is lost between its deletion and its copy only
   when a derived statement makes the refresh fail. *)
THEOREM DocumentIsKept == Spec => []DocumentKept
<1>1. StatementsInv => DocumentKept
  BY DEF StatementsInv
<1> QED BY <1>1, StatementsInvariant, PTL

(* Between requests, without derived statements, no statement built from the
   journal counts a transaction that is not posted any more. *)
THEOREM StatementsFollowLedger == Spec => []StatementsCoverLedger
<1>1. StatementsInv => StatementsCoverLedger
  <2> SUFFICES ASSUME StatementsInv, req = Libre, \A r \in estados : r.modo # "derived",
                      NEW r \in estados, r.modo = "derived_from_journal"
               PROVE  r.de \subseteq Contabilizados
    BY DEF StatementsCoverLedger
  <2>1. Cubre(r)
    BY DEF StatementsInv, Cobertura, SinSecundarios
  <2>2. ~Refrescando
    BY DEF Refrescando, Libre
  <2> QED BY <2>1, <2>2 DEF Cubre, PorRefrescar
<1> QED BY <1>1, StatementsInvariant, PTL

(* An earlier balance gives the derivation an opening balance. *)
LEMMA HayPrevio ==
  ASSUME Tipos, NEW p \in Fechas, NEW r \in estados, r.tipo = "balance_general", r.fin < p.ini
  PROVE  load_prior(estados, "balance_general", p, TRUE) # {}
<1> DEFINE F == {s \in estados : /\ s.tipo = "balance_general" /\ s.fin < p.ini
                                 /\ s.modo \in {"direct", "derived_from_journal"}}
<1>1. \A s \in estados : s.tipo = "balance_general" => s \in PrimerNivel
  BY DEF Tipos, Secundarios, DerivedTargets
<1>2. p.ini \in Nat
  BY DEF Fechas
<1>3. r \in F
  BY <1>1 DEF PrimerNivel
<1>4. \A s \in F : s.fin \in Nat /\ s.fin <= p.ini
  BY <1>1, <1>2 DEF PrimerNivel
<1>5. load_prior(estados, "balance_general", p, TRUE) = {s \in F : \A u \in F : u.fin <= s.fin}
  BY DEF load_prior
<1> HIDE DEF F
<1>6. \E s \in F : \A u \in F : u.fin <= s.fin
  BY <1>2, <1>3, <1>4, Ultima
<1> QED BY <1>5, <1>6

(* Of the rows found in a period there is a first one. *)
LEMMA HayDelPeriodo ==
  ASSUME Tipos, NEW p \in Fechas, NEW tipo \in FirstLevel
  PROVE  Primera(get_financial_statements(estados, tipo, p, {"derived_from_journal"})) # {}
<1> DEFINE F == get_financial_statements(estados, tipo, p, {"derived_from_journal"})
<1>1. \A s \in F : s.fin \in Nat /\ s.fin <= p.fin
  BY DEF get_financial_statements, Tipos, PrimerNivel, Secundarios
<1>2. p.fin \in Nat
  BY DEF Fechas
<1> HIDE DEF F
<1> QED BY <1>1, <1>2, HayPrimera DEF F

(* What the status announces as ready, the derivation accepts: the rows it
   counts for the status are rows the derivation finds. *)
THEOREM ReadyIsAccepted == Spec => []ReadyCanBeDerived
<1>1. StatementsInv => ReadyCanBeDerived
  <2> SUFFICES ASSUME StatementsInv, NEW p \in Periodos, EligibleForSecondary(p)
               PROVE  Entradas(estados, p, {"derived_from_journal"}, TRUE) # {}
    BY DEF ReadyCanBeDerived
  <2> DEFINE bgs == get_financial_statements(estados, "balance_general", p, {"derived_from_journal"})
             ers == get_financial_statements(estados, "estado_resultados", p, {"derived_from_journal"})
             las == get_financial_statements(estados, "libro_auxiliar", p, {"derived_from_journal"})
             balances == load_prior(estados, "balance_general", p, TRUE)
  <2>1. Tipos /\ p \in Fechas /\ p.ini \in Nat /\ p.fin \in Nat
    BY Clases DEF StatementsInv, Fechas
  <2>2. PICK b \in DelDiario(p) : b.tipo = "balance_general"
    BY DEF EligibleForSecondary, TiposDe
  <2>3. PICK e \in DelDiario(p) : e.tipo = "estado_resultados"
    BY DEF EligibleForSecondary, TiposDe
  <2>4. b \in bgs /\ e \in ers
    BY <2>1, <2>2, <2>3 DEF DelDiario, get_financial_statements
  <2>5. Anual(b)
    BY <2>2 DEF EligibleForSecondary, PeriodoAnual
  <2>6. balances # {}
    BY <2>1, HayPrevio DEF EligibleForSecondary
  <2>7. Primera(bgs) # {} /\ Primera(ers) # {} /\ Primera(las) # {}
    BY <2>1, HayDelPeriodo DEF FirstLevel
  <2>8. Entradas(estados, p, {"derived_from_journal"}, TRUE) =
          [bg : Primera(bgs), er : Primera(ers), la : Primera(las), prior : balances]
    <3> HIDE DEF bgs, ers, las, balances
    <3>1. bgs # {} /\ ers # {} /\ \E r \in bgs \cup ers \cup las : Anual(r)
      BY <2>4, <2>5
    <3> QED BY <2>6, <3>1 DEF Entradas, bgs, ers, las, balances
  <2>9. PICK x \in Primera(bgs), y \in Primera(ers), z \in Primera(las), w \in balances : TRUE
    BY <2>6, <2>7
  <2> HIDE DEF bgs, ers, las, balances
  <2>10. [bg |-> x, er |-> y, la |-> z, prior |-> w] \in
           [bg : Primera(bgs), er : Primera(ers), la : Primera(las), prior : balances]
    BY <2>9
  <2> QED BY <2>8, <2>10
<1> QED BY <1>1, StatementsInvariant, PTL
----------------------------------------------------------------------------
(* The reports, the queries and the subsidiary ledgers of the posted lines
   agree whatever was posted: nothing but the type of an entry is needed, and
   that there are finitely many transactions. *)
THEOREM ReportsAlwaysAgree == Spec => []ReportsAgree
<1>1. ReportsAgree
  <2> DEFINE L == Lineas(Contabilizados)
  <2>1. EsLineas(L)
    <3>1. Contabilizados \subseteq Tx
      BY DEF Contabilizados
    <3>2. IsFiniteSet(Contabilizados) /\ \A t \in Contabilizados : EsLineas(Asiento[t])
      BY <3>1, AsientoAssumption, FS_Subset
    <3>3. EsLineas(UNION {Asiento[t] : t \in Contabilizados})
      <4> HIDE DEF Contabilizados
      <4> QED BY <3>2, UnionDeLineas
    <3> QED BY <3>3 DEF Lineas
  <2>2. \A l \in L : l.fecha \in Nat
    BY <2>1 DEF EsLineas
  <2>3. \A p \in Periodos : p.ini \in Nat /\ p.fin \in Nat
    BY PeriodosAssumption
  <2> HIDE DEF L
  <2>4. ASSUME NEW fin \in {l.fecha : l \in L}
        PROVE  BalanceAgrees(L, fin) /\ \A ini \in {l.fecha : l \in L} : PeriodAgrees(L, ini, fin)
    <3>1. fin \in Nat
      BY <2>2
    <3> QED BY <2>1, <3>1, ElBalanceCuadra, ElPeriodoCuadra
  <2>5. \A p \in Periodos, q \in Periodos : SubledgersChain(L, p, q)
    BY <2>1, <2>3, LosAuxiliaresEncadenan
  <2> QED BY <2>4, <2>5 DEF ReportsAgree, L
<1> QED BY <1>1, PTL
----------------------------------------------------------------------------
(***************************************************************************)
(* What a derived statement says.                                            *)
(***************************************************************************)

LEMMA LineasSon == \A S \in SUBSET Tx : EsLineas(Lineas(S))
<1> TAKE S \in SUBSET Tx
<1>1. IsFiniteSet(S) /\ \A t \in S : EsLineas(Asiento[t])
  BY AsientoAssumption, FS_Subset
<1> QED BY <1>1, UnionDeLineas DEF Lineas

(* The subtotals an uploaded balance lists are not leaves: its leaves are those
   of the balance of the same books. *)
LEMMA HojasDeFila ==
  ASSUME NEW r, EsLineas(Hasta(Lineas(r.de), r.fin)),
         \A c \in Cuentas(Hasta(Lineas(r.de), r.fin)) : Subcuenta(c)
  PROVE  LET b == build_bg_data_from_journal(Lineas(r.de), r.fin)
         IN /\ leaf_accounts(Bg(r).cuentas) = leaf_accounts(b.cuentas)
            /\ Bg(r).total_patrimonio = b.total_patrimonio
            /\ SonHojasDe(leaf_accounts(Bg(r).cuentas), Hasta(Lineas(r.de), r.fin))
<1> DEFINE b == build_bg_data_from_journal(Lineas(r.de), r.fin)
           F == b.cuentas
           grupo(g) == SumFunctionOnSet(F, {c \in DOMAIN F : Starts(c, g)})
           G == {Grupo(c) : c \in DOMAIN F}
           X == [g \in G |-> grupo(g)]
           M == Hasta(Lineas(r.de), r.fin)
<1>1. SonHojasDe(leaf_accounts(F), M) /\ leaf_accounts(F) = [c \in DOMAIN F |-> F[c]]
  BY HojasDelDiario
<1>2. \E t, f : b = [total_patrimonio |-> t, cuentas |-> f]
  BY DEF build_bg_data_from_journal
<1>3. Bg(r) = IF r.modo = "direct" THEN [b EXCEPT !.cuentas = Merge(F, X)] ELSE b
  BY DEF Bg
<1>4. DOMAIN X = G
  OBVIOUS
<1> HIDE DEF b, X
<1>5. CASE r.modo = "direct"
  <2> DEFINE D == Merge(F, X)
             A == DOMAIN F
  <2>1. Bg(r).cuentas = D /\ Bg(r).total_patrimonio = b.total_patrimonio
    <3> HIDE DEF D
    <3>1. Bg(r) = [b EXCEPT !.cuentas = D]
      BY <1>3, <1>5 DEF D
    <3> QED BY <1>2, <3>1
  <2>2. DOMAIN D = A \cup G /\ \A c \in A : D[c] = F[c]
    BY <1>4 DEF Merge
  <2>3. A \subseteq Codigos /\ \A c \in A : Subcuenta(c)
    <3>1. DOMAIN leaf_accounts(F) = A
      <4> DEFINE h == leaf_accounts(F)
      <4>1. h = [c \in A |-> F[c]]
        BY <1>1
      <4> HIDE DEF h, A
      <4> QED BY <4>1 DEF h
    <3> HIDE DEF A
    <3> QED BY <1>1, <3>1 DEF SonHojasDe
  <2>4. \A g \in G : \E c \in A : g = Grupo(c)
    OBVIOUS
  <2> HIDE DEF D, A, G
  <2>5. leaf_accounts(D) = [c \in A |-> D[c]]
    BY <2>2, <2>3, <2>4, SonHojas
  <2>6. leaf_accounts(D) = leaf_accounts(F)
    BY <1>1, <2>2, <2>5 DEF A
  <2> QED BY <1>1, <2>1, <2>6 DEF b
<1>6. CASE r.modo # "direct"
  <2>1. Bg(r) = b
    BY <1>3, <1>6
  <2> QED BY <1>1, <2>1 DEF b
<1> QED BY <1>5, <1>6

(* The sources of a coherent row are the same books. *)
LEMMA FuentesCoherentes ==
  ASSUME NEW r \in Secundarios, Coherente(r)
  PROVE  LET L == Lineas(r.de.bg.de)
             previas == Lineas(r.de.prior.de)
         IN /\ EsLineas(L) /\ r.ini \in Nat /\ r.fin \in Nat
            /\ r.de.bg.fin = r.fin
            /\ BgDe(r.de) = Bg(r.de.bg) /\ PriorDe(r.de) = Bg(r.de.prior)
            /\ ErDe(r.de) = get_pnl(L, r.ini, r.fin)
            /\ LaDe(r.de) = get_daily_journal(L, r.ini, r.fin)
            /\ Hasta(previas, r.de.prior.fin) = Antes(L, r.ini)
<1> DEFINE d == r.de
           L == Lineas(d.bg.de)
           previas == Lineas(d.prior.de)
<1>1. r.ini \in Nat /\ r.fin \in Nat /\ d \in Origenes
  BY DEF Secundarios
<1>2. d.bg \in Fuente /\ d.prior \in PrimerNivel
  BY <1>1 DEF Origenes
<1>3. /\ d.bg # Ninguna /\ d.er # Ninguna /\ d.la # Ninguna /\ d.prior.tipo = "balance_general"
      /\ d.bg.fin = r.fin /\ d.er.ini = r.ini /\ d.er.fin = r.fin /\ d.er.de = d.bg.de
      /\ d.la.ini = r.ini /\ d.la.fin = r.fin /\ d.la.de = d.bg.de
      /\ d.prior.fin + 1 = r.ini
      /\ {l \in previas : l.fecha < r.ini} = {l \in L : l.fecha < r.ini}
  BY DEF Coherente
<1>4. d.bg.de \subseteq Tx /\ d.prior.de \subseteq Tx /\ d.prior.fin \in Nat
  <2>1. d.bg \in PrimerNivel
    BY <1>2, <1>3 DEF Fuente
  <2> QED BY <1>2, <2>1 DEF PrimerNivel
<1>5. EsLineas(L) /\ EsLineas(previas)
  BY <1>4, LineasSon
<1>6. Hasta(previas, d.prior.fin) = Antes(L, r.ini)
  <2> DEFINE n == d.prior.fin
  <2>1. n \in Nat /\ n + 1 = r.ini
    BY <1>3, <1>4
  <2> HIDE DEF L, previas, n
  <2>2. \A l \in previas : l.fecha \in Nat
    BY <1>5 DEF EsLineas
  <2>3. {l \in previas : l.fecha <= n} = {l \in previas : l.fecha < r.ini}
    BY <2>1, <2>2
  <2> QED BY <1>3, <2>3 DEF Hasta, Antes, n
<1>7. BgDe(d) = Bg(d.bg) /\ PriorDe(d) = Bg(d.prior)
  BY <1>3 DEF BgDe, PriorDe
<1>8. ErDe(d) = get_pnl(L, r.ini, r.fin)
  BY <1>3 DEF ErDe, Er
<1>9. LaDe(d) = get_daily_journal(L, r.ini, r.fin)
  BY <1>3 DEF LaDe, La
<1> QED BY <1>1, <1>3, <1>5, <1>6, <1>7, <1>8, <1>9

(* What holds of the accounts up to the end of a period holds of those before it. *)
LEMMA SubcuentasDe ==
  ASSUME NEW L, EsLineas(L), NEW ini \in Nat, NEW fin \in Nat, ini <= fin,
         \A c \in Cuentas(Hasta(L, fin)) : Subcuenta(c)
  PROVE  EsLineas(Hasta(L, fin)) /\ EsLineas(Antes(L, ini)) /\ \A c \in Cuentas(Antes(L, ini)) : Subcuenta(c)
<1> DEFINE M == Hasta(L, fin)
           N == Antes(L, ini)
<1>1. M \subseteq L /\ N \subseteq M
  BY DEF Hasta, Antes, EsLineas
<1> HIDE DEF M, N
<1>2. EsLineas(M) /\ EsLineas(N)
  BY <1>1, Parte
<1>3. \A c \in Cuentas(N) : c \in Cuentas(M)
  BY <1>1 DEF Cuentas
<1> QED BY <1>2, <1>3 DEF M, N

(* The derived rows a step adds are derived rows. *)
LEMMA NuevasSon ==
  ASSUME StatementsInv', NEW tipo \in DerivedTargets
  PROVE  Nuevas(tipo) \subseteq Secundarios
<1>1. estados' \subseteq PrimerNivel \cup Secundarios
  BY DEF StatementsInv, Tipos
<1>2. \A r \in PrimerNivel : r.tipo # tipo
  BY Clases DEF PrimerNivel
<1> QED BY <1>1, <1>2 DEF Nuevas

(* Whatever the books, the periods and the balances on file, a cash flow
   statement closes when its sources are coherent and its period is one the
   method can explain: NuevasSon and FuentesCoherentes bring it to
   ElFlujoCierra. *)
THEOREM CashFlowsClose == Spec => CashFlowCloses
<1>1. ASSUME StatementsInv', NEW r \in Nuevas("flujo_de_caja"), Coherente(r),
             MetodoExplica(Lineas(r.de.bg.de), r.ini, r.fin)
      PROVE  LET flujo == Flujo(r)
                 notas == Notas(r)
             IN /\ flujo.verificacion
                /\ 4 \in DOMAIN notas => SumFunction(notas[4]) = flujo.fin
                /\ flujo.fin = build_cashflow(Lineas(r.de.bg.de), 0, r.fin)
  <2> DEFINE L == Lineas(r.de.bg.de)
             ini == r.ini
             fin == r.fin
             bg == Bg(r.de.bg)
             prior == Bg(r.de.prior)
             er == get_pnl(L, ini, fin)
             en == get_daily_journal(L, ini, fin)
  <2>1. r \in Secundarios
    BY <1>1, NuevasSon DEF DerivedTargets
  <2>2. /\ EsLineas(L) /\ ini \in Nat /\ fin \in Nat /\ r.de.bg.fin = fin
        /\ BgDe(r.de) = bg /\ PriorDe(r.de) = prior /\ ErDe(r.de) = er /\ LaDe(r.de) = en
        /\ Hasta(Lineas(r.de.prior.de), r.de.prior.fin) = Antes(L, ini)
    BY <1>1, <2>1, FuentesCoherentes
  <2>3. MetodoExplica(L, ini, fin) /\ ini <= fin /\ \A c \in Cuentas(Hasta(L, fin)) : Subcuenta(c)
    BY <1>1 DEF MetodoExplica
  <2>4. EsLineas(Hasta(L, fin)) /\ EsLineas(Antes(L, ini)) /\ \A c \in Cuentas(Antes(L, ini)) : Subcuenta(c)
    BY <2>2, <2>3, SubcuentasDe
  <2>5. SonHojasDe(leaf_accounts(bg.cuentas), Hasta(L, fin))
    <3>1. L = Lineas(r.de.bg.de) /\ r.de.bg.fin = fin
      BY <2>2
    <3> QED BY <2>3, <2>4, <3>1, HojasDeFila
  <2>6. SonHojasDe(leaf_accounts(prior.cuentas), Antes(L, ini))
    BY <2>2, <2>4, HojasDeFila
  <2> HIDE DEF L, ini, fin, bg, prior
  <2>7. LET flujo == compute_cash_flow_indirect(bg, prior, er, en)
            notas == compute_notes(bg, er)
        IN /\ flujo.verificacion
           /\ 4 \in DOMAIN notas => SumFunction(notas[4]) = flujo.fin
           /\ flujo.fin = build_cashflow(L, 0, fin)
    BY <2>2, <2>3, <2>5, <2>6, ElFlujoCierra
  <2>8. Flujo(r) = compute_cash_flow_indirect(bg, prior, er, en) /\ Notas(r) = compute_notes(bg, er)
    BY <2>2 DEF Flujo, Notas
  <2> HIDE DEF er, en
  <2> QED BY <2>7, <2>8 DEF L, fin
<1>2. StatementsInv' =>
        [\A r \in Nuevas("flujo_de_caja") :
           (Coherente(r) /\ MetodoExplica(Lineas(r.de.bg.de), r.ini, r.fin)) =>
             LET flujo == Flujo(r)
                 notas == Notas(r)
             IN /\ flujo.verificacion
                /\ 4 \in DOMAIN notas => SumFunction(notas[4]) = flujo.fin
                /\ flujo.fin = build_cashflow(Lineas(r.de.bg.de), 0, r.fin)]_vars
  BY <1>1
<1> QED BY <1>2, StatementsInvariant, PTL DEF CashFlowCloses

(* Likewise the changes in equity roll forward, in either pathway. *)
THEOREM EquityRolls == Spec => EquityRollsForward
<1>1. ASSUME StatementsInv', NEW r \in Nuevas("cambios_patrimonio"), Coherente(r),
             PatrimonioEnComponentes(Lineas(r.de.bg.de), r.ini, r.fin)
      PROVE  LET cambios == Cambios(r)
                 notas == Notas(r)
             IN /\ cambios.cuadre_patrimonio
                /\ 10 \in DOMAIN notas => SumFunction(notas[10]) = Bg(r.de.bg).total_patrimonio
                /\ \A k \in EquityComponents :
                     LET c == cambios.componentes[k] IN c.final = c.inicial + c.movimiento
  <2> DEFINE L == Lineas(r.de.bg.de)
             previas == Lineas(r.de.prior.de)
             corte == r.de.prior.fin
             ini == r.ini
             fin == r.fin
             bg == Bg(r.de.bg)
             prior == Bg(r.de.prior)
             er == get_pnl(L, ini, fin)
             en == get_daily_journal(L, ini, fin)
  <2>1. r \in Secundarios
    BY <1>1, NuevasSon DEF DerivedTargets
  <2>2. /\ EsLineas(L) /\ ini \in Nat /\ fin \in Nat /\ r.de.bg.fin = fin
        /\ BgDe(r.de) = bg /\ PriorDe(r.de) = prior /\ ErDe(r.de) = er /\ LaDe(r.de) = en
        /\ Hasta(previas, corte) = Antes(L, ini)
    BY <1>1, <2>1, FuentesCoherentes
  <2>3. PatrimonioEnComponentes(L, ini, fin) /\ ini <= fin /\ \A c \in Cuentas(Hasta(L, fin)) : Subcuenta(c)
    BY <1>1 DEF PatrimonioEnComponentes
  <2>4. EsLineas(Hasta(L, fin)) /\ EsLineas(Antes(L, ini)) /\ \A c \in Cuentas(Antes(L, ini)) : Subcuenta(c)
    BY <2>2, <2>3, SubcuentasDe
  <2>5. /\ leaf_accounts(bg.cuentas) = leaf_accounts(build_bg_data_from_journal(L, fin).cuentas)
        /\ bg.total_patrimonio = build_bg_data_from_journal(L, fin).total_patrimonio
    BY <2>2, <2>3, <2>4, HojasDeFila
  <2>6. leaf_accounts(prior.cuentas) = leaf_accounts(build_bg_data_from_journal(previas, corte).cuentas)
    BY <2>2, <2>4, HojasDeFila
  <2> HIDE DEF L, previas, corte, ini, fin, bg, prior
  <2>7. LET cambios == compute_equity_changes(bg, prior, er, en)
            notas == compute_notes(bg, er)
        IN /\ cambios.cuadre_patrimonio
           /\ 10 \in DOMAIN notas => SumFunction(notas[10]) = bg.total_patrimonio
           /\ \A k \in EquityComponents :
                LET c == cambios.componentes[k] IN c.final = c.inicial + c.movimiento
    BY <2>2, <2>3, <2>5, <2>6, ElPatrimonioRueda
  <2>8. Cambios(r) = compute_equity_changes(bg, prior, er, en) /\ Notas(r) = compute_notes(bg, er)
    BY <2>2 DEF Cambios, Notas
  <2> HIDE DEF er, en
  <2> QED BY <2>7, <2>8 DEF bg
<1>2. StatementsInv' =>
        [\A r \in Nuevas("cambios_patrimonio") :
           (Coherente(r) /\ PatrimonioEnComponentes(Lineas(r.de.bg.de), r.ini, r.fin)) =>
             LET cambios == Cambios(r)
                 notas == Notas(r)
             IN /\ cambios.cuadre_patrimonio
                /\ 10 \in DOMAIN notas => SumFunction(notas[10]) = Bg(r.de.bg).total_patrimonio
                /\ \A k \in EquityComponents :
                     LET c == cambios.componentes[k] IN c.final = c.inicial + c.movimiento]_vars
  BY <1>1
<1> QED BY <1>2, StatementsInvariant, PTL DEF EquityRollsForward
=============================================================================
