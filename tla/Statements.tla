----------------------------- MODULE Statements -----------------------------
(***************************************************************************)
(* The financial statements of one company: how they are built from the    *)
(* books (Via A) or uploaded (Via B), how the NIC 7 statements are derived  *)
(* from them, and what deleting or reprocessing a transaction does to them. *)
(*                                                                         *)
(* A handler runs to its end before the next one starts (async handlers     *)
(* whose body never awaits), but it commits on the way and the pipeline      *)
(* posts from another thread: each commit is a step of its own.  A stored    *)
(* statement remembers the transactions that were posted when it was built   *)
(* (de), from which Ledger computes its figures; a derived one remembers the *)
(* rows it was derived from, which are also the rows its lineage references. *)
(***************************************************************************)
EXTENDS Ledger, Sequences

CONSTANTS Tx,         \* transactions of the company
          Ajustes,    \* those entered as a nota de ajuste
          Asiento,    \* Tx -> the lines its posting writes
          Lote,       \* Tx -> the ingest it came with
          Periodos,   \* periods [ini, fin, frec] a user asks statements for
          Vias,       \* pathways the company may be locked to
          MaxPedidos   \* bound on the requests that build statements or delete transactions

Frecuencias == {"annual", "quarterly", "monthly", "custom"}

ASSUME AjustesAssumption == Ajustes \subseteq Tx
ASSUME AsientoAssumption ==
  /\ IsFiniteSet(Tx)
  /\ \A t \in Tx : EsLineas(Asiento[t])
ASSUME PeriodosAssumption == Periodos \subseteq [ini : Nat, fin : Nat, frec : Frecuencias]
ASSUME ViasAssumption == Vias \subseteq {"A", "B"}
ASSUME PedidosAssumption == MaxPedidos \in Nat

VARIABLES via,      \* pathway of the company: "A" build_from_scratch, "B" work_with_existing
          doc,      \* state of each transaction
          estados,  \* rows of financial_statements
          req,      \* the handler under way
          pedidos   \* requests that built statements or deleted transactions so far
vars == <<via, doc, estados, req, pedidos>>

FirstLevel == {"balance_general", "estado_resultados", "libro_auxiliar", "libro_diario"}
DerivedTargets == {"flujo_de_caja", "cambios_patrimonio", "notas_estados_financieros"}
DerivationInputs == {"balance_general", "estado_resultados", "libro_auxiliar"}
Orden == <<"balance_general", "estado_resultados", "libro_auxiliar", "libro_diario">>
Libre == [op |-> "ninguna"]
Ninguna == [tipo |-> "ninguna"]

Contabilizados == {t \in Tx : doc[t] = "contabilizado"}
Lineas(S) == UNION {Asiento[t] : t \in S}
Anual(p) == p.frec = "annual"

----------------------------------------------------------------------------
(* Repository of statements *)

Fila(tipo, p, modo, de) == [tipo |-> tipo, ini |-> p.ini, fin |-> p.fin, frec |-> p.frec,
                            modo |-> modo, de |-> de]
get_financial_statements(E, tipo, p, modos) ==
  {r \in E : r.tipo = tipo /\ r.ini >= p.ini /\ r.fin <= p.fin /\ r.modo \in modos}
Modos == {"direct", "derived_from_journal", "derived"}
first_level_type_exists(E, tipo, p) == get_financial_statements(E, tipo, p, Modos) # {}

(* The first row of a lookup: annual ones first, then the latest. *)
Primera(F) ==
  IF F = {} THEN {Ninguna}
  ELSE LET A == {r \in F : Anual(r)}
           G == IF A # {} THEN A ELSE F
       IN {r \in G : \A s \in G : s.fin <= r.fin}

(* Mutant: the references go with the rows. *)
Borrable_Cascade(D) == TRUE

(* Sources of a derived row; its lineage references them and itself. *)
Fuentes(r) == IF r.modo = "derived" THEN {r.de.bg, r.de.er, r.de.la, r.de.prior} \ {Ninguna} ELSE {}
(* The foreign keys of financial_statement_lineage have no ON DELETE rule and
   nothing deletes lineage: a referenced row cannot be deleted. *)
Borrable(D) == \A r \in estados : r.modo = "derived" => r \notin D /\ Fuentes(r) \cap D = {}

----------------------------------------------------------------------------
(* What the stored rows say *)

Bg(r) == LET b == build_bg_data_from_journal(Lineas(r.de), r.fin)
             grupo(g) == SumFunctionOnSet(b.cuentas, {c \in DOMAIN b.cuentas : Starts(c, g)})
         IN IF r.modo = "direct"  \* an uploaded balance also lists its subtotals
            THEN [b EXCEPT !.cuentas = Merge(@, [g \in {Grupo(c) : c \in DOMAIN b.cuentas} |-> grupo(g)])]
            ELSE b
Er(r) == get_pnl(Lineas(r.de), r.ini, r.fin)
La(r) == get_daily_journal(Lineas(r.de), r.ini, r.fin)

BgDe(d) == IF d.bg # Ninguna THEN Bg(d.bg) ELSE synthesize_balance_from_libro_auxiliar(La(d.la))
ErDe(d) == IF d.er # Ninguna THEN Er(d.er) ELSE synthesize_income_statement_from_libro_auxiliar(La(d.la))
LaDe(d) == IF d.la # Ninguna THEN La(d.la) ELSE {}
PriorDe(d) == IF d.prior.tipo = "balance_general" THEN Bg(d.prior)
              ELSE synthesize_balance_from_libro_auxiliar(La(d.prior))
Flujo(r) == compute_cash_flow_indirect(BgDe(r.de), PriorDe(r.de), ErDe(r.de), LaDe(r.de))
Notas(r) == compute_notes(BgDe(r.de), ErDe(r.de))
Cambios(r) == compute_equity_changes(BgDe(r.de), PriorDe(r.de), ErDe(r.de), LaDe(r.de))

----------------------------------------------------------------------------
(* Derivation *)

load_prior(E, tipo, p, viaA) ==
  LET F == {r \in E : /\ r.tipo = tipo /\ r.fin < p.ini
                            /\ r.modo \in (IF viaA THEN {"direct", "derived_from_journal"} ELSE {"direct"})}
  IN {r \in F : \A s \in F : s.fin <= r.fin}

(* The inputs a derivation of p may use; none when a rule of it is not met. *)
Entradas(E, p, modos, viaA) ==
  LET de(tipo) == get_financial_statements(E, tipo, p, modos)
      bgs == de("balance_general")
      ers == de("estado_resultados")
      las == de("libro_auxiliar")
      completo == \E r \in Primera(las) : r # Ninguna /\ libro_auxiliar_is_comprehensive(La(r))
      balances == load_prior(E, "balance_general", p, viaA)
      previos == IF balances # {} THEN balances ELSE load_prior(E, "libro_auxiliar", p, viaA)
  IN IF /\ (bgs # {} /\ ers # {}) \/ completo
        /\ \E r \in bgs \cup ers \cup las : Anual(r)
     THEN [bg : Primera(bgs), er : Primera(ers), la : Primera(las), prior : previos]
     ELSE {}

derive_financial_statements(E, p, d) ==
  E \cup {Fila(t, p, "derived", d) : t \in {u \in DerivedTargets : ~first_level_type_exists(E, u, p)}}

----------------------------------------------------------------------------
(* Requests *)

Init ==
  /\ via \in Vias
  /\ doc = [t \in Tx |-> "nuevo"]
  /\ estados = {} /\ req = Libre /\ pedidos = 0

(* A transaction entered by hand or staged by an ingest. *)
CreateTransaction(t) ==
  /\ via = "A" /\ req = Libre /\ t \notin Ajustes /\ doc[t] = "nuevo"
  /\ doc' = [doc EXCEPT ![t] = "pendiente"]
  /\ UNCHANGED <<via, estados, req, pedidos>>

(* The pipeline posts from its own thread, whatever handler is under way. *)
Post(t) ==
  /\ doc[t] = "pendiente"
  /\ doc' = [doc EXCEPT ![t] = "contabilizado"]
  /\ UNCHANGED <<via, estados, req, pedidos>>

(* A nota de ajuste must balance and is posted at once; statements stay. *)
ManualAjuste(t) ==
  /\ via = "A" /\ req = Libre /\ t \in Ajustes /\ doc[t] = "nuevo"
  /\ Cardinality(Asiento[t]) >= 2 /\ Debitos(Asiento[t]) = Creditos(Asiento[t])
  /\ doc' = [doc EXCEPT ![t] = "contabilizado"]
  /\ UNCHANGED <<via, estados, req, pedidos>>

(* Via B: a statement of the company's own books is uploaded; the third
   source document of a period triggers the derivation.  (An uploaded libro
   diario is stored and nothing reads it.) *)
Upload(tipo, p) ==
  LET E == estados \cup {Fila(tipo, p, "direct", Tx)}
      completo == \A t \in DerivationInputs :
                    \E r \in E : r.tipo = t /\ r.ini = p.ini /\ r.fin = p.fin
      entradas == IF completo THEN Entradas(E, p, Modos, FALSE) ELSE {}
  IN /\ via = "B" /\ req = Libre /\ tipo \in DerivationInputs
     /\ Fila(tipo, p, "direct", Tx) \notin estados
     /\ IF entradas = {} THEN estados' = E
        ELSE \E d \in entradas : estados' = derive_financial_statements(E, p, d)
     /\ UNCHANGED <<via, doc, req, pedidos>>

(* Derivation on request, over the rows of the company's own pathway. *)
RunDerivation(p) ==
  /\ req = Libre
  /\ \E d \in Entradas(estados, p, IF via = "A" THEN {"derived_from_journal"} ELSE {"direct"}, via = "A") :
       estados' = derive_financial_statements(estados, p, d)
  /\ UNCHANGED <<via, doc, req, pedidos>>

(* First-level statements of a period, one committed row after the other. *)
BuildFirstLevel(p) ==
  /\ via = "A" /\ req = Libre /\ pedidos < MaxPedidos
  /\ req' = [op |-> "construir", p |-> p, falta |-> Orden]
  /\ pedidos' = pedidos + 1
  /\ UNCHANGED <<via, doc, estados>>

Construir(p, tipo) ==
  IF first_level_type_exists(estados, tipo, p) THEN estados
  ELSE estados \cup {Fila(tipo, p, "derived_from_journal", Contabilizados)}

BuildStep ==
  /\ req.op = "construir"
  /\ estados' = Construir(req.p, Head(req.falta))
  /\ req' = IF Len(req.falta) = 1 THEN Libre ELSE [req EXCEPT !.falta = Tail(@)]
  /\ UNCHANGED <<via, doc, pedidos>>

----------------------------------------------------------------------------
(* Deleting transactions and refreshing what was built from them *)

(* A deletion is committed before the refresh, the one of a reprocess is not:
   it goes with the first commit of the refresh. *)
Borrar(S, op) ==
  /\ via = "A" /\ req = Libre /\ pedidos < MaxPedidos /\ S # {}
  /\ doc' = [t \in Tx |-> IF t \in S THEN IF op = "reprocesar" THEN "anulado" ELSE "borrado" ELSE doc[t]]
  /\ req' = [op |-> op, fase |-> "inicio", docs |-> S]
  /\ pedidos' = pedidos + 1
  /\ UNCHANGED <<via, estados>>

DeleteTransaction(t) == doc[t] \in {"pendiente", "contabilizado"} /\ Borrar({t}, "borrar")
DeleteByIngest(i) ==
  Borrar({t \in Tx : Lote[t] = i /\ doc[t] \in {"pendiente", "contabilizado"}}, "borrar")
ReprocessTransaction(t) == doc[t] = "contabilizado" /\ Borrar({t}, "reprocesar")

Refrescando == req.op \in {"borrar", "reprocesar"}
Comprometido == [t \in Tx |-> IF doc[t] = "anulado" THEN "borrado" ELSE doc[t]]

(* Mutant: an empty refresh ends the request before the copy is staged. *)
Terminar_Early(d, bien) ==
  /\ req' = Libre
  /\ doc' = [t \in Tx |-> IF req.op = "reprocesar" /\ t \in req.docs
                          THEN IF bien /\ estados # {} THEN "pendiente"
                               ELSE IF d[t] = "anulado" /\ ~bien THEN "contabilizado" ELSE "perdido"
                          ELSE d[t]]

(* Mutant: the deletion waiting for a commit is forgotten. *)
Terminar_Forget(d, bien) == req' = Libre /\ doc' = d

(* The request ends: a reprocess stages the copy, unless the refresh left the
   session in a failed transaction; then what was not committed comes back. *)
Terminar(d, bien) ==
  /\ req' = Libre
  /\ doc' = [t \in Tx |-> IF req.op = "reprocesar" /\ t \in req.docs
                          THEN IF bien THEN "pendiente"
                               ELSE IF d[t] = "anulado" THEN "contabilizado" ELSE "perdido"
                          ELSE d[t]]

(* No line left: every statement of the journal goes. *)
ResyncPurge ==
  LET D == {r \in estados : r.modo \in {"derived_from_journal", "derived"}}
  IN /\ Refrescando /\ req.fase = "inicio" /\ Contabilizados = {}
     /\ IF Borrable(D) THEN estados' = estados \ D /\ Terminar(Comprometido, TRUE)
                       ELSE estados' = estados /\ Terminar(doc, FALSE)
     /\ UNCHANGED <<via, pedidos>>

(* Mutant: only the annual statements are refreshed. *)
ResyncStart_Annual ==
  LET ps == {[ini |-> r.ini, fin |-> r.fin, frec |-> r.frec] :
               r \in {s \in estados : s.modo = "derived_from_journal" /\ Anual(s)}}
  IN /\ Refrescando /\ req.fase = "inicio" /\ Contabilizados # {}
     /\ IF ps = {} THEN Terminar(doc, TRUE)
        ELSE req' = [op |-> req.op, docs |-> req.docs, fase |-> "periodos", faltan |-> ps] /\ UNCHANGED doc
     /\ UNCHANGED <<via, estados, pedidos>>

(* The periods that have first-level statements are refreshed, in any order. *)
ResyncStart ==
  LET ps == {[ini |-> r.ini, fin |-> r.fin, frec |-> r.frec] :
               r \in {s \in estados : s.modo = "derived_from_journal"}}
  IN /\ Refrescando /\ req.fase = "inicio" /\ Contabilizados # {}
     /\ IF ps = {} THEN Terminar(doc, TRUE)
        ELSE req' = [op |-> req.op, docs |-> req.docs, fase |-> "periodos", faltan |-> ps] /\ UNCHANGED doc
     /\ UNCHANGED <<via, estados, pedidos>>

(* A period's rows are deleted and the deletion is committed; a row that some
   lineage references makes the statement fail, and the refresh gives up. *)
ResyncClear ==
  /\ Refrescando /\ req.fase = "periodos"
  /\ \E p \in req.faltan :
       LET D == {r \in estados : r.modo # "direct" /\ r.ini = p.ini /\ r.fin = p.fin}
       IN IF Borrable(D)
          THEN /\ estados' = estados \ D
               /\ doc' = Comprometido
               /\ req' = [op |-> req.op, docs |-> req.docs, fase |-> "filas", p |-> p, falta |-> Orden,
                          faltan |-> req.faltan \ {p},
                          secundarios |-> \E r \in D : r.modo = "derived"]
          ELSE estados' = estados /\ Terminar(doc, FALSE)
  /\ UNCHANGED <<via, pedidos>>

(* Rebuilt row by row; then the derived statements the period had, if the
   rules of the derivation still hold. *)
ResyncRow ==
  LET E == Construir(req.p, Head(req.falta))
      entradas == Entradas(E, req.p, {"derived_from_journal"}, TRUE)
      ultima == Len(req.falta) = 1
  IN /\ Refrescando /\ req.fase = "filas"
     /\ estados' = IF ultima /\ req.secundarios /\ entradas # {}
                   THEN derive_financial_statements(E, req.p, CHOOSE d \in entradas : TRUE) ELSE E
     /\ IF ultima /\ req.faltan = {} THEN Terminar(doc, TRUE)
        ELSE /\ req' = IF ultima THEN [op |-> req.op, docs |-> req.docs, fase |-> "periodos",
                                       faltan |-> req.faltan]
                       ELSE [req EXCEPT !.falta = Tail(@)]
             /\ UNCHANGED doc
     /\ UNCHANGED <<via, pedidos>>

Next ==
  \/ \E t \in Tx : CreateTransaction(t) \/ Post(t) \/ ManualAjuste(t)
                   \/ DeleteTransaction(t) \/ ReprocessTransaction(t)
  \/ \E i \in {Lote[t] : t \in Tx} : DeleteByIngest(i)
  \/ \E p \in Periodos : BuildFirstLevel(p) \/ RunDerivation(p) \/ \E tipo \in DerivationInputs : Upload(tipo, p)
  \/ BuildStep \/ ResyncPurge \/ ResyncStart \/ ResyncClear \/ ResyncRow

Spec == Init /\ [][Next]_vars

----------------------------------------------------------------------------
(* What the status of Via A announces (derivation/status-via-a). *)
DelDiario(p) == {r \in estados : r.modo = "derived_from_journal" /\ r.ini = p.ini /\ r.fin = p.fin}
PeriodosDelDiario == {p \in Periodos : DelDiario(p) # {}}
TiposDe(p) == {r.tipo : r \in DelDiario(p)}
(* The frequency of a period is that of whichever of its rows comes first; they
   are all of one build. *)
PeriodoAnual(p) == \A r \in DelDiario(p) : Anual(r)

(* Mutant: the earliest period needs no earlier close. *)
EligibleForSecondary_First(p) ==
  /\ p \in PeriodosDelDiario /\ PeriodoAnual(p)
  /\ {"balance_general", "estado_resultados"} \subseteq TiposDe(p)
  /\ \/ \E r \in estados : r.tipo = "balance_general" /\ r.fin < p.ini
     \/ \A r \in estados : r.ini >= p.ini

(* An annual period with both statements and an earlier balance. *)
EligibleForSecondary(p) ==
  /\ p \in PeriodosDelDiario /\ PeriodoAnual(p)
  /\ {"balance_general", "estado_resultados"} \subseteq TiposDe(p)
  /\ \E r \in estados : r.tipo = "balance_general" /\ r.fin < p.ini

----------------------------------------------------------------------------
(* Properties *)

(* Derived rows a step adds; they never change afterwards. *)
Nuevas(tipo) == {r \in estados' \ estados : r.tipo = tipo}
(* The sources of a derived row tell one story: balance and income statement
   of the same period and books, and an opening balance of the same books at
   the close just before. *)
Coherente(r) ==
  LET d == r.de IN
  /\ d.bg # Ninguna /\ d.er # Ninguna
  /\ d.bg.ini = r.ini /\ d.bg.fin = r.fin /\ d.er.ini = r.ini /\ d.er.fin = r.fin /\ d.er.de = d.bg.de
  /\ d.la # Ninguna /\ d.la.ini = r.ini /\ d.la.fin = r.fin /\ d.la.de = d.bg.de
  /\ d.prior.tipo = "balance_general" /\ d.prior.fin + 1 = r.ini
  /\ {l \in Lineas(d.prior.de) : l.fecha < r.ini} = {l \in Lineas(d.bg.de) : l.fecha < r.ini}

StatementsTypeOK ==
  /\ via \in {"A", "B"} /\ pedidos \in 0..MaxPedidos
  /\ \A t \in Tx : doc[t] \in {"nuevo", "pendiente", "contabilizado", "anulado", "borrado", "perdido"}
  /\ \A r \in estados : r.tipo \in FirstLevel \cup DerivedTargets /\ r.modo \in Modos
  /\ req.op \in {"ninguna", "construir", "borrar", "reprocesar"}
  /\ (\E t \in Tx : doc[t] = "anulado") => req.op = "reprocesar"

(* All of it, on any books reached: the reports of one period agree with each
   other and the ledgers of consecutive periods chain. *)
ReportsAgree ==
  (req = Libre /\ estados = {}) =>
    LET L == Lineas(Contabilizados)
        fechas == {l.fecha : l \in L}
    IN /\ \A fin \in fechas : BalanceAgrees(L, fin) /\ \A ini \in fechas : PeriodAgrees(L, ini, fin)
       /\ \A p \in Periodos, q \in Periodos : SubledgersChain(L, p, q)

(* The cash flow statement of a period explains its change in cash (the NIC 7
   check the code stores), whichever pathway and whatever subtotals the
   balance lists, when its sources are coherent and the books are what the
   method can explain; the note on cash breaks down the same closing cash,
   which is also the one of the cash report. *)
CashFlowCloses ==
  [][\A r \in Nuevas("flujo_de_caja") :
     (Coherente(r) /\ MetodoExplica(Lineas(r.de.bg.de), r.ini, r.fin)) =>
       LET flujo == Flujo(r)
           notas == Notas(r)
       IN /\ flujo.verificacion
          /\ 4 \in DOMAIN notas => SumFunction(notas[4]) = flujo.fin
          /\ flujo.fin = build_cashflow(Lineas(r.de.bg.de), 0, r.fin)]_vars

(* Each component of equity rolls forward from its opening balance through its
   movements, and both the components and the note on equity add up to the
   equity of the balance sheet, when it is on their accounts. *)
EquityRollsForward ==
  [][\A r \in Nuevas("cambios_patrimonio") :
     (Coherente(r) /\ PatrimonioEnComponentes(Lineas(r.de.bg.de), r.ini, r.fin)) =>
       LET cambios == Cambios(r)
           notas == Notas(r)
       IN /\ cambios.cuadre_patrimonio
          /\ 10 \in DOMAIN notas => SumFunction(notas[10]) = Bg(r.de.bg).total_patrimonio
          /\ \A k \in EquityComponents :
               LET c == cambios.componentes[k] IN c.final = c.inicial + c.movimiento]_vars

(* No statement built from the journal counts a transaction that is not posted
   any more, once the request that deleted it has ended: unless a derived
   statement keeps the refresh from deleting rows. *)
StatementsCoverLedger ==
  (req = Libre /\ \A r \in estados : r.modo # "derived") =>
    \A r \in estados : r.modo = "derived_from_journal" => r.de \subseteq Contabilizados

(* A reprocessed transaction is not lost between its deletion and its copy,
   unless a derived statement makes the refresh fail. *)
DocumentKept == (\E t \in Tx : doc[t] = "perdido") => \E r \in estados : r.modo = "derived"

(* The derived statements stand on rows that are still there. *)
LineageKept == \A r \in estados : Fuentes(r) \subseteq estados

(* A period the status announces as ready is accepted by the derivation. *)
ReadyCanBeDerived ==
  \A p \in Periodos : EligibleForSecondary(p) =>
    Entradas(estados, p, {"derived_from_journal"}, TRUE) # {}

(* The docstring of the refresh: with no journal left, the statements built
   from it are purged so that reports go empty. *)
EmptyLedgerEmptyReports ==
  [][(Refrescando /\ req' = Libre /\ Contabilizados = {}) =>
       \A r \in estados' : r.modo = "direct"]_vars
=============================================================================
