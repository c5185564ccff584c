------------------------------- MODULE TaxCycle -------------------------------
(***************************************************************************)
(* From documents to returns: the agents and db_persist post documents     *)
(* with the taxes of the company's tables, the accountant edits the tables *)
(* meanwhile, and generates, fills in, reviews, files and reopens drafts   *)
(* of the returns.  What the agents compute is in Accounting and Taxes,    *)
(* what the builders of the returns read in Declarations; which node runs  *)
(* after a rejection, and how often, is AgentRouter's, so that here a      *)
(* rejected entry may be tried again or left for a review at any time.     *)
(*                                                                         *)
(* Besides the fields of Taxes a document has id, fecha, tercero, persona  *)
(* (PJ or PN), monto (the total its staged transaction carries), borradores *)
(* (the asientos the language model may propose) and extraido (what the    *)
(* ingest found in it: cuenta, the amounts, existentes and entrada).       *)
(***************************************************************************)
EXTENDS Preflight

CONSTANTS
  Nit, Documentos, Nominas,
  TablasIniciales,  \* the company's tables at the start
  Altas,            \* the rows the accountant may enter, per table
  Valores,          \* the figures typed into a casilla
  Periodos,         \* [forma, ini, fin] of the returns that are generated
  MaxPasos,         \* bound: documents started, table edits and drafts, together
  MaxDrafts, MaxEdiciones  \* bounds: drafts, field updates under way

(* Rates are numbers, of either sign for all the settings page checks. *)
TablasEnteras(T) ==
  /\ {"settings", "reteicas", "nacionales", "propias", "especiales"} \subseteq DOMAIN T
  /\ \A r \in T.settings : \A k \in {"servicios", "bienes", "arrendamiento", "reteica", "iva"} :
       k \in DOMAIN r /\ r[k] \in Int
  /\ \A r \in T.reteicas : r.tasa \in Int
  /\ \A r \in T.nacionales \cup T.propias : r.valor \in Int
  /\ IsFiniteSet(T.especiales) /\ \A r \in T.especiales : "tasa" \in DOMAIN r /\ r.tasa \in Int
ASSUME TasasAssumption == TablasEnteras(TablasIniciales) /\ TablasEnteras(Altas)
(* Amounts too; total_iva may be Nada. *)
ASSUME DocumentosAssumption ==
  \A d \in Documentos :
    /\ \A s \in d.borradores : EsAsiento(s)
    /\ EsDiario(d.prearmado) /\ {d.total, d.total_iva} \subseteq Int
    /\ d.items \in Seq(Range(d.items)) /\ \A i \in DOMAIN d.items : d.items[i].base \in Int
    /\ d.retenciones \in Seq(Range(d.retenciones))
    /\ \A i \in DOMAIN d.retenciones : d.retenciones[i].valor \in Int
    /\ \A x \in d.extraido : {x.m.total, x.m.iva, x.m.retefuente, x.m.reteica} \subseteq Int

(* year is the primary key of uvt_values. *)
ASSUME TablasAssumption ==
  "uvt" \in DOMAIN TablasIniciales /\ \A q, r \in TablasIniciales.uvt : q.year = r.year => q = r
ASSUME PeriodosAssumption == \A p \in Periodos : p.ini \in Nat /\ p.fin \in Nat

VARIABLES
  t,         \* the tables
  run,       \* the document under way
  libro,     \* the posted transactions
  drafts,    \* the drafts, the oldest first
  ediciones, \* field updates that have read their draft and not yet written it
  pasos

vars == <<t, run, libro, drafts, ediciones, pasos>>

Nadie == [fase |-> "libre"]
Init ==
  /\ t = TablasIniciales /\ run = Nadie /\ libro = {}
  /\ drafts = <<>> /\ ediciones = {} /\ pasos = 0
(* Bound: one thing at a time.  So many documents, edits and drafts, and none
   while a draft is half filled in, which nothing else reads. *)
Gasta ==
  /\ pasos < MaxPasos /\ pasos' = pasos + 1
  /\ ediciones = {} /\ \A i \in DOMAIN drafts : drafts[i].revisar = {}

----------------------------------------------------------------------------
(* A document through the agents *)

Inicio(d, forzado) ==
  [fase |-> "contador", doc |-> d, asientos |-> <<>>, propuesta |-> <<>>, salida |-> Salida(Nada, 0, 0, 0),
   reintento |-> FALSE, forzado |-> forzado]
Start(d) ==
  /\ run = Nadie /\ d \notin {e.doc : e \in libro} /\ Gasta
  /\ run' = Inicio(d, FALSE)
  /\ UNCHANGED <<t, libro, drafts, ediciones>>

(* The asiento printed on the document, on the first attempt, else what the
   language model proposes, with its accounts corrected. *)
Contador ==
  /\ run.fase = "contador"
  /\ LET impreso == IF run.reintento THEN <<>> ELSE extract_prearmed_asientos(run.doc.prearmado)
     IN \E b \in IF impreso # <<>> THEN {impreso} ELSE run.doc.borradores :
          LET corregido == correct_asiento_lines(b, run.doc.tipo)
              final == IF impreso = <<>> /\ run.doc.tipo \in VENTA_DOC_TYPES /\ CatalogoVentas # {}
                       THEN validate_ingreso_against_catalog(corregido) ELSE corregido
          IN run' = [run EXCEPT !.fase = "tributario", !.asientos = final, !.propuesta = final]
  /\ UNCHANGED <<t, libro, drafts, ediciones, pasos>>

(* The accumulators are committed on every run of the agent, whatever becomes
   of the document; a company without settings ends in an error. *)
Tributario ==
  /\ run.fase = "tributario"
  /\ LET filas == get_company_settings(t.settings, Nit)
         minimas == IF filas = {} THEN {BASE_MINIMA} ELSE MinimasPosibles(t, CHOOSE r \in filas : TRUE)
     IN \E m \in minimas : \E r \in {tributario_node(t, Nit, run.doc, run.asientos, m)} :
          /\ run' = IF r.error THEN Nadie
                    ELSE [run EXCEPT !.fase = "auditor", !.asientos = r.asientos, !.salida = r.salida]
          /\ t' = [t EXCEPT !.acumuladores = r.acumuladores]
  /\ UNCHANGED <<libro, drafts, ediciones, pasos>>

(* A forced run is not stopped by the audit. *)
Approve ==
  /\ run.fase = "auditor" /\ (run.forzado \/ contador_auditor(run.asientos))
  /\ run' = [run EXCEPT !.fase = "db_persist"]
  /\ UNCHANGED <<t, libro, drafts, ediciones, pasos>>
Reject ==
  /\ run.fase = "auditor" /\ ~run.forzado /\ ~contador_auditor(run.asientos)
  /\ \/ ~run.reintento /\ run' = [run EXCEPT !.fase = "contador", !.reintento = TRUE]
     \/ run' = [run EXCEPT !.fase = "revision"]
  /\ UNCHANGED <<t, libro, drafts, ediciones, pasos>>
(* The user has a rejected document processed as it comes, or drops it. *)
Confirm ==
  /\ run.fase = "revision" /\ run' = Inicio(run.doc, TRUE)
  /\ UNCHANGED <<t, libro, drafts, ediciones, pasos>>
Abandon ==
  /\ run.fase = "revision" /\ run' = Nadie
  /\ UNCHANGED <<t, libro, drafts, ediciones, pasos>>

----------------------------------------------------------------------------
(* Posting *)

(* pareja: only a matching pair of the lines was taken. *)
Asentada(d, j, cuenta, salida, pareja) ==
  [doc |-> d, lineas |-> j, salida |-> salida, pareja |-> pareja,
   tipoIva |-> infer_tipo_iva_from_journal(j),
   concepto |-> infer_concepto_retencion(cuenta, d.persona)]
(* The lines db_persist takes for the transaction, balanced or not at all; the
   transaction is tagged with the account of its first debit. *)
Persist ==
  /\ run.fase = "db_persist"
  /\ LET suyas == asientos_for_tx(run.doc.monto, run.asientos, {}).lineas
         cuenta == resolve_cuenta_puc(cuenta_debito(suyas), "process", run.forzado)
         j == build_from_contador(sanitize_asientos(suyas))
         e == Asentada(run.doc, j, cuenta, run.salida, Len(suyas) < Len(run.asientos))
     IN libro' = IF cuenta = 0 \/ j = ValueError THEN libro ELSE libro \cup {e}
  /\ run' = Nadie
  /\ UNCHANGED <<t, drafts, ediciones, pasos>>

(* A document whose account the ingest already knows is posted there. *)
PostFromIngest(d) ==
  /\ run = Nadie /\ d \notin {e.doc : e \in libro} /\ Gasta
  /\ \E x \in d.extraido :
       LET j == lineas_ingest(d.tipo, x.cuenta, x.m, get_cuenta_ica_propio(t.settings, Nit),
                              x.existentes, x.entrada, d.texto)
           cuenta == resolve_cuenta_puc(IF x.cuenta = 0 THEN OtrosGastos ELSE x.cuenta, "ingest", FALSE)
           e == Asentada(d, j, cuenta, Salida(x.m.total - x.m.iva, x.m.iva, x.m.retefuente, x.m.reteica), FALSE)
       IN libro' = IF j \in {<<>>, ValueError} THEN libro ELSE libro \cup {e}
  /\ UNCHANGED <<t, run, drafts, ediciones>>

----------------------------------------------------------------------------
(* The books *)

Lineas(E) ==
  UNION {{[cuenta |-> e.lineas[n].cuenta, debito |-> e.lineas[n].debito, credito |-> e.lineas[n].credito,
           fecha |-> e.doc.fecha, tercero |-> e.doc.tercero, tipoIva |-> e.tipoIva, concepto |-> e.concepto,
           doc |-> e.doc.id, n |-> n] : n \in DOMAIN e.lineas} : e \in E}

----------------------------------------------------------------------------
(* The tables, one request of the accountant each *)

EditSettings ==
  \/ \E r \in Altas.settings : t' = [t EXCEPT !.settings = upsert_company_settings(@, r)]
  \/ t' = [t EXCEPT !.settings = delete_company(@, Nit)]
EditReteica ==
  \/ \E r \in Altas.reteicas : t' = [t EXCEPT !.reteicas = upsert_reteica_tarifa(@, r)]
  \/ \E r \in t.reteicas : t' = [t EXCEPT !.reteicas = delete_reteica_tarifa(@, r)]
EditConstants ==
  \/ \E r \in Altas.uvt : t' = [t EXCEPT !.uvt = upsert_uvt(@, r)]
  \/ \E r \in Altas.minimas : \E M \in upsert_base_minima(t.minimas, r.concepto, r.uvt_units, r.year) :
       t' = [t EXCEPT !.minimas = M]
EditRates ==
  \/ \E r \in Altas.nacionales : t' = [t EXCEPT !.nacionales = upsert_national_rate(@, r)]
  \/ \E r \in Altas.propias : t' = [t EXCEPT !.propias = upsert_company_rate_override(@, r)]
EditSpecialTaxes ==
  \/ \E r \in Altas.especiales :
       t' = [t EXCEPT !.especiales = IF r.code \in {q.code : q \in @} THEN update_special_tax(@, r)
                                                                      ELSE create_special_tax(@, r)]
  \/ \E r \in t.especiales : t' = [t EXCEPT !.especiales = delete_special_tax(@, r.code)]
  \/ \E r \in t.acumuladores : t' = [t EXCEPT !.acumuladores = liquidate_accumulator(@, r.code, r.mes)]
EditIncomeTax ==
  \/ \E r \in Altas.perdidas : t' = [t EXCEPT !.perdidas = upsert_perdida(@, r.year, r.perdida)]
  \/ \E r \in t.perdidas : t' = [t EXCEPT !.perdidas = @ \ {r}]
  \/ \E r \in Altas.tarifas : t' = [t EXCEPT !.tarifas = upsert_tarifa_renta(@, r)]
  \/ \E r \in t.tarifas : t' = [t EXCEPT !.tarifas = @ \ {r}]
EditConcepts ==
  \/ \E r \in Altas.conceptos : t' = [t EXCEPT !.conceptos = upsert_tax_concept(@, r)]
  \/ \E r \in t.conceptos : t' = [t EXCEPT !.conceptos = soft_delete_tax_concept(@, r.code)]
EditAdjustments ==
  \/ \E r \in Altas.ajustes : t' = [t EXCEPT !.ajustes = upsert_ajuste_fiscal(@, r)]
  \/ \E r \in t.ajustes : t' = [t EXCEPT !.ajustes = delete_ajuste_fiscal(@, r)]

EditTables ==
  /\ Gasta
  /\ \/ EditSettings \/ EditReteica \/ EditConstants \/ EditRates
     \/ EditSpecialTaxes \/ EditIncomeTax \/ EditConcepts \/ EditAdjustments
  /\ UNCHANGED <<run, libro, drafts, ediciones>>

----------------------------------------------------------------------------
(* The drafts *)

Generate(p) ==
  /\ Len(drafts) < MaxDrafts /\ Gasta
  /\ PuedeGenerar(Lineas(libro), t, drafts, p.forma, ANIO(p.fin))
  /\ \E s \in get_company_settings(t.settings, Nit) :
       drafts' = Append(drafts, generate_declaration_draft(Lineas(libro), t, s, drafts, Nominas, p.forma, p.ini, p.fin))
  /\ UNCHANGED <<t, run, libro, ediciones>>

(* Mutant: the fields of a declaration that is no draft may be updated. *)
ReadForUpdate_AnyStatus(i, cas, valor) ==
  /\ Cardinality(ediciones) < MaxEdiciones
  /\ ediciones' = ediciones \cup {[i |-> i, cas |-> cas, valor |-> valor, leido |-> drafts[i]]}
  /\ UNCHANGED <<t, run, libro, drafts, pasos>>

(* The update of a casilla reads the draft and checks that it is one and that
   the casilla is pending, *)
ReadForUpdate(i, cas, valor) ==
  /\ Cardinality(ediciones) < MaxEdiciones
  /\ drafts[i].status = "draft" /\ cas \in drafts[i].revisar
  /\ ediciones' = ediciones \cup {[i |-> i, cas |-> cas, valor |-> valor, leido |-> drafts[i]]}
  /\ UNCHANGED <<t, run, libro, drafts, pasos>>
(* and writes all the fields of its own copy; nobody looks at the status again. *)
WriteUpdate(e) ==
  /\ LET nuevo == update_draft_field(e.leido, e.cas, e.valor)
     IN drafts' = [drafts EXCEPT ![e.i].valores = nuevo.valores, ![e.i].revisar = nuevo.revisar]
  /\ ediciones' = ediciones \ {e}
  /\ UNCHANGED <<t, run, libro, pasos>>

Pasa(i, de, a) ==
  /\ drafts[i].status = de /\ drafts' = [drafts EXCEPT ![i].status = a]
  /\ UNCHANGED <<t, run, libro, ediciones, pasos>>

(* Mutant: a draft is reviewed with casillas pending. *)
Review_Pending(i) == Pasa(i, "draft", "reviewed")

Review(i) == drafts[i].revisar = {} /\ Pasa(i, "draft", "reviewed")
File(i) == Pasa(i, "reviewed", "filed")
(* One step back at a time. *)
Reopen(i) == Pasa(i, "filed", "reviewed") \/ Pasa(i, "reviewed", "draft")

----------------------------------------------------------------------------

(* Bound: between documents the accountant fills in the last draft, from its
   first casilla on; the last MaxEdiciones may be updated side by side. *)
AlAlcance(d) ==
  CASE run # Nadie                            -> {}
    [] Cardinality(d.revisar) <= MaxEdiciones -> d.revisar
    [] ediciones = {}                         -> {Min(d.revisar)}
    [] OTHER                                  -> {}

Next ==
  \/ \E d \in Documentos : Start(d) \/ PostFromIngest(d)
  \/ Contador \/ Tributario \/ Approve \/ Reject \/ Confirm \/ Abandon \/ Persist
  \/ EditTables
  \/ \E p \in Periodos : Generate(p)
  \/ \E i \in DOMAIN drafts \cap {Len(drafts)} : \E c \in AlAlcance(drafts[i]), v \in Valores : ReadForUpdate(i, c, v)
  \/ \E e \in ediciones : WriteUpdate(e)
  \/ \E i \in DOMAIN drafts : Review(i) \/ File(i) \/ Reopen(i)

Spec == Init /\ [][Next]_vars

----------------------------------------------------------------------------

(* What the books hold of a tax, on the side where the document puts it. *)
EnLibros(e, cuenta, lado) ==
  LET L == ConPrefijo(Lineas({e}), cuenta)
      neto == IF lado = "debito" THEN DebitNature(L) ELSE CreditNature(L)
  IN IF EsReverso(e.doc) THEN -neto ELSE neto

(* The proposal s can take the taxes x: the counterparty has a line for them,
   which holds the IVA exactly when another line already books it; and no
   amount is negative. *)
Coherente(s, d, x) ==
  LET iva == IvaDeContraparte(s, d, x.iva)
  IN /\ x.iva >= 0 /\ x.retefuente >= 0 /\ x.reteica >= 0
     /\ iva > 0 \/ x.retefuente + x.reteica > 0 => Mayor(s, Objetivo(d)) # 0
     /\ iva > 0 => (IvaIncluido(s, d, x.base, iva) <=> has_iva_in_asientos(s).presente)

(* Whatever is proposed, and whatever the tables say: the taxes leave debits
   and credits as far apart as they found them, whenever the proposal can take
   them; and whatever way an entry came to the books, retried, forced or
   straight from the ingest, its debits are its credits within a peso. *)
EntriesBalance ==
  /\ run # Nadie /\ run.fase = "auditor" /\ Coherente(run.propuesta, run.doc, run.salida) =>
       Descuadre(run.asientos) = Descuadre(run.propuesta)
  /\ \A e \in libro : Absolute(Debitos(Lineas({e})) - Creditos(Lineas({e}))) <= 1

(* For the documents of the catalogue and the asientos proposed for them,
   after retries, forced runs and edits of the tables: a posted document
   carries each of its taxes on the books once, on the accounts of its side
   (the other way round for a credit note), for the amounts the agent reports
   or the ingest extracted; and a sale only the withholdings its document
   names.  A sale whose proposal already brings the customer's withholdings is
   left out, and so is an entry of which only a pair of equal lines was kept:
   there the code does double or lose taxes. *)
TaxesBookedOnce ==
  \A e \in libro :
    LET propio == \E b \in e.doc.borradores : EsVenta(e.doc) /\ \E i \in DOMAIN b : Starts(b[i].cuenta, 1355)
        par == tax_accounts_for(EsVenta(e.doc), 2368)
        L == Lineas({e})
    IN e.salida.base # Nada /\ ~e.pareja /\ ~propio =>
         /\ EnLibros(e, 2408, par.iva.mov) = e.salida.iva
         /\ EnLibros(e, par.retefuente.cuenta, par.retefuente.mov) = e.salida.retefuente
         /\ EnLibros(e, par.reteica.cuenta, par.reteica.mov) = e.salida.reteica
         /\ EsVenta(e.doc) =>
              SumaSeq(e.doc.retenciones, LAMBDA r : r.valor) = e.salida.retefuente + e.salida.reteica

(* What the forms say, through all their subtotals, is what the books say: the
   IVA due or in favour is the one of the IVA report; the withholdings of the
   F350 are all the credits of 2365, with the payroll's, however its concepts
   were edited or deleted; the income tax of the F110 is the tariff on its own
   taxable income, which is the provision's when there are no losses, and its
   net income that of the fiscal reconciliation; the ICA return is that of its
   screen. *)
ReturnsMatchBooks ==
  [][\A p \in Periodos : Len(drafts') > Len(drafts) /\ Generate(p) =>
       LET d == drafts'[Len(drafts')]
           v == d.valores
           en == get_daily_journal(Lineas(libro), p.ini, p.fin)
           porTipo == get_revenue_by_tipo_iva(Lineas(libro), p.ini, p.fin)
           s == CHOOSE r \in get_company_settings(t.settings, Nit) : TRUE
           sinExcluidos == compute_prorrateo_factor(porTipo).num = compute_prorrateo_factor(porTipo).den
       IN CASE p.forma = "F300" -> sinExcluidos =>
                 En(v, 82) - En(v, 83) = build_iva(Lineas(libro), p.ini, p.fin).iva_a_pagar
            [] p.forma = "F350" ->
                 En(v, 130) = sum_credits(en, 2365)
                   + (IF \E c \in list_tax_concepts(t.conceptos) : c.categoria = "salarios"
                      THEN sum_nomina_retefuente(Nominas, p.ini, p.fin) ELSE 0)
            [] p.forma = "ICA" -> En(v, 4) = get_ica_declaration(Lineas(libro), s, p.ini, p.fin)
            [] p.forma = "F110" ->
                 /\ En(v, 84) = Tarifa(En(v, 79), TarifaRenta(t, s, d.anio))
                 /\ sum_perdidas_disponibles(t.perdidas, d.anio) = 0 =>
                      En(v, 84) = calc_period_renta_provision(Lineas(libro), Nada, p.ini, p.fin, TarifaRenta(t, s, d.anio))
                 /\ (\A r \in t.ajustes : r.year # d.anio) =>
                      En(v, 72) - En(v, 73) = build_f2516(Lineas(libro), t, d.anio, p.ini, p.fin)[4].valor
            [] OTHER -> TRUE]_vars

(* The documents of jobs in PENDING_AUDIT_REVIEW. *)
EnRevision == IF run # Nadie /\ run.fase = "revision" THEN {run.doc} ELSE {}
(* A return the screen calls ready is not refused: by then the settings, the
   books and the threshold of the reconciliation have been looked at.  The one
   exception is a reconciliation begun anew over a reviewed one, which the
   screen does not see and the generation does. *)
PreflightIsHonest ==
  \A p \in Periodos :
    ~PuedeGenerar(Lineas(libro), t, drafts, p.forma, ANIO(p.fin)) =>
      \/ ~ready(run_preflight(Lineas(libro), t, Nit, drafts, EnRevision, p.forma, p.ini, p.fin))
      \/ get_latest_f2516_reviewed(drafts, ANIO(p.fin)) # <<>>
           /\ UltimoF2516(drafts, ANIO(p.fin))[1].status = "draft"

(* What was reviewed is what is filed: the status goes one step at a time, a
   draft is reviewed with nothing pending, and the fields of a reviewed or
   filed declaration change only through an update that had read it before. *)
Congelado(i) ==
  LET d == drafts[i]
      n == drafts'[i]
  IN /\ <<d.status, n.status>> \in {<<"draft", "reviewed">>, <<"reviewed", "filed">>, <<"filed", "reviewed">>,
                                    <<"reviewed", "draft">>} \cup {<<q, q>> : q \in {"draft", "reviewed", "filed"}}
     /\ d.status = "draft" /\ n.status = "reviewed" => n.revisar = {}
     /\ <<d.valores, d.revisar>> # <<n.valores, n.revisar>> =>
          \E e \in ediciones : e.i = i /\ e.leido.status = "draft" /\ e.cas \in e.leido.revisar
DraftsFrozen == [][\A i \in DOMAIN drafts : Congelado(i)]_vars
=============================================================================
